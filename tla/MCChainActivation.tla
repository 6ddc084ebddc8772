------------------------ MODULE MCChainActivation ------------------------
(***************************************************************************)
(* Two branches on the genesis block, a1-a2-a3 and b1-b2-b3, every block   *)
(* with the same proof of work.                                            *)
(***************************************************************************)
EXTENDS ChainActivation

MCTree == {"g", "a1", "a2", "a3", "b1", "b2", "b3"}
MCBlocks == MCTree \ {"b3"}
MCEqual == MCTree \ {"a3", "b3"}
MCUneven == MCTree \ {"a3"}
MCNull == "null"

MCParent ==
    [b \in Blocks |->
        CASE b = "g" -> MCNull [] b \in {"a1", "b1"} -> "g"
          [] b = "a2" -> "a1" [] b = "b2" -> "b1" [] b = "a3" -> "a2" [] b = "b3" -> "b2"]
MCHeight ==
    [b \in Blocks |->
        CASE b = "g" -> 0 [] b \in {"a1", "b1"} -> 1 [] b \in {"a2", "b2"} -> 2 [] OTHER -> 3]
MCWork == [b \in Blocks |-> MCHeight[b] + 1]
MCAddress ==
    [b \in Blocks |->
        CASE b = "g" -> 0 [] b = "a1" -> 1 [] b = "b1" -> 2 [] b = "a2" -> 3 [] b = "b2" -> 4
          [] b = "a3" -> 5 [] b = "b3" -> 6]
==========================================================================
