--------------------------- MODULE MCChainstate ---------------------------
(***************************************************************************)
(* A common block p and two branches, a1-a2 and b1-b2.  Transaction        *)
(* o1 -> o2 is in a1 and, one block later, in b2, so the coin o2 differs   *)
(* between the branches; a1 also spends o2 in the block that creates it.   *)
(* p, a1 and b2 issue assets, one of them on both branches.                *)
(***************************************************************************)
EXTENDS Chainstate

tx(spends, adds) == [spends |-> spends, adds |-> adds]

MCBlocks == {"g", "p", "a1", "a2", "b1", "b2"}
MCOutPoints == {"o1", "o2", "o3", "oa", "ob"}
MCNull == "null"

MCParent ==
    [b \in MCBlocks |->
        CASE b = "g" -> MCNull [] b = "p" -> "g"
          [] b = "a1" -> "p" [] b = "a2" -> "a1"
          [] b = "b1" -> "p" [] b = "b2" -> "b1"]

MCHeight ==
    [b \in MCBlocks |->
        CASE b = "g" -> 0 [] b = "p" -> 1
          [] b \in {"a1", "b1"} -> 2 [] b \in {"a2", "b2"} -> 3]

MCVtx ==
    [b \in MCBlocks |->
        CASE b = "g" -> <<>>
          [] b = "p" -> <<tx({}, {"o1"})>>
          [] b = "a1" -> <<tx({}, {"oa"}), tx({"o1"}, {"o2"}), tx({"o2"}, {"o3"})>>
          [] b = "a2" -> <<tx({"oa"}, {})>>
          [] b = "b1" -> <<tx({}, {"ob"})>>
          [] b = "b2" -> <<tx({"o1"}, {"o2"})>>]

MCIssues ==
    [b \in MCBlocks |->
        CASE b = "p" -> {"X"} [] b \in {"a1", "b2"} -> {"Y"} [] OTHER -> {}]
==========================================================================
