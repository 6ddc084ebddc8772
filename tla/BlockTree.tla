----------------------------- MODULE BlockTree -----------------------------
(***************************************************************************)
(* The tree of block headers: pprev, nHeight and the walks along pprev     *)
(* that chain.cpp and validation.cpp do.                                   *)
(***************************************************************************)
EXTENDS Naturals

CONSTANTS
    Blocks,
    Genesis,
    Parent,      \* pprev; Parent[Genesis] = Null
    Height,      \* nHeight
    Null         \* nullptr, or the hash uint256()

ASSUME TreeAssumption ==
    /\ Genesis \in Blocks
    /\ Null \notin Blocks
    /\ Parent \in [Blocks -> Blocks \cup {Null}]
    /\ Height \in [Blocks -> Nat]
    /\ Parent[Genesis] = Null /\ Height[Genesis] = 0
    /\ \A b \in Blocks \ {Genesis} :
        Parent[b] \in Blocks /\ Height[b] = Height[Parent[b]] + 1

(* b and its ancestors: what repeated pprev, or GetAncestor, reaches. *)
Chain ==
    LET upTo[b \in Blocks \cup {Null}] ==
            IF b = Null THEN {} ELSE upTo[Parent[b]] \cup {b}
    IN  [b \in Blocks \cup {Null} |-> upTo[b]]

(* LastCommonAncestor, and CChain::FindFork on the chain ending in a. *)
LastCommonAncestor(a, b) ==
    IF a = Null \/ b = Null THEN Null
    ELSE CHOOSE c \in Chain[a] \cap Chain[b] :
            \A d \in Chain[a] \cap Chain[b] : Height[d] <= Height[c]
==========================================================================
