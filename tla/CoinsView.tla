---------------------------- MODULE CoinsView ----------------------------
(***************************************************************************)
(* What a stack of coin views promises: each level is a plain map from     *)
(* outpoint to unspent coin.  `db` is the chainstate database, `tip` what  *)
(* pcoinsTip answers, `view` what a per-block CCoinsViewCache on top of    *)
(* pcoinsTip answers.  There are no caches, no flags and no fetching here: *)
(* CoinsCache is shown to implement this module.                           *)
(***************************************************************************)
CONSTANTS OutPoints, Coins, Spent

VARIABLES db, tip, view

vars == <<db, tip, view>>

Maps == [OutPoints -> Coins \cup {Spent}]

Init ==
    /\ db \in Maps
    /\ tip = db
    /\ view = db

(* A coin appears in, or disappears from, the uppermost view only. *)
Write(o, c) ==
    /\ view' = [view EXCEPT ![o] = c]
    /\ UNCHANGED <<db, tip>>

(* A block's changes reach the tip all together ... *)
CommitView ==
    /\ tip' = view
    /\ UNCHANGED <<db, view>>

(* ... or not at all. *)
DiscardView ==
    /\ view' = tip
    /\ UNCHANGED <<db, tip>>

(* The database takes over exactly what the tip answers; with the view     *)
(* empty the two agree.                                                    *)
CommitTip ==
    /\ view = tip
    /\ db' = tip
    /\ UNCHANGED <<tip, view>>

Next ==
    \/ \E o \in OutPoints, c \in Coins \cup {Spent} : Write(o, c)
    \/ CommitView
    \/ DiscardView
    \/ CommitTip

Spec == Init /\ [][Next]_vars
==========================================================================
