----------------------------- MODULE MCMempool -----------------------------
(***************************************************************************)
(* Small worlds of transactions for Mempool.                               *)
(***************************************************************************)
EXTENDS Mempool

Plain(vin, fee) ==
    [vin |-> vin, fee |-> fee, coinbase |-> FALSE, replaceable |-> FALSE, nLockTime |-> 0,
     issue |-> None, reissue |-> None, cmd |-> None, frozenBy |-> {}]

Coinbase(height) == [Plain(<<>>, 0) EXCEPT !.coinbase = TRUE, !.nLockTime = height]

Base == "base" :> Plain(<<>>, 0)
Miners == "cb1" :> Coinbase(1) @@ "cb2" :> Coinbase(2)

(* A family with a diamond, a replacement of its root, and a stranger. *)
Family ==
    "a" :> [Plain(<< <<"base", 0>> >>, 2) EXCEPT !.replaceable = TRUE] @@
    "b" :> Plain(<< <<"a", 0>> >>, 1) @@
    "c" :> Plain(<< <<"a", 1>>, <<"b", 0>> >>, 4) @@
    "a2" :> Plain(<< <<"base", 0>>, <<"base", 1>> >>, 9) @@
    "d" :> Plain(<< <<"base", 1>> >>, 3) @@ Base @@ Miners

(* Spends of coinbases, a chain that is too long, a lock time. *)
Locked ==
    "p" :> Plain(<< <<"base", 0>> >>, 2) @@
    "q" :> Plain(<< <<"p", 0>>, <<"cb1", 0>> >>, 2) @@
    "r" :> Plain(<< <<"q", 0>> >>, 1) @@
    "s" :> Plain(<< <<"r", 0>> >>, 3) @@
    "l" :> [Plain(<< <<"p", 1>> >>, 2) EXCEPT !.nLockTime = 1] @@
    "m" :> Plain(<< <<"l", 0>> >>, 1) @@
    "base" :> Coinbase(0) @@ "cc1" :> Coinbase(1) @@ Miners

(* An issue and two reissues, each spending the owner token of the last. *)
Reissues ==
    "i1" :> [Plain(<< <<"base", 0>> >>, 2) EXCEPT !.issue = "A"] @@
    "r1" :> [Plain(<< <<"i1", 0>> >>, 2) EXCEPT !.reissue = "A"] @@
    "r2" :> [Plain(<< <<"r1", 0>> >>, 2) EXCEPT !.reissue = "A"] @@ Base @@ Miners

(* Issues of one name, two of them spending one coin. *)
Names ==
    "i1" :> [Plain(<< <<"base", 0>> >>, 2) EXCEPT !.issue = "A", !.replaceable = TRUE] @@
    "i2" :> [Plain(<< <<"base", 1>> >>, 2) EXCEPT !.issue = "A"] @@
    "i3" :> [Plain(<< <<"base", 0>> >>, 4) EXCEPT !.issue = "B"] @@ Base @@ Miners

(* An issue with a reissue, and another issue of the name. *)
Rivals ==
    "i2" :> [Plain(<< <<"base", 1>> >>, 2) EXCEPT !.issue = "A"] @@ Reissues

(* Commands for a tag. *)
Tags ==
    "t1" :> [Plain(<< <<"base", 0>> >>, 2) EXCEPT !.cmd = <<"tag", TRUE>>] @@
    "t2" :> [Plain(<< <<"base", 1>> >>, 2) EXCEPT !.cmd = <<"tag", TRUE>>] @@
    "t3" :> [Plain(<< <<"base", 2>> >>, 2) EXCEPT !.cmd = <<"tag", FALSE>>] @@ Base @@ Miners

(* Commands that freeze, and a transfer of what they freeze. *)
Freezes ==
    "f1" :> [Plain(<< <<"base", 0>> >>, 2) EXCEPT !.cmd = <<"global", TRUE>>] @@
    "f2" :> [Plain(<< <<"base", 1>> >>, 2) EXCEPT !.cmd = <<"global", TRUE>>] @@
    "g" :> [Plain(<< <<"base", 2>> >>, 2) EXCEPT !.cmd = <<"frozen", TRUE>>] @@
    "x" :> [Plain(<< <<"base", 3>> >>, 2) EXCEPT !.frozenBy = {"frozen", "global"}] @@ Base @@ Miners

MCFavourites == {"a", "b", "q", "i1"}
MCKind == "tag" :> "tag" @@ "global" :> "asset" @@ "frozen" :> "address"
MCWorlds == {Family, Locked, Reissues, Names, Tags, Freezes}
RivalWorlds == {Rivals}
ReissueWorlds == {Reissues}
=============================================================================
