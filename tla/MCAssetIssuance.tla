-------------------------- MODULE MCAssetIssuance ---------------------------
(* Transactions on an asset "A" and a restricted asset "$R".               *)
EXTENDS AssetIssuance

issue(id, name, ipfs, verifier) ==
    [id |-> id, kind |-> "issue", name |-> name, amount |-> 1, units |-> 0, ipfs |-> ipfs,
     reissuable |-> TRUE, verifier |-> verifier]

reissue(id, name, amount, units, ipfs, reissuable, verifier) ==
    [id |-> id, kind |-> "reissue", name |-> name, amount |-> amount, units |-> units,
     ipfs |-> ipfs, reissuable |-> reissuable, verifier |-> verifier]

transfer(id, name) ==
    [id |-> id, kind |-> "transfer", name |-> name, amount |-> 1, units |-> -1, ipfs |-> "",
     reissuable |-> TRUE, verifier |-> ""]

IssueA == issue(1, "A", "", "")
UnitsA == reissue(3, "A", 1, 1, "", TRUE, "")
TransferA == transfer(6, "A")

IssueR == issue(7, "$R", "", "v")
MoreR == reissue(8, "$R", 1, -1, "", TRUE, "")
VerifierR == reissue(9, "$R", 0, -1, "", TRUE, "w")
VerifierR2 == reissue(10, "$R", 1, 1, "h", TRUE, "x")
TransferR == transfer(11, "$R")
LastR == reissue(12, "$R", 2, -1, "k", FALSE, "")

MCTxs == {IssueA, UnitsA, TransferA,
          IssueR, MoreR, VerifierR, VerifierR2, TransferR, LastR}

MCNames == {"A", "$R"}

MCRestricted == {"$R"}

Singles(txs) == {<<t>> : t \in txs}

(* A restricted asset has everything another asset has; "A" is there for   *)
(* the rules that differ.                                                  *)
MCBlocks ==
    Singles({IssueA, UnitsA, IssueR, MoreR, VerifierR, VerifierR2, LastR, TransferR})
        \cup {<<IssueA, TransferA>>, <<IssueR, MoreR>>, <<TransferR, VerifierR2>>}

ASSUME OneIssue /\ PlainBlocks
=============================================================================
