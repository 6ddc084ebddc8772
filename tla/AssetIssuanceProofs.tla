------------------------ MODULE AssetIssuanceProofs ------------------------
(***************************************************************************)
(* Proofs about AssetIssuance, for any names, transactions and blocks in   *)
(* which a name has one issue transaction (OneIssue) and a block changes   *)
(* an asset once (PlainBlocks).  What the caches hold of a name is related *)
(* to the ledger of the active chain, first in the middle of a block that  *)
(* is being connected or disconnected, then between blocks.                *)
(***************************************************************************)
EXTENDS AssetIssuance, NaturalsInduction, WellFoundedInduction, TLAPS

USE ZenonT(60)

MaybeAsset == [Names -> Assets \cup {None}]
Caches ==
    [add : MaybeAsset, remove : SUBSET Names, reissued : MaybeAsset,
     reAdd : SUBSET Txs, reUndo : SUBSET Txs,
     verAdd : [Names -> STRING \cup {None, Gone}], verUndo : [Names -> STRING \cup {None, Gone}]]
Lookups == [asset : MaybeAsset, verifier : [Names -> STRING \cup {None, Gone}]]
Ledgers == [asset : MaybeAsset, verifier : [Names -> STRING \cup {None}]]
Items ==
    [name : Names, ipfs : STRING \cup {None}, units : Nat \cup {None},
     verifier : STRING \cup {None}]
Works == [cache : Caches, lru : Lookups, undo : Seq(Items), ok : BOOLEAN]

(* A look-up cache that agrees with the database. *)
Fresh(x) ==
    /\ x \in Lookups
    /\ \A n \in Names : /\ x.asset[n] \in {None, db.asset[n]}
                        /\ x.verifier[n] \in {None, db.verifier[n]}

-----------------------------------------------------------------------------
(* Loops over the transactions of a block *)

(* What holds at first, and after each turn if before it, holds throughout. *)
LEMMA Loop ==
    ASSUME NEW N \in Nat, NEW S, 0 \in S, \A k \in 1..N : k - 1 \in S => k \in S
    PROVE  \A k \in 0..N : k \in S
  <1> DEFINE T == {k \in 0..N : k \notin S}
  <1>1. SUFFICES ASSUME T # {} PROVE FALSE
    OBVIOUS
  <1>2. T \in SUBSET Nat
    BY SMTT(60)
  <1>3. PICK x \in T : \A y \in T : ~(<<y, x>> \in OpToRel(<, Nat))
    BY <1>1, <1>2, WFMin, NatLessThanWellFounded
  <1>4. \A y \in T : ~(y < x)
    BY <1>2, <1>3 DEF OpToRel
  <1>5. x \in 0..N /\ x \notin S
    OBVIOUS
  <1>6. x \in 1..N /\ x - 1 \in 0..N /\ x - 1 < x
    <2>1. x # 0
      BY <1>5
    <2> QED BY <1>5, <2>1, SMTT(60)
  <1>7. x - 1 \in S
    BY <1>4, <1>6
  <1> QED BY <1>5, <1>6, <1>7

(* The ledger along a block. *)
LEMMA LedgerSteps ==
    ASSUME NEW l, NEW b \in Seq(Txs)
    PROVE  /\ LedgerFrom(l, b, 0) = l
           /\ \A k \in 1..Len(b) : LedgerFrom(l, b, k) = LedgerApply(LedgerFrom(l, b, k - 1), b[k])
  <1> DEFINE N == Len(b)
             Step(i, x) == LedgerApply(x, b[i])
             Solves(h, m) == h = [i \in 0..m |-> IF i = 0 THEN l ELSE Step(i, h[i - 1])]
             f == CHOOSE h : Solves(h, N)
             S == {m \in 0..N : \E h : Solves(h, m)}
  <1>1. N \in Nat
    BY SMTT(60)
  <1>2. \A k : LedgerFrom(l, b, k) = f[k]
    BY DEF LedgerFrom
  <1> HIDE DEF Step, N
  <1>3. 0 \in S
    <2>1. 0 \in 0..N /\ \A i \in 0..0 : i = 0
      BY <1>1, SMTT(60)
    <2>2. Solves([i \in 0..0 |-> l], 0)
      BY <2>1
    <2> QED BY <2>1, <2>2
  <1>4. ASSUME NEW m \in 1..N, m - 1 \in S PROVE m \in S
    <2>1. PICK h : Solves(h, m - 1)
      BY <1>4
    <2>2. /\ m \in 0..N /\ m # 0 /\ m \in 0..m /\ m - 1 \in 0..(m - 1)
          /\ \A i \in 0..m : i # m => i \in 0..(m - 1)
          /\ \A i \in 0..m : i # 0 => i - 1 \in 0..m /\ i - 1 # m
          /\ \A i \in 0..(m - 1) : i # m
      BY <1>1, SMTT(60)
    <2> DEFINE g == [i \in 0..m |-> IF i = m THEN Step(m, h[m - 1]) ELSE h[i]]
    <2>3. ASSUME NEW i \in 0..m PROVE g[i] = IF i = 0 THEN l ELSE Step(i, g[i - 1])
      <3>1. CASE i = m
        BY <2>2, <3>1
      <3>2. CASE i # m
        <4>1. h[i] = IF i = 0 THEN l ELSE Step(i, h[i - 1])
          BY <2>1, <2>2, <3>2
        <4>2. i # 0 => g[i - 1] = h[i - 1]
          BY <2>2
        <4> QED BY <3>2, <4>1, <4>2
      <3> QED BY <3>1, <3>2
    <2>4. g = [i \in 0..m |-> g[i]]
      OBVIOUS
    <2> HIDE DEF g
    <2>5. Solves(g, m)
      BY <2>3, <2>4
    <2> QED BY <2>2, <2>5
  <1>5. N \in S
    <2>1. \A m \in 0..N : m \in S
      <3> HIDE DEF S
      <3> QED BY <1>1, <1>3, <1>4, Loop
    <2>2. N \in 0..N
      BY <1>1, SMTT(60)
    <2> QED BY <2>1, <2>2
  <1>6. Solves(f, N)
    BY <1>5
  <1> HIDE DEF f
  <1>7. f[0] = l /\ \A k \in 1..N : f[k] = Step(k, f[k - 1])
    <2>1. 0 \in 0..N /\ \A k \in 1..N : k \in 0..N /\ k # 0
      BY <1>1, SMTT(60)
    <2> QED BY <1>6, <2>1
  <1> QED BY <1>2, <1>7 DEF Step, N

(* The work along a block that is connected. *)
LEMMA ConnectSteps ==
    ASSUME NEW b \in Seq(Txs)
    PROVE  /\ ConnectTxs(b, 0) = Start
           /\ \A k \in 1..Len(b) : ConnectTxs(b, k) = ConnectTx(ConnectTxs(b, k - 1), b[k])
  <1> DEFINE N == Len(b)
             Step(i, x) == ConnectTx(x, b[i])
             Solves(h, m) == h = [i \in 0..m |-> IF i = 0 THEN Start ELSE Step(i, h[i - 1])]
             f == CHOOSE h : Solves(h, N)
             S == {m \in 0..N : \E h : Solves(h, m)}
  <1>1. N \in Nat
    BY SMTT(60)
  <1>2. \A k : ConnectTxs(b, k) = f[k]
    BY DEF ConnectTxs
  <1> HIDE DEF Step, N
  <1>3. 0 \in S
    <2>1. 0 \in 0..N /\ \A i \in 0..0 : i = 0
      BY <1>1, SMTT(60)
    <2>2. Solves([i \in 0..0 |-> Start], 0)
      BY <2>1
    <2> QED BY <2>1, <2>2
  <1>4. ASSUME NEW m \in 1..N, m - 1 \in S PROVE m \in S
    <2>1. PICK h : Solves(h, m - 1)
      BY <1>4
    <2>2. /\ m \in 0..N /\ m # 0 /\ m \in 0..m /\ m - 1 \in 0..(m - 1)
          /\ \A i \in 0..m : i # m => i \in 0..(m - 1)
          /\ \A i \in 0..m : i # 0 => i - 1 \in 0..m /\ i - 1 # m
          /\ \A i \in 0..(m - 1) : i # m
      BY <1>1, SMTT(60)
    <2> DEFINE g == [i \in 0..m |-> IF i = m THEN Step(m, h[m - 1]) ELSE h[i]]
    <2>3. ASSUME NEW i \in 0..m PROVE g[i] = IF i = 0 THEN Start ELSE Step(i, g[i - 1])
      <3>1. CASE i = m
        BY <2>2, <3>1
      <3>2. CASE i # m
        <4>1. h[i] = IF i = 0 THEN Start ELSE Step(i, h[i - 1])
          BY <2>1, <2>2, <3>2
        <4>2. i # 0 => g[i - 1] = h[i - 1]
          BY <2>2
        <4> QED BY <3>2, <4>1, <4>2
      <3> QED BY <3>1, <3>2
    <2>4. g = [i \in 0..m |-> g[i]]
      OBVIOUS
    <2> HIDE DEF g
    <2>5. Solves(g, m)
      BY <2>3, <2>4
    <2> QED BY <2>2, <2>5
  <1>5. N \in S
    <2>1. \A m \in 0..N : m \in S
      <3> HIDE DEF S
      <3> QED BY <1>1, <1>3, <1>4, Loop
    <2>2. N \in 0..N
      BY <1>1, SMTT(60)
    <2> QED BY <2>1, <2>2
  <1>6. Solves(f, N)
    BY <1>5
  <1> HIDE DEF f
  <1>7. f[0] = Start /\ \A k \in 1..N : f[k] = Step(k, f[k - 1])
    <2>1. 0 \in 0..N /\ \A k \in 1..N : k \in 0..N /\ k # 0
      BY <1>1, SMTT(60)
    <2> QED BY <1>6, <2>1
  <1> QED BY <1>2, <1>7 DEF Step, N

(* The work along a block that is disconnected. *)
LEMMA DisconnectSteps ==
    ASSUME NEW b \in Seq(Txs), NEW undo
    PROVE  /\ DisconnectTxs(b, undo, 0) = [Start EXCEPT !.undo = undo]
           /\ \A k \in 1..Len(b) : DisconnectTxs(b, undo, k) =
                DisconnectTx(DisconnectTxs(b, undo, k - 1), b[Len(b) - k + 1])
  <1> DEFINE N == Len(b)
             Step(i, x) == DisconnectTx(x, b[Len(b) - i + 1])
             Solves(h, m) ==
               h = [i \in 0..m |-> IF i = 0 THEN [Start EXCEPT !.undo = undo]
                                   ELSE Step(i, h[i - 1])]
             f == CHOOSE h : Solves(h, N)
             S == {m \in 0..N : \E h : Solves(h, m)}
  <1>1. N \in Nat
    BY SMTT(60)
  <1>2. \A k : DisconnectTxs(b, undo, k) = f[k]
    BY DEF DisconnectTxs
  <1> HIDE DEF Step, N
  <1>3. 0 \in S
    <2>1. 0 \in 0..N /\ \A i \in 0..0 : i = 0
      BY <1>1, SMTT(60)
    <2>2. Solves([i \in 0..0 |-> [Start EXCEPT !.undo = undo]], 0)
      BY <2>1
    <2> QED BY <2>1, <2>2
  <1>4. ASSUME NEW m \in 1..N, m - 1 \in S PROVE m \in S
    <2>1. PICK h : Solves(h, m - 1)
      BY <1>4
    <2>2. /\ m \in 0..N /\ m # 0 /\ m \in 0..m /\ m - 1 \in 0..(m - 1)
          /\ \A i \in 0..m : i # m => i \in 0..(m - 1)
          /\ \A i \in 0..m : i # 0 => i - 1 \in 0..m /\ i - 1 # m
          /\ \A i \in 0..(m - 1) : i # m
      BY <1>1, SMTT(60)
    <2> DEFINE g == [i \in 0..m |-> IF i = m THEN Step(m, h[m - 1]) ELSE h[i]]
    <2>3. ASSUME NEW i \in 0..m
          PROVE  g[i] = IF i = 0 THEN [Start EXCEPT !.undo = undo] ELSE Step(i, g[i - 1])
      <3>1. CASE i = m
        BY <2>2, <3>1
      <3>2. CASE i # m
        <4>1. h[i] = IF i = 0 THEN [Start EXCEPT !.undo = undo] ELSE Step(i, h[i - 1])
          BY <2>1, <2>2, <3>2
        <4>2. i # 0 => g[i - 1] = h[i - 1]
          BY <2>2
        <4> QED BY <3>2, <4>1, <4>2
      <3> QED BY <3>1, <3>2
    <2>4. g = [i \in 0..m |-> g[i]]
      OBVIOUS
    <2> HIDE DEF g
    <2>5. Solves(g, m)
      BY <2>3, <2>4
    <2> QED BY <2>2, <2>5
  <1>5. N \in S
    <2>1. \A m \in 0..N : m \in S
      <3> HIDE DEF S
      <3> QED BY <1>1, <1>3, <1>4, Loop
    <2>2. N \in 0..N
      BY <1>1, SMTT(60)
    <2> QED BY <2>1, <2>2
  <1>6. Solves(f, N)
    BY <1>5
  <1> HIDE DEF f
  <1>7. f[0] = [Start EXCEPT !.undo = undo] /\ \A k \in 1..N : f[k] = Step(k, f[k - 1])
    <2>1. 0 \in 0..N /\ \A k \in 1..N : k \in 0..N /\ k # 0
      BY <1>1, SMTT(60)
    <2> QED BY <1>6, <2>1
  <1> QED BY <1>2, <1>7 DEF Step, N
-----------------------------------------------------------------------------
(* The ledger along a block *)

(* What the first k transactions of b do to n. *)
Issues(b, n, k) == \E i \in 1..k : b[i].kind = "issue" /\ b[i].name = n
Reissues(b, n, k) == \E i \in 1..k : b[i].kind = "reissue" /\ b[i].name = n
Verifies(b, n, k) ==
    \E i \in 1..k : b[i].kind # "transfer" /\ b[i].name = n /\ b[i].verifier # ""

(* The data of the only issue of n. *)
Data(n) == Issued(CHOOSE t \in Txs : t.kind = "issue" /\ t.name = n)

LedgerOK(l) ==
    /\ l \in Ledgers
    /\ \A n \in Restricted : l.asset[n] # None <=> l.verifier[n] # None

(* The rules that make t apply to l. *)
Legal(l, t) ==
    /\ t.kind = "issue" => l.asset[t.name] = None
    /\ t.kind = "reissue" => /\ l.asset[t.name] # None
                             /\ l.asset[t.name].reissuable
                             /\ l.asset[t.name].amount + t.amount <= MaxMoney

LegalTo(l, b, k) == \A i \in 1..k : Legal(LedgerFrom(l, b, i - 1), b[i])

(* What the ledger after k transactions says of n, if they were legal. *)
Growth(l, b, k) ==
    \A n \in Names :
        LET m == LedgerFrom(l, b, k) IN
        /\ ~Issues(b, n, k) /\ ~Reissues(b, n, k) => m.asset[n] = l.asset[n]
        /\ Issues(b, n, k) /\ ~Reissues(b, n, k) => m.asset[n] = Data(n)
        /\ Issues(b, n, k) => l.asset[n] = None
        /\ Issues(b, n, k) \/ Reissues(b, n, k) \/ l.asset[n] # None => m.asset[n] # None
        /\ m.asset[n] # None => l.asset[n] # None \/ Issues(b, n, k)
        /\ ~Verifies(b, n, k) => m.verifier[n] = l.verifier[n]

(* One more transaction. *)
LEMMA OneMore ==
    ASSUME NEW b \in Seq(Txs), NEW k \in 1..Len(b), NEW n
    PROVE  /\ Issues(b, n, k) <=> Issues(b, n, k - 1) \/ (b[k].kind = "issue" /\ b[k].name = n)
           /\ Reissues(b, n, k) <=>
                Reissues(b, n, k - 1) \/ (b[k].kind = "reissue" /\ b[k].name = n)
           /\ Verifies(b, n, k) <=>
                \/ Verifies(b, n, k - 1)
                \/ b[k].kind # "transfer" /\ b[k].name = n /\ b[k].verifier # ""
  <1>1. 1..k = (1..(k - 1)) \cup {k}
    BY SMTT(60)
  <1> QED BY <1>1 DEF Issues, Reissues, Verifies

(* No transaction has been looked at yet. *)
LEMMA NoneYet ==
    ASSUME NEW b, NEW n
    PROVE  ~Issues(b, n, 0) /\ ~Reissues(b, n, 0) /\ ~Verifies(b, n, 0)
  <1>1. 1..0 = {}
    BY SMTT(60)
  <1> QED BY <1>1 DEF Issues, Reissues, Verifies

(* A transaction of a block, and its place. *)
LEMMA InBlock ==
    ASSUME NEW b \in Seq(Txs), NEW k \in 1..Len(b)
    PROVE  /\ b[k] \in Txs /\ k \in DOMAIN b /\ DOMAIN b = 1..Len(b) /\ Len(b) \in Nat
           /\ k - 1 \in 0..Len(b) /\ k \in 0..Len(b) /\ k # 0
           /\ \A i \in 1..(k - 1) : i \in 1..Len(b) /\ i # k
  BY SMTT(60)

(* The only issue of a name. *)
LEMMA DataIssued ==
    ASSUME OneIssue, NEW t \in Txs, t.kind = "issue"
    PROVE  Data(t.name) = Issued(t) /\ Issued(t) \in Assets /\ Issued(t) # None
  <1> DEFINE u == CHOOSE u \in Txs : u.kind = "issue" /\ u.name = t.name
  <1>1. u \in Txs /\ u.kind = "issue" /\ u.name = t.name
    OBVIOUS
  <1>2. u = t
    BY <1>1 DEF OneIssue
  <1>3. Data(t.name) = Issued(t)
    BY <1>2 DEF Data
  <1>4. /\ t.amount \in 0..MaxMoney /\ t.units \in Nat /\ t.ipfs \in STRING
        /\ t.reissuable \in BOOLEAN
    BY IssuanceAssumption
  <1>5. Issued(t) \in Assets
    BY <1>4 DEF Issued, Assets
  <1> QED BY <1>3, <1>5, AbsentAssumption

(* A reissue within MAX_MONEY makes an asset of an asset. *)
LEMMA ReissuedAssets ==
    ASSUME NEW a \in Assets, NEW t \in Txs, a.amount + t.amount <= MaxMoney
    PROVE  Reissued(a, t) \in Assets /\ Reissued(a, t) # None
  <1>1. /\ t.amount \in 0..MaxMoney /\ t.units \in Nat \cup {-1} /\ t.ipfs \in STRING
        /\ t.reissuable \in BOOLEAN /\ MaxMoney \in Nat
    BY IssuanceAssumption
  <1>2. a.amount \in 0..MaxMoney /\ a.units \in Nat /\ a.ipfs \in STRING
    BY DEF Assets
  <1>3. a.amount + t.amount \in 0..MaxMoney
    BY <1>1, <1>2, SMTT(60)
  <1>4. Reissued(a, t) \in Assets
    BY <1>1, <1>2, <1>3 DEF Reissued, Assets
  <1> QED BY <1>4, AbsentAssumption

(* The fields of a ledger. *)
LEMMA LedgerParts ==
    ASSUME NEW l, LedgerOK(l)
    PROVE  /\ l = [asset |-> l.asset, verifier |-> l.verifier]
           /\ l.asset \in MaybeAsset /\ l.asset \in [Names -> Assets \cup {None}]
           /\ l.verifier \in [Names -> STRING \cup {None}]
  BY SMTT(60) DEF LedgerOK, Ledgers, MaybeAsset

(* What t changes from l to m: the entry of its name. *)
Changed(l, t, m) ==
    /\ LedgerOK(m)
    /\ \A n \in Names : t.kind = "transfer" \/ t.name # n => m.asset[n] = l.asset[n]
    /\ t.kind = "issue" => m.asset[t.name] = Data(t.name) /\ m.asset[t.name] # None
    /\ t.kind = "reissue" => /\ m.asset[t.name] = Reissued(l.asset[t.name], t)
                             /\ m.asset[t.name] # None
    /\ \A n \in Names : t.kind = "transfer" \/ t.name # n \/ t.verifier = ""
            => m.verifier[n] = l.verifier[n]
    /\ t.kind # "transfer" /\ t.verifier # "" => m.verifier[t.name] = t.verifier

(* A legal transaction changes the entry of its name. *)
LEMMA Applied ==
    ASSUME OneIssue, NEW l, LedgerOK(l), NEW t \in Txs, Legal(l, t), NEW m
    PROVE  m = LedgerApply(l, t) => Changed(l, t, m)
  <1>0. SUFFICES ASSUME m = LedgerApply(l, t) PROVE Changed(l, t, m)
    OBVIOUS
  <1> DEFINE v == IF t.verifier # "" THEN [l.verifier EXCEPT ![t.name] = t.verifier] ELSE l.verifier
  <1>1. /\ t.name \in Names /\ t.kind \in {"issue", "reissue", "transfer"} /\ t.verifier \in STRING
        /\ t.verifier # "" => t.name \in Restricted
        /\ t.kind = "issue" /\ t.name \in Restricted => t.verifier # ""
        /\ Restricted \subseteq Names
    BY IssuanceAssumption
  <1>2. /\ l = [asset |-> l.asset, verifier |-> l.verifier]
        /\ l.asset \in MaybeAsset /\ l.verifier \in [Names -> STRING \cup {None}]
    BY LedgerParts
  <1>3. /\ v \in [Names -> STRING \cup {None}]
        /\ \A n \in Names : t.name # n \/ t.verifier = "" => v[n] = l.verifier[n]
        /\ t.verifier # "" => v[t.name] = t.verifier
    BY <1>1, <1>2
  <1>4. t.verifier # "" => v[t.name] # None
    BY <1>1, <1>3, AbsentAssumption
  <1>5. CASE t.kind = "transfer"
    <2>1. m = l
      BY <1>0, <1>5 DEF LedgerApply
    <2> QED BY <1>5, <2>1 DEF Changed
  <1>6. CASE t.kind = "issue"
    <2>1. m = [asset |-> [l.asset EXCEPT ![t.name] = Issued(t)], verifier |-> v]
      BY <1>0, <1>6 DEF LedgerApply
    <2>2. Data(t.name) = Issued(t) /\ Issued(t) \in Assets /\ Issued(t) # None
      BY <1>6, DataIssued
    <2> DEFINE x == [l.asset EXCEPT ![t.name] = Issued(t)]
    <2> HIDE DEF v
    <2>9. /\ x \in MaybeAsset /\ x[t.name] = Issued(t)
          /\ \A n \in Names : t.name # n => x[n] = l.asset[n]
      BY <1>1, <1>2, <2>2 DEF MaybeAsset
    <2>10. m = [asset |-> x, verifier |-> v]
      BY <2>1
    <2> HIDE DEF x
    <2>11. m.asset = x /\ m.verifier = v
      BY <2>10
    <2>12. m \in Ledgers
      BY <1>3, <2>9, <2>10 DEF Ledgers
    <2>3. /\ m.asset \in MaybeAsset /\ m.verifier = v /\ m.asset[t.name] = Issued(t)
          /\ \A n \in Names : t.name # n => m.asset[n] = l.asset[n]
          /\ m \in Ledgers
      BY <2>9, <2>11, <2>12
    <2>4. \A n \in Restricted : m.asset[n] # None <=> m.verifier[n] # None
      BY <1>1, <1>3, <1>4, <1>6, <2>2, <2>3 DEF LedgerOK
    <2> QED BY <1>3, <1>6, <2>2, <2>3, <2>4 DEF LedgerOK, Changed
  <1>7. CASE t.kind = "reissue"
    <2> DEFINE r == Reissued(l.asset[t.name], t)
    <2>1. m = [asset |-> [l.asset EXCEPT ![t.name] = r], verifier |-> v]
      BY <1>0, <1>7 DEF LedgerApply
    <2>2. l.asset[t.name] \in Assets /\ l.asset[t.name] # None
      BY <1>1, <1>2, <1>7 DEF Legal, MaybeAsset
    <2>3. r \in Assets /\ r # None
      BY <1>7, <2>2, ReissuedAssets DEF Legal
    <2> DEFINE x == [l.asset EXCEPT ![t.name] = r]
    <2> HIDE DEF v, r
    <2>9. /\ x \in MaybeAsset /\ x[t.name] = r
          /\ \A n \in Names : t.name # n => x[n] = l.asset[n]
      BY <1>1, <1>2, <2>3 DEF MaybeAsset
    <2>10. m = [asset |-> x, verifier |-> v]
      BY <2>1
    <2> HIDE DEF x
    <2>11. m.asset = x /\ m.verifier = v
      BY <2>10
    <2>12. m \in Ledgers
      BY <1>3, <2>9, <2>10 DEF Ledgers
    <2>4. /\ m.asset \in MaybeAsset /\ m.verifier = v /\ m.asset[t.name] = r
          /\ \A n \in Names : t.name # n => m.asset[n] = l.asset[n]
          /\ m \in Ledgers
      BY <2>9, <2>11, <2>12
    <2>5. \A n \in Restricted : m.asset[n] # None <=> m.verifier[n] # None
      <3>1. ASSUME NEW n \in Restricted, n = t.name PROVE m.asset[n] # None /\ m.verifier[n] # None
        BY <1>1, <1>3, <1>4, <2>2, <2>3, <2>4, <3>1 DEF LedgerOK
      <3>2. ASSUME NEW n \in Restricted, n # t.name PROVE m.asset[n] # None <=> m.verifier[n] # None
        BY <1>1, <1>3, <2>4, <3>2 DEF LedgerOK
      <3> QED BY <3>1, <3>2
    <2> QED BY <1>3, <1>7, <2>3, <2>4, <2>5 DEF LedgerOK, Changed, r
  <1> QED BY <1>1, <1>5, <1>6, <1>7

(* Growth, from one transaction to the next. *)
LEMMA GrowthStep ==
    ASSUME OneIssue, NEW l, NEW b \in Seq(Txs), NEW k \in 1..Len(b),
           LedgerOK(LedgerFrom(l, b, k - 1)), Growth(l, b, k - 1),
           Legal(LedgerFrom(l, b, k - 1), b[k])
    PROVE  LedgerOK(LedgerFrom(l, b, k)) /\ Growth(l, b, k)
  <1> DEFINE p == LedgerFrom(l, b, k - 1)
             m == LedgerFrom(l, b, k)
             t == b[k]
  <1>1. m = LedgerApply(p, t)
    BY LedgerSteps
  <1>2. t \in Txs
    BY InBlock
  <1>3. /\ LedgerOK(m)
        /\ \A n \in Names : t.kind = "transfer" \/ t.name # n => m.asset[n] = p.asset[n]
        /\ t.kind = "issue" => m.asset[t.name] = Data(t.name) /\ m.asset[t.name] # None
        /\ t.kind = "reissue" => m.asset[t.name] # None
        /\ \A n \in Names : t.kind = "transfer" \/ t.name # n \/ t.verifier = ""
                => m.verifier[n] = p.verifier[n]
    <2>1. LedgerOK(p) /\ Legal(p, t)
      OBVIOUS
    <2> HIDE DEF p, m, t
    <2>2. Changed(p, t, m)
      BY <1>1, <1>2, <2>1, Applied
    <2> QED BY <2>2 DEF Changed
  <1>4. t.kind \in {"issue", "reissue", "transfer"}
    BY <1>2, IssuanceAssumption
  <1>5. ASSUME NEW n \in Names
        PROVE  /\ ~Issues(b, n, k) /\ ~Reissues(b, n, k) => m.asset[n] = l.asset[n]
               /\ Issues(b, n, k) /\ ~Reissues(b, n, k) => m.asset[n] = Data(n)
               /\ Issues(b, n, k) => l.asset[n] = None
               /\ Issues(b, n, k) \/ Reissues(b, n, k) \/ l.asset[n] # None => m.asset[n] # None
               /\ m.asset[n] # None => l.asset[n] # None \/ Issues(b, n, k)
               /\ ~Verifies(b, n, k) => m.verifier[n] = l.verifier[n]
    <2>1. /\ ~Issues(b, n, k - 1) /\ ~Reissues(b, n, k - 1) => p.asset[n] = l.asset[n]
          /\ Issues(b, n, k - 1) /\ ~Reissues(b, n, k - 1) => p.asset[n] = Data(n)
          /\ Issues(b, n, k - 1) => l.asset[n] = None
          /\ Issues(b, n, k - 1) \/ Reissues(b, n, k - 1) \/ l.asset[n] # None => p.asset[n] # None
          /\ p.asset[n] # None => l.asset[n] # None \/ Issues(b, n, k - 1)
          /\ ~Verifies(b, n, k - 1) => p.verifier[n] = l.verifier[n]
      BY DEF Growth
    <2>2. /\ Issues(b, n, k) <=> Issues(b, n, k - 1) \/ (t.kind = "issue" /\ t.name = n)
          /\ Reissues(b, n, k) <=> Reissues(b, n, k - 1) \/ (t.kind = "reissue" /\ t.name = n)
          /\ Verifies(b, n, k) <=>
                Verifies(b, n, k - 1) \/ (t.kind # "transfer" /\ t.name = n /\ t.verifier # "")
      BY OneMore
    <2>3. /\ t.kind = "issue" => p.asset[t.name] = None
          /\ t.kind = "reissue" => p.asset[t.name] # None
      BY DEF Legal
    <2> HIDE DEF p, m, t
    <2> QED BY <1>3, <1>4, <2>1, <2>2, <2>3
  <1> QED BY <1>3, <1>5 DEF Growth

(* Growth along a legal block. *)
LEMMA GrowthTo ==
    ASSUME OneIssue, NEW l, LedgerOK(l), NEW b \in Seq(Txs), NEW j \in 0..Len(b), LegalTo(l, b, j)
    PROVE  \A k \in 0..j : LedgerOK(LedgerFrom(l, b, k)) /\ Growth(l, b, k)
  <1> DEFINE S == {k \in 0..j : LedgerOK(LedgerFrom(l, b, k)) /\ Growth(l, b, k)}
  <1>1. j \in Nat /\ 0 \in 0..j
    BY SMTT(60)
  <1>2. LedgerFrom(l, b, 0) = l
    BY LedgerSteps
  <1>3. Growth(l, b, 0)
    BY <1>2, NoneYet DEF Growth
  <1>4. ASSUME NEW k \in 1..j, k - 1 \in S PROVE k \in S
    <2>1. k \in 1..Len(b) /\ k \in 0..j
      BY SMTT(60)
    <2>2. Legal(LedgerFrom(l, b, k - 1), b[k])
      BY DEF LegalTo
    <2> QED BY <1>4, <2>1, <2>2, GrowthStep
  <1>5. 0 \in S
    BY <1>1, <1>2, <1>3
  <1>6. \A k \in 0..j : k \in S
    <2> HIDE DEF S
    <2> QED BY <1>1, <1>4, <1>5, Loop
  <1> QED BY <1>6

-----------------------------------------------------------------------------
(* What the caches hold of a name, between blocks *)

(* What the database d, the global cache p and the ledger l say of n: it   *)
(* exists if it was added or stored and not removed, reissued data is the  *)
(* latest, and data that outlives the asset is the data of its issue.      *)
NameOK(d, p, l, n) ==
    LET L == l.asset[n]
        A == p.add[n]
        X == p.reissued[n]
        D == d.asset[n]
    IN  /\ L # None <=> n \notin p.remove /\ (A # None \/ D # None)
        /\ A # None => A = Data(n) /\ n \notin p.remove
        /\ L # None /\ X # None => X = L
        /\ L # None /\ X = None => L = Or(A, D)
        /\ X # None => \E t \in p.reAdd \cup p.reUndo : t.name = n
        /\ L = None => X \in {None, Data(n)}
        /\ L = None /\ n \notin p.remove => X = None

(* ... and of its verifier string. *)
VerifierOK(d, p, l, n) ==
    LET U == p.verUndo[n]
        A == p.verAdd[n]
        D == d.verifier[n]
    IN  /\ n \in Restricted /\ l.asset[n] # None => Or(U, Or(A, D)) = l.verifier[n]
        /\ l.asset[n] = None \/ n \notin Restricted =>
            (U = Gone /\ n \in Restricted) \/ (U = None /\ A = None /\ D = None)
        /\ D # Gone

StateOK ==
    /\ db \in Lookups /\ Fresh(lru) /\ passets \in Caches /\ LedgerOK(ledger)
    /\ \A n \in Names : NameOK(db, passets, ledger, n) /\ VerifierOK(db, passets, ledger, n)

-----------------------------------------------------------------------------
(* Looking up *)

(* v is w but for what its look-up caches hold. *)
Looks(w, v) ==
    v \in Works /\ Fresh(v.lru) /\ v.cache = w.cache /\ v.undo = w.undo /\ v.ok = w.ok

(* A look-up leaves what it read in a look-up cache. *)
LEMMA AfterLooks ==
    ASSUME db \in Lookups, NEW w \in Works, Fresh(w.lru), NEW n \in Names, NEW s
    PROVE  /\ Looks(w, AfterExists(w, n))
           /\ Looks(w, AfterMetaData(w, n))
           /\ Looks(w, AfterVerifier(w, n, s))
  <1> DEFINE e == [w EXCEPT !.lru.asset[n] = db.asset[n]]
             f == [w EXCEPT !.lru.verifier[n] = db.verifier[n]]
  <1>1. Looks(w, w)
    BY DEF Looks
  <1>2. Looks(w, e)
    <2>1. e.lru = [asset |-> [w.lru.asset EXCEPT ![n] = db.asset[n]], verifier |-> w.lru.verifier]
      BY SMTT(60) DEF Works, Lookups
    <2>2. /\ e.cache = w.cache /\ e.undo = w.undo /\ e.ok = w.ok
          /\ e = [cache |-> w.cache, lru |-> e.lru, undo |-> w.undo, ok |-> w.ok]
      BY SMTT(60) DEF Works
    <2>3. w.lru \in Lookups /\ w.cache \in Caches /\ w.undo \in Seq(Items) /\ w.ok \in BOOLEAN
      BY SMTT(60) DEF Works
    <2> HIDE DEF e
    <2>4. e.lru \in Lookups /\ Fresh(e.lru)
      BY <2>1, <2>3, SMTT(60) DEF Lookups, Fresh, MaybeAsset
    <2>5. e \in Works
      BY <2>2, <2>3, <2>4, SMTT(60) DEF Works
    <2> QED BY <2>2, <2>4, <2>5 DEF Looks
  <1>3. Looks(w, f)
    <2>1. f.lru = [asset |-> w.lru.asset,
                   verifier |-> [w.lru.verifier EXCEPT ![n] = db.verifier[n]]]
      BY SMTT(60) DEF Works, Lookups
    <2>2. /\ f.cache = w.cache /\ f.undo = w.undo /\ f.ok = w.ok
          /\ f = [cache |-> w.cache, lru |-> f.lru, undo |-> w.undo, ok |-> w.ok]
      BY SMTT(60) DEF Works
    <2>3. w.lru \in Lookups /\ w.cache \in Caches /\ w.undo \in Seq(Items) /\ w.ok \in BOOLEAN
      BY SMTT(60) DEF Works
    <2> HIDE DEF f
    <2>4. f.lru \in Lookups /\ Fresh(f.lru)
      BY <2>1, <2>3, SMTT(60) DEF Lookups, Fresh, MaybeAsset
    <2>5. f \in Works
      BY <2>2, <2>3, <2>4, SMTT(60) DEF Works
    <2> QED BY <2>2, <2>4, <2>5 DEF Looks
  <1>4. AfterExists(w, n) \in {w, e} /\ AfterVerifier(w, n, s) \in {w, f}
    BY DEF AfterExists, AfterVerifier
  <1> QED BY <1>1, <1>2, <1>3, <1>4 DEF AfterMetaData

(* The look-ups of a transaction. *)
LEMMA LookedLooks ==
    ASSUME db \in Lookups, NEW w \in Works, Fresh(w.lru), NEW t \in Txs
    PROVE  Looks(w, Looked(w, t))
  <1>1. t.name \in Names /\ t.kind \in {"issue", "reissue", "transfer"}
    BY IssuanceAssumption
  <1>2. CASE t.kind = "issue"
    BY <1>1, <1>2, AfterLooks DEF Looked
  <1>3. CASE t.kind = "reissue"
    <2> DEFINE m == AfterMetaData(w, t.name)
    <2>1. Looks(w, m) /\ m \in Works /\ Fresh(m.lru)
      BY <1>1, AfterLooks DEF Looks
    <2> HIDE DEF m
    <2>2. Looks(m, AfterVerifier(m, t.name, FALSE))
      BY <1>1, <2>1, AfterLooks
    <2>3. Looked(w, t) \in {m, AfterVerifier(m, t.name, FALSE)}
      BY <1>3 DEF Looked, m
    <2> QED BY <2>1, <2>2, <2>3 DEF Looks
  <1>4. CASE t.kind = "transfer"
    <2> DEFINE m == AfterVerifier(w, t.name, TRUE)
    <2>1. Looks(w, m)
      BY <1>1, AfterLooks
    <2>2. Looks(m, AfterMetaData(m, t.name))
      BY <1>1, <2>1, AfterLooks DEF Looks
    <2>3. Looked(w, t) = AfterMetaData(m, t.name)
      BY <1>4 DEF Looked
    <2> QED BY <2>1, <2>2, <2>3 DEF Looks
  <1> QED BY <1>1, <1>2, <1>3, <1>4

(* A block that removes nothing sees an asset that exists. *)
LEMMA ExistsExact ==
    ASSUME StateOK, NEW w \in Works, Fresh(w.lru), NEW n \in Names, n \notin w.cache.remove,
           ledger.asset[n] # None
    PROVE  CheckIfAssetExists(w, n)
  <1>1. NameOK(db, passets, ledger, n) /\ w.lru.asset[n] \in {None, db.asset[n]}
    BY DEF StateOK, Fresh
  <1> QED BY <1>1 DEF NameOK, CheckIfAssetExists, CachedAsset, Removed, Or

(* The verifier string of an asset the block has not touched. *)
LEMMA VerifierKept ==
    ASSUME StateOK, NEW w \in Works, Fresh(w.lru), NEW n \in Restricted,
           w.cache.verUndo[n] = None, w.cache.verAdd[n] = None, ledger.asset[n] # None
    PROVE  GetAssetVerifierStringIfExists(w, n, FALSE) = ledger.verifier[n]
  <1>1. n \in Names
    BY IssuanceAssumption
  <1>2. VerifierOK(db, passets, ledger, n) /\ w.lru.verifier[n] \in {None, db.verifier[n]}
    BY <1>1 DEF StateOK, Fresh
  <1>3. ledger.verifier[n] \in STRING \cup {None}
    BY <1>1, SMTT(60) DEF StateOK, LedgerOK, Ledgers
  <1>4. ledger.verifier[n] # Gone
    BY <1>3, AbsentAssumption
  <1>5. Or(CachedVerifier(w, n, FALSE), db.verifier[n]) = ledger.verifier[n]
    BY <1>2 DEF VerifierOK, CachedVerifier, Or
  <1> QED BY <1>4, <1>5 DEF GetAssetVerifierStringIfExists, Known

(* A verifier string outside the block's cache is the one of an asset. *)
LEMMA VerifierShows ==
    ASSUME StateOK, NEW w \in Works, Fresh(w.lru), NEW n \in Restricted,
           GetAssetVerifierStringIfExists(w, n, TRUE) # None
    PROVE  ledger.asset[n] # None
  <1>1. n \in Names
    BY IssuanceAssumption
  <1>2. VerifierOK(db, passets, ledger, n) /\ w.lru.verifier[n] \in {None, db.verifier[n]}
    BY <1>1 DEF StateOK, Fresh
  <1>3. SUFFICES ASSUME ledger.asset[n] = None PROVE FALSE
    OBVIOUS
  <1>4. Or(CachedVerifier(w, n, TRUE), db.verifier[n]) \in {None, Gone}
    BY <1>2, <1>3, AbsentAssumption DEF VerifierOK, CachedVerifier, Or
  <1> QED BY <1>4 DEF GetAssetVerifierStringIfExists, Known

-----------------------------------------------------------------------------
(* Connecting a block *)

(* The reissues among the first k transactions of b. *)
ReissuesIn(b, k) == {t \in Txs : t.kind = "reissue" /\ \E i \in 1..k : b[i] = t}

(* The block's cache after its first k transactions. *)
InConnect(c, b, k) ==
    /\ c \in Caches
    /\ c.remove = {} /\ c.reUndo = {}
    /\ c.reAdd = ReissuesIn(b, k)
    /\ \A n \in Names :
        LET m == LedgerFrom(ledger, b, k) IN
        /\ c.add[n] = IF Issues(b, n, k) THEN Data(n) ELSE None
        /\ c.reissued[n] = IF Reissues(b, n, k) THEN m.asset[n] ELSE None
        /\ c.verAdd[n] = IF Verifies(b, n, k) THEN m.verifier[n] ELSE None
        /\ c.verUndo[n] = None

(* t changes more than the amount, and what has to be kept to undo it. *)
Changes(t) == ~(t.ipfs = "" /\ t.units = -1 /\ t.verifier = "")
ItemOf(l, t) ==
    [name |-> t.name, ipfs |-> IF t.ipfs # "" THEN l.asset[t.name].ipfs ELSE None,
     units |-> IF t.units # -1 THEN l.asset[t.name].units ELSE None,
     verifier |-> IF t.verifier # "" THEN l.verifier[t.name] ELSE None]

(* The undo data has an item for t, its only one of that name, or none. *)
HasItem(undo, l, t) ==
    /\ Changes(t) => \E i \in DOMAIN undo :
                        /\ undo[i] = ItemOf(l, t)
                        /\ \A j \in DOMAIN undo : undo[j].name = t.name => j = i
    /\ ~Changes(t) => \A j \in DOMAIN undo : undo[j].name # t.name

UndoFor(undo, l, b, k) ==
    /\ undo \in Seq(Items)
    /\ \A j \in DOMAIN undo : Reissues(b, undo[j].name, k)
    /\ \A i \in 1..k : b[i].kind = "reissue" => HasItem(undo, LedgerFrom(l, b, i - 1), b[i])

(* The fields of a cache. *)
LEMMA CacheParts ==
    ASSUME NEW c \in Caches
    PROVE  /\ c = [add |-> c.add, remove |-> c.remove, reissued |-> c.reissued, reAdd |-> c.reAdd,
                   reUndo |-> c.reUndo, verAdd |-> c.verAdd, verUndo |-> c.verUndo]
           /\ c.add \in MaybeAsset /\ c.remove \in SUBSET Names /\ c.reissued \in MaybeAsset
           /\ c.reAdd \in SUBSET Txs /\ c.reUndo \in SUBSET Txs
           /\ c.verAdd \in [Names -> STRING \cup {None, Gone}]
           /\ c.verUndo \in [Names -> STRING \cup {None, Gone}]
  BY SMTT(60) DEF Caches

(* Inserting into a set whose elements compare by name. *)
LEMMA Inserted ==
    ASSUME NEW V, NEW m \in [Names -> V], NEW n \in Names, NEW v \in V
    PROVE  Insert(m, n, v) \in [Names -> V]
  BY DEF Insert

(* The fields of a record. *)
LEMMA RecordFields ==
    ASSUME NEW fa, NEW fr, NEW fx, NEW fp, NEW fu, NEW va, NEW vu, NEW c,
           c = [add |-> fa, remove |-> fr, reissued |-> fx, reAdd |-> fp, reUndo |-> fu,
                verAdd |-> va, verUndo |-> vu]
    PROVE  /\ c.add = fa /\ c.remove = fr /\ c.reissued = fx /\ c.reAdd = fp /\ c.reUndo = fu
           /\ c.verAdd = va /\ c.verUndo = vu
  BY SMTT(60)

(* A cache has these fields. *)
LEMMA CacheRecord ==
    ASSUME NEW c \in Caches
    PROVE  \E fa, fr, fx, fp, fu, va, vu :
             c = [add |-> fa, remove |-> fr, reissued |-> fx, reAdd |-> fp, reUndo |-> fu,
                  verAdd |-> va, verUndo |-> vu]
  <1> WITNESS c.add, c.remove, c.reissued, c.reAdd, c.reUndo, c.verAdd, c.verUndo
  <1> QED BY CacheParts

(* A new asset goes into the cache. *)
Added(c, n, a, h) ==
    /\ h \in Caches
    /\ h.remove = c.remove \ {n}
    /\ h.add = Insert(c.add, n, a)
    /\ h.reissued = c.reissued /\ h.reAdd = c.reAdd /\ h.reUndo = c.reUndo
    /\ h.verAdd = c.verAdd /\ h.verUndo = c.verUndo

(* That is what the cache has then. *)
LEMMA AddedFields ==
    ASSUME NEW c \in Caches, NEW n \in Names, NEW a \in Assets, NEW h
    PROVE  h = [c EXCEPT !.remove = @ \ {n}, !.add = Insert(@, n, a)]
             => Added(c, n, a, h)
  <1>0. SUFFICES ASSUME h = [c EXCEPT !.remove = @ \ {n}, !.add = Insert(@, n, a)]
                 PROVE  Added(c, n, a, h)
    OBVIOUS
  <1> DEFINE fr == c.remove \ {n}
             fa == Insert(c.add, n, a)
             V == STRING \cup {None, Gone}
  <1>1. fr \in SUBSET Names
    BY CacheParts
  <1>2. fa \in MaybeAsset
    BY CacheParts, Inserted DEF MaybeAsset
  <1>3. h = [c EXCEPT !.remove = fr, !.add = fa]
    BY <1>0
  <1> HIDE DEF fr, fa
  <1>4. h \in Caches
    BY <1>1, <1>2, <1>3 DEF Caches
  <1>5. PICK ga, gr, gx, gp, gu, ha, hu :
            c = [add |-> ga, remove |-> gr, reissued |-> gx, reAdd |-> gp, reUndo |-> gu,
                 verAdd |-> ha, verUndo |-> hu]
    BY CacheRecord
  <1>6. h = [add |-> fa, remove |-> fr, reissued |-> gx, reAdd |-> gp, reUndo |-> gu,
             verAdd |-> ha, verUndo |-> hu]
    BY <1>3, <1>5
  <1>7. /\ c.add = ga /\ c.remove = gr /\ c.reissued = gx /\ c.reAdd = gp
        /\ c.reUndo = gu /\ c.verAdd = ha /\ c.verUndo = hu
    BY <1>5, RecordFields
  <1>8. /\ h.add = fa /\ h.remove = fr /\ h.reissued = gx /\ h.reAdd = gp
        /\ h.reUndo = gu /\ h.verAdd = ha /\ h.verUndo = hu
    BY <1>6, RecordFields
  <1> QED BY <1>4, <1>7, <1>8 DEF Added, fr, fa

(* A verifier string goes into the cache. *)
VerifierAdded(c, n, x, h) ==
    /\ h \in Caches
    /\ h.verUndo = [c.verUndo EXCEPT ![n] = None]
    /\ h.verAdd = Insert(c.verAdd, n, x)
    /\ h.add = c.add /\ h.remove = c.remove /\ h.reissued = c.reissued
    /\ h.reAdd = c.reAdd /\ h.reUndo = c.reUndo

(* That is what the cache has then. *)
LEMMA VerifierAddedFields ==
    ASSUME NEW c \in Caches, NEW n \in Names, NEW x \in STRING, NEW h
    PROVE  h = AddRestrictedVerifier(c, n, x)
             => VerifierAdded(c, n, x, h)
  <1>0. SUFFICES ASSUME h = AddRestrictedVerifier(c, n, x)
                 PROVE  VerifierAdded(c, n, x, h)
    OBVIOUS
  <1> DEFINE vu == [c.verUndo EXCEPT ![n] = None]
             va == Insert(c.verAdd, n, x)
             V == STRING \cup {None, Gone}
  <1>1. vu \in [Names -> V]
    BY CacheParts
  <1>2. va \in [Names -> V]
    BY CacheParts, Inserted
  <1>3. h = [c EXCEPT !.verUndo = vu, !.verAdd = va]
    BY <1>0 DEF AddRestrictedVerifier
  <1> HIDE DEF vu, va
  <1>4. h \in Caches
    BY <1>1, <1>2, <1>3 DEF Caches
  <1>5. PICK ga, gr, gx, gp, gu, ha, hu :
            c = [add |-> ga, remove |-> gr, reissued |-> gx, reAdd |-> gp, reUndo |-> gu,
                 verAdd |-> ha, verUndo |-> hu]
    BY CacheRecord
  <1>6. h = [add |-> ga, remove |-> gr, reissued |-> gx, reAdd |-> gp, reUndo |-> gu,
             verAdd |-> va, verUndo |-> vu]
    BY <1>3, <1>5
  <1>7. /\ c.add = ga /\ c.remove = gr /\ c.reissued = gx /\ c.reAdd = gp
        /\ c.reUndo = gu /\ c.verAdd = ha /\ c.verUndo = hu
    BY <1>5, RecordFields
  <1>8. /\ h.add = ga /\ h.remove = gr /\ h.reissued = gx /\ h.reAdd = gp
        /\ h.reUndo = gu /\ h.verAdd = va /\ h.verUndo = vu
    BY <1>6, RecordFields
  <1> QED BY <1>4, <1>7, <1>8 DEF VerifierAdded, vu, va

(* Reissued data goes into the cache. *)
ReissueAdded(c, n, r, t, h) ==
    /\ h \in Caches
    /\ h.reissued = [c.reissued EXCEPT ![n] = r]
    /\ h.reUndo = c.reUndo \ {t}
    /\ h.reAdd = c.reAdd \cup {t}
    /\ h.add = c.add /\ h.remove = c.remove /\ h.verAdd = c.verAdd
    /\ h.verUndo = c.verUndo

(* That is what the cache has then. *)
LEMMA ReissuedFields ==
    ASSUME NEW c \in Caches, NEW n \in Names, NEW r \in Assets, NEW t \in Txs, NEW h
    PROVE  h = [c EXCEPT !.reissued[n] = r, !.reUndo = @ \ {t}, !.reAdd = @ \cup {t}]
             => ReissueAdded(c, n, r, t, h)
  <1>0. SUFFICES ASSUME h = [c EXCEPT !.reissued[n] = r, !.reUndo = @ \ {t}, !.reAdd = @ \cup {t}]
                 PROVE  ReissueAdded(c, n, r, t, h)
    OBVIOUS
  <1> DEFINE fx == [c.reissued EXCEPT ![n] = r]
             fu == c.reUndo \ {t}
             fp == c.reAdd \cup {t}
             V == STRING \cup {None, Gone}
  <1>1. fx \in MaybeAsset
    BY CacheParts DEF MaybeAsset
  <1>2. fu \in SUBSET Txs
    BY CacheParts
  <1>3. fp \in SUBSET Txs
    BY CacheParts
  <1>4. h = [c EXCEPT !.reissued = fx, !.reUndo = fu, !.reAdd = fp]
    BY <1>0
  <1> HIDE DEF fx, fu, fp
  <1>5. h \in Caches
    BY <1>1, <1>2, <1>3, <1>4 DEF Caches
  <1>6. PICK ga, gr, gx, gp, gu, ha, hu :
            c = [add |-> ga, remove |-> gr, reissued |-> gx, reAdd |-> gp, reUndo |-> gu,
                 verAdd |-> ha, verUndo |-> hu]
    BY CacheRecord
  <1>7. h = [add |-> ga, remove |-> gr, reissued |-> fx, reAdd |-> fp, reUndo |-> fu,
             verAdd |-> ha, verUndo |-> hu]
    BY <1>4, <1>6
  <1>8. /\ c.add = ga /\ c.remove = gr /\ c.reissued = gx /\ c.reAdd = gp
        /\ c.reUndo = gu /\ c.verAdd = ha /\ c.verUndo = hu
    BY <1>6, RecordFields
  <1>9. /\ h.add = ga /\ h.remove = gr /\ h.reissued = fx /\ h.reAdd = fp
        /\ h.reUndo = fu /\ h.verAdd = ha /\ h.verUndo = hu
    BY <1>7, RecordFields
  <1> QED BY <1>5, <1>8, <1>9 DEF ReissueAdded, fx, fu, fp

(* The sets of a cache have an entry, or none, for every name. *)
LEMMA CacheDomains ==
    ASSUME NEW c \in Caches
    PROVE  DOMAIN c.add = Names /\ DOMAIN c.reissued = Names /\ DOMAIN c.verAdd = Names
           /\ DOMAIN c.verUndo = Names
  BY CacheParts DEF MaybeAsset

(* What an issue writes to the cache. *)
NewAssetIn(c, t, d) ==
    /\ d \in Caches
    /\ d.remove = c.remove \ {t.name} /\ d.reissued = c.reissued
    /\ d.reAdd = c.reAdd /\ d.reUndo = c.reUndo
    /\ \A q \in Names :
        /\ d.add[q] = IF q = t.name /\ c.add[q] = None THEN Issued(t) ELSE c.add[q]
        /\ d.verAdd[q] = IF t.name \in Restricted /\ q = t.name /\ c.verAdd[q] = None
                         THEN t.verifier ELSE c.verAdd[q]
        /\ d.verUndo[q] = IF t.name \in Restricted /\ q = t.name THEN None ELSE c.verUndo[q]

(* AddNewAsset does that. *)
LEMMA NewAssetFields ==
    ASSUME NEW c \in Caches, NEW t \in Txs, Issued(t) \in Assets
    PROVE  NewAssetIn(c, t, AddNewAsset(c, t))
  <1> DEFINE a == Issued(t)
             n == t.name
             x == t.verifier
             h == [c EXCEPT !.remove = @ \ {n}, !.add = Insert(@, n, a)]
             g == AddRestrictedVerifier(h, n, x)
             d == AddNewAsset(c, t)
  <1>1. n \in Names /\ x \in STRING /\ a \in Assets
    BY IssuanceAssumption
  <1>2. d = IF n \in Restricted THEN g ELSE h
    BY DEF AddNewAsset
  <1>3. h = [c EXCEPT !.remove = @ \ {n}, !.add = Insert(@, n, a)]
    OBVIOUS
  <1>4. g = AddRestrictedVerifier(h, n, x)
    OBVIOUS
  <1> HIDE DEF a, n, x, h, g, d
  <1>5. Added(c, n, a, h)
    BY <1>1, <1>3, AddedFields
  <1>6. h \in Caches
    BY <1>5 DEF Added
  <1>7. VerifierAdded(h, n, x, g)
    BY <1>1, <1>4, <1>6, VerifierAddedFields
  <1>8. DOMAIN c.add = Names /\ DOMAIN c.reissued = Names /\ DOMAIN c.verAdd = Names
        /\ DOMAIN c.verUndo = Names
    BY <1>1, CacheDomains
  <1>9. \A q \in Names : Insert(c.add, n, a)[q] = IF q = n /\ c.add[q] = None THEN a ELSE c.add[q]
    BY <1>1, <1>8 DEF Insert
  <1>10. \A q \in Names : Insert(c.verAdd, n, x)[q] =
            IF q = n /\ c.verAdd[q] = None THEN x ELSE c.verAdd[q]
    BY <1>1, <1>8 DEF Insert
  <1>11. \A q \in Names : [c.verUndo EXCEPT ![n] = None][q] = IF q = n THEN None ELSE c.verUndo[q]
    BY <1>8
  <1>12. CASE n \in Restricted
    <2>1. d = g
      BY <1>2, <1>12
    <2>2. /\ d \in Caches /\ d.remove = c.remove \ {n} /\ d.reissued = c.reissued
          /\ d.reAdd = c.reAdd /\ d.reUndo = c.reUndo /\ d.add = Insert(c.add, n, a)
          /\ d.verAdd = Insert(c.verAdd, n, x) /\ d.verUndo = [c.verUndo EXCEPT ![n] = None]
      BY <1>5, <1>7, <2>1 DEF Added, VerifierAdded
    <2>3. NewAssetIn(c, t, d)
      BY <1>12, <2>2, <1>9, <1>10, <1>11 DEF NewAssetIn, a, n, x
    <2> QED BY <2>3 DEF d
  <1>13. CASE n \notin Restricted
    <2>1. d = h
      BY <1>2, <1>13
    <2>2. /\ d \in Caches /\ d.remove = c.remove \ {n} /\ d.reissued = c.reissued
          /\ d.reAdd = c.reAdd /\ d.reUndo = c.reUndo /\ d.add = Insert(c.add, n, a)
          /\ d.verAdd = c.verAdd /\ d.verUndo = c.verUndo
      BY <1>5, <2>1 DEF Added
    <2>3. NewAssetIn(c, t, d)
      BY <1>13, <2>2, <1>9, <1>10, <1>11 DEF NewAssetIn, a, n, x
    <2> QED BY <2>3 DEF d
  <1> QED BY <1>12, <1>13

(* The fields of a work record. *)
LEMMA WorkParts ==
    ASSUME NEW w \in Works
    PROVE  /\ w = [cache |-> w.cache, lru |-> w.lru, undo |-> w.undo, ok |-> w.ok]
           /\ w.cache \in Caches /\ w.lru \in Lookups /\ w.undo \in Seq(Items) /\ w.ok \in BOOLEAN
  BY SMTT(60) DEF Works

(* What a reissue that makes r of the asset writes to the cache. *)
ReissueIn(c, t, r, d) ==
    /\ d \in Caches
    /\ d.add = c.add /\ d.remove = c.remove
    /\ d.reAdd = c.reAdd \cup {t} /\ d.reUndo = c.reUndo \ {t}
    /\ \A q \in Names :
        /\ d.reissued[q] = IF q = t.name THEN r ELSE c.reissued[q]
        /\ d.verAdd[q] = IF t.verifier # "" /\ q = t.name /\ c.verAdd[q] = None
                         THEN t.verifier ELSE c.verAdd[q]
        /\ d.verUndo[q] = IF t.verifier # "" /\ q = t.name THEN None ELSE c.verUndo[q]

(* AddReissueAsset does that. *)
LEMMA ReissueFields ==
    ASSUME NEW w \in Works, NEW t \in Txs,
           Reissued(GetAssetMetaDataIfExists(w, t.name), t) \in Assets
    PROVE  ReissueIn(w.cache, t, Reissued(GetAssetMetaDataIfExists(w, t.name), t),
                     AddReissueAsset(w, t))
  <1> DEFINE c == w.cache
             n == t.name
             x == t.verifier
             r == Reissued(GetAssetMetaDataIfExists(w, n), t)
             h == [c EXCEPT !.reissued[n] = r, !.reUndo = @ \ {t}, !.reAdd = @ \cup {t}]
             g == AddRestrictedVerifier(h, n, x)
             d == AddReissueAsset(w, t)
  <1>1. n \in Names /\ x \in STRING /\ c \in Caches /\ r \in Assets
    BY IssuanceAssumption, WorkParts
  <1>2. d = IF x # "" THEN g ELSE h
    BY DEF AddReissueAsset
  <1>3. h = [c EXCEPT !.reissued[n] = r, !.reUndo = @ \ {t}, !.reAdd = @ \cup {t}]
    OBVIOUS
  <1>4. g = AddRestrictedVerifier(h, n, x)
    OBVIOUS
  <1> HIDE DEF c, n, x, r, h, g, d
  <1>5. ReissueAdded(c, n, r, t, h)
    BY <1>1, <1>3, ReissuedFields
  <1>6. h \in Caches
    BY <1>5 DEF ReissueAdded
  <1>7. VerifierAdded(h, n, x, g)
    BY <1>1, <1>4, <1>6, VerifierAddedFields
  <1>8. DOMAIN c.add = Names /\ DOMAIN c.reissued = Names /\ DOMAIN c.verAdd = Names
        /\ DOMAIN c.verUndo = Names
    BY <1>1, CacheDomains
  <1>9. \A q \in Names : [c.reissued EXCEPT ![n] = r][q] = IF q = n THEN r ELSE c.reissued[q]
    BY <1>8
  <1>10. \A q \in Names : Insert(c.verAdd, n, x)[q] =
            IF q = n /\ c.verAdd[q] = None THEN x ELSE c.verAdd[q]
    BY <1>1, <1>8 DEF Insert
  <1>11. \A q \in Names : [c.verUndo EXCEPT ![n] = None][q] = IF q = n THEN None ELSE c.verUndo[q]
    BY <1>8
  <1>12. CASE x # ""
    <2>1. d = g
      BY <1>2, <1>12
    <2>2. /\ d \in Caches /\ d.remove = c.remove /\ d.add = c.add
          /\ d.reAdd = c.reAdd \cup {t} /\ d.reUndo = c.reUndo \ {t}
          /\ d.reissued = [c.reissued EXCEPT ![n] = r]
          /\ d.verAdd = Insert(c.verAdd, n, x) /\ d.verUndo = [c.verUndo EXCEPT ![n] = None]
      BY <1>5, <1>7, <2>1 DEF ReissueAdded, VerifierAdded
    <2>3. ReissueIn(c, t, r, d)
      BY <1>12, <2>2, <1>9, <1>10, <1>11 DEF ReissueIn, n, x
    <2> QED BY <2>3 DEF c, n, d, x, r
  <1>13. CASE x = ""
    <2>1. d = h
      BY <1>2, <1>13
    <2>2. /\ d \in Caches /\ d.remove = c.remove /\ d.add = c.add
          /\ d.reAdd = c.reAdd \cup {t} /\ d.reUndo = c.reUndo \ {t}
          /\ d.reissued = [c.reissued EXCEPT ![n] = r]
          /\ d.verAdd = c.verAdd /\ d.verUndo = c.verUndo
      BY <1>5, <2>1 DEF ReissueAdded
    <2>3. ReissueIn(c, t, r, d)
      BY <1>13, <2>2, <1>9, <1>10, <1>11 DEF ReissueIn, n, x
    <2> QED BY <2>3 DEF c, n, d, x, r
  <1> QED BY <1>12, <1>13

(* The data the block sees of an asset on the ledger is the ledger's. *)
LEMMA MetaDataExact ==
    ASSUME StateOK, NEW w \in Works, Fresh(w.lru), NEW b, NEW k, InConnect(w.cache, b, k),
           Growth(ledger, b, k), NEW n \in Names, LedgerFrom(ledger, b, k).asset[n] # None,
           GetAssetMetaDataIfExists(w, n) # None
    PROVE  GetAssetMetaDataIfExists(w, n) = LedgerFrom(ledger, b, k).asset[n]
  <1> DEFINE m == LedgerFrom(ledger, b, k).asset[n]
             c == w.cache
  <1>1. NameOK(db, passets, ledger, n) /\ w.lru.asset[n] \in {None, db.asset[n]}
    BY DEF StateOK, Fresh
  <1>2. /\ c.remove = {}
        /\ c.add[n] = IF Issues(b, n, k) THEN Data(n) ELSE None
        /\ c.reissued[n] = IF Reissues(b, n, k) THEN m ELSE None
    BY DEF InConnect
  <1>3. /\ ~Issues(b, n, k) /\ ~Reissues(b, n, k) => m = ledger.asset[n]
        /\ Issues(b, n, k) /\ ~Reissues(b, n, k) => m = Data(n)
        /\ Issues(b, n, k) => ledger.asset[n] = None
    BY DEF Growth
  <1>4. CASE Reissues(b, n, k)
    BY <1>2, <1>4 DEF GetAssetMetaDataIfExists, ReissuedAsset, Or
  <1>5. CASE ~Reissues(b, n, k) /\ Issues(b, n, k)
    BY <1>1, <1>2, <1>3, <1>5 DEF GetAssetMetaDataIfExists, ReissuedAsset, CachedAsset, Or, NameOK
  <1>6. CASE ~Reissues(b, n, k) /\ ~Issues(b, n, k)
    BY <1>1, <1>2, <1>3, <1>6 DEF GetAssetMetaDataIfExists, ReissuedAsset, CachedAsset, Or, NameOK
  <1> QED BY <1>4, <1>5, <1>6

(* A string is verified by an issue or a reissue. *)
LEMMA VerifiesBy ==
    ASSUME NEW b \in Seq(Txs), NEW k \in 0..Len(b), NEW n, Verifies(b, n, k)
    PROVE  Issues(b, n, k) \/ Reissues(b, n, k)
  <1>1. PICK i \in 1..k : b[i].kind # "transfer" /\ b[i].name = n
    BY DEF Verifies
  <1>2. i \in 1..Len(b)
    BY SMTT(60)
  <1>3. b[i].kind \in {"issue", "reissue", "transfer"}
    BY <1>2, InBlock, IssuanceAssumption
  <1> QED BY <1>1, <1>3 DEF Issues, Reissues

(* One more reissue, or none. *)
LEMMA OneMoreReissue ==
    ASSUME NEW b \in Seq(Txs), NEW k \in 1..Len(b)
    PROVE  ReissuesIn(b, k) =
             IF b[k].kind = "reissue" THEN ReissuesIn(b, k - 1) \cup {b[k]}
             ELSE ReissuesIn(b, k - 1)
  <1>1. 1..k = (1..(k - 1)) \cup {k}
    BY SMTT(60)
  <1>2. b[k] \in Txs
    BY InBlock
  <1> QED BY <1>1, <1>2 DEF ReissuesIn

(* The block's cache after one more issue ... *)
LEMMA ConnectIssue ==
    ASSUME OneIssue, NEW b \in Seq(Txs), NEW k \in 1..Len(b),
           LedgerOK(LedgerFrom(ledger, b, k - 1)), Growth(ledger, b, k - 1),
           Legal(LedgerFrom(ledger, b, k - 1), b[k]), b[k].kind = "issue",
           NEW c, InConnect(c, b, k - 1)
    PROVE  InConnect(AddNewAsset(c, b[k]), b, k)
  <1> DEFINE p == LedgerFrom(ledger, b, k - 1)
             m == LedgerFrom(ledger, b, k)
             t == b[k]
             d == AddNewAsset(c, t)
  <1>1. m = LedgerApply(p, t)
    BY LedgerSteps
  <1>2. t \in Txs /\ t.name \in Names /\ t.verifier \in STRING /\ k - 1 \in 0..Len(b)
    BY InBlock, IssuanceAssumption
  <1>3. Data(t.name) = Issued(t) /\ Issued(t) \in Assets
    BY <1>2, DataIssued
  <1>4. c \in Caches
    BY DEF InConnect
  <1>5. NewAssetIn(c, t, d)
    BY <1>2, <1>3, <1>4, NewAssetFields
  <1>13. d \in Caches /\ d.remove = c.remove \ {t.name} /\ d.reAdd = c.reAdd /\ d.reUndo = c.reUndo
    BY <1>5 DEF NewAssetIn
  <1>6. d.remove = {} /\ d.reUndo = {}
    BY <1>13 DEF InConnect
  <1>7. d.reAdd = ReissuesIn(b, k)
    BY <1>13, OneMoreReissue DEF InConnect
  <1>8. /\ \A q \in Names : t.name # q => m.asset[q] = p.asset[q] /\ m.verifier[q] = p.verifier[q]
        /\ t.verifier # "" => m.verifier[t.name] = t.verifier
    <2>1. LedgerOK(p) /\ Legal(p, t) /\ t.kind = "issue"
      OBVIOUS
    <2> HIDE DEF p, m, t
    <2>2. Changed(p, t, m)
      BY <1>1, <1>2, <2>1, Applied
    <2> QED BY <2>1, <2>2 DEF Changed
  <1>9. ~Issues(b, t.name, k - 1) /\ ~Reissues(b, t.name, k - 1)
    BY <1>2 DEF Legal, Growth
  <1>10. ~Verifies(b, t.name, k - 1)
    BY <1>2, <1>9, VerifiesBy
  <1>11. t.name \in Restricted <=> t.verifier # ""
    BY <1>2, IssuanceAssumption
  <1> HIDE DEF p, m, d
  <1>12. ASSUME NEW n \in Names
         PROVE  /\ d.add[n] = IF Issues(b, n, k) THEN Data(n) ELSE None
                /\ d.reissued[n] = IF Reissues(b, n, k) THEN m.asset[n] ELSE None
                /\ d.verAdd[n] = IF Verifies(b, n, k) THEN m.verifier[n] ELSE None
                /\ d.verUndo[n] = None
    <2>1. /\ c.add[n] = IF Issues(b, n, k - 1) THEN Data(n) ELSE None
          /\ c.reissued[n] = IF Reissues(b, n, k - 1) THEN p.asset[n] ELSE None
          /\ c.verAdd[n] = IF Verifies(b, n, k - 1) THEN p.verifier[n] ELSE None
          /\ c.verUndo[n] = None
      BY DEF InConnect, p
    <2>2. /\ Issues(b, n, k) <=> Issues(b, n, k - 1) \/ t.name = n
          /\ Reissues(b, n, k) <=> Reissues(b, n, k - 1)
          /\ Verifies(b, n, k) <=> Verifies(b, n, k - 1) \/ (t.name = n /\ t.verifier # "")
      BY OneMore
    <2>3. /\ d.add[n] = IF n = t.name /\ c.add[n] = None THEN Issued(t) ELSE c.add[n]
          /\ d.verAdd[n] = IF t.name \in Restricted /\ n = t.name /\ c.verAdd[n] = None
                           THEN t.verifier ELSE c.verAdd[n]
          /\ d.verUndo[n] = IF t.name \in Restricted /\ n = t.name THEN None ELSE c.verUndo[n]
          /\ d.reissued[n] = c.reissued[n]
      BY <1>5 DEF NewAssetIn
    <2> HIDE DEF t
    <2>4. CASE n = t.name
      BY <1>3, <1>8, <1>9, <1>10, <1>11, <2>1, <2>2, <2>3, <2>4
    <2>5. CASE n # t.name
      BY <1>8, <2>1, <2>2, <2>3, <2>5
    <2> QED BY <2>4, <2>5
  <1> QED BY <1>6, <1>7, <1>12, <1>13 DEF InConnect, m, d

(* ... or one more reissue. *)
LEMMA ConnectReissue ==
    ASSUME OneIssue, NEW b \in Seq(Txs), NEW k \in 1..Len(b),
           LedgerOK(LedgerFrom(ledger, b, k - 1)),
           Legal(LedgerFrom(ledger, b, k - 1), b[k]), b[k].kind = "reissue",
           b[k].verifier # "" => ~Verifies(b, b[k].name, k - 1),
           NEW w \in Works, InConnect(w.cache, b, k - 1),
           GetAssetMetaDataIfExists(w, b[k].name) = LedgerFrom(ledger, b, k - 1).asset[b[k].name]
    PROVE  InConnect(AddReissueAsset(w, b[k]), b, k)
  <1> DEFINE p == LedgerFrom(ledger, b, k - 1)
             m == LedgerFrom(ledger, b, k)
             t == b[k]
             c == w.cache
             r == Reissued(GetAssetMetaDataIfExists(w, t.name), t)
             d == AddReissueAsset(w, t)
  <1>1. m = LedgerApply(p, t)
    BY LedgerSteps
  <1>2. t \in Txs /\ t.name \in Names /\ t.verifier \in STRING /\ k - 1 \in 0..Len(b)
    BY InBlock, IssuanceAssumption
  <1>3. p.asset[t.name] \in Assets
    <2>1. p.asset \in [Names -> Assets \cup {None}]
      BY LedgerParts
    <2> QED BY <1>2, <2>1 DEF Legal
  <1>4. r \in Assets
    BY <1>2, <1>3, ReissuedAssets DEF Legal
  <1>5. ReissueIn(c, t, r, d)
    BY <1>2, <1>4, ReissueFields
  <1>10. /\ d \in Caches /\ d.add = c.add /\ d.remove = c.remove
         /\ d.reAdd = c.reAdd \cup {t} /\ d.reUndo = c.reUndo \ {t}
    BY <1>5 DEF ReissueIn
  <1>6. d.remove = {} /\ d.reUndo = {}
    BY <1>10 DEF InConnect
  <1>7. d.reAdd = ReissuesIn(b, k)
    BY <1>10, OneMoreReissue DEF InConnect
  <1>8. /\ \A q \in Names : t.name # q => m.asset[q] = p.asset[q]
        /\ \A q \in Names : t.name # q \/ t.verifier = "" => m.verifier[q] = p.verifier[q]
        /\ m.asset[t.name] = r
        /\ t.verifier # "" => m.verifier[t.name] = t.verifier
    <2>1. LedgerOK(p) /\ Legal(p, t) /\ t.kind = "reissue" /\ r = Reissued(p.asset[t.name], t)
      OBVIOUS
    <2> HIDE DEF p, m, t, r
    <2>2. Changed(p, t, m)
      BY <1>1, <1>2, <2>1, Applied
    <2> QED BY <2>1, <2>2 DEF Changed
  <1> HIDE DEF p, m, d, r
  <1>9. ASSUME NEW n \in Names
        PROVE  /\ d.add[n] = IF Issues(b, n, k) THEN Data(n) ELSE None
               /\ d.reissued[n] = IF Reissues(b, n, k) THEN m.asset[n] ELSE None
               /\ d.verAdd[n] = IF Verifies(b, n, k) THEN m.verifier[n] ELSE None
               /\ d.verUndo[n] = None
    <2>1. /\ c.add[n] = IF Issues(b, n, k - 1) THEN Data(n) ELSE None
          /\ c.reissued[n] = IF Reissues(b, n, k - 1) THEN p.asset[n] ELSE None
          /\ c.verAdd[n] = IF Verifies(b, n, k - 1) THEN p.verifier[n] ELSE None
          /\ c.verUndo[n] = None
      BY DEF InConnect, p
    <2>2. /\ Issues(b, n, k) <=> Issues(b, n, k - 1)
          /\ Reissues(b, n, k) <=> Reissues(b, n, k - 1) \/ t.name = n
          /\ Verifies(b, n, k) <=> Verifies(b, n, k - 1) \/ (t.name = n /\ t.verifier # "")
      BY OneMore
    <2>3. /\ d.reissued[n] = IF n = t.name THEN r ELSE c.reissued[n]
          /\ d.verAdd[n] = IF t.verifier # "" /\ n = t.name /\ c.verAdd[n] = None
                           THEN t.verifier ELSE c.verAdd[n]
          /\ d.verUndo[n] = IF t.verifier # "" /\ n = t.name THEN None ELSE c.verUndo[n]
      BY <1>5 DEF ReissueIn
    <2>4. t.verifier # "" => ~Verifies(b, t.name, k - 1)
      OBVIOUS
    <2> HIDE DEF t, c
    <2>5. CASE n = t.name
      BY <1>8, <1>10, <2>1, <2>2, <2>3, <2>4, <2>5
    <2>6. CASE n # t.name
      BY <1>8, <1>10, <2>1, <2>2, <2>3, <2>6
    <2> QED BY <2>5, <2>6
  <1> QED BY <1>6, <1>7, <1>9, <1>10 DEF InConnect, m, d

(* A transfer leaves the block's cache and the ledger alone. *)
LEMMA ConnectTransfer ==
    ASSUME NEW b \in Seq(Txs), NEW k \in 1..Len(b), b[k].kind = "transfer",
           NEW c, InConnect(c, b, k - 1)
    PROVE  InConnect(c, b, k)
  <1>1. LedgerFrom(ledger, b, k) = LedgerFrom(ledger, b, k - 1)
    BY LedgerSteps DEF LedgerApply
  <1>2. ReissuesIn(b, k) = ReissuesIn(b, k - 1)
    BY OneMoreReissue
  <1>3. \A n \in Names : /\ Issues(b, n, k) <=> Issues(b, n, k - 1)
                         /\ Reissues(b, n, k) <=> Reissues(b, n, k - 1)
                         /\ Verifies(b, n, k) <=> Verifies(b, n, k - 1)
    BY OneMore
  <1> QED BY <1>1, <1>2, <1>3 DEF InConnect

(* No other transaction of the block changes what a reissue changes. *)
LEMMA OneReissue ==
    ASSUME PlainBlocks, NEW b \in Blocks, NEW k \in 1..Len(b), b[k].kind = "reissue"
    PROVE  /\ ~Reissues(b, b[k].name, k - 1)
           /\ b[k].verifier # "" => ~Verifies(b, b[k].name, k - 1)
           /\ b[k].verifier # "" => ~Issues(b, b[k].name, k - 1)
           /\ \A i \in 1..Len(b) : b[i].kind = "reissue" /\ i # k => b[i].name # b[k].name
  <1>1. b \in Seq(Txs)
    BY IssuanceAssumption
  <1>2. /\ DOMAIN b = 1..Len(b) /\ \A i \in 1..(k - 1) : i \in 1..Len(b) /\ i # k
        /\ \A i \in 1..Len(b) : b[i] \in Txs
    BY <1>1, InBlock
  <1>3. \A i \in 1..Len(b) : i # k /\ b[i].kind # "transfer" /\ b[i].name = b[k].name
            => b[i].kind = "issue" /\ b[k].verifier = ""
    BY <1>2 DEF PlainBlocks
  <1> QED BY <1>2, <1>3 DEF Reissues, Verifies, Issues

(* A transaction that is no reissue writes no undo data. *)
LEMMA UndoSame ==
    ASSUME NEW b \in Seq(Txs), NEW k \in 1..Len(b), b[k].kind # "reissue", NEW l, NEW undo,
           UndoFor(undo, l, b, k - 1)
    PROVE  UndoFor(undo, l, b, k)
  <1>1. 1..k = (1..(k - 1)) \cup {k}
    BY SMTT(60)
  <1>2. \A n : Reissues(b, n, k) <=> Reissues(b, n, k - 1)
    BY OneMore
  <1> QED BY <1>1, <1>2 DEF UndoFor

(* What an undo item holds. *)
LEMMA ItemFields ==
    ASSUME NEW l, NEW t
    PROVE  /\ ItemOf(l, t).name = t.name
           /\ ItemOf(l, t).ipfs = IF t.ipfs # "" THEN l.asset[t.name].ipfs ELSE None
           /\ ItemOf(l, t).units = IF t.units # -1 THEN l.asset[t.name].units ELSE None
           /\ ItemOf(l, t).verifier = IF t.verifier # "" THEN l.verifier[t.name] ELSE None
  BY DEF ItemOf

(* The undo item of an asset that is there. *)
LEMMA ItemTyped ==
    ASSUME NEW l, NEW t, t.name \in Names, l.verifier[t.name] \in STRING \cup {None},
           l.asset[t.name].ipfs \in STRING, l.asset[t.name].units \in Nat
    PROVE  ItemOf(l, t) \in Items /\ ItemOf(l, t).name = t.name
  <1> DEFINE i == IF t.ipfs # "" THEN l.asset[t.name].ipfs ELSE None
             u == IF t.units # -1 THEN l.asset[t.name].units ELSE None
             v == IF t.verifier # "" THEN l.verifier[t.name] ELSE None
  <1>1. i \in STRING \cup {None} /\ u \in Nat \cup {None} /\ v \in STRING \cup {None}
    OBVIOUS
  <1>2. ItemOf(l, t) = [name |-> t.name, ipfs |-> i, units |-> u, verifier |-> v]
    BY DEF ItemOf
  <1> HIDE DEF i, u, v
  <1>3. ItemOf(l, t) \in Items
    <2> DEFINE n == t.name
               A == STRING \cup {None}
               B == Nat \cup {None}
    <2>1. n \in Names /\ i \in A /\ u \in B /\ v \in A
      BY <1>1
    <2> HIDE DEF n, A, B
    <2>2. [name |-> n, ipfs |-> i, units |-> u, verifier |-> v]
            \in [name : Names, ipfs : A, units : B, verifier : A]
      BY <2>1
    <2> QED BY <1>2, <2>2 DEF Items, n, A, B
  <1> QED BY <1>3, ItemFields

(* Appending an item. *)
LEMMA OneItemMore ==
    ASSUME NEW S, NEW s \in Seq(S), NEW x \in S
    PROVE  /\ s \o <<x>> \in Seq(S) /\ Len(s) + 1 \in DOMAIN (s \o <<x>>)
           /\ (s \o <<x>>)[Len(s) + 1] = x
           /\ \A j \in DOMAIN s : /\ j \in DOMAIN (s \o <<x>>) /\ (s \o <<x>>)[j] = s[j]
                                  /\ j # Len(s) + 1
           /\ \A j \in DOMAIN (s \o <<x>>) : j # Len(s) + 1 => j \in DOMAIN s
  <1>1. <<x>> \in Seq(S) /\ Len(<<x>>) = 1 /\ <<x>>[1] = x
    BY SMTT(60)
  <1>2. s \o <<x>> \in Seq(S) /\ Len(s \o <<x>>) = Len(s) + 1
    BY <1>1, SMTT(60)
  <1>3. \A j \in 1..Len(s) : (s \o <<x>>)[j] = s[j]
    BY <1>1, SMTT(60)
  <1>4. (s \o <<x>>)[Len(s) + 1] = x
    BY <1>1, SMTT(60)
  <1>5. DOMAIN s = 1..Len(s) /\ DOMAIN (s \o <<x>>) = 1..(Len(s) + 1) /\ Len(s) \in Nat
    BY <1>2, SMTT(60)
  <1>6. /\ Len(s) + 1 \in 1..(Len(s) + 1)
        /\ \A j \in 1..Len(s) : j \in 1..(Len(s) + 1) /\ j # Len(s) + 1
        /\ \A j \in 1..(Len(s) + 1) : j # Len(s) + 1 => j \in 1..Len(s)
    BY <1>5, SMTT(60)
  <1> QED BY <1>2, <1>3, <1>4, <1>5, <1>6

(* A reissue writes an item if it changes more than the amount. *)
LEMMA UndoMore ==
    ASSUME PlainBlocks, NEW b \in Blocks, NEW k \in 1..Len(b), b[k].kind = "reissue", NEW l,
           LedgerOK(LedgerFrom(l, b, k - 1)),
           LedgerFrom(l, b, k - 1).asset[b[k].name] # None,
           NEW undo, UndoFor(undo, l, b, k - 1), NEW more,
           more = IF Changes(b[k]) THEN <<ItemOf(LedgerFrom(l, b, k - 1), b[k])>> ELSE <<>>
    PROVE  UndoFor(undo \o more, l, b, k)
  <1> DEFINE p == LedgerFrom(l, b, k - 1)
             t == b[k]
             x == ItemOf(p, t)
             new == undo \o more
  <1>1. b \in Seq(Txs)
    BY IssuanceAssumption
  <1>2. t \in Txs /\ t.name \in Names
    BY <1>1, InBlock, IssuanceAssumption
  <1>3. 1..k = (1..(k - 1)) \cup {k} /\ \A i \in 1..(k - 1) : i \in 1..Len(b) /\ i # k
    BY <1>1, InBlock, SMTT(60)
  <1>4. undo \in Seq(Items)
    BY DEF UndoFor
  <1>5. x \in Items /\ x.name = t.name
    <2>1. /\ p.asset \in [Names -> Assets \cup {None}]
          /\ p.verifier \in [Names -> STRING \cup {None}]
      BY LedgerParts
    <2>2. p.asset[t.name] \in Assets /\ p.verifier[t.name] \in STRING \cup {None}
      BY <1>2, <2>1
    <2>3. p.asset[t.name].ipfs \in STRING /\ p.asset[t.name].units \in Nat
      BY <2>2, SMTT(60) DEF Assets
    <2> HIDE DEF p, t
    <2> QED BY <1>2, <2>2, <2>3, ItemTyped
  <1>6. \A j \in DOMAIN undo : undo[j].name # t.name
    BY <1>2, OneReissue DEF UndoFor
  <1>7. \A j \in DOMAIN undo : Reissues(b, undo[j].name, k)
    BY <1>1, OneMore DEF UndoFor
  <1>8. Reissues(b, t.name, k)
    BY <1>1, OneMore
  <1>9. \A i \in 1..(k - 1) : b[i].kind = "reissue" =>
            b[i].name # t.name /\ HasItem(undo, LedgerFrom(l, b, i - 1), b[i])
    BY <1>3, OneReissue DEF UndoFor
  <1>10. CASE ~Changes(t)
    <2>1. new = undo
      BY <1>4, <1>10, SMTT(60)
    <2>2. HasItem(undo, p, t)
      BY <1>6, <1>10 DEF HasItem
    <2> QED BY <1>3, <1>4, <1>7, <1>9, <2>1, <2>2 DEF UndoFor
  <1>11. CASE Changes(t)
    <2> DEFINE e == Len(undo) + 1
    <2>1. more = <<x>>
      BY <1>11
    <2> HIDE DEF x, p, t
    <2>2. /\ new \in Seq(Items) /\ e \in DOMAIN new /\ new[e] = x
          /\ \A j \in DOMAIN undo : j \in DOMAIN new /\ new[j] = undo[j] /\ j # e
          /\ \A j \in DOMAIN new : j # e => j \in DOMAIN undo
      <3> DEFINE r == undo \o <<x>>
      <3>1. new = r
        BY <2>1
      <3>2. /\ r \in Seq(Items) /\ Len(undo) + 1 \in DOMAIN r /\ r[Len(undo) + 1] = x
            /\ \A j \in DOMAIN undo : j \in DOMAIN r /\ r[j] = undo[j] /\ j # Len(undo) + 1
            /\ \A j \in DOMAIN r : j # Len(undo) + 1 => j \in DOMAIN undo
        BY <1>4, <1>5, OneItemMore
      <3> HIDE DEF new, r
      <3> QED BY <3>1, <3>2
    <2> HIDE DEF new, e
    <2>3. \A j \in DOMAIN new : Reissues(b, new[j].name, k)
      BY <1>5, <1>7, <1>8, <2>2
    <2>6. \A j \in DOMAIN new : new[j].name = t.name => j = e
      BY <1>6, <2>2
    <2>7. e \in DOMAIN new /\ new[e] = ItemOf(p, t)
      BY <2>2 DEF x
    <2>4. HasItem(new, p, t)
      BY <1>11, <2>6, <2>7 DEF HasItem
    <2>5. ASSUME NEW i \in 1..(k - 1), b[i].kind = "reissue"
          PROVE  HasItem(new, LedgerFrom(l, b, i - 1), b[i])
      <3> DEFINE q == LedgerFrom(l, b, i - 1)
                 u == b[i]
      <3>1. u.name # t.name /\ HasItem(undo, q, u)
        BY <1>9, <2>5
      <3> HIDE DEF q, u
      <3>2. CASE Changes(u)
        <4>1. PICK h \in DOMAIN undo : /\ undo[h] = ItemOf(q, u)
                                       /\ \A j \in DOMAIN undo : undo[j].name = u.name => j = h
          BY <3>1, <3>2 DEF HasItem
        <4>2. h \in DOMAIN new /\ new[h] = ItemOf(q, u)
          BY <2>2, <4>1
        <4>3. \A j \in DOMAIN new : new[j].name = u.name => j = h
          BY <1>5, <2>2, <3>1, <4>1
        <4> QED BY <3>2, <4>2, <4>3 DEF HasItem, q, u
      <3>3. CASE ~Changes(u)
        <4>1. \A j \in DOMAIN new : new[j].name # u.name
          BY <1>5, <2>2, <3>1, <3>3 DEF HasItem
        <4> QED BY <3>3, <4>1 DEF HasItem, q, u
      <3> QED BY <3>2, <3>3
    <2> QED BY <1>3, <2>2, <2>3, <2>4, <2>5 DEF UndoFor, new, p, t
  <1> QED BY <1>10, <1>11

(* The work after k transactions of a block that is accepted so far. *)
Connecting(b, k) ==
    LET w == ConnectTxs(b, k) IN
    /\ w \in Works
    /\ w.ok => /\ Fresh(w.lru)
               /\ LegalTo(ledger, b, k)
               /\ InConnect(w.cache, b, k)
               /\ UndoFor(w.undo, ledger, b, k)
               /\ \A i \in 1..k : LedgerAccepts(LedgerFrom(ledger, b, i - 1), ledger, b[i])

(* What is accepted is what the rules accept. *)
LEMMA AcceptedLegal ==
    ASSUME StateOK, OneIssue, NEW b \in Blocks, CoinsExist(b), NEW k \in 1..Len(b),
           NEW w \in Works, Fresh(w.lru), InConnect(w.cache, b, k - 1),
           LedgerOK(LedgerFrom(ledger, b, k - 1)), Growth(ledger, b, k - 1),
           CheckTxAssets(w, b[k])
    PROVE  /\ LedgerAccepts(LedgerFrom(ledger, b, k - 1), ledger, b[k])
           /\ Legal(LedgerFrom(ledger, b, k - 1), b[k])
           /\ b[k].kind = "reissue" =>
                GetAssetMetaDataIfExists(w, b[k].name)
                    = LedgerFrom(ledger, b, k - 1).asset[b[k].name]
  <1> DEFINE p == LedgerFrom(ledger, b, k - 1)
             t == b[k]
  <1>1. b \in Seq(Txs)
    BY IssuanceAssumption
  <1>2. /\ t \in Txs /\ t.name \in Names /\ t.kind \in {"issue", "reissue", "transfer"}
        /\ k \in DOMAIN b /\ \A i \in 1..(k - 1) : b[i] \in Txs
    BY <1>1, InBlock, IssuanceAssumption
  <1>3. /\ t.kind # "issue" => p.asset[t.name] # None
        /\ \A i \in 1..(k - 1) : b[i] # t
    BY <1>2 DEF CoinsExist, LedgerAfter
  <1>4. CASE t.kind = "issue"
    <2>1. ~CheckIfAssetExists(w, t.name)
      BY <1>4 DEF CheckTxAssets
    <2>2. ledger.asset[t.name] = None
      BY <1>2, <2>1, ExistsExact DEF InConnect
    <2>3. ~Issues(b, t.name, k - 1)
      BY <1>2, <1>3, <1>4 DEF Issues, OneIssue
    <2>4. p.asset[t.name] = None
      BY <1>2, <2>2, <2>3 DEF Growth
    <2> QED BY <1>4, <2>4 DEF LedgerAccepts, Legal
  <1>5. CASE t.kind = "reissue"
    <2>1. ContextualCheckReissueAsset(w, t)
      BY <1>5 DEF CheckTxAssets
    <2>4. GetAssetMetaDataIfExists(w, t.name) # None /\ p.asset[t.name] # None
      BY <1>3, <1>5, <2>1 DEF ContextualCheckReissueAsset
    <2>2. GetAssetMetaDataIfExists(w, t.name) = p.asset[t.name]
      BY <1>2, <2>4, MetaDataExact
    <2> HIDE DEF p, t
    <2>3. /\ p.asset[t.name].reissuable
          /\ p.asset[t.name].amount + t.amount <= MaxMoney
          /\ t.units # -1 => t.units >= p.asset[t.name].units
      BY <2>1, <2>2 DEF ContextualCheckReissueAsset
    <2> QED BY <1>3, <1>5, <2>2, <2>3 DEF LedgerAccepts, Legal, p, t
  <1>6. CASE t.kind = "transfer"
    <2>1. t.name \in Restricted => GetAssetVerifierStringIfExists(w, t.name, TRUE) # None
      BY <1>6 DEF CheckTxAssets
    <2>2. t.name \in Restricted => ledger.asset[t.name] # None
      BY <2>1, VerifierShows
    <2> QED BY <1>6, <2>2 DEF LedgerAccepts, Legal
  <1> QED BY <1>2, <1>4, <1>5, <1>6

(* One more transaction of a block that is connected. *)
LEMMA ConnectStep ==
    ASSUME StateOK, OneIssue, PlainBlocks, NEW b \in Blocks, CoinsExist(b), NEW k \in 1..Len(b),
           Connecting(b, k - 1)
    PROVE  Connecting(b, k)
  <1> DEFINE w == ConnectTxs(b, k - 1)
             v == ConnectTxs(b, k)
             t == b[k]
             p == LedgerFrom(ledger, b, k - 1)
             x == Looked(w, t)
             Good == w.ok /\ CheckTxAssets(w, t)
  <1>1. b \in Seq(Txs)
    BY IssuanceAssumption
  <1>2. /\ v = ConnectTx(w, t) /\ w \in Works
        /\ t \in Txs /\ t.name \in Names /\ t.kind \in {"issue", "reissue", "transfer"}
        /\ k - 1 \in 0..Len(b) /\ k - 1 \in 0..(k - 1)
        /\ 1..k = (1..(k - 1)) \cup {k}
    <2>1. k - 1 \in 0..(k - 1) /\ 1..k = (1..(k - 1)) \cup {k}
      BY SMTT(60)
    <2> QED BY <1>1, <2>1, ConnectSteps, InBlock, IssuanceAssumption DEF Connecting
  <1>3. CASE ~Good
    <2>1. v = [w EXCEPT !.ok = FALSE]
      BY <1>2, <1>3 DEF ConnectTx
    <2> HIDE DEF v, w
    <2>2. v \in Works
      BY <1>2, <2>1 DEF Works
    <2>3. ~v.ok
      BY <1>2, <2>1, SMTT(60) DEF Works
    <2> QED BY <2>2, <2>3 DEF Connecting, v
  <1>4. CASE Good
    <2>1. /\ Fresh(w.lru) /\ LegalTo(ledger, b, k - 1) /\ InConnect(w.cache, b, k - 1)
          /\ UndoFor(w.undo, ledger, b, k - 1)
          /\ \A i \in 1..(k - 1) : LedgerAccepts(LedgerFrom(ledger, b, i - 1), ledger, b[i])
      BY <1>4 DEF Connecting
    <2>2. LedgerOK(p) /\ Growth(ledger, b, k - 1)
      BY <1>1, <1>2, <2>1, GrowthTo DEF StateOK
    <2>3. /\ LedgerAccepts(p, ledger, t) /\ Legal(p, t)
          /\ t.kind = "reissue" => GetAssetMetaDataIfExists(w, t.name) = p.asset[t.name]
      BY <1>2, <1>4, <2>1, <2>2, AcceptedLegal
    <2>4. /\ LegalTo(ledger, b, k)
          /\ \A i \in 1..k : LedgerAccepts(LedgerFrom(ledger, b, i - 1), ledger, b[i])
      BY <1>2, <2>1, <2>3 DEF LegalTo
    <2>5. x \in Works /\ Fresh(x.lru) /\ x.cache = w.cache /\ x.undo = w.undo
      BY <1>2, <2>1, LookedLooks DEF StateOK, Looks
    <2>6. CASE t.kind = "issue"
      <3> DEFINE d == AddNewAsset(w.cache, t)
      <3>1. InConnect(d, b, k)
        BY <1>1, <2>1, <2>2, <2>3, <2>6, ConnectIssue
      <3>2. UndoFor(w.undo, ledger, b, k)
        BY <1>1, <2>1, <2>6, UndoSame
      <3>3. v = [x EXCEPT !.cache = d]
        BY <1>2, <1>4, <2>5, <2>6 DEF ConnectTx
      <3>4. d \in Caches
        BY <3>1 DEF InConnect
      <3> HIDE DEF x, d, v
      <3>5. v \in Works /\ v.lru = x.lru /\ v.undo = x.undo /\ v.cache = d
        BY <2>5, <3>3, <3>4, SMTT(60) DEF Works
      <3> QED BY <2>4, <2>5, <3>1, <3>2, <3>5 DEF Connecting, v
    <2>7. CASE t.kind = "reissue"
      <3> DEFINE d == AddReissueAsset(w, t)
                 u == UndoData(w, t)
      <3>1. p.asset[t.name] # None
        BY <2>3, <2>7 DEF Legal
      <3>2. InConnect(d, b, k)
        BY <1>1, <1>2, <2>1, <2>2, <2>3, <2>7, OneReissue, ConnectReissue
      <3>3. t.verifier # "" => GetAssetVerifierStringIfExists(w, t.name, FALSE) = p.verifier[t.name]
        <4>1. SUFFICES ASSUME t.verifier # ""
                       PROVE  GetAssetVerifierStringIfExists(w, t.name, FALSE) = p.verifier[t.name]
          OBVIOUS
        <4>2. ~Verifies(b, t.name, k - 1) /\ ~Issues(b, t.name, k - 1)
          BY <2>7, <4>1, OneReissue
        <4>3. p.verifier[t.name] = ledger.verifier[t.name] /\ ledger.asset[t.name] # None
          BY <1>2, <2>2, <3>1, <4>2 DEF Growth
        <4>4. w.cache.verUndo[t.name] = None /\ w.cache.verAdd[t.name] = None
          BY <1>2, <2>1, <4>2 DEF InConnect, Absent
        <4>5. t.name \in Restricted
          BY <1>2, <4>1, IssuanceAssumption
        <4> QED BY <1>2, <2>1, <4>3, <4>4, <4>5, VerifierKept
      <3>4. u = IF Changes(t) THEN <<ItemOf(p, t)>> ELSE <<>>
        BY <2>3, <2>7, <3>3 DEF UndoData, Changes, ItemOf
      <3>5. UndoFor(w.undo \o u, ledger, b, k)
        BY <2>1, <2>2, <2>7, <3>1, <3>4, UndoMore
      <3>6. v = [x EXCEPT !.cache = d, !.undo = @ \o u]
        BY <1>2, <1>4, <2>7 DEF ConnectTx
      <3>7. d \in Caches /\ w.undo \o u \in Seq(Items)
        BY <3>2, <3>5 DEF InConnect, UndoFor
      <3> DEFINE y == w.undo \o u
      <3>9. v = [x EXCEPT !.cache = d, !.undo = y] /\ y \in Seq(Items)
        BY <2>5, <3>6, <3>7
      <3> HIDE DEF x, d, v, u, y
      <3>10. v \in Works
        BY <2>5, <3>7, <3>9 DEF Works
      <3>12. v.lru = x.lru
        BY <2>5, <3>9, SMTT(60) DEF Works
      <3>13. v.undo = y
        BY <2>5, <3>9, SMTT(60) DEF Works
      <3>14. v.cache = d
        BY <2>5, <3>9, SMTT(60) DEF Works
      <3>8. v \in Works /\ v.lru = x.lru /\ v.undo = y /\ v.cache = d
        BY <3>10, <3>12, <3>13, <3>14
      <3> QED BY <2>4, <2>5, <3>2, <3>5, <3>8 DEF Connecting, v, y
    <2>8. CASE t.kind = "transfer"
      <3>1. InConnect(w.cache, b, k)
        BY <1>1, <2>1, <2>8, ConnectTransfer
      <3>2. UndoFor(w.undo, ledger, b, k)
        BY <1>1, <2>1, <2>8, UndoSame
      <3>3. v = x
        BY <1>2, <1>4, <2>8 DEF ConnectTx
      <3> QED BY <2>4, <2>5, <3>1, <3>2, <3>3 DEF Connecting
    <2> QED BY <1>2, <2>6, <2>7, <2>8
  <1> QED BY <1>3, <1>4

(* At the start of a block. *)
LEMMA StartOK ==
    ASSUME StateOK
    PROVE  /\ Start \in Works /\ Start.cache = Empty /\ Start.lru = lru /\ Fresh(Start.lru)
           /\ Start.undo = <<>> /\ Start.ok /\ Empty \in Caches
  <1>1. Absent \in MaybeAsset /\ Absent \in [Names -> STRING \cup {None, Gone}]
    BY DEF Absent, MaybeAsset
  <1>2. Empty \in Caches
    BY <1>1, SMTT(60) DEF Empty, Caches
  <1>3. lru \in Lookups
    BY DEF StateOK, Fresh
  <1>4. /\ Start.cache = Empty /\ Start.lru = lru /\ Start.undo = <<>> /\ Start.ok
        /\ Start \in Works
    BY <1>2, <1>3, SMTT(60) DEF Start, Works
  <1> QED BY <1>2, <1>4 DEF StateOK

(* The whole block. *)
LEMMA ConnectAll ==
    ASSUME StateOK, OneIssue, PlainBlocks, NEW b \in Blocks, CoinsExist(b)
    PROVE  Connecting(b, Len(b))
  <1> DEFINE S == {k \in 0..Len(b) : Connecting(b, k)}
  <1>1. b \in Seq(Txs)
    BY IssuanceAssumption
  <1>2. Len(b) \in Nat /\ 0 \in 0..Len(b) /\ Len(b) \in 0..Len(b) /\ 1..0 = {}
    BY <1>1, SMTT(60)
  <1>3. ConnectTxs(b, 0) = Start
    BY <1>1, ConnectSteps
  <1>4. InConnect(Empty, b, 0)
    <2>1. /\ Empty.remove = {} /\ Empty.reUndo = {} /\ Empty.reAdd = {}
          /\ Empty.verUndo = Absent /\ Empty.add = Absent /\ Empty.reissued = Absent
          /\ Empty.verAdd = Absent
      BY DEF Empty
    <2>2. ReissuesIn(b, 0) = {}
      BY <1>2 DEF ReissuesIn
    <2> QED BY <2>1, <2>2, StartOK, NoneYet DEF InConnect, Absent
  <1>5. UndoFor(<<>>, ledger, b, 0)
    <2>1. <<>> \in Seq(Items) /\ DOMAIN <<>> = {}
      BY SMTT(60)
    <2> QED BY <1>2, <2>1 DEF UndoFor
  <1>6. 0 \in S
    BY <1>2, <1>3, <1>4, <1>5, StartOK DEF Connecting, LegalTo
  <1>7. ASSUME NEW k \in 1..Len(b), k - 1 \in S PROVE k \in S
    BY <1>1, <1>7, InBlock, ConnectStep
  <1>8. \A k \in 0..Len(b) : k \in S
    <2> HIDE DEF S
    <2> QED BY <1>2, <1>6, <1>7, Loop
  <1> QED BY <1>2, <1>8

-----------------------------------------------------------------------------
(* Flushing the cache of a block *)

(* What Flush makes of each field. *)
LEMMA FlushFields ==
    ASSUME passets \in Caches, NEW c \in Caches
    PROVE  LET f == Flush(c) IN
           /\ f \in Caches
           /\ f.reAdd = (passets.reAdd \cup c.reAdd) \ c.reUndo
           /\ f.reUndo = (passets.reUndo \ c.reAdd) \cup c.reUndo
           /\ \A n \in Names :
                /\ f.add[n] = IF n \in c.remove THEN None ELSE Or(passets.add[n], c.add[n])
                /\ n \in f.remove <=> (n \in passets.remove /\ c.add[n] = None) \/ n \in c.remove
                /\ f.reissued[n] = Or(c.reissued[n], passets.reissued[n])
                /\ f.verAdd[n] = IF c.verUndo[n] # None THEN None
                                 ELSE Or(c.verAdd[n], passets.verAdd[n])
                /\ f.verUndo[n] = Or(c.verUndo[n], IF c.verAdd[n] # None THEN None
                                                   ELSE passets.verUndo[n])
  <1> DEFINE f == Flush(c)
             p == passets
             fa == Without(Overwrite(p.add, c.add), c.remove)
             fr == (p.remove \ Keys(c.add)) \cup c.remove
             fx == Overwrite(c.reissued, p.reissued)
             fp == (p.reAdd \cup c.reAdd) \ c.reUndo
             fu == (p.reUndo \ c.reAdd) \cup c.reUndo
             va == Without(Overwrite(c.verAdd, p.verAdd), Keys(c.verUndo))
             vu == Overwrite(c.verUndo, Without(p.verUndo, Keys(c.verAdd)))
  <1>1. f = [add |-> fa, remove |-> fr, reissued |-> fx, reAdd |-> fp, reUndo |-> fu,
             verAdd |-> va, verUndo |-> vu]
    BY DEF Flush
  <1>2. /\ fa = [n \in Names |-> IF n \in c.remove THEN None ELSE Or(p.add[n], c.add[n])]
        /\ fx = [n \in Names |-> Or(c.reissued[n], p.reissued[n])]
        /\ va = [n \in Names |-> IF c.verUndo[n] # None THEN None ELSE Or(c.verAdd[n], p.verAdd[n])]
        /\ vu = [n \in Names |-> Or(c.verUndo[n], IF c.verAdd[n] # None THEN None
                                                  ELSE p.verUndo[n])]
    BY DEF Without, Overwrite, Keys, Or
  <1>3. \A n \in Names : n \in fr <=> (n \in p.remove /\ c.add[n] = None) \/ n \in c.remove
    BY DEF Keys
  <1> DEFINE V == STRING \cup {None, Gone}
  <1>4. /\ c.add \in [Names -> Assets \cup {None}] /\ p.add \in [Names -> Assets \cup {None}]
        /\ c.reissued \in [Names -> Assets \cup {None}]
        /\ p.reissued \in [Names -> Assets \cup {None}]
        /\ c.verAdd \in [Names -> V] /\ p.verAdd \in [Names -> V]
        /\ c.verUndo \in [Names -> V] /\ p.verUndo \in [Names -> V]
        /\ c.remove \in SUBSET Names /\ p.remove \in SUBSET Names
        /\ c.reAdd \in SUBSET Txs /\ p.reAdd \in SUBSET Txs
        /\ c.reUndo \in SUBSET Txs /\ p.reUndo \in SUBSET Txs
    BY CacheParts DEF MaybeAsset
  <1>5. fa \in [Names -> Assets \cup {None}] /\ fx \in [Names -> Assets \cup {None}]
    BY <1>2, <1>4, SMTT(60) DEF Or
  <1>6. va \in [Names -> V] /\ vu \in [Names -> V]
    <2>1. None \in V /\ \A x, y \in V : Or(x, y) \in V
      BY DEF Or
    <2> HIDE DEF V
    <2>2. ASSUME NEW n \in Names
          PROVE  /\ (IF c.verUndo[n] # None THEN None ELSE Or(c.verAdd[n], p.verAdd[n])) \in V
                 /\ Or(c.verUndo[n], IF c.verAdd[n] # None THEN None ELSE p.verUndo[n]) \in V
      <3>1. c.verAdd[n] \in V /\ p.verAdd[n] \in V /\ c.verUndo[n] \in V /\ p.verUndo[n] \in V
        BY <1>4
      <3> QED BY <2>1, <3>1
    <2> HIDE DEF va, vu
    <2> QED BY <1>2, <2>2
  <1>7. fr \in SUBSET Names /\ fp \in SUBSET Txs /\ fu \in SUBSET Txs
    BY <1>4
  <1> HIDE DEF f, fa, fr, fx, fp, fu, va, vu
  <1>8. f \in Caches
    BY <1>1, <1>5, <1>6, <1>7, SMTT(60) DEF Caches, MaybeAsset
  <1>9. /\ f.add = fa /\ f.remove = fr /\ f.reissued = fx /\ f.reAdd = fp /\ f.reUndo = fu
        /\ f.verAdd = va /\ f.verUndo = vu
    BY <1>1
  <1>10. ASSUME NEW n \in Names
         PROVE  /\ f.add[n] = IF n \in c.remove THEN None ELSE Or(passets.add[n], c.add[n])
                /\ n \in f.remove <=> (n \in passets.remove /\ c.add[n] = None) \/ n \in c.remove
                /\ f.reissued[n] = Or(c.reissued[n], passets.reissued[n])
                /\ f.verAdd[n] = IF c.verUndo[n] # None THEN None
                                 ELSE Or(c.verAdd[n], passets.verAdd[n])
                /\ f.verUndo[n] = Or(c.verUndo[n], IF c.verAdd[n] # None THEN None
                                                   ELSE passets.verUndo[n])
    <2>1. /\ fa[n] = IF n \in c.remove THEN None ELSE Or(p.add[n], c.add[n])
          /\ fx[n] = Or(c.reissued[n], p.reissued[n])
          /\ va[n] = IF c.verUndo[n] # None THEN None ELSE Or(c.verAdd[n], p.verAdd[n])
          /\ vu[n] = Or(c.verUndo[n], IF c.verAdd[n] # None THEN None ELSE p.verUndo[n])
      BY <1>2
    <2> QED BY <1>3, <1>9, <2>1
  <1> QED BY <1>8, <1>9, <1>10 DEF f, fp, fu

(* After a block is connected. *)
LEMMA FlushConnected ==
    ASSUME StateOK, OneIssue, NEW b \in Seq(Txs), NEW k \in 0..Len(b), NEW c, InConnect(c, b, k),
           Growth(ledger, b, k), LedgerOK(LedgerFrom(ledger, b, k)), NEW n \in Names
    PROVE  /\ NameOK(db, Flush(c), LedgerFrom(ledger, b, k), n)
           /\ VerifierOK(db, Flush(c), LedgerFrom(ledger, b, k), n)
  <1> DEFINE f == Flush(c)
             m == LedgerFrom(ledger, b, k)
  <1>1. c \in Caches /\ c.remove = {} /\ c.reUndo = {} /\ c.verUndo[n] = None
    BY DEF InConnect
  <1>2. /\ c.add[n] = IF Issues(b, n, k) THEN Data(n) ELSE None
        /\ c.reissued[n] = IF Reissues(b, n, k) THEN m.asset[n] ELSE None
        /\ c.verAdd[n] = IF Verifies(b, n, k) THEN m.verifier[n] ELSE None
        /\ c.reAdd = ReissuesIn(b, k)
    BY DEF InConnect
  <1>3. /\ f.reAdd \cup f.reUndo = passets.reAdd \cup passets.reUndo \cup c.reAdd
        /\ f.add[n] = Or(passets.add[n], c.add[n])
        /\ n \in f.remove <=> n \in passets.remove /\ c.add[n] = None
        /\ f.reissued[n] = Or(c.reissued[n], passets.reissued[n])
        /\ f.verAdd[n] = Or(c.verAdd[n], passets.verAdd[n])
        /\ f.verUndo[n] = IF c.verAdd[n] # None THEN None ELSE passets.verUndo[n]
    BY <1>1, FlushFields DEF StateOK, Or
  <1>4. NameOK(db, passets, ledger, n) /\ VerifierOK(db, passets, ledger, n)
    BY DEF StateOK
  <1>5. /\ ~Issues(b, n, k) /\ ~Reissues(b, n, k) => m.asset[n] = ledger.asset[n]
        /\ Issues(b, n, k) /\ ~Reissues(b, n, k) => m.asset[n] = Data(n)
        /\ Issues(b, n, k) => ledger.asset[n] = None
        /\ Issues(b, n, k) \/ Reissues(b, n, k) \/ ledger.asset[n] # None => m.asset[n] # None
        /\ m.asset[n] # None => ledger.asset[n] # None \/ Issues(b, n, k)
        /\ ~Verifies(b, n, k) => m.verifier[n] = ledger.verifier[n]
    BY DEF Growth
  <1>6. Issues(b, n, k) => Data(n) # None /\ (n \in Restricted => Verifies(b, n, k))
    <2>1. SUFFICES ASSUME NEW i \in 1..k, b[i].kind = "issue", b[i].name = n
                   PROVE  Data(n) # None /\ (n \in Restricted => Verifies(b, n, k))
      BY DEF Issues
    <2>2. b[i] \in Txs
      <3>1. i \in 1..Len(b)
        BY SMTT(60)
      <3> QED BY <3>1, InBlock
    <2>3. n \in Restricted => b[i].verifier # ""
      BY <2>1, <2>2, IssuanceAssumption
    <2> QED BY <2>1, <2>2, <2>3, DataIssued DEF Verifies
  <1>7. Reissues(b, n, k) => \E t \in c.reAdd : t.name = n
    <2>1. SUFFICES ASSUME NEW i \in 1..k, b[i].kind = "reissue", b[i].name = n
                   PROVE  b[i] \in c.reAdd
      BY DEF Reissues
    <2>2. b[i] \in Txs
      <3>1. i \in 1..Len(b)
        BY SMTT(60)
      <3> QED BY <3>1, InBlock
    <2> QED BY <1>2, <2>1, <2>2 DEF ReissuesIn
  <1>8. Verifies(b, n, k) => m.asset[n] # None /\ n \in Restricted
    <2>1. SUFFICES ASSUME NEW i \in 1..k, b[i].name = n, b[i].verifier # "", Verifies(b, n, k)
                   PROVE  m.asset[n] # None /\ n \in Restricted
      BY DEF Verifies
    <2>2. b[i] \in Txs
      <3>1. i \in 1..Len(b)
        BY SMTT(60)
      <3> QED BY <3>1, InBlock
    <2>3. n \in Restricted
      BY <2>1, <2>2, IssuanceAssumption
    <2> QED BY <1>5, <2>1, <2>3, VerifiesBy
  <1>9. n \in Restricted => (m.asset[n] # None <=> m.verifier[n] # None)
    BY DEF LedgerOK
  <1> HIDE DEF f, m
  <1>10. NameOK(db, f, m, n)
    <2>1. f.reissued[n] # None => \E t \in f.reAdd \cup f.reUndo : t.name = n
      BY <1>2, <1>3, <1>4, <1>7 DEF NameOK, Or
    <2>2. CASE Issues(b, n, k)
      BY <1>2, <1>3, <1>4, <1>5, <1>6, <2>1, <2>2 DEF NameOK, Or
    <2>3. CASE ~Issues(b, n, k)
      BY <1>2, <1>3, <1>4, <1>5, <2>1, <2>3 DEF NameOK, Or
    <2> QED BY <2>2, <2>3
  <1>11. VerifierOK(db, f, m, n)
    <2>1. CASE Verifies(b, n, k)
      BY <1>2, <1>3, <1>4, <1>8, <1>9, <2>1 DEF VerifierOK, Or
    <2>2. CASE ~Verifies(b, n, k)
      <3>1. f.verAdd[n] = passets.verAdd[n] /\ f.verUndo[n] = passets.verUndo[n]
        BY <1>2, <1>3, <2>2 DEF Or
      <3>2. n \in Restricted => ~Issues(b, n, k)
        BY <1>6, <2>2
      <3>3. /\ m.verifier[n] = ledger.verifier[n]
            /\ n \in Restricted => (m.asset[n] # None <=> ledger.asset[n] # None)
        BY <1>5, <2>2, <3>2
      <3> QED BY <1>4, <3>1, <3>3 DEF VerifierOK
    <2> QED BY <2>1, <2>2
  <1> QED BY <1>10, <1>11 DEF f, m

-----------------------------------------------------------------------------
(* Disconnecting a block *)

(* A block and its undo data that lead from l to the ledger. *)
Undoable(l, b, undo) ==
    /\ b \in Blocks /\ LedgerOK(l) /\ LegalTo(l, b, Len(b)) /\ UndoFor(undo, l, b, Len(b))
    /\ ledger = LedgerFrom(l, b, Len(b))

(* What the transactions of b after the j-th do to n. *)
IssuesAfter(b, n, j) == \E i \in (j + 1)..Len(b) : b[i].kind = "issue" /\ b[i].name = n
ReissuesAfter(b, n, j) == \E i \in (j + 1)..Len(b) : b[i].kind = "reissue" /\ b[i].name = n
RevisesAfter(b, n, j) ==
    \E i \in (j + 1)..Len(b) : b[i].kind = "reissue" /\ b[i].name = n /\ b[i].verifier # ""

(* The data of n before the block reissues it. *)
Base(l, b, n) == IF Issues(b, n, Len(b)) THEN Data(n) ELSE l.asset[n]

(* The block's cache when the transactions after the j-th are undone. *)
InDisconnect(c, l, b, j) ==
    /\ c \in Caches
    /\ c.reAdd = {}
    /\ c.remove = {n \in Names : IssuesAfter(b, n, j)}
    /\ c.reUndo = {t \in Txs : t.kind = "reissue" /\ \E i \in (j + 1)..Len(b) : b[i] = t}
    /\ \A n \in Names :
        /\ c.add[n] = None /\ c.verAdd[n] = None
        /\ c.reissued[n] = IF ReissuesAfter(b, n, j) THEN Base(l, b, n) ELSE None
        /\ c.verUndo[n] = IF IssuesAfter(b, n, j) /\ n \in Restricted THEN Gone
                          ELSE IF RevisesAfter(b, n, j) THEN l.verifier[n] ELSE None

(* Along a legal block. *)
LEMMA UndoableGrowth ==
    ASSUME OneIssue, NEW l, NEW b, NEW undo, Undoable(l, b, undo)
    PROVE  /\ b \in Seq(Txs) /\ Len(b) \in Nat
           /\ \A k \in 0..Len(b) : LedgerOK(LedgerFrom(l, b, k)) /\ Growth(l, b, k)
           /\ \A k \in 1..Len(b) : Legal(LedgerFrom(l, b, k - 1), b[k])
  <1>1. b \in Seq(Txs)
    BY IssuanceAssumption DEF Undoable
  <1>2. Len(b) \in Nat /\ Len(b) \in 0..Len(b)
    BY <1>1, SMTT(60)
  <1>3. \A k \in 0..Len(b) : LedgerOK(LedgerFrom(l, b, k)) /\ Growth(l, b, k)
    BY <1>1, <1>2, GrowthTo DEF Undoable
  <1> QED BY <1>1, <1>2, <1>3 DEF Undoable, LegalTo

(* A name that was issued or reissued is not issued after that. *)
LEMMA NoLaterIssue ==
    ASSUME OneIssue, NEW l, NEW b, NEW undo, Undoable(l, b, undo), NEW i \in 1..Len(b),
           b[i].kind # "transfer"
    PROVE  ~IssuesAfter(b, b[i].name, i) /\ ledger.asset[b[i].name] # None
  <1> DEFINE n == b[i].name
  <1>1. b \in Seq(Txs) /\ Len(b) \in Nat
    BY UndoableGrowth
  <1>2. b[i] \in Txs /\ n \in Names /\ b[i].kind \in {"issue", "reissue", "transfer"}
    BY <1>1, InBlock, IssuanceAssumption
  <1>3. ASSUME NEW k \in i..Len(b) PROVE LedgerFrom(l, b, k).asset[n] # None
    <2>1. i \in 1..k /\ k \in 0..Len(b)
      BY <1>1, SMTT(60)
    <2>2. Issues(b, n, k) \/ Reissues(b, n, k)
      BY <1>2, <2>1 DEF Issues, Reissues
    <2>3. Growth(l, b, k)
      BY <2>1, UndoableGrowth
    <2> QED BY <1>2, <2>2, <2>3 DEF Growth
  <1>4. ASSUME NEW k \in (i + 1)..Len(b) PROVE ~(b[k].kind = "issue" /\ b[k].name = n)
    <2>1. k - 1 \in i..Len(b) /\ k \in 1..Len(b)
      BY <1>1, SMTT(60)
    <2>2. Legal(LedgerFrom(l, b, k - 1), b[k]) /\ LedgerFrom(l, b, k - 1).asset[n] # None
      BY <1>3, <2>1, UndoableGrowth
    <2> QED BY <2>2 DEF Legal
  <1>5. Len(b) \in i..Len(b)
    BY <1>1, SMTT(60)
  <1> QED BY <1>3, <1>4, <1>5 DEF IssuesAfter, Undoable

(* The block's only reissue t of its asset comes when the ledger is p. *)
Around(l, b, p, t) ==
    /\ p.asset[t.name] = Base(l, b, t.name) /\ p.asset[t.name] \in Assets
    /\ p.asset[t.name].reissuable
    /\ ledger.asset[t.name] = Reissued(p.asset[t.name], t)
    /\ t.verifier # "" => /\ p.verifier[t.name] = l.verifier[t.name]
                          /\ l.verifier[t.name] \in STRING /\ l.asset[t.name] # None
                          /\ ~Issues(b, t.name, Len(b))

(* The ledger before and after a reissue of the block. *)
LEMMA AroundReissue ==
    ASSUME OneIssue, PlainBlocks, NEW l, NEW b, NEW undo, Undoable(l, b, undo),
           NEW i \in 1..Len(b), b[i].kind = "reissue"
    PROVE  Around(l, b, LedgerFrom(l, b, i - 1), b[i])
  <1> DEFINE n == b[i].name
             p == LedgerFrom(l, b, i - 1)
             N == Len(b)
             L(k) == LedgerFrom(l, b, k).asset[n]
             S == {k \in 0..N : k >= i => L(k) = L(i)}
  <1>1. b \in Seq(Txs) /\ N \in Nat /\ b \in Blocks
    BY UndoableGrowth DEF Undoable
  <1>2. b[i] \in Txs /\ n \in Names
    BY <1>1, InBlock, IssuanceAssumption
  <1>3. i - 1 \in 0..N /\ i \in 0..N /\ N \in 0..N /\ N >= i /\ i # 0
    BY <1>1, SMTT(60)
  <1>4. LedgerOK(p) /\ Growth(l, b, i - 1) /\ Legal(p, b[i])
    BY <1>3, UndoableGrowth
  <1>5. p.asset[n] \in Assets /\ p.asset[n] # None /\ p.asset[n].reissuable
    <2>1. p.asset \in [Names -> Assets \cup {None}]
      BY <1>4, LedgerParts
    <2> QED BY <1>2, <1>4, <2>1 DEF Legal
  <1>6. L(i) = Reissued(p.asset[n], b[i]) /\ L(i) # None
    <2>1. LedgerFrom(l, b, i) = LedgerApply(p, b[i])
      BY <1>1, LedgerSteps
    <2>2. Changed(p, b[i], LedgerFrom(l, b, i))
      BY <1>2, <1>4, <2>1, Applied
    <2> QED BY <1>2, <2>2 DEF Changed
  <1>7. Issues(b, n, N) <=> Issues(b, n, i - 1)
    <2>1. ~IssuesAfter(b, n, i)
      BY NoLaterIssue
    <2>2. 1..N = (1..(i - 1)) \cup {i} \cup ((i + 1)..N)
      BY <1>1, SMTT(60)
    <2> QED BY <2>1, <2>2 DEF Issues, IssuesAfter
  <1>8. ~Reissues(b, n, i - 1)
    BY <1>1, OneReissue
  <1>9. p.asset[n] = Base(l, b, n)
    BY <1>2, <1>4, <1>7, <1>8 DEF Base, Growth
  <1>10. 0 \in S
    BY <1>1, SMTT(60)
  <1>11. ASSUME NEW k \in 1..N, k - 1 \in S PROVE k \in S
    <2>1. /\ k \in 0..N /\ k - 1 \in 0..N
          /\ k >= i => k = i \/ (k - 1 >= i /\ k \in (i + 1)..N /\ k # i)
      BY <1>1, SMTT(60)
    <2>2. ASSUME k - 1 >= i, k \in (i + 1)..N, k # i PROVE L(k) = L(i)
      <3>1. L(k - 1) = L(i)
        BY <1>11, <2>2
      <3>2. ~(b[k].kind = "issue" /\ b[k].name = n)
        BY <2>2, NoLaterIssue DEF IssuesAfter
      <3>3. ~(b[k].kind = "reissue" /\ b[k].name = n)
        BY <1>1, <2>2, OneReissue
      <3>4. LedgerFrom(l, b, k) = LedgerApply(LedgerFrom(l, b, k - 1), b[k])
        BY <1>1, LedgerSteps
      <3>5. b[k] \in Txs /\ b[k].kind \in {"issue", "reissue", "transfer"}
        BY <1>1, InBlock, IssuanceAssumption
      <3>6. L(k) = L(k - 1)
        <4>1. LedgerOK(LedgerFrom(l, b, k - 1)) /\ Legal(LedgerFrom(l, b, k - 1), b[k])
          BY <2>1, UndoableGrowth
        <4>2. Changed(LedgerFrom(l, b, k - 1), b[k], LedgerFrom(l, b, k))
          BY <3>4, <3>5, <4>1, Applied
        <4> QED BY <1>2, <3>2, <3>3, <3>5, <4>2 DEF Changed
      <3> QED BY <3>1, <3>6
    <2> QED BY <2>1, <2>2
  <1>12. N \in S
    <2>1. \A k \in 0..N : k \in S
      <3> HIDE DEF S
      <3> QED BY <1>1, <1>10, <1>11, Loop
    <2> QED BY <1>3, <2>1
  <1>13. ledger.asset[n] = L(i)
    BY <1>3, <1>12 DEF Undoable
  <1>14. b[i].verifier # "" => /\ p.verifier[n] = l.verifier[n]
                               /\ l.verifier[n] \in STRING /\ l.asset[n] # None
                               /\ ~Issues(b, n, N)
    <2>1. SUFFICES ASSUME b[i].verifier # ""
                   PROVE  /\ p.verifier[n] = l.verifier[n]
                          /\ l.verifier[n] \in STRING /\ l.asset[n] # None
                          /\ ~Issues(b, n, N)
      OBVIOUS
    <2>2. ~Verifies(b, n, i - 1) /\ ~Issues(b, n, i - 1) /\ n \in Restricted
      BY <1>1, <1>2, <2>1, OneReissue, IssuanceAssumption
    <2>3. p.verifier[n] = l.verifier[n] /\ l.asset[n] # None
      BY <1>2, <1>4, <1>5, <2>2 DEF Growth
    <2>4. p.verifier \in [Names -> STRING \cup {None}]
      BY <1>4, LedgerParts
    <2>5. p.verifier[n] # None
      BY <1>4, <1>5, <2>2 DEF LedgerOK
    <2> QED BY <1>2, <1>7, <2>2, <2>3, <2>4, <2>5
  <1> QED BY <1>5, <1>6, <1>9, <1>13, <1>14 DEF Around

(* The undo item of a reissue, found by its name. *)
LEMMA ItemFound ==
    ASSUME NEW undo \in Seq(Items), NEW l, NEW t, HasItem(undo, l, t)
    PROVE  /\ Changes(t) => UndoItem(undo, t.name) = ItemOf(l, t)
           /\ ~Changes(t) => UndoItem(undo, t.name) = [ipfs |-> None, units |-> None,
                                                       verifier |-> None]
  <1> DEFINE items == {i \in DOMAIN undo : undo[i].name = t.name}
             least == CHOOSE i \in items : \A j \in items : i <= j
  <1>1. UndoItem(undo, t.name) = IF items = {} THEN [ipfs |-> None, units |-> None,
                                                     verifier |-> None] ELSE undo[least]
    BY DEF UndoItem
  <1>2. CASE Changes(t)
    <2>1. PICK h \in DOMAIN undo : /\ undo[h] = ItemOf(l, t)
                                   /\ \A j \in DOMAIN undo : undo[j].name = t.name => j = h
      BY <1>2 DEF HasItem
    <2>2. undo[h].name = t.name
      <3>1. ItemOf(l, t).name = t.name
        BY ItemFields
      <3> QED BY <2>1, <3>1
    <2>3. items = {h}
      BY <2>1, <2>2
    <2>4. h <= h
      BY SMTT(60)
    <2>5. least = h
      BY <2>3, <2>4
    <2> QED BY <1>1, <1>2, <2>1, <2>3, <2>5
  <1>3. CASE ~Changes(t)
    <2>1. items = {}
      BY <1>3 DEF HasItem
    <2> QED BY <1>1, <1>3, <2>1
  <1> QED BY <1>2, <1>3

(* What an untouched asset of the ledger looks like to the block. *)
LEMMA MetaDataSettled ==
    ASSUME StateOK, NEW w \in Works, Fresh(w.lru), NEW n \in Names, n \notin w.cache.remove,
           w.cache.add[n] = None, w.cache.reissued[n] = None, ledger.asset[n] # None
    PROVE  GetAssetMetaDataIfExists(w, n) = ledger.asset[n]
  <1>1. NameOK(db, passets, ledger, n) /\ w.lru.asset[n] \in {None, db.asset[n]}
    BY DEF StateOK, Fresh
  <1> QED BY <1>1 DEF NameOK, GetAssetMetaDataIfExists, ReissuedAsset, CachedAsset, Removed, Or

(* One transaction less. *)
LEMMA OneLess ==
    ASSUME NEW b \in Seq(Txs), NEW j \in 1..Len(b), NEW n
    PROVE  /\ IssuesAfter(b, n, j - 1) <=>
                IssuesAfter(b, n, j) \/ (b[j].kind = "issue" /\ b[j].name = n)
           /\ ReissuesAfter(b, n, j - 1) <=>
                ReissuesAfter(b, n, j) \/ (b[j].kind = "reissue" /\ b[j].name = n)
           /\ RevisesAfter(b, n, j - 1) <=>
                \/ RevisesAfter(b, n, j)
                \/ b[j].kind = "reissue" /\ b[j].name = n /\ b[j].verifier # ""
           /\ ((j - 1) + 1)..Len(b) = ((j + 1)..Len(b)) \cup {j}
  <1>1. ((j - 1) + 1)..Len(b) = ((j + 1)..Len(b)) \cup {j}
    BY SMTT(60)
  <1> QED BY <1>1 DEF IssuesAfter, ReissuesAfter, RevisesAfter

(* An asset is removed in the cache. *)
AssetRemoved(c, n, h) ==
    /\ h \in Caches
    /\ h.add = [c.add EXCEPT ![n] = None]
    /\ h.remove = c.remove \cup {n}
    /\ h.reissued = c.reissued /\ h.reAdd = c.reAdd /\ h.reUndo = c.reUndo
    /\ h.verAdd = c.verAdd /\ h.verUndo = c.verUndo

(* That is what the cache has then. *)
LEMMA RemovedFields ==
    ASSUME NEW c \in Caches, NEW n \in Names, NEW h
    PROVE  h = [c EXCEPT !.add[n] = None, !.remove = @ \cup {n}]
             => AssetRemoved(c, n, h)
  <1>0. SUFFICES ASSUME h = [c EXCEPT !.add[n] = None, !.remove = @ \cup {n}]
                 PROVE  AssetRemoved(c, n, h)
    OBVIOUS
  <1> DEFINE fa == [c.add EXCEPT ![n] = None]
             fr == c.remove \cup {n}
             V == STRING \cup {None, Gone}
  <1>1. fa \in MaybeAsset
    BY CacheParts DEF MaybeAsset
  <1>2. fr \in SUBSET Names
    BY CacheParts
  <1>3. h = [c EXCEPT !.add = fa, !.remove = fr]
    BY <1>0
  <1> HIDE DEF fa, fr
  <1>4. h \in Caches
    BY <1>1, <1>2, <1>3 DEF Caches
  <1>5. PICK ga, gr, gx, gp, gu, ha, hu :
            c = [add |-> ga, remove |-> gr, reissued |-> gx, reAdd |-> gp, reUndo |-> gu,
                 verAdd |-> ha, verUndo |-> hu]
    BY CacheRecord
  <1>6. h = [add |-> fa, remove |-> fr, reissued |-> gx, reAdd |-> gp, reUndo |-> gu,
             verAdd |-> ha, verUndo |-> hu]
    BY <1>3, <1>5
  <1>7. /\ c.add = ga /\ c.remove = gr /\ c.reissued = gx /\ c.reAdd = gp
        /\ c.reUndo = gu /\ c.verAdd = ha /\ c.verUndo = hu
    BY <1>5, RecordFields
  <1>8. /\ h.add = fa /\ h.remove = fr /\ h.reissued = gx /\ h.reAdd = gp
        /\ h.reUndo = gu /\ h.verAdd = ha /\ h.verUndo = hu
    BY <1>6, RecordFields
  <1> QED BY <1>4, <1>7, <1>8 DEF AssetRemoved, fa, fr

(* A verifier string is undone in the cache. *)
VerifierUndone(c, n, x, h) ==
    /\ h \in Caches
    /\ h.verAdd = [c.verAdd EXCEPT ![n] = None]
    /\ h.verUndo = Insert(c.verUndo, n, x)
    /\ h.add = c.add /\ h.remove = c.remove /\ h.reissued = c.reissued
    /\ h.reAdd = c.reAdd /\ h.reUndo = c.reUndo

(* That is what the cache has then. *)
LEMMA VerifierRemovedFields ==
    ASSUME NEW c \in Caches, NEW n \in Names, NEW x \in STRING \cup {None, Gone}, NEW h
    PROVE  h = RemoveRestrictedVerifier(c, n, x)
             => VerifierUndone(c, n, x, h)
  <1>0. SUFFICES ASSUME h = RemoveRestrictedVerifier(c, n, x)
                 PROVE  VerifierUndone(c, n, x, h)
    OBVIOUS
  <1> DEFINE va == [c.verAdd EXCEPT ![n] = None]
             vu == Insert(c.verUndo, n, x)
             V == STRING \cup {None, Gone}
  <1>1. va \in [Names -> V]
    BY CacheParts
  <1>2. vu \in [Names -> V]
    BY CacheParts, Inserted
  <1>3. h = [c EXCEPT !.verAdd = va, !.verUndo = vu]
    BY <1>0 DEF RemoveRestrictedVerifier
  <1> HIDE DEF va, vu
  <1>4. h \in Caches
    BY <1>1, <1>2, <1>3 DEF Caches
  <1>5. PICK ga, gr, gx, gp, gu, ha, hu :
            c = [add |-> ga, remove |-> gr, reissued |-> gx, reAdd |-> gp, reUndo |-> gu,
                 verAdd |-> ha, verUndo |-> hu]
    BY CacheRecord
  <1>6. h = [add |-> ga, remove |-> gr, reissued |-> gx, reAdd |-> gp, reUndo |-> gu,
             verAdd |-> va, verUndo |-> vu]
    BY <1>3, <1>5
  <1>7. /\ c.add = ga /\ c.remove = gr /\ c.reissued = gx /\ c.reAdd = gp
        /\ c.reUndo = gu /\ c.verAdd = ha /\ c.verUndo = hu
    BY <1>5, RecordFields
  <1>8. /\ h.add = ga /\ h.remove = gr /\ h.reissued = gx /\ h.reAdd = gp
        /\ h.reUndo = gu /\ h.verAdd = va /\ h.verUndo = vu
    BY <1>6, RecordFields
  <1> QED BY <1>4, <1>7, <1>8 DEF VerifierUndone, va, vu

(* A reissue is undone in the cache. *)
ReissueUndone(c, n, r, t, h) ==
    /\ h \in Caches
    /\ h.reissued = [c.reissued EXCEPT ![n] = r]
    /\ h.reAdd = c.reAdd \ {t}
    /\ h.reUndo = c.reUndo \cup {t}
    /\ h.add = c.add /\ h.remove = c.remove /\ h.verAdd = c.verAdd
    /\ h.verUndo = c.verUndo

(* That is what the cache has then. *)
LEMMA UndoneFields ==
    ASSUME NEW c \in Caches, NEW n \in Names, NEW r \in Assets, NEW t \in Txs, NEW h
    PROVE  h = [c EXCEPT !.reissued[n] = r, !.reAdd = @ \ {t}, !.reUndo = @ \cup {t}]
             => ReissueUndone(c, n, r, t, h)
  <1>0. SUFFICES ASSUME h = [c EXCEPT !.reissued[n] = r, !.reAdd = @ \ {t}, !.reUndo = @ \cup {t}]
                 PROVE  ReissueUndone(c, n, r, t, h)
    OBVIOUS
  <1> DEFINE fx == [c.reissued EXCEPT ![n] = r]
             fp == c.reAdd \ {t}
             fu == c.reUndo \cup {t}
             V == STRING \cup {None, Gone}
  <1>1. fx \in MaybeAsset
    BY CacheParts DEF MaybeAsset
  <1>2. fp \in SUBSET Txs
    BY CacheParts
  <1>3. fu \in SUBSET Txs
    BY CacheParts
  <1>4. h = [c EXCEPT !.reissued = fx, !.reAdd = fp, !.reUndo = fu]
    BY <1>0
  <1> HIDE DEF fx, fp, fu
  <1>5. h \in Caches
    BY <1>1, <1>2, <1>3, <1>4 DEF Caches
  <1>6. PICK ga, gr, gx, gp, gu, ha, hu :
            c = [add |-> ga, remove |-> gr, reissued |-> gx, reAdd |-> gp, reUndo |-> gu,
                 verAdd |-> ha, verUndo |-> hu]
    BY CacheRecord
  <1>7. h = [add |-> ga, remove |-> gr, reissued |-> fx, reAdd |-> fp, reUndo |-> fu,
             verAdd |-> ha, verUndo |-> hu]
    BY <1>4, <1>6
  <1>8. /\ c.add = ga /\ c.remove = gr /\ c.reissued = gx /\ c.reAdd = gp
        /\ c.reUndo = gu /\ c.verAdd = ha /\ c.verUndo = hu
    BY <1>6, RecordFields
  <1>9. /\ h.add = ga /\ h.remove = gr /\ h.reissued = fx /\ h.reAdd = fp
        /\ h.reUndo = fu /\ h.verAdd = ha /\ h.verUndo = hu
    BY <1>7, RecordFields
  <1> QED BY <1>5, <1>8, <1>9 DEF ReissueUndone, fx, fp, fu

(* What undoing an issue writes to the cache. *)
AssetGone(c, t, d) ==
    /\ d \in Caches
    /\ d.remove = c.remove \cup {t.name} /\ d.reissued = c.reissued
    /\ d.reAdd = c.reAdd /\ d.reUndo = c.reUndo
    /\ \A q \in Names :
        /\ d.add[q] = IF q = t.name THEN None ELSE c.add[q]
        /\ d.verAdd[q] = IF t.name \in Restricted /\ q = t.name THEN None ELSE c.verAdd[q]
        /\ d.verUndo[q] = IF t.name \in Restricted /\ q = t.name /\ c.verUndo[q] = None
                          THEN Gone ELSE c.verUndo[q]

(* RemoveNewAsset does that to an asset that exists. *)
LEMMA RemoveAssetFields ==
    ASSUME NEW w \in Works, NEW t \in Txs, CheckIfAssetExists(w, t.name)
    PROVE  AssetGone(w.cache, t, RemoveNewAsset(w, t))
  <1> DEFINE c == w.cache
             n == t.name
             h == [c EXCEPT !.add[n] = None, !.remove = @ \cup {n}]
             g == RemoveRestrictedVerifier(h, n, Gone)
             d == RemoveNewAsset(w, t)
  <1>1. n \in Names /\ c \in Caches /\ Gone \in STRING \cup {None, Gone}
    BY IssuanceAssumption, WorkParts
  <1>2. d = IF n \in Restricted THEN g ELSE h
    BY DEF RemoveNewAsset
  <1>3. h = [c EXCEPT !.add[n] = None, !.remove = @ \cup {n}]
    OBVIOUS
  <1>4. g = RemoveRestrictedVerifier(h, n, Gone)
    OBVIOUS
  <1> HIDE DEF c, n, h, g, d
  <1>5. AssetRemoved(c, n, h)
    BY <1>1, <1>3, RemovedFields
  <1>6. h \in Caches
    BY <1>5 DEF AssetRemoved
  <1>7. VerifierUndone(h, n, Gone, g)
    BY <1>1, <1>4, <1>6, VerifierRemovedFields
  <1>8. DOMAIN c.add = Names /\ DOMAIN c.reissued = Names /\ DOMAIN c.verAdd = Names
        /\ DOMAIN c.verUndo = Names
    BY <1>1, CacheDomains
  <1>9. \A q \in Names : [c.add EXCEPT ![n] = None][q] = IF q = n THEN None ELSE c.add[q]
    BY <1>8
  <1>10. \A q \in Names : Insert(c.verUndo, n, Gone)[q] =
            IF q = n /\ c.verUndo[q] = None THEN Gone ELSE c.verUndo[q]
    BY <1>1, <1>8 DEF Insert
  <1>11. \A q \in Names : [c.verAdd EXCEPT ![n] = None][q] = IF q = n THEN None ELSE c.verAdd[q]
    BY <1>8
  <1>12. CASE n \in Restricted
    <2>1. d = g
      BY <1>2, <1>12
    <2>2. /\ d \in Caches /\ d.remove = c.remove \cup {n} /\ d.reissued = c.reissued
          /\ d.reAdd = c.reAdd /\ d.reUndo = c.reUndo /\ d.add = [c.add EXCEPT ![n] = None]
          /\ d.verAdd = [c.verAdd EXCEPT ![n] = None] /\ d.verUndo = Insert(c.verUndo, n, Gone)
      BY <1>5, <1>7, <2>1 DEF AssetRemoved, VerifierUndone
    <2>3. AssetGone(c, t, d)
      BY <1>12, <2>2, <1>9, <1>10, <1>11 DEF AssetGone, n
    <2> QED BY <2>3 DEF c, n, d
  <1>13. CASE n \notin Restricted
    <2>1. d = h
      BY <1>2, <1>13
    <2>2. /\ d \in Caches /\ d.remove = c.remove \cup {n} /\ d.reissued = c.reissued
          /\ d.reAdd = c.reAdd /\ d.reUndo = c.reUndo /\ d.add = [c.add EXCEPT ![n] = None]
          /\ d.verAdd = c.verAdd /\ d.verUndo = c.verUndo
      BY <1>5, <2>1 DEF AssetRemoved
    <2>3. AssetGone(c, t, d)
      BY <1>13, <2>2, <1>9, <1>10, <1>11 DEF AssetGone, n
    <2> QED BY <2>3 DEF c, n, d
  <1> QED BY <1>12, <1>13

(* What undoing a reissue writes, which leaves r and, if v is one, the     *)
(* string v.                                                               *)
ReissueGone(c, t, r, v, d) ==
    /\ d \in Caches
    /\ d.add = c.add /\ d.remove = c.remove
    /\ d.reAdd = c.reAdd \ {t} /\ d.reUndo = c.reUndo \cup {t}
    /\ \A q \in Names :
        /\ d.reissued[q] = IF q = t.name THEN r ELSE c.reissued[q]
        /\ d.verAdd[q] = IF v # None /\ q = t.name THEN None ELSE c.verAdd[q]
        /\ d.verUndo[q] = IF v # None /\ q = t.name /\ c.verUndo[q] = None
                          THEN v ELSE c.verUndo[q]

(* The data RemoveReissueAsset computes. *)
Reversed(asset, item, t) ==
    [amount |-> asset.amount - t.amount,
     units |-> IF item.units # None THEN item.units ELSE asset.units,
     ipfs |-> IF item.ipfs # None THEN item.ipfs ELSE asset.ipfs,
     reissuable |-> TRUE]

(* RemoveReissueAsset does that. *)
LEMMA RemoveReissueFields ==
    ASSUME NEW w \in Works, NEW t \in Txs,
           UndoItem(w.undo, t.name).verifier \in STRING \cup {None},
           Reversed(GetAssetMetaDataIfExists(w, t.name), UndoItem(w.undo, t.name), t) \in Assets
    PROVE  ReissueGone(w.cache, t,
                Reversed(GetAssetMetaDataIfExists(w, t.name), UndoItem(w.undo, t.name), t),
                UndoItem(w.undo, t.name).verifier, RemoveReissueAsset(w, t))
  <1> DEFINE c == w.cache
             n == t.name
             x == UndoItem(w.undo, n).verifier
             r == Reversed(GetAssetMetaDataIfExists(w, n), UndoItem(w.undo, n), t)
             h == [c EXCEPT !.reissued[n] = r, !.reAdd = @ \ {t}, !.reUndo = @ \cup {t}]
             g == RemoveRestrictedVerifier(h, n, x)
             d == RemoveReissueAsset(w, t)
  <1>1. n \in Names /\ x \in STRING \cup {None, Gone} /\ c \in Caches /\ r \in Assets
    BY IssuanceAssumption, WorkParts
  <1>2. d = IF x # None THEN g ELSE h
    BY DEF RemoveReissueAsset, Reversed
  <1>3. h = [c EXCEPT !.reissued[n] = r, !.reAdd = @ \ {t}, !.reUndo = @ \cup {t}]
    OBVIOUS
  <1>4. g = RemoveRestrictedVerifier(h, n, x)
    OBVIOUS
  <1> HIDE DEF c, n, x, r, h, g, d
  <1>5. ReissueUndone(c, n, r, t, h)
    BY <1>1, <1>3, UndoneFields
  <1>6. h \in Caches
    BY <1>5 DEF ReissueUndone
  <1>7. VerifierUndone(h, n, x, g)
    BY <1>1, <1>4, <1>6, VerifierRemovedFields
  <1>8. DOMAIN c.add = Names /\ DOMAIN c.reissued = Names /\ DOMAIN c.verAdd = Names
        /\ DOMAIN c.verUndo = Names
    BY <1>1, CacheDomains
  <1>9. \A q \in Names : [c.reissued EXCEPT ![n] = r][q] = IF q = n THEN r ELSE c.reissued[q]
    BY <1>8
  <1>10. \A q \in Names : Insert(c.verUndo, n, x)[q] =
            IF q = n /\ c.verUndo[q] = None THEN x ELSE c.verUndo[q]
    BY <1>1, <1>8 DEF Insert
  <1>11. \A q \in Names : [c.verAdd EXCEPT ![n] = None][q] = IF q = n THEN None ELSE c.verAdd[q]
    BY <1>8
  <1>12. CASE x # None
    <2>1. d = g
      BY <1>2, <1>12
    <2>2. /\ d \in Caches /\ d.remove = c.remove /\ d.add = c.add
          /\ d.reAdd = c.reAdd \ {t} /\ d.reUndo = c.reUndo \cup {t}
          /\ d.reissued = [c.reissued EXCEPT ![n] = r]
          /\ d.verAdd = [c.verAdd EXCEPT ![n] = None] /\ d.verUndo = Insert(c.verUndo, n, x)
      BY <1>5, <1>7, <2>1 DEF ReissueUndone, VerifierUndone
    <2>3. ReissueGone(c, t, r, x, d)
      BY <1>12, <2>2, <1>9, <1>10, <1>11 DEF ReissueGone, n
    <2> QED BY <2>3 DEF c, n, d, x, r
  <1>13. CASE x = None
    <2>1. d = h
      BY <1>2, <1>13
    <2>2. /\ d \in Caches /\ d.remove = c.remove /\ d.add = c.add
          /\ d.reAdd = c.reAdd \ {t} /\ d.reUndo = c.reUndo \cup {t}
          /\ d.reissued = [c.reissued EXCEPT ![n] = r]
          /\ d.verAdd = c.verAdd /\ d.verUndo = c.verUndo
      BY <1>5, <2>1 DEF ReissueUndone
    <2>3. ReissueGone(c, t, r, x, d)
      BY <1>13, <2>2, <1>9, <1>10, <1>11 DEF ReissueGone, n
    <2> QED BY <2>3 DEF c, n, d, x, r
  <1> QED BY <1>12, <1>13

(* The block's cache when one more issue is undone ... *)
LEMMA DisconnectIssue ==
    ASSUME StateOK, OneIssue, PlainBlocks, NEW l, NEW b, NEW undo, Undoable(l, b, undo),
           NEW j \in 1..Len(b), b[j].kind = "issue",
           NEW w \in Works, Fresh(w.lru), InDisconnect(w.cache, l, b, j)
    PROVE  InDisconnect(RemoveNewAsset(w, b[j]), l, b, j - 1)
  <1> DEFINE t == b[j]
             c == w.cache
             d == RemoveNewAsset(w, t)
  <1>1. b \in Seq(Txs) /\ b \in Blocks
    BY UndoableGrowth DEF Undoable
  <1>2. t \in Txs /\ t.name \in Names
    BY <1>1, InBlock, IssuanceAssumption
  <1>3. ~IssuesAfter(b, t.name, j) /\ ledger.asset[t.name] # None
    BY NoLaterIssue
  <1>4. CheckIfAssetExists(w, t.name)
    BY <1>2, <1>3, ExistsExact DEF InDisconnect
  <1>5. AssetGone(c, t, d)
    BY <1>2, <1>4, RemoveAssetFields
  <1> HIDE DEF d
  <1>6. d \in Caches /\ d.reAdd = {}
    BY <1>5 DEF AssetGone, InDisconnect
  <1>7. d.remove = {n \in Names : IssuesAfter(b, n, j - 1)}
    <2>1. d.remove = {n \in Names : IssuesAfter(b, n, j)} \cup {t.name}
      BY <1>5 DEF AssetGone, InDisconnect
    <2>2. \A n \in Names : IssuesAfter(b, n, j - 1) <=> IssuesAfter(b, n, j) \/ n = t.name
      BY <1>1, OneLess
    <2> QED BY <1>2, <2>1, <2>2
  <1>8. d.reUndo = {u \in Txs : u.kind = "reissue" /\ \E i \in ((j - 1) + 1)..Len(b) : b[i] = u}
    <2>1. d.reUndo = {u \in Txs : u.kind = "reissue" /\ \E i \in (j + 1)..Len(b) : b[i] = u}
      BY <1>5 DEF AssetGone, InDisconnect
    <2>2. ((j - 1) + 1)..Len(b) = ((j + 1)..Len(b)) \cup {j}
      BY <1>1, OneLess
    <2> QED BY <2>1, <2>2
  <1>9. ~RevisesAfter(b, t.name, j)
    <2>1. SUFFICES ASSUME NEW i \in (j + 1)..Len(b), b[i].kind = "reissue", b[i].name = t.name,
                          b[i].verifier # ""
                   PROVE  FALSE
      BY DEF RevisesAfter
    <2>2. i \in 1..Len(b) /\ j \in 1..Len(b)
      BY <1>1, SMTT(60)
    <2>4. Around(l, b, LedgerFrom(l, b, i - 1), b[i])
      BY <2>1, <2>2, AroundReissue
    <2>3. ~Issues(b, t.name, Len(b))
      BY <2>1, <2>4 DEF Around
    <2> QED BY <2>2, <2>3 DEF Issues
  <1>10. ASSUME NEW n \in Names
         PROVE  /\ d.add[n] = None /\ d.verAdd[n] = None
                /\ d.reissued[n] = IF ReissuesAfter(b, n, j - 1) THEN Base(l, b, n) ELSE None
                /\ d.verUndo[n] = IF IssuesAfter(b, n, j - 1) /\ n \in Restricted THEN Gone
                                  ELSE IF RevisesAfter(b, n, j - 1) THEN l.verifier[n] ELSE None
    <2>1. /\ c.add[n] = None /\ c.verAdd[n] = None
          /\ c.reissued[n] = IF ReissuesAfter(b, n, j) THEN Base(l, b, n) ELSE None
          /\ c.verUndo[n] = IF IssuesAfter(b, n, j) /\ n \in Restricted THEN Gone
                            ELSE IF RevisesAfter(b, n, j) THEN l.verifier[n] ELSE None
      BY DEF InDisconnect
    <2>2. /\ IssuesAfter(b, n, j - 1) <=> IssuesAfter(b, n, j) \/ t.name = n
          /\ ReissuesAfter(b, n, j - 1) <=> ReissuesAfter(b, n, j)
          /\ RevisesAfter(b, n, j - 1) <=> RevisesAfter(b, n, j)
      BY <1>1, OneLess
    <2>3. /\ d.reissued[n] = c.reissued[n]
          /\ d.add[n] = IF n = t.name THEN None ELSE c.add[n]
          /\ d.verAdd[n] = IF t.name \in Restricted /\ n = t.name THEN None ELSE c.verAdd[n]
          /\ d.verUndo[n] = IF t.name \in Restricted /\ n = t.name /\ c.verUndo[n] = None
                            THEN Gone ELSE c.verUndo[n]
      BY <1>5 DEF AssetGone
    <2> HIDE DEF t, c
    <2>4. CASE n = t.name
      BY <1>3, <1>9, <2>1, <2>2, <2>3, <2>4
    <2>5. CASE n # t.name
      BY <2>1, <2>2, <2>3, <2>5
    <2> QED BY <2>4, <2>5
  <1> QED BY <1>6, <1>7, <1>8, <1>10 DEF InDisconnect, d

(* The fields of an asset. *)
LEMMA AssetParts ==
    ASSUME NEW a \in Assets
    PROVE  /\ a = [amount |-> a.amount, units |-> a.units, ipfs |-> a.ipfs,
                   reissuable |-> a.reissuable]
           /\ a.amount \in 0..MaxMoney /\ a.units \in Nat /\ a.ipfs \in STRING
           /\ a.reissuable \in BOOLEAN
  BY SMTT(60) DEF Assets

(* Adding and taking away. *)
LEMMA AddSubtract == \A x, y \in Nat : (x + y) - y = x
  BY SMTT(60)

(* What is in the undo item of a reissue, or would be. *)
ItemFor(item, l, t) ==
    /\ item.units = IF t.units # -1 THEN l.asset[t.name].units ELSE None
    /\ item.ipfs = IF t.ipfs # "" THEN l.asset[t.name].ipfs ELSE None
    /\ item.verifier = IF t.verifier # "" THEN l.verifier[t.name] ELSE None

(* The item that is found has it. *)
LEMMA ItemForFound ==
    ASSUME NEW undo \in Seq(Items), NEW l, NEW t, HasItem(undo, l, t)
    PROVE  ItemFor(UndoItem(undo, t.name), l, t)
  <1> DEFINE item == UndoItem(undo, t.name)
             none == [ipfs |-> None, units |-> None, verifier |-> None]
  <1>1. Changes(t) => item = ItemOf(l, t)
    BY ItemFound
  <1>2. ~Changes(t) => item = none
    BY ItemFound
  <1> HIDE DEF item
  <1>3. none.ipfs = None /\ none.units = None /\ none.verifier = None
    OBVIOUS
  <1>4. ItemFor(ItemOf(l, t), l, t)
    BY ItemFields DEF ItemFor
  <1>5. CASE Changes(t)
    BY <1>1, <1>4, <1>5 DEF item
  <1>6. CASE ~Changes(t)
    <2>1. t.ipfs = "" /\ t.units = -1 /\ t.verifier = ""
      BY <1>6 DEF Changes
    <2> HIDE DEF none
    <2>2. ItemFor(none, l, t)
      BY <1>3, <2>1 DEF ItemFor
    <2> QED BY <1>2, <1>6, <2>2 DEF item
  <1> QED BY <1>5, <1>6

(* The data before a reissue, from the data after it and its undo item. *)
LEMMA ReissueReversed ==
    ASSUME NEW l, NEW t \in Txs, l.asset[t.name] \in Assets, l.asset[t.name].reissuable,
           NEW item, ItemFor(item, l, t)
    PROVE  Reversed(Reissued(l.asset[t.name], t), item, t) = l.asset[t.name]
  <1> DEFINE a == l.asset[t.name]
             asset == Reissued(a, t)
  <1>1. /\ a = [amount |-> a.amount, units |-> a.units, ipfs |-> a.ipfs,
                reissuable |-> a.reissuable]
        /\ a.amount \in 0..MaxMoney /\ a.units \in Nat /\ a.ipfs \in STRING
        /\ a.reissuable \in BOOLEAN
    BY AssetParts
  <1>2. t.amount \in Nat /\ a.amount \in Nat
    <2>1. MaxMoney \in Nat /\ t.amount \in 0..MaxMoney
      BY IssuanceAssumption
    <2> HIDE DEF a
    <2> QED BY <1>1, <2>1, SMTT(60)
  <1>3. /\ asset.amount = a.amount + t.amount
        /\ asset.units = IF t.units # -1 THEN t.units ELSE a.units
        /\ asset.ipfs = IF t.ipfs # "" THEN t.ipfs ELSE a.ipfs
    BY DEF Reissued
  <1>4. /\ item.units = IF t.units # -1 THEN a.units ELSE None
        /\ item.ipfs = IF t.ipfs # "" THEN a.ipfs ELSE None
    BY DEF ItemFor
  <1>5. a.reissuable
    OBVIOUS
  <1> HIDE DEF asset, a
  <1>6. asset.amount - t.amount = a.amount
    BY <1>2, <1>3, AddSubtract
  <1>7. a.units # None /\ a.ipfs # None
    BY <1>1, AbsentAssumption
  <1>8. (IF item.units # None THEN item.units ELSE asset.units) = a.units
    BY <1>3, <1>4, <1>7
  <1>9. (IF item.ipfs # None THEN item.ipfs ELSE asset.ipfs) = a.ipfs
    BY <1>3, <1>4, <1>7
  <1>10. a.reissuable = TRUE
    BY <1>1, <1>5
  <1>11. Reversed(asset, item, t) = [amount |-> a.amount, units |-> a.units, ipfs |-> a.ipfs,
                                     reissuable |-> a.reissuable]
    BY <1>6, <1>8, <1>9, <1>10 DEF Reversed
  <1> QED BY <1>1, <1>11 DEF asset, a

(* ... or one more reissue. *)
LEMMA DisconnectReissue ==
    ASSUME StateOK, OneIssue, PlainBlocks, NEW l, NEW b, NEW undo, Undoable(l, b, undo),
           NEW j \in 1..Len(b), b[j].kind = "reissue",
           NEW w \in Works, Fresh(w.lru), w.undo = undo, InDisconnect(w.cache, l, b, j)
    PROVE  /\ CheckIfAssetExists(w, b[j].name)
           /\ InDisconnect(RemoveReissueAsset(w, b[j]), l, b, j - 1)
  <1> DEFINE t == b[j]
             c == w.cache
             p == LedgerFrom(l, b, j - 1)
             a == p.asset[t.name]
             asset == GetAssetMetaDataIfExists(w, t.name)
             item == UndoItem(w.undo, t.name)
             d == RemoveReissueAsset(w, t)
  <1>1. b \in Seq(Txs) /\ b \in Blocks /\ undo \in Seq(Items)
    BY UndoableGrowth DEF Undoable, UndoFor
  <1>2. t \in Txs /\ t.name \in Names
    BY <1>1, InBlock, IssuanceAssumption
  <1>3. ~IssuesAfter(b, t.name, j) /\ ledger.asset[t.name] # None
    BY NoLaterIssue
  <1>4. CheckIfAssetExists(w, t.name)
    BY <1>2, <1>3, ExistsExact DEF InDisconnect
  <1>5. ~ReissuesAfter(b, t.name, j) /\ ~RevisesAfter(b, t.name, j)
    <2>1. \A i \in (j + 1)..Len(b) : i \in 1..Len(b) /\ i # j
      BY <1>1, SMTT(60)
    <2> QED BY <1>1, <2>1, OneReissue DEF ReissuesAfter, RevisesAfter
  <1>20. Around(l, b, p, t)
    BY AroundReissue
  <1>6. /\ a = Base(l, b, t.name) /\ a \in Assets /\ a.reissuable
        /\ ledger.asset[t.name] = Reissued(a, t)
        /\ t.verifier # "" => /\ p.verifier[t.name] = l.verifier[t.name]
                              /\ l.verifier[t.name] \in STRING
    BY <1>20 DEF Around
  <1>7. asset = Reissued(a, t)
    BY <1>2, <1>3, <1>5, <1>6, MetaDataSettled DEF InDisconnect
  <1>8. HasItem(undo, p, t)
    BY DEF Undoable, UndoFor
  <1>9. ItemFor(item, p, t)
    BY <1>1, <1>8, ItemForFound
  <1> HIDE DEF asset, item, d, p
  <1>10. item.verifier = IF t.verifier # "" THEN l.verifier[t.name] ELSE None
    BY <1>6, <1>9 DEF ItemFor
  <1>11. Reversed(asset, item, t) = a
    BY <1>2, <1>6, <1>7, <1>9, ReissueReversed
  <1>12. item.verifier \in STRING \cup {None}
    BY <1>6, <1>10
  <1>13. ReissueGone(c, t, a, item.verifier, d)
    <2>1. Reversed(asset, item, t) \in Assets
      BY <1>6, <1>11
    <2>2. ReissueGone(c, t, Reversed(asset, item, t), item.verifier, d)
      BY <1>2, <1>12, <2>1, RemoveReissueFields DEF asset, item, d
    <2> QED BY <1>11, <2>2
  <1>15. item.verifier # None <=> t.verifier # ""
    BY <1>6, <1>10, AbsentAssumption
  <1>16. d \in Caches /\ d.reAdd = {}
    BY <1>13 DEF ReissueGone, InDisconnect
  <1>17. d.remove = {n \in Names : IssuesAfter(b, n, j - 1)}
    <2>1. d.remove = {n \in Names : IssuesAfter(b, n, j)}
      BY <1>13 DEF ReissueGone, InDisconnect
    <2>2. \A n \in Names : IssuesAfter(b, n, j - 1) <=> IssuesAfter(b, n, j)
      BY <1>1, OneLess
    <2> QED BY <2>1, <2>2
  <1>18. d.reUndo = {u \in Txs : u.kind = "reissue" /\ \E i \in ((j - 1) + 1)..Len(b) : b[i] = u}
    <2>1. d.reUndo = {u \in Txs : u.kind = "reissue" /\ \E i \in (j + 1)..Len(b) : b[i] = u}
                        \cup {t}
      BY <1>13 DEF ReissueGone, InDisconnect
    <2>2. ((j - 1) + 1)..Len(b) = ((j + 1)..Len(b)) \cup {j}
      BY <1>1, OneLess
    <2> QED BY <1>2, <2>1, <2>2
  <1>19. ASSUME NEW n \in Names
         PROVE  /\ d.add[n] = None /\ d.verAdd[n] = None
                /\ d.reissued[n] = IF ReissuesAfter(b, n, j - 1) THEN Base(l, b, n) ELSE None
                /\ d.verUndo[n] = IF IssuesAfter(b, n, j - 1) /\ n \in Restricted THEN Gone
                                  ELSE IF RevisesAfter(b, n, j - 1) THEN l.verifier[n] ELSE None
    <2>1. /\ c.add[n] = None /\ c.verAdd[n] = None
          /\ c.reissued[n] = IF ReissuesAfter(b, n, j) THEN Base(l, b, n) ELSE None
          /\ c.verUndo[n] = IF IssuesAfter(b, n, j) /\ n \in Restricted THEN Gone
                            ELSE IF RevisesAfter(b, n, j) THEN l.verifier[n] ELSE None
      BY DEF InDisconnect
    <2>2. /\ IssuesAfter(b, n, j - 1) <=> IssuesAfter(b, n, j)
          /\ ReissuesAfter(b, n, j - 1) <=> ReissuesAfter(b, n, j) \/ t.name = n
          /\ RevisesAfter(b, n, j - 1) <=>
                RevisesAfter(b, n, j) \/ (t.name = n /\ t.verifier # "")
      BY <1>1, OneLess
    <2>3. /\ d.add[n] = c.add[n]
          /\ d.reissued[n] = IF n = t.name THEN a ELSE c.reissued[n]
          /\ d.verAdd[n] = IF item.verifier # None /\ n = t.name THEN None ELSE c.verAdd[n]
          /\ d.verUndo[n] = IF item.verifier # None /\ n = t.name /\ c.verUndo[n] = None
                            THEN item.verifier ELSE c.verUndo[n]
      BY <1>13 DEF ReissueGone
    <2> HIDE DEF t, c, a
    <2>4. CASE n = t.name
      BY <1>3, <1>5, <1>6, <1>10, <1>15, <2>1, <2>2, <2>3, <2>4
    <2>5. CASE n # t.name
      BY <2>1, <2>2, <2>3, <2>5
    <2> QED BY <2>4, <2>5
  <1> QED BY <1>4, <1>16, <1>17, <1>18, <1>19 DEF InDisconnect, d

(* A transfer needs no undoing. *)
LEMMA DisconnectTransfer ==
    ASSUME NEW b \in Seq(Txs), NEW j \in 1..Len(b), b[j].kind = "transfer", NEW l,
           NEW c, InDisconnect(c, l, b, j)
    PROVE  InDisconnect(c, l, b, j - 1)
  <1>1. \A n : /\ IssuesAfter(b, n, j - 1) <=> IssuesAfter(b, n, j)
               /\ ReissuesAfter(b, n, j - 1) <=> ReissuesAfter(b, n, j)
               /\ RevisesAfter(b, n, j - 1) <=> RevisesAfter(b, n, j)
    BY OneLess
  <1>2. {t \in Txs : t.kind = "reissue" /\ \E i \in ((j - 1) + 1)..Len(b) : b[i] = t}
            = {t \in Txs : t.kind = "reissue" /\ \E i \in (j + 1)..Len(b) : b[i] = t}
    <2>1. ((j - 1) + 1)..Len(b) = ((j + 1)..Len(b)) \cup {j}
      BY OneLess
    <2> QED BY <2>1
  <1> QED BY <1>1, <1>2 DEF InDisconnect

(* The work after k transactions of the tip are undone. *)
Disconnecting(l, b, undo, k) ==
    LET w == DisconnectTxs(b, undo, k) IN
    /\ w \in Works /\ Fresh(w.lru) /\ w.undo = undo
    /\ InDisconnect(w.cache, l, b, Len(b) - k)

(* One more transaction undone. *)
LEMMA DisconnectStep ==
    ASSUME StateOK, OneIssue, PlainBlocks, NEW l, NEW b, NEW undo, Undoable(l, b, undo),
           NEW k \in 1..Len(b), Disconnecting(l, b, undo, k - 1)
    PROVE  Disconnecting(l, b, undo, k)
  <1> DEFINE w == DisconnectTxs(b, undo, k - 1)
             v == DisconnectTxs(b, undo, k)
             j == Len(b) - k + 1
             t == b[j]
             x == AfterExists(w, t.name)
  <1>1. b \in Seq(Txs) /\ Len(b) \in Nat
    BY UndoableGrowth
  <1>2. j \in 1..Len(b) /\ Len(b) - (k - 1) = j /\ Len(b) - k = j - 1
    BY <1>1, SMTT(60)
  <1>3. v = DisconnectTx(w, t)
    BY <1>1, DisconnectSteps
  <1>4. w \in Works /\ Fresh(w.lru) /\ w.undo = undo /\ InDisconnect(w.cache, l, b, j)
    BY <1>2 DEF Disconnecting
  <1> HIDE DEF w, j
  <1>5. t \in Txs /\ t.name \in Names /\ t.kind \in {"issue", "reissue", "transfer"}
    BY <1>1, <1>2, InBlock, IssuanceAssumption
  <1>6. x \in Works /\ Fresh(x.lru) /\ x.cache = w.cache /\ x.undo = undo
    BY <1>4, <1>5, AfterLooks DEF StateOK, Looks
  <1>7. SUFFICES v \in Works /\ Fresh(v.lru) /\ v.undo = undo /\ InDisconnect(v.cache, l, b, j - 1)
    BY <1>2 DEF Disconnecting
  <1>8. CASE t.kind = "issue"
    <2> DEFINE d == RemoveNewAsset(w, t)
    <2>1. InDisconnect(d, l, b, j - 1)
      BY <1>2, <1>4, <1>8, DisconnectIssue
    <2>2. v = [x EXCEPT !.cache = d]
      BY <1>3, <1>8 DEF DisconnectTx
    <2>3. d \in Caches
      BY <2>1 DEF InDisconnect
    <2> HIDE DEF v, x, d
    <2>4. v \in Works /\ v.lru = x.lru /\ v.undo = x.undo /\ v.cache = d
      BY <1>6, <2>2, <2>3, SMTT(60) DEF Works
    <2> QED BY <1>6, <2>1, <2>4
  <1>9. CASE t.kind = "reissue"
    <2> DEFINE d == RemoveReissueAsset(w, t)
    <2>1. CheckIfAssetExists(w, t.name) /\ InDisconnect(d, l, b, j - 1)
      BY <1>2, <1>4, <1>9, DisconnectReissue
    <2>2. v = [x EXCEPT !.cache = d]
      BY <1>3, <1>9, <2>1 DEF DisconnectTx
    <2>3. d \in Caches
      BY <2>1 DEF InDisconnect
    <2> HIDE DEF v, x, d
    <2>4. v \in Works /\ v.lru = x.lru /\ v.undo = x.undo /\ v.cache = d
      BY <1>6, <2>2, <2>3, SMTT(60) DEF Works
    <2> QED BY <1>6, <2>1, <2>4
  <1>10. CASE t.kind = "transfer"
    <2>1. v = w
      BY <1>3, <1>10 DEF DisconnectTx
    <2> QED BY <1>1, <1>2, <1>4, <1>10, <2>1, DisconnectTransfer
  <1> QED BY <1>5, <1>8, <1>9, <1>10

(* The whole block. *)
LEMMA DisconnectAll ==
    ASSUME StateOK, OneIssue, PlainBlocks, NEW l, NEW b, NEW undo, Undoable(l, b, undo)
    PROVE  LET w == DisconnectBlock(b, undo) IN Fresh(w.lru) /\ InDisconnect(w.cache, l, b, 0)
  <1> DEFINE S == {k \in 0..Len(b) : Disconnecting(l, b, undo, k)}
             N == Len(b)
             w0 == [Start EXCEPT !.undo = undo]
  <1>1. b \in Seq(Txs) /\ N \in Nat /\ undo \in Seq(Items)
    BY UndoableGrowth DEF Undoable, UndoFor
  <1>2. 0 \in 0..N /\ N \in 0..N /\ N - 0 = N /\ N - N = 0 /\ (N + 1)..N = {}
    BY <1>1, SMTT(60)
  <1>3. DisconnectTxs(b, undo, 0) = w0
    BY <1>1, DisconnectSteps
  <1>4. w0 \in Works /\ w0.lru = lru /\ w0.undo = undo /\ w0.cache = Empty
    <2>1. Start \in Works /\ Start.cache = Empty /\ Start.lru = lru
      BY StartOK
    <2> QED BY <1>1, <2>1, SMTT(60) DEF Works
  <1>5. InDisconnect(Empty, l, b, N)
    <2>1. /\ Empty.remove = {} /\ Empty.reUndo = {} /\ Empty.reAdd = {}
          /\ Empty.verUndo = Absent /\ Empty.add = Absent /\ Empty.reissued = Absent
          /\ Empty.verAdd = Absent /\ Empty \in Caches
      BY StartOK DEF Empty
    <2>2. \A n : ~IssuesAfter(b, n, N) /\ ~ReissuesAfter(b, n, N) /\ ~RevisesAfter(b, n, N)
      BY <1>2 DEF IssuesAfter, ReissuesAfter, RevisesAfter
    <2>3. {n \in Names : IssuesAfter(b, n, N)} = {}
      BY <2>2
    <2>4. {t \in Txs : t.kind = "reissue" /\ \E i \in (N + 1)..Len(b) : b[i] = t} = {}
      BY <1>2
    <2> QED BY <2>1, <2>2, <2>3, <2>4 DEF InDisconnect, Absent
  <1>6. 0 \in S
    BY <1>2, <1>3, <1>4, <1>5 DEF Disconnecting, StateOK
  <1>7. ASSUME NEW k \in 1..Len(b), k - 1 \in S PROVE k \in S
    BY <1>1, <1>7, InBlock, DisconnectStep
  <1>8. \A k \in 0..Len(b) : k \in S
    <2> HIDE DEF S
    <2> QED BY <1>1, <1>6, <1>7, Loop
  <1>9. Disconnecting(l, b, undo, N)
    BY <1>2, <1>8
  <1> QED BY <1>2, <1>9 DEF Disconnecting, DisconnectBlock

(* After a block is disconnected. *)
LEMMA FlushDisconnected ==
    ASSUME StateOK, OneIssue, PlainBlocks, NEW l, NEW b, NEW undo, Undoable(l, b, undo),
           NEW c, InDisconnect(c, l, b, 0), NEW n \in Names
    PROVE  NameOK(db, Flush(c), l, n) /\ VerifierOK(db, Flush(c), l, n)
  <1> DEFINE f == Flush(c)
             N == Len(b)
  <1>1. b \in Seq(Txs) /\ N \in Nat /\ N \in 0..N /\ 0 + 1 = 1
    BY UndoableGrowth, SMTT(60)
  <1>2. /\ IssuesAfter(b, n, 0) <=> Issues(b, n, N)
        /\ ReissuesAfter(b, n, 0) <=> Reissues(b, n, N)
    BY <1>1 DEF IssuesAfter, ReissuesAfter, Issues, Reissues
  <1>3. /\ c \in Caches /\ c.add[n] = None /\ c.reAdd = {} /\ c.verAdd[n] = None
        /\ n \in c.remove <=> Issues(b, n, N)
        /\ c.reissued[n] = IF Reissues(b, n, N) THEN Base(l, b, n) ELSE None
        /\ c.verUndo[n] = IF Issues(b, n, N) /\ n \in Restricted THEN Gone
                          ELSE IF RevisesAfter(b, n, 0) THEN l.verifier[n] ELSE None
    BY <1>2 DEF InDisconnect
  <1>4. /\ f.reAdd \cup f.reUndo = passets.reAdd \cup passets.reUndo \cup c.reUndo
        /\ f.add[n] = IF n \in c.remove THEN None ELSE passets.add[n]
        /\ n \in f.remove <=> n \in passets.remove \/ n \in c.remove
        /\ f.reissued[n] = Or(c.reissued[n], passets.reissued[n])
        /\ f.verAdd[n] = IF c.verUndo[n] # None THEN None ELSE passets.verAdd[n]
        /\ f.verUndo[n] = Or(c.verUndo[n], passets.verUndo[n])
    BY <1>3, FlushFields DEF StateOK, Or
  <1>5. NameOK(db, passets, ledger, n) /\ VerifierOK(db, passets, ledger, n)
    BY DEF StateOK
  <1>6. /\ ~Issues(b, n, N) /\ ~Reissues(b, n, N) => ledger.asset[n] = l.asset[n]
        /\ Issues(b, n, N) /\ ~Reissues(b, n, N) => ledger.asset[n] = Data(n)
        /\ Issues(b, n, N) => l.asset[n] = None
        /\ Issues(b, n, N) \/ Reissues(b, n, N) \/ l.asset[n] # None => ledger.asset[n] # None
        /\ ledger.asset[n] # None => l.asset[n] # None \/ Issues(b, n, N)
        /\ ~Verifies(b, n, N) => ledger.verifier[n] = l.verifier[n]
    <2>1. Growth(l, b, N) /\ ledger = LedgerFrom(l, b, N)
      BY <1>1, UndoableGrowth DEF Undoable
    <2> QED BY <2>1 DEF Growth
  <1>7. Reissues(b, n, N) => \E t \in c.reUndo : t.name = n
    <2>1. SUFFICES ASSUME NEW i \in 1..N, b[i].kind = "reissue", b[i].name = n
                   PROVE  b[i] \in c.reUndo
      BY DEF Reissues
    <2>2. b[i] \in Txs
      BY <1>1, InBlock
    <2> QED BY <1>1, <2>1, <2>2 DEF InDisconnect
  <1>8. RevisesAfter(b, n, 0) =>
            /\ n \in Restricted /\ l.asset[n] # None /\ l.verifier[n] \in STRING
            /\ ~Issues(b, n, N)
    <2>1. SUFFICES ASSUME NEW i \in 1..N, b[i].kind = "reissue", b[i].name = n,
                          b[i].verifier # ""
                   PROVE  /\ n \in Restricted /\ l.asset[n] # None /\ l.verifier[n] \in STRING
                          /\ ~Issues(b, n, N)
      BY <1>1 DEF RevisesAfter
    <2>2. b[i] \in Txs
      BY <1>1, InBlock
    <2>3. n \in Restricted
      BY <2>1, <2>2, IssuanceAssumption
    <2>4. Around(l, b, LedgerFrom(l, b, i - 1), b[i])
      BY <2>1, AroundReissue
    <2> QED BY <2>1, <2>3, <2>4 DEF Around
  <1>9. Verifies(b, n, N) => n \in Restricted /\ (Issues(b, n, N) \/ RevisesAfter(b, n, 0))
    <2>1. SUFFICES ASSUME NEW i \in 1..N, b[i].kind # "transfer", b[i].name = n,
                          b[i].verifier # ""
                   PROVE  n \in Restricted /\ (Issues(b, n, N) \/ RevisesAfter(b, n, 0))
      BY DEF Verifies
    <2>2. b[i] \in Txs
      BY <1>1, InBlock
    <2>3. n \in Restricted /\ b[i].kind \in {"issue", "reissue", "transfer"}
      BY <2>1, <2>2, IssuanceAssumption
    <2> QED BY <1>1, <2>1, <2>3 DEF Issues, RevisesAfter
  <1>10. Base(l, b, n) = IF Issues(b, n, N) THEN Data(n) ELSE l.asset[n]
    BY DEF Base
  <1>13. Issues(b, n, N) => Data(n) # None
    <2>1. SUFFICES ASSUME NEW i \in 1..N, b[i].kind = "issue", b[i].name = n
                   PROVE  Data(n) # None
      BY DEF Issues
    <2>2. b[i] \in Txs
      BY <1>1, InBlock
    <2> QED BY <2>1, <2>2, DataIssued
  <1> HIDE DEF f
  <1>11. NameOK(db, f, l, n)
    <2>1. f.reissued[n] # None => \E t \in f.reAdd \cup f.reUndo : t.name = n
      BY <1>3, <1>4, <1>5, <1>7 DEF NameOK, Or
    <2>2. CASE Issues(b, n, N)
      BY <1>3, <1>4, <1>5, <1>6, <1>10, <1>13, <2>1, <2>2 DEF NameOK, Or
    <2>3. CASE ~Issues(b, n, N)
      BY <1>3, <1>4, <1>5, <1>6, <1>10, <2>1, <2>3 DEF NameOK, Or
    <2> QED BY <2>2, <2>3
  <1>12. VerifierOK(db, f, l, n)
    <2>1. CASE Issues(b, n, N) /\ n \in Restricted
      BY <1>3, <1>4, <1>5, <1>6, <2>1, AbsentAssumption DEF VerifierOK, Or
    <2>2. CASE RevisesAfter(b, n, 0)
      <3>1. l.verifier[n] # None
        BY <1>8, <2>2, AbsentAssumption
      <3> QED BY <1>3, <1>4, <1>5, <1>8, <2>2, <3>1 DEF VerifierOK, Or
    <2>3. CASE ~RevisesAfter(b, n, 0) /\ ~(Issues(b, n, N) /\ n \in Restricted)
      <3>1. f.verAdd[n] = passets.verAdd[n] /\ f.verUndo[n] = passets.verUndo[n]
        BY <1>3, <1>4, <2>3 DEF Or
      <3>2. ledger.verifier[n] = l.verifier[n]
        BY <1>6, <1>9, <2>3
      <3>3. n \in Restricted => (l.asset[n] # None <=> ledger.asset[n] # None)
        BY <1>6, <2>3
      <3> QED BY <1>5, <3>1, <3>2, <3>3 DEF VerifierOK
    <2> QED BY <2>1, <2>2, <2>3
  <1> QED BY <1>11, <1>12 DEF f

-----------------------------------------------------------------------------
(* Dumping the global cache *)

(* A reissue that waits to be written is one of an asset. *)
Pending == \A t \in passets.reAdd : ledger.asset[t.name] # None

(* What is written is the ledger. *)
LEMMA DumpedName ==
    ASSUME StateOK, Pending, NEW n \in Names
    PROVE  /\ Dumped.asset[n] = ledger.asset[n]
           /\ Dumped.verifier[n] = IF n \in Restricted THEN ledger.verifier[n] ELSE None
  <1>1. NameOK(db, passets, ledger, n) /\ VerifierOK(db, passets, ledger, n)
    BY DEF StateOK
  <1>2. /\ n \in Rewritten => ledger.asset[n] # None \/ n \notin passets.remove
        /\ passets.reissued[n] # None /\ n \notin passets.remove => n \in Rewritten
    BY <1>1 DEF Rewritten, NamesOf, Pending, NameOK
  <1>3. /\ Dumped.asset[n] = Or(IF n \in Rewritten THEN passets.reissued[n] ELSE None,
                Or(passets.add[n], IF n \in passets.remove THEN None ELSE db.asset[n]))
        /\ Dumped.verifier[n] = Known(Or(passets.verUndo[n], Or(passets.verAdd[n],
                IF n \in passets.remove THEN None ELSE db.verifier[n])))
    BY DEF Dumped
  <1>4. Dumped.asset[n] = ledger.asset[n]
    BY <1>1, <1>2, <1>3 DEF NameOK, Or
  <1>5. ledger.verifier[n] # Gone
    <2>1. ledger.verifier[n] \in STRING \cup {None}
      BY SMTT(60) DEF StateOK, LedgerOK, Ledgers
    <2> QED BY <2>1, AbsentAssumption
  <1>6. n \in Restricted => (ledger.asset[n] # None <=> ledger.verifier[n] # None)
    BY DEF StateOK, LedgerOK
  <1>7. CASE n \in Restricted /\ ledger.asset[n] # None
    <2>1. n \notin passets.remove
      BY <1>1, <1>7 DEF NameOK
    <2> QED BY <1>1, <1>3, <1>4, <1>5, <1>7, <2>1 DEF VerifierOK, Known
  <1>8. CASE n \notin Restricted \/ ledger.asset[n] = None
    <2>1. Dumped.verifier[n] = None
      BY <1>1, <1>3, <1>8, AbsentAssumption DEF VerifierOK, Known, Or
    <2> QED BY <1>4, <1>6, <1>8, <2>1
  <1> QED BY <1>4, <1>7, <1>8

(* After the dump. *)
LEMMA DumpedOK ==
    ASSUME StateOK, Pending
    PROVE  /\ Dumped.asset = ledger.asset /\ Dumped \in Lookups
           /\ LookupsAfterDump \in Lookups
           /\ \A n \in Names : /\ LookupsAfterDump.asset[n] \in {None, Dumped.asset[n]}
                               /\ LookupsAfterDump.verifier[n] \in {None, Dumped.verifier[n]}
                               /\ NameOK(Dumped, Empty, ledger, n)
                               /\ VerifierOK(Dumped, Empty, ledger, n)
  <1> DEFINE d == Dumped
             x == LookupsAfterDump
             V == STRING \cup {None, Gone}
  <1>1. /\ ledger.asset \in MaybeAsset /\ ledger.verifier \in [Names -> STRING \cup {None}]
        /\ lru.asset \in MaybeAsset /\ lru.verifier \in [Names -> V]
        /\ passets.add \in MaybeAsset
    BY CacheParts, SMTT(60) DEF StateOK, LedgerOK, Ledgers, Fresh, Lookups
  <1>2. d = [asset |-> d.asset, verifier |-> d.verifier]
    BY DEF Dumped
  <1>3. d.asset = [n \in Names |-> d.asset[n]] /\ d.verifier = [n \in Names |-> d.verifier[n]]
    BY DEF Dumped
  <1>4. x = [asset |-> x.asset, verifier |-> x.verifier]
    BY DEF LookupsAfterDump
  <1>5. /\ x.asset = [n \in Names |-> x.asset[n]] /\ x.verifier = [n \in Names |-> x.verifier[n]]
        /\ \A n \in Names :
            /\ x.asset[n] = IF n \in Rewritten THEN None ELSE
                Or(passets.add[n], IF n \in passets.remove THEN None ELSE lru.asset[n])
            /\ x.verifier[n] = IF passets.verAdd[n] # None \/ passets.verUndo[n] # None THEN None
                               ELSE lru.verifier[n]
    BY DEF LookupsAfterDump, Without, Overwrite, Keys, Or
  <1>6. \A n \in Names : d.asset[n] = Or(IF n \in Rewritten THEN passets.reissued[n] ELSE None,
                Or(passets.add[n], IF n \in passets.remove THEN None ELSE db.asset[n]))
    BY DEF Dumped
  <1> HIDE DEF d, x, V
  <1>7. ASSUME NEW n \in Names
        PROVE  /\ d.asset[n] = ledger.asset[n]
               /\ d.verifier[n] = IF n \in Restricted THEN ledger.verifier[n] ELSE None
    BY DumpedName DEF d
  <1>8. d.asset = ledger.asset
    <2>1. ledger.asset = [n \in Names |-> ledger.asset[n]]
      BY <1>1 DEF MaybeAsset
    <2> QED BY <1>3, <1>7, <2>1
  <1>9. d \in Lookups
    <2>1. \A n \in Names : d.verifier[n] \in STRING \cup {None, Gone}
      BY <1>1, <1>7
    <2>2. d.verifier \in [Names -> STRING \cup {None, Gone}]
      BY <1>3, <2>1
    <2> QED BY <1>1, <1>2, <1>8, <2>2 DEF Lookups
  <1>10. x \in Lookups
    <2>1. \A n \in Names : x.asset[n] \in Assets \cup {None}
      BY <1>1, <1>5 DEF MaybeAsset, Or
    <2>2. \A n \in Names : x.verifier[n] \in V
      BY <1>1, <1>5 DEF V
    <2>3. x.asset \in [Names -> Assets \cup {None}] /\ x.verifier \in [Names -> V]
      BY <1>5, <2>1, <2>2
    <2> QED BY <1>4, <2>3 DEF Lookups, MaybeAsset, V
  <1>11. ASSUME NEW n \in Names
         PROVE  /\ x.asset[n] \in {None, d.asset[n]} /\ x.verifier[n] \in {None, d.verifier[n]}
                /\ NameOK(d, Empty, ledger, n) /\ VerifierOK(d, Empty, ledger, n)
    <2>1. /\ NameOK(db, passets, ledger, n) /\ VerifierOK(db, passets, ledger, n)
          /\ lru.asset[n] \in {None, db.asset[n]} /\ lru.verifier[n] \in {None, db.verifier[n]}
          /\ n \in Restricted => (ledger.asset[n] # None <=> ledger.verifier[n] # None)
      BY DEF StateOK, Fresh, LedgerOK
    <2>2. x.asset[n] \in {None, d.asset[n]}
      BY <1>5, <1>6, <2>1 DEF Or
    <2>3. x.verifier[n] \in {None, d.verifier[n]}
      <3>1. SUFFICES ASSUME passets.verAdd[n] = None, passets.verUndo[n] = None
                     PROVE  db.verifier[n] \in {None, d.verifier[n]}
        BY <1>5, <2>1
      <3>2. CASE n \in Restricted /\ ledger.asset[n] # None
        BY <1>7, <2>1, <3>1, <3>2 DEF VerifierOK, Or
      <3>3. CASE n \notin Restricted \/ ledger.asset[n] = None
        BY <2>1, <3>1, <3>3, AbsentAssumption DEF VerifierOK
      <3> QED BY <3>2, <3>3
    <2>4. /\ Empty.remove = {} /\ Empty.add[n] = None /\ Empty.reissued[n] = None
          /\ Empty.verAdd[n] = None /\ Empty.verUndo[n] = None
      BY DEF Empty, Absent
    <2>5. NameOK(d, Empty, ledger, n)
      BY <1>7, <2>4 DEF NameOK, Or
    <2>6. d.verifier[n] # Gone
      <3>1. ledger.verifier[n] \in STRING \cup {None}
        BY <1>1
      <3> QED BY <1>7, <3>1, AbsentAssumption
    <2>7. VerifierOK(d, Empty, ledger, n)
      BY <1>7, <2>1, <2>4, <2>6 DEF VerifierOK, Or
    <2> QED BY <2>2, <2>3, <2>5, <2>7
  <1> QED BY <1>8, <1>9, <1>10, <1>11 DEF d, x

-----------------------------------------------------------------------------
(* The active chain *)

Entries == [block : Blocks, undo : Seq(Items), before : Ledgers]

(* The ledger before block i of the chain ch, or, behind its end, l. *)
LedgerAt(ch, l, i) == IF i = Len(ch) + 1 THEN l ELSE ch[i].before

(* Block e leads to the ledger m, and can be undone. *)
EntryOK(e, m) ==
    /\ LedgerOK(e.before)
    /\ LegalTo(e.before, e.block, Len(e.block))
    /\ UndoFor(e.undo, e.before, e.block, Len(e.block))
    /\ m = LedgerFrom(e.before, e.block, Len(e.block))

AllReissues(e) == ReissuesIn(e.block, Len(e.block))

(* The blocks lead from ledger to ledger, an asset that was reissued is on *)
(* all later ledgers, and what p has to write was reissued by the chain.   *)
ChainOK(ch, l, p) ==
    /\ ch \in Seq(Entries)
    /\ \A i \in 1..Len(ch) : EntryOK(ch[i], LedgerAt(ch, l, i + 1))
    /\ \A i \in 1..Len(ch) : \A t \in AllReissues(ch[i]) : \A j \in (i + 1)..(Len(ch) + 1) :
        LedgerAt(ch, l, j).asset[t.name] # None
    /\ \A t \in p.reAdd : \E i \in 1..Len(ch) : t \in AllReissues(ch[i])

(* One more block. *)
LEMMA ChainGrows ==
    ASSUME NEW ch, NEW l, NEW p, ChainOK(ch, l, p), NEW e \in Entries, e.before = l, NEW m,
           EntryOK(e, m), NEW q, q.reAdd \subseteq p.reAdd \cup AllReissues(e),
           \A n \in Names : l.asset[n] # None => m.asset[n] # None,
           \A t \in AllReissues(e) : m.asset[t.name] # None
    PROVE  ChainOK(Append(ch, e), m, q)
  <1> DEFINE c == Append(ch, e)
             N == Len(ch)
  <1>1. ch \in Seq(Entries)
    BY DEF ChainOK
  <1>2. /\ c \in Seq(Entries) /\ Len(c) = N + 1 /\ N \in Nat /\ c[N + 1] = e
        /\ \A i \in 1..N : c[i] = ch[i]
    BY <1>1, SMTT(60)
  <1> HIDE DEF c, N
  <1>3. /\ 1..Len(c) = (1..N) \cup {N + 1} /\ N + 1 # Len(c) + 1 /\ (N + 1) + 1 = Len(c) + 1
        /\ \A i \in 1..N : /\ i + 1 # Len(c) + 1 /\ i # N + 1 /\ i # Len(c) + 1
                           /\ i + 1 \in (1..N) \cup {N + 1}
                           /\ N + 1 \in (i + 1)..(N + 1)
                           /\ (i + 1)..(Len(c) + 1) = ((i + 1)..(N + 1)) \cup {Len(c) + 1}
                           /\ \A j \in (i + 1)..(N + 1) : j \in (1..N) \cup {N + 1}
        /\ ((N + 1) + 1)..(Len(c) + 1) = {Len(c) + 1}
    BY <1>2, SMTT(60)
  <1>4. /\ LedgerAt(c, m, Len(c) + 1) = m
        /\ \A j \in (1..N) \cup {N + 1} : LedgerAt(c, m, j) = LedgerAt(ch, l, j)
    <2>1. LedgerAt(c, m, Len(c) + 1) = m
      BY DEF LedgerAt
    <2>2. LedgerAt(c, m, N + 1) = LedgerAt(ch, l, N + 1)
      BY <1>2, <1>3 DEF LedgerAt, N
    <2>3. ASSUME NEW j \in 1..N PROVE LedgerAt(c, m, j) = LedgerAt(ch, l, j)
      BY <1>2, <1>3 DEF LedgerAt, N
    <2> QED BY <2>1, <2>2, <2>3
  <1>5. /\ \A i \in 1..N : EntryOK(ch[i], LedgerAt(ch, l, i + 1))
        /\ \A i \in 1..N : \A t \in AllReissues(ch[i]) : \A j \in (i + 1)..(N + 1) :
              LedgerAt(ch, l, j).asset[t.name] # None
        /\ \A t \in p.reAdd : \E i \in 1..N : t \in AllReissues(ch[i])
    BY DEF ChainOK, N
  <1>6. ASSUME NEW i \in 1..Len(c) PROVE EntryOK(c[i], LedgerAt(c, m, i + 1))
    <2>1. CASE i \in 1..N
      <3>1. EntryOK(ch[i], LedgerAt(ch, l, i + 1)) /\ c[i] = ch[i]
        BY <1>2, <1>5, <2>1
      <3>2. LedgerAt(c, m, i + 1) = LedgerAt(ch, l, i + 1)
        BY <1>3, <1>4, <2>1
      <3> QED BY <3>1, <3>2
    <2>2. CASE i = N + 1
      BY <1>2, <1>3, <1>4, <2>2
    <2> QED BY <1>3, <2>1, <2>2
  <1>7. ASSUME NEW i \in 1..Len(c), NEW t \in AllReissues(c[i]), NEW j \in (i + 1)..(Len(c) + 1)
        PROVE  LedgerAt(c, m, j).asset[t.name] # None
    <2>1. CASE i = N + 1
      <3>1. j = Len(c) + 1 /\ c[i] = e
        BY <1>2, <1>3, <2>1
      <3> QED BY <1>4, <3>1
    <2>2. CASE i \in 1..N
      <3>1. t \in AllReissues(ch[i])
        BY <1>2, <2>2
      <3>2. t \in Txs /\ t.name \in Names
        BY <3>1, IssuanceAssumption DEF AllReissues, ReissuesIn
      <3>3. CASE j \in (i + 1)..(N + 1)
        <4>1. LedgerAt(c, m, j) = LedgerAt(ch, l, j)
          BY <1>3, <1>4, <2>2, <3>3
        <4> QED BY <1>5, <2>2, <3>1, <3>3, <4>1
      <3>4. CASE j = Len(c) + 1
        <4>1. LedgerAt(ch, l, N + 1).asset[t.name] # None
          BY <1>3, <1>5, <2>2, <3>1
        <4>2. LedgerAt(ch, l, N + 1) = l
          BY DEF LedgerAt, N
        <4> QED BY <1>4, <3>2, <3>4, <4>1, <4>2
      <3> QED BY <1>3, <2>2, <3>3, <3>4
    <2> QED BY <1>3, <2>1, <2>2
  <1>8. ASSUME NEW t \in q.reAdd PROVE \E i \in 1..Len(c) : t \in AllReissues(c[i])
    <2>1. CASE t \in AllReissues(e)
      BY <1>2, <1>3, <2>1
    <2>2. CASE t \in p.reAdd
      <3>1. PICK i \in 1..N : t \in AllReissues(ch[i])
        BY <1>5, <2>2
      <3> QED BY <1>2, <1>3, <3>1
    <2> QED BY <2>1, <2>2
  <1> QED BY <1>2, <1>6, <1>7, <1>8 DEF ChainOK, c

(* A sequence without its last element. *)
LEMMA FrontSeq ==
    ASSUME NEW S, NEW s \in Seq(S), Len(s) # 0
    PROVE  /\ SubSeq(s, 1, Len(s) - 1) \in Seq(S) /\ Len(SubSeq(s, 1, Len(s) - 1)) = Len(s) - 1
           /\ \A i \in 1..(Len(s) - 1) : SubSeq(s, 1, Len(s) - 1)[i] = s[i]
  <1>1. Len(s) \in Nat /\ Len(s) - 1 \in Nat
    BY SMTT(60)
  <1>2. Len(SubSeq(s, 1, Len(s) - 1)) = Len(s) - 1
    BY <1>1, SMTT(60)
  <1>3. \A i \in 1..(Len(s) - 1) : SubSeq(s, 1, Len(s) - 1)[i] = s[i]
    BY <1>1, SMTT(60)
  <1>4. SubSeq(s, 1, Len(s) - 1) \in Seq(S)
    BY <1>1, SMTT(60)
  <1> QED BY <1>2, <1>3, <1>4

(* One block less. *)
LEMMA ChainShrinks ==
    ASSUME NEW ch, NEW l, NEW p, ChainOK(ch, l, p), ch # <<>>, NEW q,
           q.reAdd \subseteq p.reAdd \ AllReissues(ch[Len(ch)])
    PROVE  ChainOK(SubSeq(ch, 1, Len(ch) - 1), ch[Len(ch)].before, q)
  <1> DEFINE N == Len(ch)
             c == SubSeq(ch, 1, N - 1)
             m == ch[N].before
  <1>1. ch \in Seq(Entries)
    BY DEF ChainOK
  <1>9. N \in Nat /\ N # 0
    BY <1>1, SMTT(60)
  <1>2. /\ N \in Nat /\ N # 0 /\ c \in Seq(Entries) /\ Len(c) = N - 1
        /\ \A i \in 1..(N - 1) : c[i] = ch[i]
    BY <1>1, <1>9, FrontSeq
  <1> HIDE DEF c, N
  <1>3. /\ 1..N = (1..Len(c)) \cup {N} /\ Len(c) + 1 = N /\ N # N + 1
        /\ \A i \in 1..Len(c) : /\ i \in 1..(N - 1) /\ i \in 1..N /\ i # N /\ i # N + 1
                                /\ i + 1 \in (1..Len(c)) \cup {N}
                                /\ \A j \in (i + 1)..(Len(c) + 1) :
                                    j \in (i + 1)..(N + 1) /\ j \in (1..Len(c)) \cup {N}
    BY <1>2, SMTT(60)
  <1>4. \A j \in (1..Len(c)) \cup {N} : LedgerAt(c, m, j) = LedgerAt(ch, l, j)
    <2>1. LedgerAt(c, m, N) = LedgerAt(ch, l, N)
      BY <1>3 DEF LedgerAt, N
    <2>2. ASSUME NEW j \in 1..Len(c) PROVE LedgerAt(c, m, j) = LedgerAt(ch, l, j)
      BY <1>2, <1>3 DEF LedgerAt, N
    <2> QED BY <2>1, <2>2
  <1> HIDE DEF m
  <1>5. /\ \A i \in 1..N : EntryOK(ch[i], LedgerAt(ch, l, i + 1))
        /\ \A i \in 1..N : \A t \in AllReissues(ch[i]) : \A j \in (i + 1)..(N + 1) :
              LedgerAt(ch, l, j).asset[t.name] # None
        /\ \A t \in p.reAdd : \E i \in 1..N : t \in AllReissues(ch[i])
    BY DEF ChainOK, N
  <1>6. ASSUME NEW i \in 1..Len(c) PROVE EntryOK(c[i], LedgerAt(c, m, i + 1))
    <2>1. EntryOK(ch[i], LedgerAt(ch, l, i + 1)) /\ c[i] = ch[i]
      BY <1>2, <1>3, <1>5
    <2>2. LedgerAt(c, m, i + 1) = LedgerAt(ch, l, i + 1)
      BY <1>3, <1>4
    <2> QED BY <2>1, <2>2
  <1>7. ASSUME NEW i \in 1..Len(c), NEW t \in AllReissues(c[i]), NEW j \in (i + 1)..(Len(c) + 1)
        PROVE  LedgerAt(c, m, j).asset[t.name] # None
    <2>1. t \in AllReissues(ch[i]) /\ i \in 1..N /\ j \in (i + 1)..(N + 1)
      BY <1>2, <1>3
    <2>2. LedgerAt(c, m, j) = LedgerAt(ch, l, j)
      BY <1>3, <1>4
    <2> QED BY <1>5, <2>1, <2>2
  <1>8. ASSUME NEW t \in q.reAdd PROVE \E i \in 1..Len(c) : t \in AllReissues(c[i])
    <2>1. t \in p.reAdd /\ t \notin AllReissues(ch[N])
      BY DEF N
    <2>2. PICK i \in 1..N : t \in AllReissues(ch[i])
      BY <1>5, <2>1
    <2>3. i \in 1..Len(c)
      BY <1>3, <2>1, <2>2
    <2> QED BY <1>2, <1>3, <2>2, <2>3
  <1> QED BY <1>2, <1>6, <1>7, <1>8 DEF ChainOK, c, m, N

-----------------------------------------------------------------------------
(* The inductive invariant *)

IndInv == StateOK /\ ChainOK(chain, ledger, passets)

(* Reissues that wait to be written are reissues of the active chain. *)
LEMMA IndPending ==
    ASSUME IndInv
    PROVE  Pending
  <1> SUFFICES ASSUME NEW t \in passets.reAdd PROVE ledger.asset[t.name] # None
    BY DEF Pending
  <1>1. PICK i \in 1..Len(chain) : t \in AllReissues(chain[i])
    BY DEF IndInv, ChainOK
  <1>2. chain \in Seq(Entries)
    BY DEF IndInv, ChainOK
  <1>3. Len(chain) + 1 \in (i + 1)..(Len(chain) + 1)
    BY <1>2, SMTT(60)
  <1>4. LedgerAt(chain, ledger, Len(chain) + 1) = ledger
    BY DEF LedgerAt
  <1> QED BY <1>1, <1>3, <1>4 DEF IndInv, ChainOK

(* It holds at first. *)
LEMMA IndInit ==
    ASSUME Init
    PROVE  IndInv
  <1>1. /\ Absent \in MaybeAsset /\ Absent \in [Names -> STRING \cup {None, Gone}]
        /\ Absent \in [Names -> STRING \cup {None}]
    BY DEF Absent, MaybeAsset
  <1>2. Empty \in Caches
    BY <1>1, SMTT(60) DEF Empty, Caches
  <1>3. Nothing \in Lookups /\ Nothing \in Ledgers
    BY <1>1, SMTT(60) DEF Nothing, Lookups, Ledgers
  <1>4. \A n \in Names : Nothing.asset[n] = None /\ Nothing.verifier[n] = None
    BY DEF Nothing, Absent
  <1>5. LedgerOK(Nothing)
    BY <1>3, <1>4, IssuanceAssumption DEF LedgerOK
  <1>6. ASSUME NEW n \in Names
        PROVE  NameOK(Nothing, Empty, Nothing, n) /\ VerifierOK(Nothing, Empty, Nothing, n)
    <2>1. /\ Empty.remove = {} /\ Empty.add[n] = None /\ Empty.reissued[n] = None
          /\ Empty.verAdd[n] = None /\ Empty.verUndo[n] = None
      BY DEF Empty, Absent
    <2> QED BY <1>4, <2>1, AbsentAssumption DEF NameOK, VerifierOK, Or
  <1>7. StateOK
    BY <1>2, <1>3, <1>4, <1>5, <1>6 DEF Init, StateOK, Fresh
  <1>8. <<>> \in Seq(Entries) /\ 1..Len(<<>>) = {} /\ Empty.reAdd = {}
    BY SMTT(60) DEF Empty
  <1>9. ChainOK(<<>>, Nothing, Empty)
    BY <1>8 DEF ChainOK
  <1> QED BY <1>7, <1>9 DEF IndInv, Init

(* A block is connected. *)
LEMMA IndConnect ==
    ASSUME IndInv, OneIssue, PlainBlocks, NEW b \in Blocks, ConnectTip(b)
    PROVE  IndInv'
  <1> DEFINE w == ConnectBlock(b)
             N == Len(b)
             m == LedgerFrom(ledger, b, N)
             e == [block |-> b, undo |-> w.undo, before |-> ledger]
             f == Flush(w.cache)
  <1>1. StateOK /\ ChainOK(chain, ledger, passets)
    BY DEF IndInv
  <1>2. /\ CoinsExist(b) /\ w.ok /\ passets' = f /\ lru' = w.lru /\ chain' = Append(chain, e)
        /\ ledger' = m /\ db' = db
    BY DEF ConnectTip, LedgerAfter
  <1>3. b \in Seq(Txs)
    BY IssuanceAssumption
  <1>4. N \in 0..N /\ N \in Nat
    BY <1>3, SMTT(60)
  <1>5. /\ w \in Works /\ Fresh(w.lru) /\ LegalTo(ledger, b, N) /\ InConnect(w.cache, b, N)
        /\ UndoFor(w.undo, ledger, b, N)
    BY <1>1, <1>2, ConnectAll DEF Connecting, ConnectBlock
  <1>6. LedgerOK(m) /\ Growth(ledger, b, N)
    BY <1>1, <1>3, <1>4, <1>5, GrowthTo DEF StateOK
  <1>7. w.cache \in Caches /\ passets \in Caches /\ w.undo \in Seq(Items)
    BY <1>1, <1>5, WorkParts DEF StateOK
  <1>8. \A n \in Names : NameOK(db, f, m, n) /\ VerifierOK(db, f, m, n)
    BY <1>1, <1>3, <1>4, <1>5, <1>6, FlushConnected
  <1>9. f \in Caches
    BY <1>7, FlushFields
  <1>10. f.reAdd \subseteq passets.reAdd \cup ReissuesIn(b, N)
    BY <1>5, <1>7, FlushFields DEF InConnect
  <1> HIDE DEF w, f, m, N
  <1>11. StateOK'
    BY <1>1, <1>2, <1>5, <1>6, <1>8, <1>9 DEF StateOK, Fresh
  <1>12. e \in Entries /\ e.before = ledger /\ e.block = b /\ e.undo = w.undo
    <2>1. ledger \in Ledgers
      BY <1>1 DEF StateOK, LedgerOK
    <2> QED BY <1>7, <2>1 DEF Entries
  <1> HIDE DEF e
  <1>13. EntryOK(e, m)
    BY <1>1, <1>5, <1>12 DEF EntryOK, StateOK, m, N
  <1>14. AllReissues(e) = ReissuesIn(b, N)
    BY <1>12 DEF AllReissues, N
  <1>15. \A n \in Names : ledger.asset[n] # None => m.asset[n] # None
    BY <1>6 DEF Growth, m
  <1>16. ASSUME NEW t \in AllReissues(e) PROVE m.asset[t.name] # None
    <2>1. t \in Txs /\ t.name \in Names /\ Reissues(b, t.name, N)
      BY <1>14, <1>16, IssuanceAssumption DEF ReissuesIn, Reissues
    <2> QED BY <1>6, <2>1 DEF Growth, m
  <1>17. ChainOK(Append(chain, e), m, f)
    BY <1>1, <1>10, <1>12, <1>13, <1>14, <1>15, <1>16, ChainGrows
  <1> QED BY <1>2, <1>11, <1>17 DEF IndInv

(* The tip is disconnected. *)
LEMMA IndDisconnect ==
    ASSUME IndInv, OneIssue, PlainBlocks, DisconnectTip
    PROVE  IndInv'
  <1> DEFINE N == Len(chain)
             e == chain[N]
             w == DisconnectBlock(e.block, e.undo)
             f == Flush(w.cache)
  <1>1. StateOK /\ ChainOK(chain, ledger, passets)
    BY DEF IndInv
  <1>2. /\ chain # <<>> /\ passets' = f /\ lru' = w.lru /\ ledger' = e.before
        /\ chain' = SubSeq(chain, 1, N - 1) /\ db' = db
    BY DEF DisconnectTip
  <1>3. chain \in Seq(Entries)
    BY <1>1 DEF ChainOK
  <1>4. N \in 1..N /\ e \in Entries
    BY <1>2, <1>3, SMTT(60)
  <1>5. EntryOK(e, ledger)
    <2>1. LedgerAt(chain, ledger, N + 1) = ledger
      BY DEF LedgerAt
    <2> QED BY <1>1, <1>4, <2>1 DEF ChainOK
  <1>6. Undoable(e.before, e.block, e.undo)
    <2>1. e.block \in Blocks
      BY <1>4 DEF Entries
    <2> QED BY <1>5, <2>1 DEF EntryOK, Undoable
  <1>7. Fresh(w.lru) /\ InDisconnect(w.cache, e.before, e.block, 0)
    BY <1>1, <1>6, DisconnectAll
  <1>8. \A n \in Names : NameOK(db, f, e.before, n) /\ VerifierOK(db, f, e.before, n)
    BY <1>1, <1>6, <1>7, FlushDisconnected
  <1>9. /\ f \in Caches /\ f.reAdd = (passets.reAdd \cup w.cache.reAdd) \ w.cache.reUndo
        /\ w.cache.reAdd = {}
    BY <1>1, <1>7, FlushFields DEF InDisconnect, StateOK
  <1>10. w.cache.reUndo = AllReissues(e)
    <2>1. 0 + 1 = 1
      BY SMTT(60)
    <2> QED BY <1>7, <2>1 DEF InDisconnect, AllReissues, ReissuesIn
  <1>11. f.reAdd \subseteq passets.reAdd \ AllReissues(e)
    BY <1>9, <1>10
  <1>12. LedgerOK(e.before)
    BY <1>5 DEF EntryOK
  <1> HIDE DEF f, w
  <1>13. ChainOK(SubSeq(chain, 1, N - 1), e.before, f)
    BY <1>1, <1>2, <1>11, ChainShrinks
  <1> HIDE DEF e, N
  <1>14. StateOK'
    BY <1>1, <1>2, <1>7, <1>8, <1>9, <1>12 DEF StateOK, Fresh
  <1> QED BY <1>2, <1>13, <1>14 DEF IndInv

(* The global cache is dumped. *)
LEMMA IndDump ==
    ASSUME IndInv, DumpCacheToDatabase
    PROVE  IndInv'
  <1>1. StateOK /\ ChainOK(chain, ledger, passets) /\ Pending
    BY IndPending DEF IndInv
  <1>2. /\ db' = Dumped /\ lru' = LookupsAfterDump /\ passets' = Empty
        /\ chain' = chain /\ ledger' = ledger
    BY DEF DumpCacheToDatabase
  <1>3. /\ Dumped \in Lookups /\ LookupsAfterDump \in Lookups
        /\ \A n \in Names : /\ LookupsAfterDump.asset[n] \in {None, Dumped.asset[n]}
                            /\ LookupsAfterDump.verifier[n] \in {None, Dumped.verifier[n]}
                            /\ NameOK(Dumped, Empty, ledger, n)
                            /\ VerifierOK(Dumped, Empty, ledger, n)
    BY <1>1, DumpedOK
  <1>4. Empty \in Caches /\ Empty.reAdd = {}
    BY <1>1, StartOK DEF Empty
  <1>5. StateOK'
    BY <1>1, <1>2, <1>3, <1>4 DEF StateOK, Fresh
  <1>6. ChainOK(chain, ledger, Empty)
    BY <1>1, <1>4 DEF ChainOK
  <1> QED BY <1>2, <1>5, <1>6 DEF IndInv

(* A look-up. *)
LEMMA IndLookup ==
    ASSUME IndInv, NEW n \in Names, GetAssetData(n)
    PROVE  IndInv'
  <1> DEFINE m == AfterMetaData(Start, n)
             v == AfterVerifier(m, n, TRUE)
  <1>1. StateOK /\ ChainOK(chain, ledger, passets) /\ db \in Lookups
    BY DEF IndInv, StateOK
  <1>2. lru' = v.lru /\ db' = db /\ passets' = passets /\ chain' = chain /\ ledger' = ledger
    BY DEF GetAssetData
  <1>3. m \in Works /\ Fresh(m.lru)
    BY <1>1, StartOK, AfterLooks DEF Looks
  <1>4. Fresh(v.lru)
    BY <1>1, <1>3, AfterLooks DEF Looks
  <1> HIDE DEF v, m
  <1>5. StateOK'
    BY <1>1, <1>2, <1>4 DEF StateOK, Fresh
  <1> QED BY <1>1, <1>2, <1>5 DEF IndInv

(* Every step keeps it. *)
LEMMA IndStep ==
    ASSUME IndInv, OneIssue, PlainBlocks, [Next]_vars
    PROVE  IndInv'
  <1>1. CASE UNCHANGED vars
    BY <1>1 DEF IndInv, StateOK, Fresh, vars
  <1>2. ASSUME NEW b \in Blocks, ConnectTip(b) PROVE IndInv'
    BY <1>2, IndConnect
  <1>3. CASE DisconnectTip
    BY <1>3, IndDisconnect
  <1>4. CASE DumpCacheToDatabase
    BY <1>4, IndDump
  <1>5. ASSUME NEW n \in Names, GetAssetData(n) PROVE IndInv'
    BY <1>5, IndLookup
  <1> QED BY <1>1, <1>2, <1>3, <1>4, <1>5 DEF Next

-----------------------------------------------------------------------------
(* What follows from it *)

(* It holds throughout. *)
LEMMA IndAlways ==
    ASSUME OneIssue, PlainBlocks
    PROVE  Spec => []IndInv
  <1>1. Init => IndInv
    BY IndInit
  <1>2. IndInv /\ [Next]_vars => IndInv'
    BY IndStep
  <1> QED BY <1>1, <1>2, PTL DEF Spec

(* The caches and the database give, for every name, exactly the asset the *)
(* active chain defines, whatever was connected, disconnected and dumped:  *)
(* CheckIfAssetExists and GetAssetMetaDataIfExists after any sequence of   *)
(* ConnectTip, DisconnectTip, DumpCacheToDatabase and look-ups.            *)
THEOREM AssetsAlwaysExact ==
    ASSUME OneIssue, PlainBlocks
    PROVE  Spec => []AssetsExact
  <1>1. ASSUME IndInv PROVE AssetsExact
    <2>1. StateOK
      BY <1>1 DEF IndInv
    <2>2. /\ Start \in Works /\ Start.cache = Empty /\ Start.lru = lru /\ Fresh(Start.lru)
          /\ Empty \in Caches
      BY <2>1, StartOK
    <2>3. /\ passets.add \in MaybeAsset /\ passets.reissued \in MaybeAsset
          /\ passets.remove \in SUBSET Names /\ passets.reAdd \in SUBSET Txs
          /\ passets.reUndo \in SUBSET Txs
      BY <2>1, CacheParts DEF StateOK
    <2>4. db.asset \in MaybeAsset /\ lru.asset \in MaybeAsset /\ ledger.asset \in MaybeAsset
      BY <2>1, SMTT(60) DEF StateOK, Fresh, Lookups, LedgerOK, Ledgers
    <2>5. TypeOK
      <3>1. ASSUME NEW n \in Names
            PROVE  /\ db.asset[n] = None \/ db.asset[n] \in Assets
                   /\ lru.asset[n] = None \/ lru.asset[n] \in Assets
                   /\ ledger.asset[n] = None \/ ledger.asset[n] \in Assets
                   /\ passets.add[n] = None \/ passets.add[n] \in Assets
                   /\ passets.reissued[n] = None \/ passets.reissued[n] \in Assets
        <4>1. \A x \in MaybeAsset : x[n] = None \/ x[n] \in Assets
          BY DEF MaybeAsset
        <4> QED BY <2>3, <2>4, <4>1
      <3>2. \A n \in Names :
              \A a \in {db.asset[n], lru.asset[n], ledger.asset[n], passets.add[n],
                       passets.reissued[n]} : a = None \/ a \in Assets
        <4> SUFFICES ASSUME NEW n \in Names,
                            NEW a \in {db.asset[n], lru.asset[n], ledger.asset[n],
                                      passets.add[n], passets.reissued[n]}
                     PROVE  a = None \/ a \in Assets
          OBVIOUS
        <4>1. \/ a = db.asset[n] \/ a = lru.asset[n] \/ a = ledger.asset[n]
              \/ a = passets.add[n] \/ a = passets.reissued[n]
          OBVIOUS
        <4>2. /\ db.asset[n] = None \/ db.asset[n] \in Assets
              /\ lru.asset[n] = None \/ lru.asset[n] \in Assets
              /\ ledger.asset[n] = None \/ ledger.asset[n] \in Assets
              /\ passets.add[n] = None \/ passets.add[n] \in Assets
              /\ passets.reissued[n] = None \/ passets.reissued[n] \in Assets
          BY <3>1
        <4> HIDE DEF Assets
        <4> QED BY <4>1, <4>2, SMTT(60)
      <3>3. passets.remove \subseteq Names
        BY <2>3
      <3>4. passets.reAdd \cup passets.reUndo \subseteq Txs
        BY <2>3
      <3> QED BY <3>2, <3>3, <3>4 DEF TypeOK
    <2>6. ASSUME NEW n \in Names
          PROVE  /\ CheckIfAssetExists(Start, n) <=> ledger.asset[n] # None
                 /\ ledger.asset[n] # None => GetAssetMetaDataIfExists(Start, n) = ledger.asset[n]
      <3>1. /\ n \notin Empty.remove /\ Empty.add[n] = None /\ Empty.reissued[n] = None
        BY DEF Empty, Absent
      <3>2. /\ NameOK(db, passets, ledger, n) /\ lru.asset[n] \in {None, db.asset[n]}
        BY <2>1 DEF StateOK, Fresh
      <3>3. CheckIfAssetExists(Start, n) => ledger.asset[n] # None
        BY <2>2, <3>1, <3>2 DEF CheckIfAssetExists, CachedAsset, Removed, Or, NameOK
      <3>4. ledger.asset[n] # None => CheckIfAssetExists(Start, n)
        BY <2>1, <2>2, <3>1, ExistsExact
      <3>5. ledger.asset[n] # None => GetAssetMetaDataIfExists(Start, n) = ledger.asset[n]
        BY <2>1, <2>2, <3>1, MetaDataSettled
      <3> QED BY <3>3, <3>4, <3>5
    <2> QED BY <2>5, <2>6 DEF AssetsExact
  <1> QED BY <1>1, IndAlways, PTL

(* DumpCacheToDatabase would at any time write the assets of the active    *)
(* chain, and no asset of a block that was disconnected.                   *)
THEOREM DumpAlwaysExact ==
    ASSUME OneIssue, PlainBlocks
    PROVE  Spec => []DumpExact
  <1>1. ASSUME IndInv PROVE DumpExact
    BY <1>1, IndPending, DumpedOK DEF IndInv, DumpExact
  <1> QED BY <1>1, IndAlways, PTL

(* The look-up caches never hold what the database no longer has: every    *)
(* dump erases or replaces what it changes.                                *)
THEOREM LookupsAlwaysFresh ==
    ASSUME OneIssue, PlainBlocks
    PROVE  Spec => []LookupsFresh
  <1>1. ASSUME IndInv PROVE LookupsFresh
    BY <1>1 DEF IndInv, StateOK, Fresh, LookupsFresh
  <1> QED BY <1>1, IndAlways, PTL

(* A restricted asset of the active chain has the verifier string that was *)
(* last set on the active chain, in the caches and after a dump.           *)
THEOREM VerifierAlwaysExact ==
    ASSUME OneIssue, PlainBlocks
    PROVE  Spec => []VerifierExact
  <1>1. ASSUME IndInv PROVE VerifierExact
    <2>1. StateOK /\ Pending
      BY <1>1, IndPending DEF IndInv
    <2>2. SUFFICES ASSUME NEW n \in Restricted, ledger.asset[n] # None
                   PROVE  /\ GetAssetVerifierStringIfExists(Start, n, TRUE) = ledger.verifier[n]
                          /\ Dumped.verifier[n] = ledger.verifier[n]
      BY DEF VerifierExact
    <2>3. n \in Names
      BY IssuanceAssumption
    <2>4. VerifierOK(db, passets, ledger, n) /\ lru.verifier[n] \in {None, db.verifier[n]}
      BY <2>1, <2>3 DEF StateOK, Fresh
    <2>5. Start.lru = lru
      BY <2>1, StartOK
    <2>6. Or(CachedVerifier(Start, n, TRUE), db.verifier[n]) = ledger.verifier[n]
      BY <2>2, <2>4, <2>5 DEF VerifierOK, CachedVerifier, Or
    <2>7. ledger.verifier[n] \in STRING \cup {None}
      BY <2>1, <2>3, SMTT(60) DEF StateOK, LedgerOK, Ledgers
    <2>8. ledger.verifier[n] # Gone
      BY <2>7, AbsentAssumption
    <2> QED BY <2>1, <2>2, <2>3, <2>6, <2>8, DumpedName DEF GetAssetVerifierStringIfExists, Known
  <1> QED BY <1>1, IndAlways, PTL

(* What ConnectBlock accepts is what the rules allow: no name is issued    *)
(* twice, only a reissuable asset is reissued, within MAX_MONEY, and its   *)
(* units never decrease.                                                   *)
THEOREM OnlyValidBlocksEverAccepted ==
    ASSUME OneIssue, PlainBlocks
    PROVE  Spec => []OnlyValidBlocksAccepted
  <1>1. ASSUME IndInv PROVE OnlyValidBlocksAccepted
    <2>1. SUFFICES ASSUME NEW b \in Blocks, CoinsExist(b), Accepts(b) PROVE LedgerValid(b)
      BY DEF OnlyValidBlocksAccepted
    <2>2. Connecting(b, Len(b)) /\ ConnectTxs(b, Len(b)).ok
      BY <1>1, <2>1, ConnectAll DEF IndInv, Accepts, ConnectBlock
    <2>3. DOMAIN b = 1..Len(b)
      <3>1. b \in Seq(Txs)
        BY IssuanceAssumption
      <3> QED BY <3>1, SMTT(60)
    <2> QED BY <2>2, <2>3 DEF Connecting, LedgerValid, LedgerAfter
  <1> QED BY <1>1, IndAlways, PTL
=============================================================================
