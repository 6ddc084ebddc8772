------------------------ MODULE PeerDownloadProofs ------------------------
(***************************************************************************)
(* Proofs about PeerDownload, for any tree of blocks, any peers and any    *)
(* limits: first about the books of BlocksInFlight, then about the steps   *)
(* that open, close and read from a connection, then about SendMessages,   *)
(* and last about whose chain the blocks asked for are on.                 *)
(***************************************************************************)
EXTENDS PeerDownload, BlockTreeProofs, FiniteSetTheorems

USE ZenonT(60)

BooksType ==
    [mapBlocksInFlight : [Blocks -> Peers \cup {NoPeer}],
     partialBlock : SUBSET Blocks,
     vBlocksInFlight : [Peers -> Seq(Blocks)],
     nBlocksInFlight : [Peers -> Nat],
     nBlocksInFlightValidHeaders : [Peers -> Nat],
     nStallingSince : [Peers -> BOOLEAN],
     nPeersWithValidatedDownloads : Int]

(* The list s holds, once each, the blocks the map has for p. *)
Listed(map, s, p) == IsInjective(s) /\ Range(s) = {b \in Blocks : map[b] = p}

Owing(lists) == {p \in Peers : lists[p] # <<>>}

Books(d) ==
    /\ d \in BooksType
    /\ \A p \in Peers :
        /\ Listed(d.mapBlocksInFlight, d.vBlocksInFlight[p], p)
        /\ d.nBlocksInFlight[p] = Len(d.vBlocksInFlight[p])
        /\ d.nBlocksInFlightValidHeaders[p] = Len(d.vBlocksInFlight[p])
        /\ d.nStallingSince[p] => d.vBlocksInFlight[p] # <<>>
    /\ \A b \in d.partialBlock : InFlight(d, b)
    /\ d.nPeersWithValidatedDownloads = Cardinality(Owing(d.vBlocksInFlight))
-----------------------------------------------------------------------------
(* vBlocksInFlight.erase: an entry leaves a list without repetitions, and  *)
(* the rest keep their places.                                             *)
LEMMA EraseOnce ==
    ASSUME NEW S, NEW s \in Seq(S), IsInjective(s), NEW i \in 1 .. Len(s)
    PROVE  /\ Erase(s, i) \in Seq(S)
           /\ Len(Erase(s, i)) = Len(s) - 1
           /\ IsInjective(Erase(s, i))
           /\ Range(Erase(s, i)) = Range(s) \ {s[i]}
  <1> DEFINE r == Erase(s, i)
             u == SubSeq(s, 1, i - 1)
             v == SubSeq(s, i + 1, Len(s))
  <1>1. u \in Seq(S) /\ Len(u) = i - 1 /\ \A j \in 1 .. (i - 1) : u[j] = s[j]
    BY SMTT(60)
  <1>2. v \in Seq(S) /\ Len(v) = Len(s) - i /\ \A j \in 1 .. (Len(s) - i) : v[j] = s[i + j]
    BY SMTT(60)
  <1>u. r = u \o v
    BY DEF Erase
  <1> HIDE DEF r, u, v
  <1>r. u \in Seq(S) /\ v \in Seq(S) /\ r = u \o v
    BY <1>1, <1>2, <1>u
  <1>t. r \in Seq(S) /\ Len(r) = Len(u) + Len(v)
    BY <1>r, SMTT(60)
  <1>a. \A j \in 1 .. Len(u) + Len(v) :
            r[j] = IF j <= Len(u) THEN u[j] ELSE v[j - Len(u)]
    BY <1>r, SMTT(60)
  <1>c. /\ r \in Seq(S) /\ Len(r) = Len(u) + Len(v)
        /\ \A j \in 1 .. Len(u) + Len(v) :
            r[j] = IF j <= Len(u) THEN u[j] ELSE v[j - Len(u)]
    BY <1>t, <1>a
  <1>3. r \in Seq(S) /\ Len(r) = Len(s) - 1
    BY <1>1, <1>2, <1>c, SMTT(60)
  <1>4. ASSUME NEW j \in 1 .. (Len(s) - 1) PROVE r[j] = IF j < i THEN s[j] ELSE s[j + 1]
    <2>1. r[j] = IF j <= Len(u) THEN u[j] ELSE v[j - Len(u)]
      BY <1>1, <1>2, <1>c, SMTT(60)
    <2>2. CASE j < i
      BY <2>1, <2>2, <1>1, SMTT(60)
    <2>3. CASE j >= i
      <3>1. j - Len(u) \in 1 .. (Len(s) - i) /\ i + (j - Len(u)) = j + 1
        BY <2>3, <1>1, SMTT(60)
      <3>2. v[j - Len(u)] = s[i + (j - Len(u))]
        BY <3>1, <1>2
      <3> QED BY <3>1, <3>2, <2>1, <2>3, <1>1, SMTT(60)
    <2> QED BY <2>2, <2>3, SMTT(60)
  <1>5. DOMAIN r = 1 .. (Len(s) - 1) /\ DOMAIN s = 1 .. Len(s)
    BY <1>3, SMTT(60)
  <1>6. IsInjective(r)
    <2> SUFFICES ASSUME NEW x \in DOMAIN r, NEW y \in DOMAIN r, r[x] = r[y] PROVE x = y
      BY DEF IsInjective
    <2> DEFINE at(j) == IF j < i THEN j ELSE j + 1
    <2>1. at(x) \in DOMAIN s /\ at(y) \in DOMAIN s /\ s[at(x)] = s[at(y)]
      BY <1>4, <1>5, SMTT(60)
    <2>2. at(x) = at(y)
      BY <2>1 DEF IsInjective
    <2> QED BY <2>2, <1>5, SMTT(60)
  <1>7. \A j \in DOMAIN r : r[j] \in Range(s) \ {s[i]}
    BY <1>4, <1>5, SMTT(60) DEF IsInjective, Range
  <1>8. ASSUME NEW k \in DOMAIN s, k # i PROVE \E j \in DOMAIN r : r[j] = s[k]
    <2>1. CASE k < i
      BY <2>1, <1>4, <1>5, SMTT(60)
    <2>2. CASE k > i
      <3>1. k - 1 \in DOMAIN r /\ r[k - 1] = s[k]
        BY <2>2, <1>4, <1>5, SMTT(60)
      <3> QED BY <3>1
    <2> QED BY <1>8, <1>5, <2>1, <2>2, SMTT(60)
  <1>9. Range(r) = Range(s) \ {s[i]}
    BY <1>7, <1>8, SMTT(60) DEF Range
  <1> QED BY <1>3, <1>6, <1>9 DEF r

(* push_back of a block that is not on the list. *)
LEMMA AppendOnce ==
    ASSUME NEW S, NEW s \in Seq(S), IsInjective(s), NEW e \in S, e \notin Range(s)
    PROVE  /\ Append(s, e) \in Seq(S) /\ Len(Append(s, e)) = Len(s) + 1
           /\ IsInjective(Append(s, e))
           /\ Range(Append(s, e)) = Range(s) \cup {e}
  <1> DEFINE r == Append(s, e)
  <1>1. /\ r \in Seq(S) /\ Len(r) = Len(s) + 1
        /\ DOMAIN r = 1 .. (Len(s) + 1) /\ DOMAIN s = 1 .. Len(s)
        /\ \A j \in 1 .. Len(s) : r[j] = s[j]
        /\ r[Len(s) + 1] = e
    BY SMTT(60)
  <1> HIDE DEF r
  <1>2. \A j \in DOMAIN s : s[j] # e
    BY DEF Range
  <1>3. IsInjective(r)
    BY <1>1, <1>2, SMTT(60) DEF IsInjective
  <1>4. Range(r) = Range(s) \cup {e}
    BY <1>1, SMTT(60) DEF Range
  <1> QED BY <1>1, <1>3, <1>4 DEF r

(* A list is empty if its length is zero. *)
LEMMA EmptyList ==
    ASSUME NEW S, NEW s \in Seq(S)
    PROVE  (s = <<>> <=> Len(s) = 0) /\ (s = <<>> <=> Range(s) = {}) /\ Len(s) \in Nat
  <1>1. s = <<>> <=> Len(s) = 0
    BY SMTT(60)
  <1>2. DOMAIN s = 1 .. Len(s) /\ Len(s) \in Nat
    BY SMTT(60)
  <1>3. s # <<>> => s[1] \in Range(s)
    BY <1>1, <1>2, SMTT(60) DEF Range
  <1>4. s = <<>> => Range(s) = {}
    BY <1>1, <1>2, SMTT(60) DEF Range
  <1> QED BY <1>1, <1>2, <1>3, <1>4

(* nPeersWithValidatedDownloads: one list changes. *)
LEMMA OwingCount ==
    ASSUME NEW lists \in [Peers -> Seq(Blocks)], NEW p \in Peers, NEW s \in Seq(Blocks)
    PROVE  LET after == [lists EXCEPT ![p] = s] IN
           /\ Cardinality(Owing(lists)) \in Nat
           /\ lists[p] # <<>> /\ s = <<>> =>
                Cardinality(Owing(after)) = Cardinality(Owing(lists)) - 1
           /\ lists[p] = <<>> /\ s # <<>> =>
                Cardinality(Owing(after)) = Cardinality(Owing(lists)) + 1
           /\ (lists[p] = <<>> <=> s = <<>>) => Owing(after) = Owing(lists)
  <1> DEFINE after == [lists EXCEPT ![p] = s]
  <1>1. IsFiniteSet(Owing(lists)) /\ Cardinality(Owing(lists)) \in Nat
    BY PeersAssumption, FS_Subset, FS_CardinalityType DEF Owing
  <1>2. lists[p] # <<>> /\ s = <<>> => p \in Owing(lists) /\ Owing(after) = Owing(lists) \ {p}
    BY DEF Owing
  <1>3. lists[p] = <<>> /\ s # <<>> => p \notin Owing(lists) /\ Owing(after) = Owing(lists) \cup {p}
    BY DEF Owing
  <1>4. (lists[p] = <<>> <=> s = <<>>) => Owing(after) = Owing(lists)
    BY DEF Owing
  <1> HIDE DEF after
  <1>5. lists[p] # <<>> /\ s = <<>> => Cardinality(Owing(after)) = Cardinality(Owing(lists)) - 1
    BY <1>1, <1>2, FS_RemoveElement
  <1>6. lists[p] = <<>> /\ s # <<>> => Cardinality(Owing(after)) = Cardinality(Owing(lists)) + 1
    BY <1>1, <1>3, FS_AddElement
  <1> QED BY <1>1, <1>4, <1>5, <1>6 DEF after

(* The block is on the list of the peer the map names. *)
LEMMA OnQueue ==
    ASSUME NEW d, Books(d), NEW b \in Blocks, InFlight(d, b)
    PROVE  LET p == d.mapBlocksInFlight[b]
               s == d.vBlocksInFlight[p]
               i == Position(s, b)
           IN  p \in Peers /\ i \in 1 .. Len(s) /\ s[i] = b /\ s # <<>>
  <1> DEFINE p == d.mapBlocksInFlight[b]
             s == d.vBlocksInFlight[p]
  <1>1. p \in Peers /\ s \in Seq(Blocks)
    BY DEF Books, BooksType, InFlight
  <1>2. b \in Range(s)
    BY <1>1 DEF Books, Listed
  <1>3. \E i \in DOMAIN s : s[i] = b
    BY <1>2 DEF Range
  <1>4. Position(s, b) \in DOMAIN s /\ s[Position(s, b)] = b
    BY <1>3 DEF Position
  <1> HIDE DEF s
  <1>5. DOMAIN s = 1 .. Len(s) /\ s # <<>>
    BY <1>1, <1>3, EmptyList, SMTT(60)
  <1> QED BY <1>1, <1>4, <1>5 DEF s
-----------------------------------------------------------------------------
(* What the callers need to know of the new books m: they are exact, only  *)
(* peers of P may have come to owe a block, only blocks of B to be in      *)
(* flight.                                                                 *)
Follows(d, m, P, B) ==
    /\ Books(m)
    /\ \A q \in Peers \ P : m.vBlocksInFlight[q] # <<>> => d.vBlocksInFlight[q] # <<>>
    /\ \A c \in Blocks \ B : InFlight(m, c) => InFlight(d, c)

(* MarkBlockAsReceived keeps the books, and the block is in flight no more. *)
LEMMA Taken ==
    ASSUME NEW d, Books(d), NEW b \in Blocks, InFlight(d, b)
    PROVE  LET m == TakeOffQueue(d, d.mapBlocksInFlight[b], b) IN
           /\ Books(m)
           /\ m.mapBlocksInFlight = [d.mapBlocksInFlight EXCEPT ![b] = NoPeer]
           /\ \A q \in Peers : m.vBlocksInFlight[q] # <<>> => d.vBlocksInFlight[q] # <<>>
  <1> DEFINE p == d.mapBlocksInFlight[b]
             s == d.vBlocksInFlight[p]
             i == Position(s, b)
             r == Erase(s, i)
             m == TakeOffQueue(d, p, b)
  <1>1. p \in Peers /\ i \in 1 .. Len(s) /\ s[i] = b /\ s # <<>> /\ p # NoPeer
    BY OnQueue, PeersAssumption, SMTT(60)
  <1>2. s \in Seq(Blocks) /\ IsInjective(s) /\ Range(s) = {c \in Blocks : d.mapBlocksInFlight[c] = p}
    BY <1>1 DEF Books, BooksType, Listed
  <1>3. r \in Seq(Blocks) /\ Len(r) = Len(s) - 1 /\ IsInjective(r) /\ Range(r) = Range(s) \ {b}
    <2> HIDE DEF s, i
    <2> QED BY <1>1, <1>2, EraseOnce
  <1>4. /\ m.mapBlocksInFlight = [d.mapBlocksInFlight EXCEPT ![b] = NoPeer]
        /\ m.partialBlock = d.partialBlock \ {b}
        /\ m.vBlocksInFlight = [d.vBlocksInFlight EXCEPT ![p] = r]
        /\ m.nBlocksInFlight = [d.nBlocksInFlight EXCEPT ![p] = @ - 1]
        /\ m.nBlocksInFlightValidHeaders = [d.nBlocksInFlightValidHeaders EXCEPT ![p] = @ - 1]
        /\ m.nStallingSince = [d.nStallingSince EXCEPT ![p] = FALSE]
        /\ m.nPeersWithValidatedDownloads =
            IF d.nBlocksInFlightValidHeaders[p] = 1
            THEN d.nPeersWithValidatedDownloads - 1 ELSE d.nPeersWithValidatedDownloads
    BY DEF TakeOffQueue
  <1>5. d.nBlocksInFlight[p] = Len(s) /\ d.nBlocksInFlightValidHeaders[p] = Len(s)
    BY <1>1 DEF Books
  <1>6. Len(s) \in Nat \ {0} /\ (r = <<>> <=> Len(s) = 1)
    <2> HIDE DEF s, i, r
    <2>1. Len(s) \in Nat /\ Len(s) # 0
      BY <1>1, <1>2, EmptyList
    <2>2. r = <<>> <=> Len(r) = 0
      BY <1>3, EmptyList
    <2> QED BY <2>1, <2>2, <1>3, SMTT(60)
  <1> DEFINE n == d.nPeersWithValidatedDownloads
  <1>7. m \in BooksType
    <2>1. [d.nBlocksInFlight EXCEPT ![p] = @ - 1] \in [Peers -> Nat]
      BY <1>5, <1>6, <1>1, SMTT(60) DEF Books, BooksType
    <2>2. [d.nBlocksInFlightValidHeaders EXCEPT ![p] = @ - 1] \in [Peers -> Nat]
      BY <1>5, <1>6, <1>1, SMTT(60) DEF Books, BooksType
    <2>3. [d.vBlocksInFlight EXCEPT ![p] = r] \in [Peers -> Seq(Blocks)]
      BY <1>3, <1>1 DEF Books, BooksType
    <2>4. [d.mapBlocksInFlight EXCEPT ![b] = NoPeer] \in [Blocks -> Peers \cup {NoPeer}]
      BY DEF Books, BooksType
    <2>5. d.partialBlock \ {b} \in SUBSET Blocks /\ n \in Int /\ n - 1 \in Int
      BY SMTT(60) DEF Books, BooksType
    <2>6. [d.nStallingSince EXCEPT ![p] = FALSE] \in [Peers -> BOOLEAN]
      BY <1>1 DEF Books, BooksType
    <2> HIDE DEF p, r, i, s, n
    <2> QED BY <2>1, <2>2, <2>3, <2>4, <2>5, <2>6 DEF TakeOffQueue, BooksType, m, n, r, s, i
  <1>8. ASSUME NEW q \in Peers
        PROVE  /\ Listed(m.mapBlocksInFlight, m.vBlocksInFlight[q], q)
               /\ m.nBlocksInFlight[q] = Len(m.vBlocksInFlight[q])
               /\ m.nBlocksInFlightValidHeaders[q] = Len(m.vBlocksInFlight[q])
               /\ m.nStallingSince[q] => m.vBlocksInFlight[q] # <<>>
               /\ m.vBlocksInFlight[q] # <<>> => d.vBlocksInFlight[q] # <<>>
    <2>0. /\ d.vBlocksInFlight \in [Peers -> Seq(Blocks)]
          /\ d.mapBlocksInFlight \in [Blocks -> Peers \cup {NoPeer}]
          /\ d.nBlocksInFlight \in [Peers -> Nat]
          /\ d.nBlocksInFlightValidHeaders \in [Peers -> Nat]
          /\ d.nStallingSince \in [Peers -> BOOLEAN]
      BY DEF Books, BooksType
    <2>1. CASE q = p
      <3>1. m.vBlocksInFlight[q] = r /\ m.nStallingSince[q] = FALSE
        BY <2>0, <2>1, <1>4, <1>1
      <3>2. m.nBlocksInFlight[q] = Len(s) - 1 /\ m.nBlocksInFlightValidHeaders[q] = Len(s) - 1
        BY <2>0, <2>1, <1>4, <1>1, <1>5, SMTT(60)
      <3>3. {c \in Blocks : m.mapBlocksInFlight[c] = q}
                = {c \in Blocks : d.mapBlocksInFlight[c] = p} \ {b}
        BY <2>0, <2>1, <1>4, <1>1
      <3>4. Listed(m.mapBlocksInFlight, r, q)
        BY <3>3, <1>2, <1>3 DEF Listed
      <3> QED BY <3>1, <3>2, <3>4, <1>3, <1>1, <2>1
    <2>2. CASE q # p
      <3>1. /\ m.vBlocksInFlight[q] = d.vBlocksInFlight[q]
            /\ m.nStallingSince[q] = d.nStallingSince[q]
            /\ m.nBlocksInFlight[q] = d.nBlocksInFlight[q]
            /\ m.nBlocksInFlightValidHeaders[q] = d.nBlocksInFlightValidHeaders[q]
        BY <2>0, <2>2, <1>4, <1>1
      <3>2. {c \in Blocks : m.mapBlocksInFlight[c] = q}
                = {c \in Blocks : d.mapBlocksInFlight[c] = q}
        BY <2>0, <2>2, <1>4, PeersAssumption
      <3>3. Listed(m.mapBlocksInFlight, d.vBlocksInFlight[q], q)
        BY <3>2 DEF Listed, Books
      <3> QED BY <3>1, <3>3 DEF Books
    <2> QED BY <2>1, <2>2
  <1>9. \A c \in m.partialBlock : InFlight(m, c)
    BY <1>4 DEF Books, BooksType, InFlight
  <1>10. m.nPeersWithValidatedDownloads = Cardinality(Owing(m.vBlocksInFlight))
    <2>1. d.vBlocksInFlight \in [Peers -> Seq(Blocks)] /\ n = Cardinality(Owing(d.vBlocksInFlight))
      BY DEF Books, BooksType
    <2>2. m.nPeersWithValidatedDownloads = IF r = <<>> THEN n - 1 ELSE n
      BY <1>4, <1>5, <1>6
    <2>3. d.vBlocksInFlight[p] # <<>>
      BY <1>1
    <2> DEFINE after == [d.vBlocksInFlight EXCEPT ![p] = r]
    <2>4. /\ Cardinality(Owing(d.vBlocksInFlight)) \in Nat
          /\ r = <<>> => Cardinality(Owing(after)) = Cardinality(Owing(d.vBlocksInFlight)) - 1
          /\ r # <<>> => Owing(after) = Owing(d.vBlocksInFlight)
      <3> HIDE DEF p, r
      <3> QED BY <2>1, <2>3, <1>1, <1>3, OwingCount
    <2> HIDE DEF m, p, r, n, s, i, after
    <2>5. m.vBlocksInFlight = after
      BY <1>4 DEF after
    <2> QED BY <2>1, <2>2, <2>4, <2>5
  <1> HIDE DEF m
  <1>11. Books(m)
    BY <1>7, <1>8, <1>9, <1>10 DEF Books
  <1> QED BY <1>11, <1>4, <1>8 DEF m

(* The rest of MarkBlockAsInFlight, for a block that is not in flight. *)
LEMMA Put ==
    ASSUME NEW d, Books(d), NEW b \in Blocks, ~InFlight(d, b), NEW p \in Peers, NEW compact \in BOOLEAN
    PROVE  LET m == PutOnQueue(d, p, b, compact) IN
           /\ Books(m)
           /\ m.mapBlocksInFlight = [d.mapBlocksInFlight EXCEPT ![b] = p]
           /\ \A q \in Peers \ {p} : m.vBlocksInFlight[q] = d.vBlocksInFlight[q]
  <1> DEFINE s == d.vBlocksInFlight[p]
             r == Append(s, b)
             m == PutOnQueue(d, p, b, compact)
             n == d.nPeersWithValidatedDownloads
  <1>0. /\ d.vBlocksInFlight \in [Peers -> Seq(Blocks)]
        /\ d.mapBlocksInFlight \in [Blocks -> Peers \cup {NoPeer}]
        /\ d.nBlocksInFlight \in [Peers -> Nat]
        /\ d.nBlocksInFlightValidHeaders \in [Peers -> Nat]
        /\ d.nStallingSince \in [Peers -> BOOLEAN]
        /\ d.partialBlock \in SUBSET Blocks /\ n \in Int
    BY DEF Books, BooksType
  <1>1. s \in Seq(Blocks) /\ IsInjective(s) /\ Range(s) = {c \in Blocks : d.mapBlocksInFlight[c] = p}
    BY <1>0 DEF Books, Listed
  <1>2. d.mapBlocksInFlight[b] = NoPeer /\ p # NoPeer
    BY PeersAssumption DEF InFlight
  <1>3. b \notin Range(s)
    BY <1>1, <1>2
  <1>4. r \in Seq(Blocks) /\ Len(r) = Len(s) + 1 /\ IsInjective(r) /\ Range(r) = Range(s) \cup {b}
    <2> HIDE DEF s
    <2> QED BY <1>1, <1>3, AppendOnce, SMTT(60)
  <1>5. /\ m.mapBlocksInFlight = [d.mapBlocksInFlight EXCEPT ![b] = p]
        /\ m.partialBlock = IF compact THEN d.partialBlock \cup {b} ELSE d.partialBlock
        /\ m.vBlocksInFlight = [d.vBlocksInFlight EXCEPT ![p] = r]
        /\ m.nBlocksInFlight = [d.nBlocksInFlight EXCEPT ![p] = @ + 1]
        /\ m.nBlocksInFlightValidHeaders = [d.nBlocksInFlightValidHeaders EXCEPT ![p] = @ + 1]
        /\ m.nStallingSince = d.nStallingSince
        /\ m.nPeersWithValidatedDownloads =
            IF d.nBlocksInFlightValidHeaders[p] = 0
            THEN d.nPeersWithValidatedDownloads + 1 ELSE d.nPeersWithValidatedDownloads
    BY DEF PutOnQueue
  <1>6. d.nBlocksInFlight[p] = Len(s) /\ d.nBlocksInFlightValidHeaders[p] = Len(s)
    BY DEF Books
  <1>7. Len(s) \in Nat /\ r # <<>> /\ (s = <<>> <=> Len(s) = 0)
    <2> HIDE DEF s, r
    <2>1. Len(s) \in Nat /\ (s = <<>> <=> Len(s) = 0) /\ (r = <<>> <=> Len(r) = 0)
      BY <1>1, <1>4, EmptyList
    <2> QED BY <2>1, <1>4, SMTT(60)
  <1>8. m \in BooksType
    <2>1. [d.nBlocksInFlight EXCEPT ![p] = @ + 1] \in [Peers -> Nat]
      BY <1>0, SMTT(60)
    <2>2. [d.nBlocksInFlightValidHeaders EXCEPT ![p] = @ + 1] \in [Peers -> Nat]
      BY <1>0, SMTT(60)
    <2>3. [d.vBlocksInFlight EXCEPT ![p] = r] \in [Peers -> Seq(Blocks)]
      BY <1>4, <1>0
    <2>4. [d.mapBlocksInFlight EXCEPT ![b] = p] \in [Blocks -> Peers \cup {NoPeer}]
      BY <1>0
    <2>5. (IF compact THEN d.partialBlock \cup {b} ELSE d.partialBlock) \in SUBSET Blocks
      BY <1>0
    <2>6. n \in Int /\ n + 1 \in Int
      BY <1>0, SMTT(60)
    <2> HIDE DEF r, s, n
    <2> QED BY <2>1, <2>2, <2>3, <2>4, <2>5, <2>6, <1>0 DEF PutOnQueue, BooksType, m, n, r, s
  <1>9. ASSUME NEW q \in Peers
        PROVE  /\ Listed(m.mapBlocksInFlight, m.vBlocksInFlight[q], q)
               /\ m.nBlocksInFlight[q] = Len(m.vBlocksInFlight[q])
               /\ m.nBlocksInFlightValidHeaders[q] = Len(m.vBlocksInFlight[q])
               /\ m.nStallingSince[q] => m.vBlocksInFlight[q] # <<>>
               /\ q # p => m.vBlocksInFlight[q] = d.vBlocksInFlight[q]
    <2>1. CASE q = p
      <3>1. m.vBlocksInFlight[q] = r
        BY <1>0, <2>1, <1>5
      <3>2. m.nBlocksInFlight[q] = Len(s) + 1 /\ m.nBlocksInFlightValidHeaders[q] = Len(s) + 1
        BY <1>0, <2>1, <1>5, <1>6, SMTT(60)
      <3>3. {c \in Blocks : m.mapBlocksInFlight[c] = q}
                = {c \in Blocks : d.mapBlocksInFlight[c] = p} \cup {b}
        BY <1>0, <2>1, <1>5, SMTT(60)
      <3>4. Listed(m.mapBlocksInFlight, r, q)
        BY <3>3, <1>1, <1>4 DEF Listed
      <3> QED BY <3>1, <3>2, <3>4, <1>4, <1>7, <2>1
    <2>2. CASE q # p
      <3>1. /\ m.vBlocksInFlight[q] = d.vBlocksInFlight[q]
            /\ m.nStallingSince[q] = d.nStallingSince[q]
            /\ m.nBlocksInFlight[q] = d.nBlocksInFlight[q]
            /\ m.nBlocksInFlightValidHeaders[q] = d.nBlocksInFlightValidHeaders[q]
        BY <1>0, <2>2, <1>5
      <3>2. {c \in Blocks : m.mapBlocksInFlight[c] = q}
                = {c \in Blocks : d.mapBlocksInFlight[c] = q}
        BY <1>0, <1>2, <2>2, <1>5, PeersAssumption
      <3>3. Listed(m.mapBlocksInFlight, d.vBlocksInFlight[q], q)
        BY <3>2 DEF Listed, Books
      <3> QED BY <3>1, <3>3 DEF Books
    <2> QED BY <2>1, <2>2
  <1>10. \A c \in m.partialBlock : InFlight(m, c)
    BY <1>0, <1>2, <1>5, SMTT(60) DEF Books, InFlight
  <1>11. m.nPeersWithValidatedDownloads = Cardinality(Owing(m.vBlocksInFlight))
    <2>1. n = Cardinality(Owing(d.vBlocksInFlight))
      BY DEF Books
    <2>2. m.nPeersWithValidatedDownloads = IF s = <<>> THEN n + 1 ELSE n
      BY <1>5, <1>6, <1>7
    <2> DEFINE after == [d.vBlocksInFlight EXCEPT ![p] = r]
    <2>3. /\ Cardinality(Owing(d.vBlocksInFlight)) \in Nat
          /\ s = <<>> => Cardinality(Owing(after)) = Cardinality(Owing(d.vBlocksInFlight)) + 1
          /\ s # <<>> => Owing(after) = Owing(d.vBlocksInFlight)
      <3> HIDE DEF r
      <3> QED BY <1>0, <1>4, <1>7, OwingCount
    <2> HIDE DEF m, r, n, s, after
    <2>4. m.vBlocksInFlight = after
      BY <1>5 DEF after
    <2> QED BY <2>1, <2>2, <2>3, <2>4
  <1> HIDE DEF m
  <1>12. Books(m)
    BY <1>8, <1>9, <1>10, <1>11 DEF Books
  <1> QED BY <1>12, <1>5, <1>9 DEF m

(* FinalizeNode takes the peer's queue out of the map. *)
LEMMA Finalized ==
    ASSUME NEW d, Books(d), NEW p \in Peers
    PROVE  LET m == FinalizeQueue(d, p) IN
           Follows(d, m, {}, {}) /\ m.vBlocksInFlight[p] = <<>>
  <1> DEFINE s == d.vBlocksInFlight[p]
             m == FinalizeQueue(d, p)
             n == d.nPeersWithValidatedDownloads
             mine == Range(s)
             map == [b \in Blocks |-> IF b \in mine THEN NoPeer ELSE d.mapBlocksInFlight[b]]
  <1>0. /\ d.vBlocksInFlight \in [Peers -> Seq(Blocks)]
        /\ d.mapBlocksInFlight \in [Blocks -> Peers \cup {NoPeer}]
        /\ d.nBlocksInFlight \in [Peers -> Nat]
        /\ d.nBlocksInFlightValidHeaders \in [Peers -> Nat]
        /\ d.nStallingSince \in [Peers -> BOOLEAN]
        /\ d.partialBlock \in SUBSET Blocks /\ n \in Int
    BY DEF Books, BooksType
  <1>1. s \in Seq(Blocks) /\ mine = {c \in Blocks : d.mapBlocksInFlight[c] = p} /\ p # NoPeer
    BY <1>0, PeersAssumption DEF Books, Listed
  <1>2. /\ m.mapBlocksInFlight = map
        /\ m.partialBlock = d.partialBlock \ mine
        /\ m.vBlocksInFlight = [d.vBlocksInFlight EXCEPT ![p] = <<>>]
        /\ m.nBlocksInFlight = [d.nBlocksInFlight EXCEPT ![p] = 0]
        /\ m.nBlocksInFlightValidHeaders = [d.nBlocksInFlightValidHeaders EXCEPT ![p] = 0]
        /\ m.nStallingSince = [d.nStallingSince EXCEPT ![p] = FALSE]
        /\ m.nPeersWithValidatedDownloads =
            IF d.nBlocksInFlightValidHeaders[p] # 0 THEN n - 1 ELSE n
    BY DEF FinalizeQueue
  <1>m. ASSUME NEW c \in Blocks
        PROVE m.mapBlocksInFlight[c] =
                IF d.mapBlocksInFlight[c] = p THEN NoPeer ELSE d.mapBlocksInFlight[c]
    <2> HIDE DEF mine, m
    <2> QED BY <1>1, <1>2
  <1>3. d.nBlocksInFlightValidHeaders[p] = Len(s)
    BY DEF Books
  <1>4. s = <<>> <=> Len(s) = 0
    <2> HIDE DEF s
    <2> QED BY <1>1, EmptyList
  <1>5. <<>> \in Seq(Blocks) /\ Len(<<>>) = 0 /\ IsInjective(<<>>) /\ Range(<<>>) = {}
    <2>1. <<>> \in Seq(Blocks) /\ Len(<<>>) = 0
      BY SMTT(60)
    <2>2. DOMAIN <<>> = {}
      BY SMTT(60)
    <2>3. Range(<<>>) = {}
      BY <2>1, EmptyList
    <2> QED BY <2>1, <2>2, <2>3 DEF IsInjective
  <1>6. map \in [Blocks -> Peers \cup {NoPeer}]
    BY <1>0
  <1>7. m \in BooksType
    <2>1. [d.nBlocksInFlight EXCEPT ![p] = 0] \in [Peers -> Nat]
      BY <1>0
    <2>2. [d.nBlocksInFlightValidHeaders EXCEPT ![p] = 0] \in [Peers -> Nat]
      BY <1>0
    <2>3. [d.vBlocksInFlight EXCEPT ![p] = <<>>] \in [Peers -> Seq(Blocks)]
      BY <1>5, <1>0
    <2>4. d.partialBlock \ mine \in SUBSET Blocks /\ n - 1 \in Int
      BY <1>0, SMTT(60)
    <2>5. [d.nStallingSince EXCEPT ![p] = FALSE] \in [Peers -> BOOLEAN]
      BY <1>0
    <2> HIDE DEF map, mine, n, s
    <2> QED BY <2>1, <2>2, <2>3, <2>4, <2>5, <1>0, <1>6
            DEF FinalizeQueue, BooksType, m, n, map, mine, s
  <1>8. ASSUME NEW q \in Peers
        PROVE  /\ Listed(m.mapBlocksInFlight, m.vBlocksInFlight[q], q)
               /\ m.nBlocksInFlight[q] = Len(m.vBlocksInFlight[q])
               /\ m.nBlocksInFlightValidHeaders[q] = Len(m.vBlocksInFlight[q])
               /\ m.nStallingSince[q] => m.vBlocksInFlight[q] # <<>>
               /\ m.vBlocksInFlight[q] # <<>> => d.vBlocksInFlight[q] # <<>>
               /\ q = p => m.vBlocksInFlight[q] = <<>>
    <2>1. CASE q = p
      <3>1. /\ m.vBlocksInFlight[q] = <<>> /\ m.nStallingSince[q] = FALSE
            /\ m.nBlocksInFlight[q] = 0 /\ m.nBlocksInFlightValidHeaders[q] = 0
        BY <1>0, <2>1, <1>2
      <3>2. {c \in Blocks : m.mapBlocksInFlight[c] = q} = {}
        <4> HIDE DEF m
        <4> QED BY <1>1, <1>m, <2>1
      <3>3. Listed(m.mapBlocksInFlight, <<>>, q)
        BY <3>2, <1>5 DEF Listed
      <3> QED BY <3>1, <3>3, <1>5
    <2>2. CASE q # p
      <3>1. /\ m.vBlocksInFlight[q] = d.vBlocksInFlight[q]
            /\ m.nStallingSince[q] = d.nStallingSince[q]
            /\ m.nBlocksInFlight[q] = d.nBlocksInFlight[q]
            /\ m.nBlocksInFlightValidHeaders[q] = d.nBlocksInFlightValidHeaders[q]
        BY <1>0, <2>2, <1>2
      <3>2. {c \in Blocks : m.mapBlocksInFlight[c] = q}
                = {c \in Blocks : d.mapBlocksInFlight[c] = q}
        <4> HIDE DEF m
        <4> QED BY <1>m, <2>2, PeersAssumption
      <3>3. Listed(m.mapBlocksInFlight, d.vBlocksInFlight[q], q)
        BY <3>2 DEF Listed, Books
      <3> QED BY <3>1, <3>3, <2>2 DEF Books
    <2> QED BY <2>1, <2>2
  <1>9. \A c \in m.partialBlock : InFlight(m, c)
    BY <1>0, <1>1, <1>2 DEF Books, InFlight
  <1>10. \A c \in Blocks : InFlight(m, c) => InFlight(d, c)
    BY <1>2 DEF InFlight
  <1>11. m.nPeersWithValidatedDownloads = Cardinality(Owing(m.vBlocksInFlight))
    <2>1. n = Cardinality(Owing(d.vBlocksInFlight))
      BY DEF Books
    <2>2. m.nPeersWithValidatedDownloads = IF s # <<>> THEN n - 1 ELSE n
      BY <1>2, <1>3, <1>4
    <2> DEFINE after == [d.vBlocksInFlight EXCEPT ![p] = <<>>]
    <2>3. /\ Cardinality(Owing(d.vBlocksInFlight)) \in Nat
          /\ s # <<>> => Cardinality(Owing(after)) = Cardinality(Owing(d.vBlocksInFlight)) - 1
          /\ s = <<>> => Owing(after) = Owing(d.vBlocksInFlight)
      <3> DEFINE e == <<>>
      <3>1. e \in Seq(Blocks) /\ e = <<>>
        BY <1>5
      <3> HIDE DEF e
      <3> QED BY <1>0, <3>1, OwingCount
    <2> HIDE DEF m, n, s, after
    <2>4. m.vBlocksInFlight = after
      BY <1>2 DEF after
    <2> QED BY <2>1, <2>2, <2>3, <2>4
  <1> HIDE DEF m
  <1>12. Books(m)
    BY <1>7, <1>8, <1>9, <1>11 DEF Books
  <1>13. Follows(d, m, {}, {}) /\ m.vBlocksInFlight[p] = <<>>
    BY <1>12, <1>8, <1>10 DEF Follows
  <1> QED BY <1>13 DEF m

(* MarkBlockAsReceived, whether or not the block is in flight. *)
LEMMA ReceivedOnce ==
    ASSUME NEW d, Books(d), NEW b \in Blocks
    PROVE  LET m == MarkBlockAsReceived(d, b) IN
           Follows(d, m, {}, {}) /\ m.mapBlocksInFlight[b] = NoPeer
  <1> DEFINE m == TakeOffQueue(d, d.mapBlocksInFlight[b], b)
  <1>0. d.mapBlocksInFlight \in [Blocks -> Peers \cup {NoPeer}]
    BY DEF Books, BooksType
  <1>1. CASE InFlight(d, b)
    <2>1. /\ Books(m) /\ m.mapBlocksInFlight = [d.mapBlocksInFlight EXCEPT ![b] = NoPeer]
          /\ \A q \in Peers : m.vBlocksInFlight[q] # <<>> => d.vBlocksInFlight[q] # <<>>
      BY <1>1, Taken
    <2> HIDE DEF m
    <2>2. \A c \in Blocks : InFlight(m, c) => InFlight(d, c)
      BY <2>1, <1>0 DEF InFlight
    <2>3. Follows(d, m, {}, {}) /\ m.mapBlocksInFlight[b] = NoPeer
      BY <2>1, <2>2, <1>0 DEF Follows
    <2> QED BY <1>1, <2>3 DEF MarkBlockAsReceived, m
  <1>2. CASE ~InFlight(d, b)
    BY <1>2 DEF MarkBlockAsReceived, Follows, InFlight
  <1> QED BY <1>1, <1>2

(* MarkBlockAsInFlight: the block is in flight from p, and from no other. *)
LEMMA Requested ==
    ASSUME NEW d, Books(d), NEW b \in Blocks, NEW p \in Peers, NEW compact \in BOOLEAN
    PROVE  LET m == MarkBlockAsInFlight(d, p, b, compact) IN
           Follows(d, m, {p}, {b}) /\ m.mapBlocksInFlight[b] = p
  <1>1. CASE d.mapBlocksInFlight[b] = p
    BY <1>1 DEF MarkBlockAsInFlight, Follows
  <1>2. CASE d.mapBlocksInFlight[b] # p
    <2> DEFINE e == MarkBlockAsReceived(d, b)
               m == PutOnQueue(e, p, b, compact)
    <2>1. Follows(d, e, {}, {}) /\ e.mapBlocksInFlight[b] = NoPeer
      BY ReceivedOnce
    <2> HIDE DEF e
    <2>2. Books(e) /\ ~InFlight(e, b) /\ e.mapBlocksInFlight \in [Blocks -> Peers \cup {NoPeer}]
      BY <2>1 DEF Follows, InFlight, Books, BooksType
    <2>3. /\ Books(m) /\ m.mapBlocksInFlight = [e.mapBlocksInFlight EXCEPT ![b] = p]
          /\ \A q \in Peers \ {p} : m.vBlocksInFlight[q] = e.vBlocksInFlight[q]
      BY <2>2, Put, SMTT(60)
    <2> HIDE DEF m
    <2>4. \A c \in Blocks \ {b} : InFlight(m, c) => InFlight(d, c)
      BY <2>1, <2>2, <2>3 DEF InFlight, Follows
    <2>5. Follows(d, m, {p}, {b}) /\ m.mapBlocksInFlight[b] = p
      BY <2>1, <2>2, <2>3, <2>4 DEF Follows
    <2> QED BY <1>2, <2>5 DEF MarkBlockAsInFlight, m, e
  <1> QED BY <1>1, <1>2

(* A block in flight becomes a partially downloaded one. *)
LEMMA MadePartial ==
    ASSUME NEW d, Books(d), NEW b \in Blocks, InFlight(d, b)
    PROVE  LET m == [d EXCEPT !.partialBlock = @ \cup {b}] IN
           Follows(d, m, {}, {}) /\ m.mapBlocksInFlight = d.mapBlocksInFlight
  <1> DEFINE m == [d EXCEPT !.partialBlock = @ \cup {b}]
  <1>1. /\ m.mapBlocksInFlight = d.mapBlocksInFlight /\ m.vBlocksInFlight = d.vBlocksInFlight
        /\ m.nBlocksInFlight = d.nBlocksInFlight
        /\ m.nBlocksInFlightValidHeaders = d.nBlocksInFlightValidHeaders
        /\ m.nStallingSince = d.nStallingSince
        /\ m.nPeersWithValidatedDownloads = d.nPeersWithValidatedDownloads
        /\ m.partialBlock = d.partialBlock \cup {b} /\ m \in BooksType
    BY DEF Books, BooksType
  <1> HIDE DEF m
  <1>2. \A c \in m.partialBlock : InFlight(m, c)
    BY <1>1 DEF Books, InFlight
  <1>3. Books(m)
    BY <1>1, <1>2 DEF Books
  <1>4. Follows(d, m, {}, {}) /\ m.mapBlocksInFlight = d.mapBlocksInFlight
    BY <1>1, <1>3 DEF Follows, InFlight
  <1> QED BY <1>4 DEF m

(* A peer that owes a block is held to stall the download. *)
LEMMA Stalled ==
    ASSUME NEW d, Books(d), NEW q \in Peers, d.vBlocksInFlight[q] # <<>>
    PROVE  Follows(d, [d EXCEPT !.nStallingSince[q] = TRUE], {}, {})
  <1> DEFINE m == [d EXCEPT !.nStallingSince[q] = TRUE]
  <1>1. /\ m.mapBlocksInFlight = d.mapBlocksInFlight /\ m.vBlocksInFlight = d.vBlocksInFlight
        /\ m.nBlocksInFlight = d.nBlocksInFlight
        /\ m.nBlocksInFlightValidHeaders = d.nBlocksInFlightValidHeaders
        /\ m.nStallingSince = [d.nStallingSince EXCEPT ![q] = TRUE]
        /\ m.nPeersWithValidatedDownloads = d.nPeersWithValidatedDownloads
        /\ m.partialBlock = d.partialBlock /\ m \in BooksType
        /\ d.nStallingSince \in [Peers -> BOOLEAN]
    BY DEF Books, BooksType
  <1> HIDE DEF m
  <1>2. \A p \in Peers : m.nStallingSince[p] => m.vBlocksInFlight[p] # <<>>
    BY <1>1 DEF Books
  <1>3. \A b \in m.partialBlock : InFlight(m, b)
    BY <1>1 DEF Books, InFlight
  <1>4. Books(m)
    BY <1>1, <1>2, <1>3 DEF Books
  <1>5. Follows(d, m, {}, {})
    BY <1>1, <1>4 DEF Follows, InFlight
  <1> QED BY <1>5 DEF m

(* The books of a node without peers. *)
LEMMA NothingOwed == Books(NothingInFlight)
  <1> DEFINE m == NothingInFlight
  <1>1. <<>> \in Seq(Blocks) /\ Len(<<>>) = 0 /\ Range(<<>>) = {} /\ DOMAIN <<>> = {}
    <2>1. <<>> \in Seq(Blocks) /\ Len(<<>>) = 0
      BY SMTT(60)
    <2>2. DOMAIN <<>> = {}
      BY SMTT(60)
    <2>3. Range(<<>>) = {}
      BY <2>1, EmptyList
    <2> QED BY <2>1, <2>2, <2>3
  <1>2. /\ m.mapBlocksInFlight = [b \in Blocks |-> NoPeer]
        /\ m.vBlocksInFlight = [p \in Peers |-> <<>>]
        /\ m.nBlocksInFlight = [p \in Peers |-> 0]
        /\ m.nBlocksInFlightValidHeaders = [p \in Peers |-> 0]
        /\ m.nStallingSince = [p \in Peers |-> FALSE]
        /\ m.partialBlock = {} /\ m.nPeersWithValidatedDownloads = 0
    BY DEF NothingInFlight
  <1>3. m \in BooksType
    BY <1>1, SMTT(60) DEF NothingInFlight, BooksType
  <1>4. \A p \in Peers : Listed(m.mapBlocksInFlight, <<>>, p)
    BY <1>1, <1>2, PeersAssumption, SMTT(60) DEF Listed, IsInjective
  <1>5. Cardinality(Owing(m.vBlocksInFlight)) = 0
    BY <1>2, FS_EmptySet DEF Owing
  <1> HIDE DEF m
  <1>6. Books(m)
    BY <1>1, <1>2, <1>3, <1>4, <1>5 DEF Books
  <1> QED BY <1>6 DEF m
-----------------------------------------------------------------------------
NodeFields ==
    {"status", "kind", "fSuccessfullyConnected", "fDisconnect",
     "pindexBestKnownBlock", "hashLastUnknownBlock", "pindexLastCommonBlock",
     "fPreferredDownload", "fSyncStarted", "nHeadersSyncTimeout",
     "m_timeout", "m_protect"}

(* The part of a CNodeState the counters depend on. *)
NodeOK(n) ==
    /\ n = [f \in NodeFields |-> n[f]]
    /\ n.fPreferredDownload \in BOOLEAN /\ n.fSyncStarted \in BOOLEAN /\ n.m_protect \in BOOLEAN
    /\ n.fPreferredDownload \/ n.fSyncStarted \/ n.m_protect => n.fSuccessfullyConnected
    /\ n.fSuccessfullyConnected => n.status = "open"

(* m is n, except for fields no counter depends on. *)
Alike(n, m) ==
    /\ NodeOK(m)
    /\ m.status = n.status
    /\ m.fSuccessfullyConnected = n.fSuccessfullyConnected
    /\ m.fPreferredDownload = n.fPreferredDownload
    /\ m.fSyncStarted = n.fSyncStarted
    /\ m.m_protect = n.m_protect

Preferred(nodes) == {p \in Peers : nodes[p].fPreferredDownload}
Syncing(nodes) == {p \in Peers : nodes[p].fSyncStarted}
Protected(nodes) == {p \in Peers : nodes[p].m_protect}

ChainOK ==
    chain = [f \in {"index", "data", "failed", "scripts", "tip", "pindexBestHeader"} |-> chain[f]]

NodesOK == node = [p \in Peers |-> node[p]] /\ \A p \in Peers : NodeOK(node[p])

(* The handler is at a peer that has a CNodeState; a block it has in hand  *)
(* is not one it is about to ask for, and neither is a block on disk.      *)
HandlerOK ==
    /\ turn \in Peers => Open(turn)
    /\ turn = NoPeer => phase = "idle" /\ toRequest.blocks = {}
    /\ phase = "process" => hand.block \in Blocks
    /\ phase # "process" => hand = Null
    /\ toRequest.blocks # {} => phase # "process"
    /\ toRequest.blocks \subseteq Blocks \ chain.data

Owners == \A p \in Peers : download.vBlocksInFlight[p] # <<>> => Open(p)

Counts ==
    /\ nPreferredDownload = Cardinality(Preferred(node))
    /\ nSyncStarted = Cardinality(Syncing(node))
    /\ nProtected = Cardinality(Protected(node))

(* The inductive invariant. *)
IInv == ChainOK /\ NodesOK /\ HandlerOK /\ Books(download) /\ Owners /\ Counts

(* The step NeverAskedTwice allows. *)
Asks ==
    \A b \in Blocks :
        ~InFlight(download, b) /\ InFlight(download, b)' =>
            b \notin chain.data /\ (hand # Null => hand.block # b)
-----------------------------------------------------------------------------
(* Closing a connection leaves what the counters count to FinalizeNode. *)
LEMMA AlikeClosing ==
    ASSUME NEW n, NodeOK(n), NEW leave
    PROVE  Alike(n, Closing(n)) /\ Alike(n, ClosingIf(n, leave)) /\ Alike(n, Punish(n))
  <1>1. Alike(n, Closing(n))
    BY DEF NodeOK, Alike, NodeFields, Closing
  <1>2. Alike(n, n)
    BY DEF Alike
  <1> QED BY <1>1, <1>2 DEF ClosingIf, Punish

(* What a peer is known to have does not enter the counters either. *)
LEMMA AlikeAvailability ==
    ASSUME NEW n, NodeOK(n), NEW b, NEW index
    PROVE  /\ Alike(n, ProcessBlockAvailability(n, index))
           /\ Alike(n, UpdateBlockAvailability(n, b, index))
  <1> DEFINE m == ProcessBlockAvailability(n, index)
  <1>1. Alike(n, m)
    <2>1. Alike(n, [n EXCEPT !.pindexBestKnownBlock = BetterKnown(n, n.hashLastUnknownBlock),
                             !.hashLastUnknownBlock = Null])
      BY DEF NodeOK, Alike, NodeFields
    <2>2. Alike(n, n)
      BY DEF Alike
    <2> QED BY <2>1, <2>2 DEF ProcessBlockAvailability
  <1> HIDE DEF m
  <1>2. NodeOK(m)
    BY <1>1 DEF Alike
  <1>3. /\ Alike(m, [m EXCEPT !.pindexBestKnownBlock = BetterKnown(m, b)])
        /\ Alike(m, [m EXCEPT !.hashLastUnknownBlock = b])
    BY <1>2 DEF NodeOK, Alike, NodeFields
  <1>4. Alike(m, UpdateBlockAvailability(n, b, index))
    BY <1>3 DEF UpdateBlockAvailability, m
  <1> QED BY <1>1, <1>4 DEF Alike, m

(* One member more, one less, or the same. *)
LEMMA CountOne ==
    ASSUME NEW S \in SUBSET Peers, NEW T \in SUBSET Peers, NEW p \in Peers,
           \A q \in Peers \ {p} : q \in S <=> q \in T
    PROVE  /\ Cardinality(S) \in Nat
           /\ p \in S /\ p \notin T => Cardinality(T) = Cardinality(S) - 1
           /\ p \notin S /\ p \in T => Cardinality(T) = Cardinality(S) + 1
           /\ (p \in S <=> p \in T) => Cardinality(T) = Cardinality(S)
  <1>1. IsFiniteSet(S) /\ Cardinality(S) \in Nat
    BY PeersAssumption, FS_Subset, FS_CardinalityType
  <1>2. p \in S /\ p \notin T => T = S \ {p}
    OBVIOUS
  <1>3. p \notin S /\ p \in T => T = S \cup {p}
    OBVIOUS
  <1>4. (p \in S <=> p \in T) => T = S
    BY SMTT(60)
  <1> QED BY <1>1, <1>2, <1>3, <1>4, FS_AddElement, FS_RemoveElement, SMTT(60)

(* The node of one peer changes. *)
LEMMA NodeStep ==
    ASSUME NodesOK, NEW p \in Peers, NEW m, NodeOK(m), node' = [node EXCEPT ![p] = m]
    PROVE  NodesOK' /\ node'[p] = m /\ \A q \in Peers \ {p} : node'[q] = node[q]
  BY DEF NodesOK

(* A counter of the peers with a property, after one peer's changed. *)
Recount(count, was, is) ==
    count - (IF was /\ ~is THEN 1 ELSE 0) + (IF ~was /\ is THEN 1 ELSE 0)

(* The counters after the node of one peer changed. *)
LEMMA CountStep ==
    ASSUME NodesOK, Counts, NEW p \in Peers, NEW m, NodeOK(m), node' = [node EXCEPT ![p] = m]
    PROVE  /\ nPreferredDownload \in Nat /\ nSyncStarted \in Nat /\ nProtected \in Nat
           /\ Cardinality(Preferred(node')) =
                Recount(nPreferredDownload, node[p].fPreferredDownload, m.fPreferredDownload)
           /\ Cardinality(Syncing(node')) =
                Recount(nSyncStarted, node[p].fSyncStarted, m.fSyncStarted)
           /\ Cardinality(Protected(node')) =
                Recount(nProtected, node[p].m_protect, m.m_protect)
  <1>1. node'[p] = m /\ \A q \in Peers \ {p} : node'[q] = node[q]
    BY NodeStep
  <1>2. /\ Cardinality(Preferred(node)) \in Nat
        /\ Cardinality(Preferred(node')) = Recount(Cardinality(Preferred(node)), node[p].fPreferredDownload, m.fPreferredDownload)
    <2> DEFINE S == Preferred(node)
               T == Preferred(node')
    <2>1. /\ S \in SUBSET Peers /\ T \in SUBSET Peers
          /\ \A q \in Peers \ {p} : q \in S <=> q \in T
          /\ (p \in S <=> node[p].fPreferredDownload) /\ (p \in T <=> m.fPreferredDownload)
      BY <1>1 DEF Preferred
    <2> HIDE DEF S, T
    <2>2. /\ Cardinality(S) \in Nat
          /\ p \in S /\ p \notin T => Cardinality(T) = Cardinality(S) - 1
          /\ p \notin S /\ p \in T => Cardinality(T) = Cardinality(S) + 1
          /\ (p \in S <=> p \in T) => Cardinality(T) = Cardinality(S)
      BY <2>1, CountOne
    <2> QED BY <2>1, <2>2, SMTT(60) DEF S, T, Recount
  <1>3. /\ Cardinality(Syncing(node)) \in Nat
        /\ Cardinality(Syncing(node')) = Recount(Cardinality(Syncing(node)), node[p].fSyncStarted, m.fSyncStarted)
    <2> DEFINE S == Syncing(node)
               T == Syncing(node')
    <2>1. /\ S \in SUBSET Peers /\ T \in SUBSET Peers
          /\ \A q \in Peers \ {p} : q \in S <=> q \in T
          /\ (p \in S <=> node[p].fSyncStarted) /\ (p \in T <=> m.fSyncStarted)
      BY <1>1 DEF Syncing
    <2> HIDE DEF S, T
    <2>2. /\ Cardinality(S) \in Nat
          /\ p \in S /\ p \notin T => Cardinality(T) = Cardinality(S) - 1
          /\ p \notin S /\ p \in T => Cardinality(T) = Cardinality(S) + 1
          /\ (p \in S <=> p \in T) => Cardinality(T) = Cardinality(S)
      BY <2>1, CountOne
    <2> QED BY <2>1, <2>2, SMTT(60) DEF S, T, Recount
  <1>4. /\ Cardinality(Protected(node)) \in Nat
        /\ Cardinality(Protected(node')) = Recount(Cardinality(Protected(node)), node[p].m_protect, m.m_protect)
    <2> DEFINE S == Protected(node)
               T == Protected(node')
    <2>1. /\ S \in SUBSET Peers /\ T \in SUBSET Peers
          /\ \A q \in Peers \ {p} : q \in S <=> q \in T
          /\ (p \in S <=> node[p].m_protect) /\ (p \in T <=> m.m_protect)
      BY <1>1 DEF Protected
    <2> HIDE DEF S, T
    <2>2. /\ Cardinality(S) \in Nat
          /\ p \in S /\ p \notin T => Cardinality(T) = Cardinality(S) - 1
          /\ p \notin S /\ p \in T => Cardinality(T) = Cardinality(S) + 1
          /\ (p \in S <=> p \in T) => Cardinality(T) = Cardinality(S)
      BY <2>1, CountOne
    <2> QED BY <2>1, <2>2, SMTT(60) DEF S, T, Recount
  <1> QED BY <1>2, <1>3, <1>4 DEF Counts
-----------------------------------------------------------------------------
(* A step that changes one node in no field the counters depend on. *)
LEMMA AlikeStep ==
    ASSUME IInv, NEW p \in Peers, NEW m, Alike(node[p], m),
           node' = [node EXCEPT ![p] = m],
           nPreferredDownload' = nPreferredDownload, nSyncStarted' = nSyncStarted,
           nProtected' = nProtected
    PROVE  NodesOK' /\ Counts' /\ \A q \in Peers : Open(q)' <=> Open(q)
  <1>1. NodesOK /\ Counts /\ NodeOK(m)
    BY DEF IInv, Alike
  <1>2. NodesOK' /\ node'[p] = m /\ \A q \in Peers \ {p} : node'[q] = node[q]
    BY <1>1, NodeStep
  <1>3. \A q \in Peers : Open(q)' <=> Open(q)
    BY <1>2 DEF Alike, Open
  <1>4. /\ nPreferredDownload \in Nat /\ nSyncStarted \in Nat /\ nProtected \in Nat
        /\ Cardinality(Preferred(node')) = nPreferredDownload
        /\ Cardinality(Syncing(node')) = nSyncStarted
        /\ Cardinality(Protected(node')) = nProtected
    <2>1. /\ nPreferredDownload \in Nat /\ nSyncStarted \in Nat /\ nProtected \in Nat
          /\ Cardinality(Preferred(node')) =
                Recount(nPreferredDownload, node[p].fPreferredDownload, m.fPreferredDownload)
          /\ Cardinality(Syncing(node')) =
                Recount(nSyncStarted, node[p].fSyncStarted, m.fSyncStarted)
          /\ Cardinality(Protected(node')) = Recount(nProtected, node[p].m_protect, m.m_protect)
      BY <1>1, CountStep
    <2> QED BY <2>1, SMTT(60) DEF Alike, Recount
  <1> QED BY <1>2, <1>3, <1>4 DEF Counts

(* A step of the books: only open peers come to owe a block, and only for  *)
(* blocks that are neither on disk nor in hand.                            *)
LEMMA BooksStep ==
    ASSUME IInv, NEW P, NEW B, Follows(download, download', P, B),
           \A q \in Peers : Open(q) => Open(q)', \A q \in P : Open(q),
           B \cap chain.data = {}, \A b \in B : hand # Null => hand.block # b
    PROVE  Books(download)' /\ Owners' /\ Asks
  <1>1. Books(download)'
    BY DEF Follows
  <1>2. Owners'
    BY DEF Follows, IInv, Owners
  <1>3. Asks
    BY DEF Follows, Asks, InFlight
  <1> QED BY <1>1, <1>2, <1>3

(* A step after which nobody new owes a block. *)
LEMMA BooksFewer ==
    ASSUME IInv, Follows(download, download', {}, {}), \A q \in Peers : Open(q) => Open(q)'
    PROVE  Books(download)' /\ Owners' /\ Asks
  <1>1. Books(download)'
    BY DEF Follows
  <1>2. Owners'
    BY DEF Follows, IInv, Owners
  <1>3. Asks
    BY DEF Follows, Asks, InFlight
  <1> QED BY <1>1, <1>2, <1>3

(* A step that leaves the books alone. *)
LEMMA BooksSame ==
    ASSUME IInv, UNCHANGED download, \A q \in Peers : Open(q) => Open(q)'
    PROVE  Books(download)' /\ Owners' /\ Asks
  <1>1. Books(download)' /\ Asks
    BY DEF IInv, Asks, InFlight
  <1>2. Owners'
    BY DEF IInv, Owners
  <1> QED BY <1>1, <1>2

(* The handler's state after the three ways a step of it ends. *)
LEMMA HandlerReceived ==
    ASSUME NEW p \in Peers, Received(p), Open(p)', toRequest'.blocks \subseteq Blocks \ chain'.data
    PROVE  HandlerOK'
  BY PeersAssumption DEF Received, HandlerOK

(* ... the turn is over, ... *)
LEMMA HandlerEnd ==
    ASSUME EndOfTurn, toRequest'.blocks = {}
    PROVE  HandlerOK'
  BY PeersAssumption DEF EndOfTurn, HandlerOK

(* ... or a block goes to ProcessNewBlock with cs_main released. *)
LEMMA HandlerProcess ==
    ASSUME NEW p \in Peers, NEW b \in Blocks, NEW force, NEW clear,
           Process(p, b, force, clear), Open(p)', toRequest'.blocks = {}
    PROVE  HandlerOK'
  BY PeersAssumption DEF Process, HandlerOK

(* Where a turn begins, nothing is in hand and nothing about to be asked for. *)
LEMMA AtReady ==
    ASSUME IInv, NEW p \in Peers, Ready(p)
    PROVE  Open(p) /\ hand = Null /\ toRequest.blocks = {} /\ NodeOK(node[p])
  BY DEF IInv, HandlerOK, NodesOK, Ready

(* Headers do not bring block data. *)
LEMMA HeadersOnly ==
    ASSUME ChainOK, NEW headers, chain' = ProcessNewBlockHeaders(headers)
    PROVE  ChainOK' /\ chain'.data = chain.data
  <1>1. ASSUME NEW x, NEW y, NEW z,
               chain' = [chain EXCEPT !.index = x, !.failed = y, !.pindexBestHeader = z]
        PROVE  ChainOK' /\ chain'.data = chain.data
    BY <1>1 DEF ChainOK
  <1> QED BY <1>1, Zenon DEF ProcessNewBlockHeaders

(* Direct fetch asks for blocks that are not on disk. *)
LEMMA DirectFetchMissing ==
    ASSUME NEW c, NEW p, NEW last
    PROVE  DirectFetch(c, p, last).blocks \subseteq Blocks \ chain.data
  BY DEF DirectFetch, Lowest, Missing
-----------------------------------------------------------------------------
(* The socket thread opens, closes and deletes nodes. *)
LEMMA InitializeNodeStep ==
    ASSUME IInv, NEW p \in Peers, NEW kind, InitializeNode(p, kind)
    PROVE  IInv' /\ Asks
  <1> DEFINE m == NewNode(kind)
  <1>1. node' = [node EXCEPT ![p] = m] /\ node[p].status = "new"
    BY DEF InitializeNode
  <1>2. /\ NodeOK(m) /\ ~m.fPreferredDownload /\ ~m.fSyncStarted /\ ~m.m_protect
        /\ m.status = "open"
    BY DEF NewNode, NodeOK, NodeFields
  <1> HIDE DEF m
  <1>3. NodesOK /\ Counts /\ NodeOK(node[p])
    BY DEF IInv, NodesOK
  <1>4. ~node[p].fPreferredDownload /\ ~node[p].fSyncStarted /\ ~node[p].m_protect
    BY <1>1, <1>3 DEF NodeOK
  <1>5. NodesOK' /\ node'[p] = m /\ \A q \in Peers \ {p} : node'[q] = node[q]
    BY <1>1, <1>2, <1>3, NodeStep
  <1>6. Counts'
    <2>1. /\ nPreferredDownload \in Nat /\ nSyncStarted \in Nat /\ nProtected \in Nat
          /\ Cardinality(Preferred(node')) =
                Recount(nPreferredDownload, node[p].fPreferredDownload, m.fPreferredDownload)
          /\ Cardinality(Syncing(node')) =
                Recount(nSyncStarted, node[p].fSyncStarted, m.fSyncStarted)
          /\ Cardinality(Protected(node')) = Recount(nProtected, node[p].m_protect, m.m_protect)
      BY <1>1, <1>2, <1>3, CountStep
    <2> QED BY <2>1, <1>2, <1>4, SMTT(60) DEF Recount, Counts, InitializeNode, counters
  <1>7. \A q \in Peers : Open(q) => Open(q)'
    BY <1>2, <1>5 DEF Open
  <1>8. Books(download)' /\ Owners' /\ Asks
    BY <1>7, BooksSame DEF InitializeNode
  <1>9. HandlerOK' /\ ChainOK'
    BY <1>7, PeersAssumption DEF IInv, InitializeNode, HandlerOK, ChainOK, handler
  <1> QED BY <1>5, <1>6, <1>8, <1>9 DEF IInv

(* The socket thread finds the connection closed. *)
LEMMA CloseSocketStep ==
    ASSUME IInv, NEW p \in Peers, CloseSocketDisconnect(p)
    PROVE  IInv' /\ Asks
  <1>1. NodeOK(node[p]) /\ node' = [node EXCEPT ![p] = Closing(node[p])]
    BY DEF CloseSocketDisconnect, IInv, NodesOK
  <1>2. Alike(node[p], Closing(node[p]))
    BY <1>1, AlikeClosing
  <1>3. NodesOK' /\ Counts' /\ \A q \in Peers : Open(q)' <=> Open(q)
    BY <1>1, <1>2, AlikeStep DEF CloseSocketDisconnect, counters
  <1>4. Books(download)' /\ Owners' /\ Asks
    BY <1>3, BooksSame DEF CloseSocketDisconnect
  <1>5. HandlerOK' /\ ChainOK'
    BY <1>3 DEF IInv, CloseSocketDisconnect, HandlerOK, ChainOK, handler
  <1> QED BY <1>3, <1>4, <1>5 DEF IInv

(* FinalizeNode takes what the peer owed and counted with it. *)
LEMMA FinalizeNodeStep ==
    ASSUME IInv, NEW p \in Peers, FinalizeNode(p)
    PROVE  IInv' /\ Asks
  <1> DEFINE m == NoNode("gone")
  <1>1. node' = [node EXCEPT ![p] = m] /\ p # turn
    BY DEF FinalizeNode
  <1>2. NodeOK(m) /\ ~m.fPreferredDownload /\ ~m.fSyncStarted /\ ~m.m_protect
    BY DEF NoNode, NewNode, NodeOK, NodeFields
  <1> HIDE DEF m
  <1>3. NodesOK /\ Counts /\ Books(download)
    BY DEF IInv
  <1>4. NodesOK' /\ node'[p] = m /\ \A q \in Peers \ {p} : node'[q] = node[q]
    BY <1>1, <1>2, <1>3, NodeStep
  <1>5. Counts'
    <2>1. /\ nPreferredDownload \in Nat /\ nSyncStarted \in Nat /\ nProtected \in Nat
          /\ Cardinality(Preferred(node')) =
                Recount(nPreferredDownload, node[p].fPreferredDownload, m.fPreferredDownload)
          /\ Cardinality(Syncing(node')) =
                Recount(nSyncStarted, node[p].fSyncStarted, m.fSyncStarted)
          /\ Cardinality(Protected(node')) = Recount(nProtected, node[p].m_protect, m.m_protect)
      BY <1>1, <1>2, <1>3, CountStep
    <2> QED BY <2>1, <1>2, SMTT(60) DEF Recount, Counts, FinalizeNode
  <1>6. /\ Follows(download, download', {}, {})
        /\ download'.vBlocksInFlight[p] = <<>>
    BY <1>3, Finalized DEF FinalizeNode
  <1>7. Books(download)' /\ Asks
    BY <1>6 DEF Follows, Asks, InFlight
  <1>8. Owners'
    BY <1>4, <1>6 DEF Follows, Owners, Open, IInv
  <1>9. HandlerOK' /\ ChainOK'
    BY <1>1, <1>4 DEF IInv, FinalizeNode, HandlerOK, ChainOK, handler, Open
  <1> QED BY <1>4, <1>5, <1>7, <1>8, <1>9 DEF IInv

(* The handshake: the peer becomes one to download from. *)
LEMMA ReceiveVersionStep ==
    ASSUME IInv, NEW p \in Peers, ReceiveVersion(p)
    PROVE  IInv' /\ Asks
  <1> DEFINE preferred == node[p].kind # "inbound"
             m == [node[p] EXCEPT !.fSuccessfullyConnected = TRUE,
                                  !.fPreferredDownload = preferred]
  <1>1. /\ Open(p) /\ hand = Null /\ toRequest.blocks = {} /\ NodeOK(node[p])
        /\ ~node[p].fSuccessfullyConnected
    BY AtReady DEF ReceiveVersion
  <1>2. NodesOK /\ Counts
    BY DEF IInv
  <1>3. node' = [node EXCEPT ![p] = m]
    BY <1>2 DEF ReceiveVersion, NodesOK
  <1>4. /\ NodeOK(m) /\ m.status = "open"
        /\ (m.fPreferredDownload <=> preferred)
        /\ ~node[p].fPreferredDownload
        /\ m.fSyncStarted = node[p].fSyncStarted /\ m.m_protect = node[p].m_protect
    BY <1>1 DEF NodeOK, NodeFields, Open
  <1>5. NodesOK' /\ node'[p] = m /\ \A q \in Peers \ {p} : node'[q] = node[q]
    <2> HIDE DEF m
    <2> QED BY <1>2, <1>3, <1>4, NodeStep
  <1>6. Counts'
    <2> HIDE DEF m
    <2>1. /\ nPreferredDownload \in Nat /\ nSyncStarted \in Nat /\ nProtected \in Nat
          /\ Cardinality(Preferred(node')) =
                Recount(nPreferredDownload, node[p].fPreferredDownload, m.fPreferredDownload)
          /\ Cardinality(Syncing(node')) =
                Recount(nSyncStarted, node[p].fSyncStarted, m.fSyncStarted)
          /\ Cardinality(Protected(node')) = Recount(nProtected, node[p].m_protect, m.m_protect)
      BY <1>2, <1>3, <1>4, CountStep
    <2>2. nPreferredDownload' = nPreferredDownload + (IF preferred THEN 1 ELSE 0)
      BY DEF ReceiveVersion
    <2> QED BY <2>1, <2>2, <1>4, SMTT(60) DEF Recount, Counts, ReceiveVersion
  <1>7. \A q \in Peers : Open(q)' <=> Open(q)
    BY <1>1, <1>4, <1>5 DEF Open
  <1>8. Books(download)' /\ Owners' /\ Asks
    BY <1>7, BooksSame DEF ReceiveVersion
  <1>9. toRequest' = toRequest /\ chain' = chain /\ Received(p)
    BY DEF ReceiveVersion
  <1>10. HandlerOK' /\ ChainOK'
    BY <1>1, <1>7, <1>9, HandlerReceived DEF IInv, ChainOK
  <1> QED BY <1>5, <1>6, <1>8, <1>10 DEF IInv
-----------------------------------------------------------------------------
(* A message of headers: ProcessHeadersMessage changes one node, may       *)
(* protect it, and may leave blocks to ask for.                            *)
LEMMA AcceptHeadersStep ==
    ASSUME IInv, NEW p \in Peers, NEW headers, NEW r, AcceptHeaders(p, headers, r),
           Ready(p), node[p].fSuccessfullyConnected, Received(p),
           nSyncStarted' = nSyncStarted, nPreferredDownload' = nPreferredDownload,
           UNCHANGED download
    PROVE  IInv' /\ Asks
  <1> DEFINE c == ProcessNewBlockHeaders(headers)
             last == headers[Len(headers)]
             full == Len(headers) = MAX_HEADERS_RESULTS
             n == UpdateBlockAvailability(node[p], last, c.index)
             leave == /\ IsInitialBlockDownload /\ ~full
                      /\ Work(n.pindexBestKnownBlock) < MinimumWork
                      /\ IsOutboundDisconnectionCandidate(n)
             protect == /\ ~leave /\ IsOutboundDisconnectionCandidate(n)
                        /\ nProtected < MAX_OUTBOUND_PEERS_TO_PROTECT
                        /\ Work(n.pindexBestKnownBlock) >= Work(tip)
                        /\ ~n.m_protect
             k == [n EXCEPT !.m_protect = @ \/ protect]
             m == ClosingIf(k, leave)
  <1>1. Open(p) /\ NodeOK(node[p])
    BY AtReady
  <1>2. /\ chain' = c /\ node' = [node EXCEPT ![p] = m]
        /\ nProtected' = nProtected + (IF protect THEN 1 ELSE 0)
        /\ toRequest' = DirectFetch(c, p, last)
    BY Zenon DEF AcceptHeaders
  <1>3. protect \in BOOLEAN /\ (protect => ~n.m_protect)
    BY Zenon
  <1>4. Alike(node[p], n)
    BY <1>1, AlikeAvailability
  <1> HIDE DEF n, c, last, leave, protect
  <1>5. /\ NodeOK(k) /\ k.status = "open" /\ (k.m_protect <=> n.m_protect \/ protect)
        /\ k.fPreferredDownload = node[p].fPreferredDownload
        /\ k.fSyncStarted = node[p].fSyncStarted
        /\ n.m_protect = node[p].m_protect
    BY <1>1, <1>3, <1>4 DEF NodeOK, NodeFields, Alike, Open
  <1> HIDE DEF k
  <1>6. Alike(k, m)
    BY <1>5, AlikeClosing
  <1> HIDE DEF m
  <1>7. /\ NodeOK(m) /\ m.status = "open" /\ (m.m_protect <=> node[p].m_protect \/ protect)
        /\ m.fPreferredDownload = node[p].fPreferredDownload
        /\ m.fSyncStarted = node[p].fSyncStarted
        /\ (protect => ~node[p].m_protect)
    BY <1>3, <1>5, <1>6 DEF Alike
  <1>8. NodesOK /\ Counts /\ ChainOK
    BY DEF IInv
  <1>9. NodesOK' /\ node'[p] = m /\ \A q \in Peers \ {p} : node'[q] = node[q]
    BY <1>2, <1>7, <1>8, NodeStep
  <1>10. Counts'
    <2>1. /\ nPreferredDownload \in Nat /\ nSyncStarted \in Nat /\ nProtected \in Nat
          /\ Cardinality(Preferred(node')) =
                Recount(nPreferredDownload, node[p].fPreferredDownload, m.fPreferredDownload)
          /\ Cardinality(Syncing(node')) =
                Recount(nSyncStarted, node[p].fSyncStarted, m.fSyncStarted)
          /\ Cardinality(Protected(node')) = Recount(nProtected, node[p].m_protect, m.m_protect)
      BY <1>2, <1>7, <1>8, CountStep
    <2> QED BY <2>1, <1>2, <1>7, SMTT(60) DEF Recount, Counts
  <1>11. \A q \in Peers : Open(q)' <=> Open(q)
    BY <1>1, <1>7, <1>9 DEF Open
  <1>12. Books(download)' /\ Owners' /\ Asks
    BY <1>11, BooksSame
  <1>13. ChainOK' /\ chain'.data = chain.data
    BY <1>2, <1>8, HeadersOnly DEF c
  <1>14. toRequest'.blocks \subseteq Blocks \ chain'.data
    BY <1>2, <1>13, DirectFetchMissing
  <1>15. HandlerOK'
    BY <1>1, <1>11, <1>14, HandlerReceived
  <1> QED BY <1>9, <1>10, <1>12, <1>13, <1>15 DEF IInv

(* Every branch of a headers message: empty, unconnecting, refused, taken. *)
LEMMA ReceiveHeadersStep ==
    ASSUME IInv, NEW p \in Peers, NEW headers, ReceiveHeaders(p, headers)
    PROVE  IInv' /\ Asks
  <1> DEFINE r == Answered(p, AskedFor(p, headers))
  <1>1. /\ Ready(p) /\ node[p].fSuccessfullyConnected /\ Received(p)
        /\ UNCHANGED <<download, nSyncStarted, nPreferredDownload>>
    BY DEF ReceiveHeaders, Talks
  <1>2. Open(p) /\ toRequest.blocks = {} /\ NodeOK(node[p]) /\ ChainOK /\ NodesOK /\ Counts
    BY <1>1, AtReady DEF IInv
  <1>3. \/ headers = <<>> /\ UNCHANGED <<chain, node, nProtected, toRequest>>
        \/ UnconnectingHeaders(p, headers, r)
        \/ RefuseHeaders(p, headers, Punished(p), r)
        \/ AcceptHeaders(p, headers, r)
    BY DEF ReceiveHeaders, ProcessHeadersMessage
  <1> HIDE DEF r
  <1>4. ASSUME NodesOK', Counts', \A q \in Peers : Open(q)' <=> Open(q),
               ChainOK', toRequest' = toRequest
        PROVE  IInv' /\ Asks
    <2>1. Books(download)' /\ Owners' /\ Asks
      BY <1>1, <1>4, BooksSame
    <2>2. HandlerOK'
      BY <1>1, <1>2, <1>4, HandlerReceived
    <2> QED BY <1>4, <2>1, <2>2 DEF IInv
  <1>5. CASE UNCHANGED <<chain, node, nProtected, toRequest>>
    BY <1>1, <1>2, <1>4, <1>5 DEF NodesOK, Counts, ChainOK, Open
  <1>6. CASE UnconnectingHeaders(p, headers, r)
    <2> DEFINE m == UpdateBlockAvailability(node[p], headers[Len(headers)], chain.index)
    <2>1. /\ node' = [node EXCEPT ![p] = m]
          /\ UNCHANGED <<chain, nProtected, toRequest>>
      BY <1>6 DEF UnconnectingHeaders
    <2>2. Alike(node[p], m)
      BY <1>2, AlikeAvailability
    <2> HIDE DEF m
    <2>3. NodesOK' /\ Counts' /\ \A q \in Peers : Open(q)' <=> Open(q)
      BY <1>1, <2>1, <2>2, AlikeStep
    <2> QED BY <1>2, <1>4, <2>1, <2>3 DEF ChainOK
  <1>7. CASE RefuseHeaders(p, headers, Punished(p), r)
    <2>1. PICK leave : node' = [node EXCEPT ![p] = ClosingIf(node[p], leave)]
      BY <1>7, Zenon DEF RefuseHeaders
    <2>2. chain' = ProcessNewBlockHeaders(headers) /\ UNCHANGED <<nProtected, toRequest>>
      BY <1>7 DEF RefuseHeaders
    <2>3. Alike(node[p], ClosingIf(node[p], leave))
      BY <1>2, AlikeClosing
    <2>4. NodesOK' /\ Counts' /\ \A q \in Peers : Open(q)' <=> Open(q)
      BY <1>1, <2>1, <2>2, <2>3, AlikeStep
    <2>5. ChainOK'
      BY <1>2, <2>2, HeadersOnly
    <2> QED BY <1>4, <2>2, <2>4, <2>5
  <1>8. CASE AcceptHeaders(p, headers, r)
    BY <1>1, <1>8, AcceptHeadersStep
  <1> QED BY <1>3, <1>5, <1>6, <1>7, <1>8

(* An inv only tells what the peer has. *)
LEMMA ReceiveInvStep ==
    ASSUME IInv, NEW p \in Peers, NEW b, ReceiveInv(p, b)
    PROVE  IInv' /\ Asks
  <1> DEFINE m == UpdateBlockAvailability(node[p], b, chain.index)
  <1>1. /\ Ready(p) /\ Received(p) /\ node' = [node EXCEPT ![p] = m]
        /\ UNCHANGED <<chain, download, counters, toRequest>>
    BY DEF ReceiveInv, Talks
  <1>2. Open(p) /\ toRequest.blocks = {} /\ NodeOK(node[p]) /\ ChainOK
    BY <1>1, AtReady DEF IInv
  <1>3. Alike(node[p], m)
    BY <1>2, AlikeAvailability
  <1> HIDE DEF m
  <1>4. NodesOK' /\ Counts' /\ \A q \in Peers : Open(q)' <=> Open(q)
    BY <1>1, <1>3, AlikeStep DEF counters
  <1>5. Books(download)' /\ Owners' /\ Asks
    BY <1>1, <1>4, BooksSame
  <1>6. HandlerOK' /\ ChainOK'
    BY <1>1, <1>2, <1>4, HandlerReceived DEF ChainOK
  <1> QED BY <1>4, <1>5, <1>6 DEF IInv
-----------------------------------------------------------------------------
(* ProcessMessages ends with a block to process, or without. *)
Handled(p, b) == Received(p) \/ \E force, clear \in BOOLEAN : Process(p, b, force, clear)

(* The handler after either ending. *)
LEMMA HandlerHandled ==
    ASSUME NEW p \in Peers, NEW b \in Blocks, Handled(p, b), Open(p)', toRequest'.blocks = {}
    PROVE  HandlerOK'
  <1>1. CASE Received(p)
    BY <1>1, HandlerReceived
  <1>2. ASSUME NEW force \in BOOLEAN, NEW clear \in BOOLEAN, Process(p, b, force, clear)
        PROVE  HandlerOK'
    BY <1>2, HandlerProcess
  <1> QED BY <1>1, <1>2 DEF Handled

(* A step that changes nothing in the books follows itself. *)
LEMMA FollowsSame ==
    ASSUME NEW d, Books(d), NEW P, NEW B
    PROVE  Follows(d, d, P, B)
  BY DEF Follows

(* A block received after a step of the books adds nobody and nothing. *)
LEMMA FollowsTrans ==
    ASSUME NEW d, NEW e, NEW m, NEW P, NEW B, Follows(d, e, P, B), Follows(e, m, {}, {})
    PROVE  Follows(d, m, P, B)
  BY DEF Follows

(* A whole block leaves the queue before ProcessNewBlock sees it. *)
LEMMA ReceiveBlockStep ==
    ASSUME IInv, NEW p \in Peers, NEW b \in Blocks, ReceiveBlock(p, b)
    PROVE  IInv' /\ Asks
  <1>1. /\ Ready(p) /\ download' = MarkBlockAsReceived(download, b)
        /\ UNCHANGED <<chain, node, counters, toRequest>>
        /\ Process(p, b, InFlight(download, b), FALSE)
    BY DEF ReceiveBlock, Talks
  <1>2. Open(p) /\ toRequest.blocks = {} /\ Books(download) /\ ChainOK /\ NodesOK /\ Counts
    BY <1>1, AtReady DEF IInv
  <1>3. NodesOK' /\ Counts' /\ ChainOK' /\ \A q \in Peers : Open(q)' <=> Open(q)
    BY <1>1, <1>2 DEF NodesOK, Counts, ChainOK, Open, counters
  <1>4. Follows(download, download', {}, {})
    BY <1>1, <1>2, ReceivedOnce
  <1>5. Books(download)' /\ Owners' /\ Asks
    BY <1>3, <1>4, BooksFewer
  <1>6. HandlerOK'
    BY <1>1, <1>2, <1>3, HandlerProcess
  <1> QED BY <1>3, <1>5, <1>6 DEF IInv

(* Whatever comes of a partially downloaded block, the books are kept. *)
LEMMA FillBlockStep ==
    ASSUME NEW p \in Peers, NEW b \in Blocks, NEW d, NEW status, NEW r, NEW P, NEW B,
           Follows(download, d, P, B), FillBlock(p, b, d, status, r)
    PROVE  Follows(download, download', P, B) /\ Handled(p, b)
  <1>1. Books(d)
    BY DEF Follows
  <1>2. Follows(d, MarkBlockAsReceived(d, b), {}, {})
    BY <1>1, ReceivedOnce
  <1>3. Follows(download, MarkBlockAsReceived(d, b), P, B)
    BY <1>2, FollowsTrans
  <1>4. download' \in {d, MarkBlockAsReceived(d, b)} /\ Handled(p, b)
    BY DEF FillBlock, Handled
  <1> QED BY <1>3, <1>4

(* A compact block with a known header is put together, asked for or left. *)
LEMMA CompactBlockStep ==
    ASSUME Books(download), NEW p \in Peers, NEW b \in Blocks, NEW status, NEW r,
           CompactBlockKnown(p, b, status, r)
    PROVE  /\ \E B \in SUBSET ({b} \ chain.data) : Follows(download, download', {p}, B)
           /\ Handled(p, b)
  <1>1. CASE UNCHANGED download /\ Handled(p, b)
    BY <1>1, FollowsSame
  <1>2. Ignored(p, r) => UNCHANGED download /\ Handled(p, b)
    BY DEF Ignored, Handled
  <1>3. AskWhole(p, b, r) => UNCHANGED download /\ Handled(p, b)
    BY DEF AskWhole, Handled
  <1>4. Optimistic(p, b, status, r) => UNCHANGED download /\ Handled(p, b)
    BY DEF Optimistic, Handled
  <1>5. CASE Useful(b) /\ StartPartial(p, b, status, r)
    <2> DEFINE e == MarkBlockAsInFlight(download, p, b, TRUE)
               d == [e EXCEPT !.partialBlock = @ \cup {b}]
    <2>1. {b} \in SUBSET ({b} \ chain.data)
      BY <1>5 DEF Useful
    <2>2. Follows(download, e, {p}, {b}) /\ e.mapBlocksInFlight[b] = p
      BY Requested
    <2> HIDE DEF e
    <2>3. Books(e) /\ InFlight(e, b)
      BY <2>2, PeersAssumption DEF Follows, InFlight
    <2>4. Follows(e, d, {}, {})
      BY <2>3, MadePartial, Zenon
    <2> HIDE DEF d
    <2>5. Follows(download, d, {p}, {b})
      BY <2>2, <2>4, FollowsTrans
    <2>6. \/ Ignored(p, r)
          \/ FillBlock(p, b, d, status, r)
          \/ download' = d /\ Received(p)
      BY <1>5 DEF StartPartial, d, e
    <2>7. CASE FillBlock(p, b, d, status, r)
      <3>1. Follows(download, download', {p}, {b}) /\ Handled(p, b)
        BY <2>5, <2>7, FillBlockStep
      <3> QED BY <3>1, <2>1
    <2>8. CASE download' = d /\ Received(p)
      BY <2>1, <2>5, <2>8 DEF Handled
    <2> QED BY <1>1, <1>2, <2>6, <2>7, <2>8
  <1> QED BY <1>1, <1>2, <1>3, <1>4, <1>5 DEF CompactBlockKnown

(* A compact block; the header alone, or the block too. *)
LEMMA ReceiveCompactBlockStep ==
    ASSUME IInv, NEW p \in Peers, NEW b \in Blocks, NEW status, ReceiveCompactBlock(p, b, status)
    PROVE  IInv' /\ Asks
  <1> DEFINE r == Answered(p, {GetCompact(b)})
             far == Useful(b) /\ ~Near(b) /\ ~InFlight(download, b)
             n == UpdateBlockAvailability(node[p], b, chain'.index)
  <1>1. /\ Ready(p) /\ node[p].fSuccessfullyConnected
        /\ nSyncStarted' = nSyncStarted /\ nPreferredDownload' = nPreferredDownload
    BY DEF ReceiveCompactBlock, Talks
  <1>2. /\ Open(p) /\ hand = Null /\ toRequest.blocks = {} /\ NodeOK(node[p])
        /\ ChainOK /\ NodesOK /\ Counts /\ Books(download)
    BY <1>1, AtReady DEF IInv
  <1>3. \/ Received(p) /\ UNCHANGED <<chain, node, download, nProtected, toRequest>>
        \/ /\ chain' = ProcessNewBlockHeaders(<<b>>) /\ Received(p)
           /\ UNCHANGED <<node, download, nProtected, toRequest>>
        \/ far /\ AcceptHeaders(p, <<b>>, r) /\ Received(p) /\ UNCHANGED download
        \/ /\ chain' = ProcessNewBlockHeaders(<<b>>)
           /\ node' = [node EXCEPT ![p] = n] \/ node' = [node EXCEPT ![p] = Punish(n)]
           /\ CompactBlockKnown(p, b, status, r)
           /\ UNCHANGED <<nProtected, toRequest>>
    BY Zenon DEF ReceiveCompactBlock
  <1> HIDE DEF r, far
  <1>4. CASE Received(p) /\ UNCHANGED <<chain, node, download, nProtected, toRequest>>
    <2>1. NodesOK' /\ Counts' /\ ChainOK' /\ \A q \in Peers : Open(q)' <=> Open(q)
      BY <1>1, <1>2, <1>4 DEF NodesOK, Counts, ChainOK, Open
    <2>2. Books(download)' /\ Owners' /\ Asks
      BY <1>4, <2>1, BooksSame
    <2>3. HandlerOK'
      BY <1>2, <1>4, <2>1, HandlerReceived
    <2> QED BY <2>1, <2>2, <2>3 DEF IInv
  <1>5. CASE /\ chain' = ProcessNewBlockHeaders(<<b>>) /\ Received(p)
             /\ UNCHANGED <<node, download, nProtected, toRequest>>
    <2>1. NodesOK' /\ Counts' /\ \A q \in Peers : Open(q)' <=> Open(q)
      BY <1>1, <1>2, <1>5 DEF NodesOK, Counts, Open
    <2>2. ChainOK'
      BY <1>2, <1>5, HeadersOnly
    <2>3. Books(download)' /\ Owners' /\ Asks
      BY <1>5, <2>1, BooksSame
    <2>4. HandlerOK'
      BY <1>2, <1>5, <2>1, HandlerReceived
    <2> QED BY <2>1, <2>2, <2>3, <2>4 DEF IInv
  <1>6. CASE AcceptHeaders(p, <<b>>, r) /\ Received(p) /\ UNCHANGED download
    BY <1>1, <1>6, AcceptHeadersStep
  <1>7. CASE /\ chain' = ProcessNewBlockHeaders(<<b>>)
             /\ node' = [node EXCEPT ![p] = n] \/ node' = [node EXCEPT ![p] = Punish(n)]
             /\ CompactBlockKnown(p, b, status, r)
             /\ UNCHANGED <<nProtected, toRequest>>
    <2>1. Alike(node[p], n)
      BY <1>2, AlikeAvailability
    <2> HIDE DEF n
    <2>2. NodeOK(n)
      BY <2>1 DEF Alike
    <2>3. Alike(n, Punish(n))
      BY <2>2, AlikeClosing
    <2>4. Alike(node[p], Punish(n))
      BY <2>1, <2>3 DEF Alike
    <2>5. PICK m : Alike(node[p], m) /\ node' = [node EXCEPT ![p] = m]
      BY <1>7, <2>1, <2>4
    <2>6. NodesOK' /\ Counts' /\ \A q \in Peers : Open(q)' <=> Open(q)
      BY <1>1, <1>7, <2>5, AlikeStep
    <2>7. ChainOK'
      BY <1>2, <1>7, HeadersOnly
    <2>8. PICK B \in SUBSET ({b} \ chain.data) : Follows(download, download', {p}, B)
      BY <1>2, <1>7, CompactBlockStep
    <2>9. Handled(p, b)
      BY <1>2, <1>7, CompactBlockStep
    <2>10. Books(download)' /\ Owners' /\ Asks
      BY <1>2, <2>6, <2>8, BooksStep, SMTT(60)
    <2>11. HandlerOK'
      BY <1>2, <1>7, <2>6, <2>9, HandlerHandled
    <2> QED BY <2>6, <2>7, <2>10, <2>11 DEF IInv
  <1> QED BY <1>3, <1>4, <1>5, <1>6, <1>7

(* The missing transactions of a compact block. *)
LEMMA ReceiveBlockTxnStep ==
    ASSUME IInv, NEW p \in Peers, NEW b \in Blocks, NEW status, ReceiveBlockTxn(p, b, status)
    PROVE  IInv' /\ Asks
  <1> DEFINE r == Answered(p, {GetBlockTxn(b)})
  <1>1. Ready(p) /\ UNCHANGED <<chain, counters, toRequest>>
    BY DEF ReceiveBlockTxn, Talks
  <1>2. /\ Open(p) /\ hand = Null /\ toRequest.blocks = {} /\ NodeOK(node[p])
        /\ ChainOK /\ NodesOK /\ Counts /\ Books(download)
    BY <1>1, AtReady DEF IInv
  <1>3. /\ FillBlock(p, b, download, status, r) \/ Ignored(p, r)
        /\ node' = node \/ node' = [node EXCEPT ![p] = Punish(node[p])]
    BY DEF ReceiveBlockTxn
  <1> HIDE DEF r
  <1>4. NodesOK' /\ Counts' /\ \A q \in Peers : Open(q)' <=> Open(q)
    <2>1. CASE node' = node
      BY <1>1, <1>2, <2>1 DEF NodesOK, Counts, Open, counters
    <2>2. CASE node' = [node EXCEPT ![p] = Punish(node[p])]
      <3>1. Alike(node[p], Punish(node[p]))
        BY <1>2, AlikeClosing
      <3> QED BY <1>1, <2>2, <3>1, AlikeStep DEF counters
    <2> QED BY <1>3, <2>1, <2>2
  <1>5. Follows(download, download, {}, {})
    BY <1>2, FollowsSame
  <1>6. Follows(download, download', {}, {}) /\ Handled(p, b)
    <2>1. CASE FillBlock(p, b, download, status, r)
      BY <1>5, <2>1, FillBlockStep
    <2>2. CASE Ignored(p, r)
      BY <1>5, <2>2 DEF Ignored, Handled
    <2> QED BY <1>3, <2>1, <2>2
  <1>7. Books(download)' /\ Owners' /\ Asks
    BY <1>4, <1>6, BooksFewer
  <1>8. HandlerOK' /\ ChainOK'
    BY <1>1, <1>2, <1>4, <1>6, HandlerHandled DEF ChainOK
  <1> QED BY <1>4, <1>7, <1>8 DEF IInv

(* Validation gives back a block index of the same shape. *)
LEMMA ProcessNewBlockShape ==
    ASSUME ChainOK, NEW b, NEW force, chain' \in ProcessNewBlock(b, force)
    PROVE  ChainOK'
  <1> DEFINE F == {"index", "data", "failed", "scripts", "tip", "pindexBestHeader"}
             c == ProcessNewBlockHeaders(<<b>>)
  <1>1. c = [f \in F |-> c[f]]
    <2>1. ASSUME NEW x, NEW y, NEW z,
                 c = [chain EXCEPT !.index = x, !.failed = y, !.pindexBestHeader = z]
          PROVE  c = [f \in F |-> c[f]]
      <3> HIDE DEF c
      <3> QED BY <2>1 DEF ChainOK
    <2> QED BY <2>1, Zenon DEF ProcessNewBlockHeaders
  <1>2. ASSUME NEW e, e = [f \in F |-> e[f]], chain' \in ActivateBestChain(e)
        PROVE  ChainOK'
    <2> DEFINE linked == {d \in e.data : Chain[d] \subseteq e.data /\ Chain[d] \cap e.failed = {}}
               good == {d \in linked : Chain[d] \cap Invalid = {}}
               best == IF \A d \in good : Work(d) <= Work(e.tip) THEN {e.tip}
                       ELSE {d \in good : \A g \in good : Work(g) <= Work(d)}
               more(new) == {d \in linked : Work(d) > Work(new)}
               equal(new) == {d \in linked \ good : Work(d) = Work(new) /\ Work(d) > Work(e.tip)}
               result(new) ==
                   {Activated(e, linked, new, more(new) \cup tied) : tied \in SUBSET equal(new)}
    <2>0. chain' \in UNION {result(new) : new \in best}
      BY <1>2, Zenon DEF ActivateBestChain
    <2> HIDE DEF linked, best, more, equal
    <2>1. PICK new, tried : chain' = Activated(e, linked, new, tried)
      <3> HIDE DEF result
      <3>1. PICK new \in best : chain' \in result(new)
        BY <2>0
      <3> QED BY <3>1 DEF result
    <2>2. ASSUME NEW x, NEW y, NEW z, chain' = [e EXCEPT !.tip = x, !.scripts = y, !.failed = z]
          PROVE  ChainOK'
      BY <1>2, <2>2 DEF ChainOK
    <2> QED BY <2>1, <2>2, Zenon DEF Activated
  <1> HIDE DEF c
  <1>3. PICK x : chain' = c \/ chain' \in ActivateBestChain([c EXCEPT !.data = x])
    BY Zenon DEF ProcessNewBlock, c
  <1>4. CASE chain' = c
    BY <1>1, <1>4 DEF ChainOK
  <1>5. CASE chain' \in ActivateBestChain([c EXCEPT !.data = x])
    <2> DEFINE e == [c EXCEPT !.data = x]
    <2>1. e = [f \in F |-> e[f]]
      BY <1>1
    <2> HIDE DEF e
    <2> QED BY <2>1, <1>2, <1>5 DEF e
  <1> QED BY <1>3, <1>4, <1>5

(* ProcessNewBlock may put the block on disk; if it has not, the block     *)
(* leaves the queue.                                                       *)
LEMMA ProcessBlockStep ==
    ASSUME IInv, NEW p \in Peers, ProcessBlock(p)
    PROVE  IInv' /\ Asks
  <1> DEFINE b == hand.block
  <1>1. /\ turn = p /\ phase = "process" /\ toRequest.blocks = {}
        /\ Received(p) /\ UNCHANGED <<node, counters, toRequest>>
        /\ chain' \in ProcessNewBlock(b, hand.force)
        /\ download' = download \/ download' = MarkBlockAsReceived(download, b)
    BY DEF ProcessBlock, At, Unlocked
  <1>2. b \in Blocks /\ Open(p) /\ ChainOK /\ NodesOK /\ Counts /\ Books(download)
    BY <1>1 DEF IInv, HandlerOK
  <1>3. ChainOK'
    BY <1>1, <1>2, ProcessNewBlockShape
  <1>4. NodesOK' /\ Counts' /\ \A q \in Peers : Open(q)' <=> Open(q)
    BY <1>1, <1>2 DEF NodesOK, Counts, Open, counters
  <1>5. Follows(download, download', {}, {})
    BY <1>1, <1>2, FollowsSame, ReceivedOnce
  <1>6. Books(download)' /\ Owners' /\ Asks
    BY <1>4, <1>5, BooksFewer
  <1>7. HandlerOK'
    BY <1>1, <1>2, <1>4, HandlerReceived
  <1> QED BY <1>3, <1>4, <1>6, <1>7 DEF IInv
-----------------------------------------------------------------------------
(* The peer the download window waits for owes a block. *)
LEMMA WaitingForOwes ==
    ASSUME Books(download), NEW walk \in SUBSET Blocks, WaitingFor(walk) # NoPeer
    PROVE  WaitingFor(walk) \in Peers /\ download.vBlocksInFlight[WaitingFor(walk)] # <<>>
  <1> DEFINE flying == {b \in walk : InFlight(download, b) /\ b \notin chain.data}
             least == CHOOSE b \in flying : \A c \in flying : Height[b] <= Height[c]
             q == WaitingFor(walk)
  <1>1. flying # {} /\ q = download.mapBlocksInFlight[least]
    BY DEF WaitingFor
  <1>2. flying \in SUBSET Blocks
    OBVIOUS
  <1>3. \E b \in flying : \A c \in flying : Height[b] <= Height[c]
    <2> HIDE DEF flying
    <2> QED BY <1>1, <1>2, LowestBlock
  <1>4. least \in flying
    <2> HIDE DEF flying
    <2> QED BY <1>3
  <1>5. least \in Blocks /\ InFlight(download, least)
    BY <1>4
  <1> HIDE DEF flying, least, q
  <1>6. download \in BooksType /\ \A p \in Peers :
            Listed(download.mapBlocksInFlight, download.vBlocksInFlight[p], p)
    BY DEF Books
  <1>7. q \in Peers
    BY <1>1, <1>5, <1>6 DEF BooksType, InFlight
  <1>8. least \in Range(download.vBlocksInFlight[q])
    BY <1>1, <1>5, <1>6, <1>7 DEF Listed
  <1>9. Range(<<>>) = {}
    BY SMTT(60) DEF Range
  <1> QED BY <1>7, <1>8, <1>9 DEF q

(* What FindNextBlocksToDownload may give. *)
LEMMA FoundToDownload ==
    ASSUME Books(download), NEW p, NEW n, NEW count
    PROVE  LET next == FindNextBlocksToDownload(p, n, count) IN
           /\ next.blocks \subseteq Blocks \ chain.data
           /\ next.staller # NoPeer =>
                next.staller \in Peers /\ download.vBlocksInFlight[next.staller] # <<>>
  <1> DEFINE next == FindNextBlocksToDownload(p, n, count)
  <1>1. \/ next = NothingToDownload(n)
        \/ \E vBlocks \in SUBSET (Blocks \ chain.data), walk \in SUBSET Blocks : \E common, beyond :
            next = [blocks |-> vBlocks, common |-> common,
                    staller |-> IF beyond THEN WaitingFor(walk) ELSE NoPeer]
    <2> DEFINE best == BestKnown(n)
               guess == IF n.pindexLastCommonBlock # Null THEN n.pindexLastCommonBlock
                        ELSE GetAncestor(tip, Lesser(Height[best], Height[tip]))
               fork == LastCommonAncestor(guess, best)
               nWindowEnd == Height[fork] + BLOCK_DOWNLOAD_WINDOW
               walk == {b \in Blocks :
                            /\ b \in Chain[best] \ Chain[fork]
                            /\ Height[b] <= nWindowEnd + 1
                            /\ Chain[b] \cap chain.failed \subseteq Chain[fork]}
               linked == {b \in walk : HaveChain(b)} \cup {fork}
               within == {b \in walk : Missing(b) /\ Height[b] <= nWindowEnd}
               vBlocks == Lowest(within, count)
               common == CHOOSE b \in linked : \A c \in linked : Height[c] <= Height[b]
               beyond == /\ \E b \in walk : Missing(b) /\ Height[b] > nWindowEnd
                         /\ vBlocks = {} /\ WaitingFor(walk) # p
    <2>1. \/ next = NothingToDownload(n)
          \/ next = [blocks |-> vBlocks, common |-> common,
                     staller |-> IF beyond THEN WaitingFor(walk) ELSE NoPeer]
      BY Zenon DEF FindNextBlocksToDownload
    <2>2. walk \in SUBSET Blocks
      OBVIOUS
    <2>3. within \in SUBSET (Blocks \ chain.data)
      BY <2>2 DEF Missing
    <2>4. vBlocks \in SUBSET (Blocks \ chain.data)
      <3> HIDE DEF within
      <3> QED BY <2>3 DEF Lowest
    <2> HIDE DEF next, walk, vBlocks, common, beyond
    <2> QED BY <2>1, <2>2, <2>4
  <1> HIDE DEF next
  <1>2. CASE next = NothingToDownload(n)
    BY <1>2, SMTT(60) DEF NothingToDownload, next
  <1>3. ASSUME NEW vBlocks \in SUBSET (Blocks \ chain.data), NEW walk \in SUBSET Blocks,
               NEW common, NEW beyond,
               next = [blocks |-> vBlocks, common |-> common,
                       staller |-> IF beyond THEN WaitingFor(walk) ELSE NoPeer]
        PROVE  /\ next.blocks \subseteq Blocks \ chain.data
               /\ next.staller # NoPeer =>
                    next.staller \in Peers /\ download.vBlocksInFlight[next.staller] # <<>>
    <2>1. next.blocks = vBlocks /\ next.staller = (IF beyond THEN WaitingFor(walk) ELSE NoPeer)
      BY <1>3
    <2>2. WaitingFor(walk) # NoPeer =>
            WaitingFor(walk) \in Peers /\ download.vBlocksInFlight[WaitingFor(walk)] # <<>>
      BY WaitingForOwes
    <2> QED BY <2>1, <2>2
  <1> QED BY <1>1, <1>2, <1>3 DEF next
-----------------------------------------------------------------------------
(* SendMessages begins with nothing in hand and nothing about to be asked  *)
(* for.                                                                    *)
LEMMA AtSend ==
    ASSUME IInv, NEW p \in Peers, At(p, "send") \/ Ready(p)
    PROVE  /\ Open(p) /\ hand = Null /\ toRequest.blocks = {} /\ NodeOK(node[p])
           /\ ChainOK /\ NodesOK /\ Counts /\ Books(download)
  <1>1. CASE Ready(p)
    BY <1>1, AtReady DEF IInv
  <1>2. CASE At(p, "send")
    BY <1>2 DEF At, Unlocked, IInv, HandlerOK, NodesOK
  <1> QED BY <1>1, <1>2

(* The turn ends without a change. *)
LEMMA SendNothingStep ==
    ASSUME IInv, NEW p \in Peers, SendNothing(p)
    PROVE  IInv' /\ Asks
  <1>1. /\ At(p, "send") /\ EndOfTurn
        /\ UNCHANGED <<chain, node, download, counters, toRequest>>
    BY DEF SendNothing
  <1>2. toRequest.blocks = {} /\ ChainOK /\ NodesOK /\ Counts
    BY <1>1, AtSend
  <1>3. ChainOK' /\ NodesOK' /\ Counts' /\ \A q \in Peers : Open(q)' <=> Open(q)
    BY <1>1, <1>2 DEF ChainOK, NodesOK, Counts, Open, counters
  <1>4. Books(download)' /\ Owners' /\ Asks
    BY <1>1, <1>3, BooksSame
  <1>5. HandlerOK'
    BY <1>1, <1>2, HandlerEnd
  <1> QED BY <1>3, <1>4, <1>5 DEF IInv

(* The peer is disconnected for its score. *)
LEMMA SendBannedStep ==
    ASSUME IInv, NEW p \in Peers, SendBanned(p)
    PROVE  IInv' /\ Asks
  <1>1. /\ At(p, "send") \/ Ready(p)
        /\ EndOfTurn /\ node' = [node EXCEPT ![p] = Punish(node[p])]
        /\ UNCHANGED <<chain, download, counters, toRequest>>
    BY DEF SendBanned, Sends, BeforeSend
  <1>2. toRequest.blocks = {} /\ ChainOK /\ NodeOK(node[p])
    BY <1>1, AtSend
  <1>3. Alike(node[p], Punish(node[p]))
    BY <1>2, AlikeClosing
  <1>4. NodesOK' /\ Counts' /\ \A q \in Peers : Open(q)' <=> Open(q)
    BY <1>1, <1>3, AlikeStep DEF counters
  <1>5. Books(download)' /\ Owners' /\ Asks
    BY <1>1, <1>4, BooksSame
  <1>6. HandlerOK' /\ ChainOK'
    BY <1>1, <1>2, HandlerEnd DEF ChainOK
  <1> QED BY <1>4, <1>5, <1>6 DEF IInv

(* m is n, except for the fields no counter but nSyncStarted depends on. *)
AlikeButSync(n, m) ==
    /\ NodeOK(m)
    /\ m.status = n.status
    /\ m.fSuccessfullyConnected = n.fSuccessfullyConnected
    /\ m.fPreferredDownload = n.fPreferredDownload
    /\ m.m_protect = n.m_protect

(* A step that may change one node's fSyncStarted and counts it. *)
LEMMA SyncStep ==
    ASSUME IInv, NEW p \in Peers, NEW m, AlikeButSync(node[p], m),
           node' = [node EXCEPT ![p] = m],
           nPreferredDownload' = nPreferredDownload, nProtected' = nProtected,
           nSyncStarted' = Recount(nSyncStarted, node[p].fSyncStarted, m.fSyncStarted)
    PROVE  NodesOK' /\ Counts' /\ \A q \in Peers : Open(q)' <=> Open(q)
  <1>1. NodesOK /\ Counts /\ NodeOK(m)
    BY DEF IInv, AlikeButSync
  <1>2. NodesOK' /\ node'[p] = m /\ \A q \in Peers \ {p} : node'[q] = node[q]
    BY <1>1, NodeStep
  <1>3. \A q \in Peers : Open(q)' <=> Open(q)
    BY <1>2 DEF AlikeButSync, Open
  <1>4. /\ nPreferredDownload \in Nat /\ nSyncStarted \in Nat /\ nProtected \in Nat
        /\ Cardinality(Preferred(node')) = nPreferredDownload
        /\ Cardinality(Syncing(node')) =
                Recount(nSyncStarted, node[p].fSyncStarted, m.fSyncStarted)
        /\ Cardinality(Protected(node')) = nProtected
    <2>1. /\ nPreferredDownload \in Nat /\ nSyncStarted \in Nat /\ nProtected \in Nat
          /\ Cardinality(Preferred(node')) =
                Recount(nPreferredDownload, node[p].fPreferredDownload, m.fPreferredDownload)
          /\ Cardinality(Syncing(node')) =
                Recount(nSyncStarted, node[p].fSyncStarted, m.fSyncStarted)
          /\ Cardinality(Protected(node')) = Recount(nProtected, node[p].m_protect, m.m_protect)
      BY <1>1, CountStep
    <2> QED BY <2>1, SMTT(60) DEF AlikeButSync, Recount
  <1> QED BY <1>2, <1>3, <1>4 DEF Counts

(* StartSync sets fSyncStarted where it is not set. *)
LEMMA StartSyncNode ==
    ASSUME NEW p \in Peers, NodeOK(node[p]), node[p].fSuccessfullyConnected
    PROVE  /\ AlikeButSync(node[p], StartSync(p))
           /\ StartsSync(p) => ~node[p].fSyncStarted
           /\ StartSync(p).fSyncStarted <=> node[p].fSyncStarted \/ StartsSync(p)
  <1> DEFINE n == IF StartsSync(p) THEN [node[p] EXCEPT !.fSyncStarted = TRUE,
                                                        !.nHeadersSyncTimeout = TRUE]
                  ELSE node[p]
  <1>1. AlikeButSync(node[p], n) /\ (n.fSyncStarted <=> node[p].fSyncStarted \/ StartsSync(p))
    <2>1. CASE StartsSync(p)
      BY <2>1 DEF AlikeButSync, NodeOK, NodeFields
    <2>2. CASE ~StartsSync(p)
      BY <2>2 DEF AlikeButSync
    <2> QED BY <2>1, <2>2
  <1>2. StartSync(p) = ProcessBlockAvailability(n, chain.index)
    BY Zenon DEF StartSync
  <1> HIDE DEF n
  <1>3. NodeOK(n)
    BY <1>1 DEF AlikeButSync
  <1>4. Alike(n, StartSync(p))
    BY <1>2, <1>3, AlikeAvailability
  <1>5. StartsSync(p) => ~node[p].fSyncStarted
    BY DEF StartsSync
  <1> QED BY <1>1, <1>4, <1>5 DEF Alike, AlikeButSync

(* A header timeout may end the sync; eviction only closes the connection. *)
LEMMA CheckedNode ==
    ASSUME NEW n, NodeOK(n), NEW late, NEW common
    PROVE  LET checked == CheckHeadersSync(n, late)
               m == ConsiderEviction([checked EXCEPT !.pindexLastCommonBlock = common], late)
           IN  /\ AlikeButSync(n, m)
               /\ m.fSyncStarted = checked.fSyncStarted
               /\ checked.fSyncStarted => n.fSyncStarted
               /\ checked.fSyncStarted \in BOOLEAN
  <1> DEFINE k == CheckHeadersSync(n, late)
             e == [k EXCEPT !.pindexLastCommonBlock = common]
             m == ConsiderEviction(e, late)
  <1>1. AlikeButSync(n, k) /\ (k.fSyncStarted => n.fSyncStarted)
    <2>1. CASE k = [n EXCEPT !.nHeadersSyncTimeout = FALSE]
      BY <2>1 DEF AlikeButSync, NodeOK, NodeFields
    <2>2. CASE k = [n EXCEPT !.fSyncStarted = FALSE, !.nHeadersSyncTimeout = FALSE]
      <3> HIDE DEF k
      <3> QED BY <2>2 DEF AlikeButSync, NodeOK, NodeFields
    <2>3. CASE k = n
      <3> HIDE DEF k
      <3> QED BY <2>3 DEF AlikeButSync
    <2> QED BY <2>1, <2>2, <2>3, Zenon DEF CheckHeadersSync
  <1> HIDE DEF k
  <1>2. NodeOK(k)
    BY <1>1 DEF AlikeButSync
  <1>3. Alike(k, e)
    BY <1>2 DEF Alike, NodeOK, NodeFields
  <1> HIDE DEF e
  <1>4. Alike(e, m)
    <2> DEFINE f == [e EXCEPT !.m_timeout = IF Considered(e) THEN Behind(e) ELSE @]
    <2>1. NodeOK(e)
      BY <1>3 DEF Alike
    <2>2. ASSUME NEW x, f = [e EXCEPT !.m_timeout = x]
          PROVE  Alike(e, f)
      <3> HIDE DEF f
      <3> QED BY <2>1, <2>2 DEF Alike, NodeOK, NodeFields
    <2>3. Alike(e, f)
      BY <2>2, Zenon
    <2>4. PICK leave : m = ClosingIf(f, leave)
      BY Zenon DEF ConsiderEviction
    <2> HIDE DEF f, m
    <2>5. NodeOK(f)
      BY <2>3 DEF Alike
    <2>6. Alike(f, m)
      BY <2>4, <2>5, AlikeClosing
    <2> QED BY <2>3, <2>6 DEF Alike
  <1> HIDE DEF m
  <1>5. AlikeButSync(n, m) /\ m.fSyncStarted = k.fSyncStarted /\ k.fSyncStarted \in BOOLEAN
    BY <1>1, <1>2, <1>3, <1>4 DEF Alike, AlikeButSync, NodeOK
  <1> QED BY <1>1, <1>5 DEF k, e, m

(* A peer is disconnected for a timeout. *)
LEMMA SendTimeoutStep ==
    ASSUME IInv, NEW p \in Peers, NEW late, SendTimeout(p, late)
    PROVE  IInv' /\ Asks
  <1> DEFINE n == StartSync(p)
             m == Closing(n)
  <1>1. /\ At(p, "send") \/ Ready(p)
        /\ node[p].fSuccessfullyConnected
        /\ EndOfTurn /\ node' = [node EXCEPT ![p] = m]
        /\ nSyncStarted' = nSyncStarted + (IF StartsSync(p) THEN 1 ELSE 0)
        /\ UNCHANGED <<chain, download, nPreferredDownload, nProtected, toRequest>>
    BY DEF SendTimeout, Sends, BeforeSend
  <1>2. toRequest.blocks = {} /\ ChainOK /\ NodesOK /\ Counts /\ NodeOK(node[p])
    BY <1>1, AtSend
  <1>3. /\ AlikeButSync(node[p], n)
        /\ StartsSync(p) => ~node[p].fSyncStarted
        /\ n.fSyncStarted <=> node[p].fSyncStarted \/ StartsSync(p)
    BY <1>1, <1>2, StartSyncNode
  <1> HIDE DEF n
  <1>4. NodeOK(n)
    BY <1>3 DEF AlikeButSync
  <1>5. Alike(n, m)
    BY <1>4, AlikeClosing
  <1> HIDE DEF m
  <1>6. AlikeButSync(node[p], m) /\ (m.fSyncStarted <=> node[p].fSyncStarted \/ StartsSync(p))
    BY <1>3, <1>5 DEF Alike, AlikeButSync
  <1>7. nSyncStarted \in Nat
    BY <1>1, <1>2, <1>4, <1>5, CountStep DEF Alike
  <1>8. nSyncStarted' = Recount(nSyncStarted, node[p].fSyncStarted, m.fSyncStarted)
    BY <1>1, <1>3, <1>6, <1>7, SMTT(60) DEF Recount
  <1>9. NodesOK' /\ Counts' /\ \A q \in Peers : Open(q)' <=> Open(q)
    BY <1>1, <1>6, <1>8, SyncStep
  <1>10. Books(download)' /\ Owners' /\ Asks
    BY <1>1, <1>9, BooksSame
  <1>11. HandlerOK' /\ ChainOK'
    BY <1>1, <1>2, HandlerEnd DEF ChainOK
  <1> QED BY <1>9, <1>10, <1>11 DEF IInv

(* A peer is asked for headers, and blocks to ask it for are chosen. *)
LEMMA SendRequestsStep ==
    ASSUME IInv, NEW p \in Peers, NEW late, SendRequests(p, late)
    PROVE  IInv' /\ Asks
  <1> DEFINE n == StartSync(p)
             checked == CheckHeadersSync(n, late)
             Choice == IF ~IsInitialBlockDownload \/ Fetches(n)
                       THEN FindNextBlocksToDownload(p, n, Room(p))
                       ELSE NothingToDownload(n)
             stalled(q) == [download EXCEPT !.nStallingSince[q] = TRUE]
  <1>1. /\ At(p, "send") \/ Ready(p)
        /\ node[p].fSuccessfullyConnected
        /\ nSyncStarted' = nSyncStarted + (IF StartsSync(p) THEN 1 ELSE 0)
                                - (IF n.fSyncStarted /\ ~checked.fSyncStarted THEN 1 ELSE 0)
        /\ UNCHANGED <<chain, nPreferredDownload, nProtected>>
    BY DEF SendRequests, Sends, BeforeSend
  <1>2. PICK next \in {Choice} :
            /\ node' = [node EXCEPT ![p] = ConsiderEviction(
                            [checked EXCEPT !.pindexLastCommonBlock = next.common], late)]
            /\ toRequest' = [blocks |-> next.blocks, compact |-> FALSE]
            /\ download' = IF next.staller # NoPeer /\ download.nBlocksInFlight[p] = 0
                           THEN stalled(next.staller) ELSE download
            /\ IF next.blocks = {} THEN EndOfTurn
               ELSE phase' = "sent" /\ turn' = p /\ UNCHANGED hand
    BY Zenon DEF SendRequests
  <1> DEFINE m == ConsiderEviction([checked EXCEPT !.pindexLastCommonBlock = next.common], late)
  <1>3. /\ Open(p) /\ hand = Null /\ NodeOK(node[p])
        /\ ChainOK /\ NodesOK /\ Counts /\ Books(download)
    BY <1>1, AtSend
  <1>4. /\ next.blocks \subseteq Blocks \ chain.data
        /\ next.staller # NoPeer =>
            next.staller \in Peers /\ download.vBlocksInFlight[next.staller] # <<>>
    <2>1. next = Choice
      BY <1>2
    <2>2. CASE next = FindNextBlocksToDownload(p, n, Room(p))
      <3> HIDE DEF n
      <3>1. LET found == FindNextBlocksToDownload(p, n, Room(p)) IN
            /\ found.blocks \subseteq Blocks \ chain.data
            /\ found.staller # NoPeer =>
                found.staller \in Peers /\ download.vBlocksInFlight[found.staller] # <<>>
        BY <1>3, FoundToDownload
      <3> QED BY <2>2, <3>1
    <2>3. CASE next = NothingToDownload(n)
      BY <2>3 DEF NothingToDownload
    <2> QED BY <2>1, <2>2, <2>3, Zenon
  <1>5. /\ AlikeButSync(node[p], n)
        /\ StartsSync(p) => ~node[p].fSyncStarted
        /\ n.fSyncStarted <=> node[p].fSyncStarted \/ StartsSync(p)
    BY <1>1, <1>3, StartSyncNode
  <1> HIDE DEF n, Choice, stalled
  <1>6. NodeOK(n)
    BY <1>5 DEF AlikeButSync
  <1>7. /\ AlikeButSync(n, m) /\ m.fSyncStarted = checked.fSyncStarted
        /\ checked.fSyncStarted => n.fSyncStarted
        /\ checked.fSyncStarted \in BOOLEAN
    BY <1>6, CheckedNode, SMTT(60)
  <1>8. node' = [node EXCEPT ![p] = m]
    BY <1>2
  <1> HIDE DEF m, checked
  <1>9. AlikeButSync(node[p], m)
    BY <1>5, <1>7 DEF AlikeButSync
  <1>10. nSyncStarted \in Nat
    BY <1>3, <1>7, <1>8, CountStep DEF AlikeButSync
  <1>11. nSyncStarted' = Recount(nSyncStarted, node[p].fSyncStarted, m.fSyncStarted)
    BY <1>1, <1>5, <1>7, <1>10, SMTT(60) DEF Recount
  <1>12. NodesOK' /\ Counts' /\ \A q \in Peers : Open(q)' <=> Open(q)
    BY <1>1, <1>8, <1>9, <1>11, SyncStep
  <1>13. Follows(download, download', {}, {})
    <2>1. CASE download' = download
      BY <1>3, <2>1, FollowsSame
    <2>2. CASE next.staller # NoPeer /\ download' = stalled(next.staller)
      BY <1>3, <1>4, <2>2, Stalled DEF stalled
    <2> QED BY <1>2, <2>1, <2>2
  <1>14. Books(download)' /\ Owners' /\ Asks
    BY <1>12, <1>13, BooksFewer
  <1>15. ChainOK' /\ toRequest'.blocks = next.blocks
    BY <1>1, <1>2, <1>3 DEF ChainOK
  <1>16. HandlerOK'
    <2>1. CASE next.blocks = {}
      BY <1>2, <1>15, <2>1, HandlerEnd
    <2>2. CASE next.blocks # {}
      <3>1. phase' = "sent" /\ turn' = p /\ hand' = Null /\ Open(p)'
        BY <1>2, <1>3, <1>12, <2>2
      <3> QED BY <1>1, <1>4, <1>15, <3>1, PeersAssumption DEF HandlerOK
    <2> QED BY <2>1, <2>2
  <1> QED BY <1>12, <1>14, <1>15, <1>16 DEF IInv

(* The next of them is asked for. *)
LEMMA RequestBlockStep ==
    ASSUME IInv, NEW p \in Peers, RequestBlock(p)
    PROVE  IInv' /\ Asks
  <1>1. PICK b \in Lowest(toRequest.blocks, 1) :
            /\ download' = MarkBlockAsInFlight(download, p, b, FALSE)
            /\ toRequest' = [blocks |-> toRequest.blocks \ {b}, compact |-> FALSE]
            /\ UNCHANGED node
            /\ IF phase = "sent" /\ toRequest.blocks = {b} THEN EndOfTurn
               ELSE UNCHANGED <<turn, phase, hand>>
    BY DEF RequestBlock
  <1>2. turn = p /\ toRequest.blocks # {} /\ UNCHANGED <<chain, counters>>
    BY DEF RequestBlock, Unlocked
  <1>3. b \in toRequest.blocks
    BY <1>1 DEF Lowest
  <1>4. /\ Open(p) /\ phase # "process" /\ hand = Null /\ b \in Blocks \ chain.data
        /\ ChainOK /\ NodesOK /\ Counts /\ Books(download)
    BY <1>2, <1>3 DEF IInv, HandlerOK
  <1>5. ChainOK' /\ NodesOK' /\ Counts' /\ \A q \in Peers : Open(q)' <=> Open(q)
    BY <1>1, <1>2, <1>4 DEF ChainOK, NodesOK, Counts, Open, counters
  <1>6. Follows(download, download', {p}, {b})
    BY <1>1, <1>4, Requested
  <1>7. Books(download)' /\ Owners' /\ Asks
    BY <1>4, <1>5, <1>6, BooksStep, SMTT(60)
  <1>8. HandlerOK'
    <2>1. toRequest'.blocks = toRequest.blocks \ {b}
      BY <1>1
    <2>2. CASE EndOfTurn /\ toRequest.blocks = {b}
      BY <2>1, <2>2, HandlerEnd
    <2>3. CASE UNCHANGED <<turn, phase, hand>>
      BY <1>2, <1>4, <1>5, <2>1, <2>3, PeersAssumption DEF HandlerOK, IInv
    <2> QED BY <1>1, <2>2, <2>3
  <1> QED BY <1>5, <1>7, <1>8 DEF IInv
-----------------------------------------------------------------------------
(* Every message keeps the invariant. *)
LEMMA ReceiveMessageStep ==
    ASSUME IInv, NEW p \in Peers, ReceiveMessage(p)
    PROVE  IInv' /\ Asks
  <1>1. Serves[p] \subseteq Blocks /\ News(p) \subseteq Blocks
    BY DownloadAssumption DEF News
  <1>2. \/ \E h : ReceiveHeaders(p, h)
        \/ \E b \in Blocks : ReceiveBlock(p, b)
        \/ \E b \in Blocks : \E status : ReceiveCompactBlock(p, b, status)
        \/ \E b \in Blocks : \E status : ReceiveBlockTxn(p, b, status)
        \/ \E b \in Blocks : ReceiveInv(p, b)
    BY <1>1 DEF ReceiveMessage
  <1> QED BY <1>2, ReceiveHeadersStep, ReceiveBlockStep, ReceiveCompactBlockStep,
             ReceiveBlockTxnStep, ReceiveInvStep

(* The invariant is inductive, and no step asks for a block that is here. *)
LEMMA Inductive ==
    ASSUME IInv, [Next]_vars
    PROVE  IInv' /\ Asks
  <1>1. CASE UNCHANGED vars
    <2>1. /\ UNCHANGED <<chain, node, download, turn, phase, hand, toRequest>>
          /\ UNCHANGED <<nSyncStarted, nPreferredDownload, nProtected>>
      BY <1>1 DEF vars, counters, handler
    <2>2. Books(download)' /\ Asks
      BY <2>1 DEF IInv, Asks, InFlight
    <2>3. ChainOK' /\ NodesOK' /\ HandlerOK' /\ Owners' /\ Counts'
      BY <2>1 DEF IInv, ChainOK, NodesOK, HandlerOK, Owners, Counts, Open
    <2> QED BY <2>2, <2>3 DEF IInv
  <1>2. ASSUME NEW p \in Peers,
               \/ \E kind \in KindsOf[p] : InitializeNode(p, kind)
               \/ CloseSocketDisconnect(p) \/ FinalizeNode(p)
               \/ ReceiveVersion(p) \/ ReceiveMessage(p) \/ ProcessBlock(p)
               \/ SendNothing(p) \/ SendBanned(p) \/ SendMessages(p) \/ RequestBlock(p)
        PROVE  IInv' /\ Asks
    <2>1. ASSUME NEW kind \in KindsOf[p], InitializeNode(p, kind)
          PROVE  IInv' /\ Asks
      BY <2>1, InitializeNodeStep
    <2>2. CASE CloseSocketDisconnect(p)
      BY <2>2, CloseSocketStep
    <2>3. CASE FinalizeNode(p)
      BY <2>3, FinalizeNodeStep
    <2>4. CASE ReceiveVersion(p)
      BY <2>4, ReceiveVersionStep
    <2>5. CASE ReceiveMessage(p)
      BY <2>5, ReceiveMessageStep
    <2>6. CASE ProcessBlock(p)
      BY <2>6, ProcessBlockStep
    <2>7. CASE SendNothing(p)
      BY <2>7, SendNothingStep
    <2>8. CASE SendBanned(p)
      BY <2>8, SendBannedStep
    <2>9. CASE SendMessages(p)
      <3>1. PICK late : SendTimeout(p, late) \/ SendRequests(p, late)
        BY <2>9 DEF SendMessages
      <3> QED BY <3>1, SendTimeoutStep, SendRequestsStep
    <2>10. CASE RequestBlock(p)
      BY <2>10, RequestBlockStep
    <2> QED BY <1>2, <2>1, <2>2, <2>3, <2>4, <2>5, <2>6, <2>7, <2>8, <2>9, <2>10
  <1> QED BY <1>1, <1>2 DEF Next

(* It holds before the first connection. *)
LEMMA Initial ==
    ASSUME Init
    PROVE  IInv
  <1> DEFINE m == NoNode("new")
  <1>1. NodeOK(m) /\ ~m.fPreferredDownload /\ ~m.fSyncStarted /\ ~m.m_protect
    BY DEF NoNode, NewNode, NodeOK, NodeFields
  <1>2. node = [p \in Peers |-> m]
    BY DEF Init
  <1> HIDE DEF m
  <1>3. \A p \in Peers : node[p] = m
    BY <1>2
  <1>4. NodesOK
    BY <1>1, <1>2, <1>3 DEF NodesOK
  <1>5. Preferred(node) = {} /\ Syncing(node) = {} /\ Protected(node) = {}
    BY <1>1, <1>3 DEF Preferred, Syncing, Protected
  <1>6. Counts
    BY <1>5, FS_EmptySet DEF Counts, Init
  <1>7. Books(download) /\ Owners
    BY NothingOwed DEF Init, Owners, NothingInFlight
  <1>8. HandlerOK
    BY PeersAssumption DEF Init, HandlerOK, NoRequest
  <1>9. ChainOK
    BY DEF Init, ChainOK
  <1> QED BY <1>4, <1>6, <1>7, <1>8, <1>9 DEF IInv

(* The books are exact, whatever the peers send and whenever they leave. *)
THEOREM BooksAlwaysExact == Spec => []BooksExact
  <1>1. Init => IInv
    BY Initial
  <1>2. IInv /\ [Next]_vars => IInv'
    BY Inductive
  <1>3. IInv => BooksExact
    BY DEF IInv, Books, BooksType, Listed, Owing, Owners, Counts, BooksExact,
           Preferred, Syncing, Protected, InFlight
  <1> QED BY <1>1, <1>2, <1>3, PTL DEF Spec

(* No peer is held to stall the download that owes no block. *)
THEOREM StallersAlwaysOwe == Spec => []StallersOwe
  <1>1. Init => IInv
    BY Initial
  <1>2. IInv /\ [Next]_vars => IInv'
    BY Inductive
  <1>3. IInv => StallersOwe
    BY DEF IInv, Books, Owners, StallersOwe
  <1> QED BY <1>1, <1>2, <1>3, PTL DEF Spec

(* No block is asked for while it is on disk or on its way there. *)
THEOREM NoBlockAskedTwice == Spec => NeverAskedTwice
  <1>1. Init => IInv
    BY Initial
  <1>2. IInv /\ [Next]_vars => IInv' /\ Asks
    BY Inductive
  <1>3. Asks <=> \A b \in Blocks :
                    ~InFlight(download, b) /\ InFlight(download, b)' =>
                        b \notin chain.data /\ (hand # Null => hand.block # b)
    BY DEF Asks
  <1> QED BY <1>1, <1>2, <1>3, PTL DEF Spec, NeverAskedTwice
-----------------------------------------------------------------------------
(***************************************************************************)
(* What a peer is asked for, and how far the download of its chain is.     *)
(***************************************************************************)
(* p is on a chain that holds b. *)
Served(p, b) == \E a \in Serves[p] : b \in Chain[a]

(* What node n of p says of p's chain is true, with the blocks in data on  *)
(* disk.                                                                   *)
KnownOK(p, n, data) ==
    /\ n.pindexBestKnownBlock # Null => Served(p, n.pindexBestKnownBlock)
    /\ n.hashLastUnknownBlock # Null => n.hashLastUnknownBlock \in Serves[p]
    /\ n.pindexLastCommonBlock # Null =>
        /\ n.pindexLastCommonBlock \in Blocks
        /\ Chain[n.pindexLastCommonBlock] \subseteq data
        /\ n.pindexLastCommonBlock = Genesis \/ Served(p, n.pindexLastCommonBlock)

(* The active chain is on disk. *)
IndexOK(c) ==
    /\ c.index \subseteq Blocks /\ c.data \subseteq Blocks /\ c.pindexBestHeader \in Blocks
    /\ c.tip \in Blocks /\ Chain[c.tip] \subseteq c.data

BooksServed(d) ==
    \A b \in Blocks : InFlight(d, b) => Served(d.mapBlocksInFlight[b], b)

(* A responsive peer is asked for headers from a block of its own chain on. *)
RequestsOK(r) ==
    /\ r = [p \in Responsive |-> r[p]]
    /\ \A p \in Responsive : \A m \in r[p] :
        m.type = "getheaders" => m.block \in Chain[PeerTip[p]]

KnownNodes == \A p \in Peers : KnownOK(p, node[p], chain.data)

AboutToAsk == \A b \in toRequest.blocks : Served(turn, b)

(* The second inductive invariant. *)
JInv ==
    IndexOK(chain) /\ KnownNodes /\ BooksServed(download) /\ AboutToAsk /\ RequestsOK(requests)
-----------------------------------------------------------------------------
(* A peer serves the ancestors of what it serves. *)
LEMMA ServedChain ==
    ASSUME NEW p \in Peers
    PROVE  /\ Serves[p] \subseteq Blocks /\ Genesis \notin Serves[p]
           /\ \A b \in Serves[p] : Served(p, b)
           /\ \A b : Served(p, b) => b \in Blocks /\ \A c \in Chain[b] : Served(p, c)
  <1>1. Serves[p] \subseteq Blocks /\ Genesis \notin Serves[p]
    BY DownloadAssumption
  <1>2. \A b \in Serves[p] : Served(p, b)
    BY <1>1, ChainBlocks DEF Served
  <1>3. ASSUME NEW b, Served(p, b) PROVE b \in Blocks /\ \A c \in Chain[b] : Served(p, c)
    <2>1. PICK a \in Serves[p] : b \in Chain[a]
      BY <1>3 DEF Served
    <2>2. b \in Blocks /\ Chain[b] \subseteq Chain[a]
      BY <1>1, <2>1, ChainTransitive
    <2> QED BY <2>1, <2>2 DEF Served
  <1> QED BY <1>1, <1>2, <1>3

(* GetAncestor: a block has an ancestor at every height up to its own. *)
LEMMA AncestorAt ==
    ASSUME NEW b \in Blocks, NEW h \in Nat, h <= Height[b]
    PROVE  GetAncestor(b, h) \in Chain[b] /\ Height[GetAncestor(b, h)] = h
  <1> DEFINE bad == {x \in Blocks : h <= Height[x] /\ ~\E a \in Chain[x] : Height[a] = h}
  <1>1. ASSUME bad # {} PROVE FALSE
    <2>1. bad \in SUBSET Blocks
      OBVIOUS
    <2> HIDE DEF bad
    <2>2. PICK x \in bad : \A y \in bad : Height[x] <= Height[y]
      BY <1>1, <2>1, LowestBlock
    <2>3. x \in Blocks /\ h <= Height[x] /\ ~\E a \in Chain[x] : Height[a] = h
      BY DEF bad
    <2>4. Height[x] # h /\ Height[x] \in Nat
      BY <2>3, ChainBlocks, TreeAssumption
    <2>5. x # Genesis
      BY <2>3, <2>4, TreeAssumption, SMTT(60)
    <2>6. Parent[x] \in Blocks /\ Height[x] = Height[Parent[x]] + 1 /\ Height[Parent[x]] \in Nat
      BY <2>3, <2>5, TreeAssumption
    <2>7. h <= Height[Parent[x]] /\ ~(Height[x] <= Height[Parent[x]])
      BY <2>3, <2>4, <2>6, SMTT(60)
    <2>8. Chain[Parent[x]] \subseteq Chain[x]
      BY <2>3, ChainUnfold
    <2>9. Parent[x] \in bad
      BY <2>3, <2>6, <2>7, <2>8 DEF bad
    <2> QED BY <2>2, <2>7, <2>9
  <1>2. \E a \in Chain[b] : Height[a] = h
    BY <1>1
  <1> QED BY <1>2 DEF GetAncestor

(* A path is made of the blocks of one chain, without the genesis block. *)
LEMMA PathOn ==
    ASSUME NEW a \in Blocks, NEW b \in Blocks
    PROVE  /\ Path(a, b) \in Seq(Blocks)
           /\ Range(Path(a, b)) \subseteq Chain[b] \ {Genesis}
  <1> DEFINE k == Height[b] - Height[a]
             s == Path(a, b)
  <1>1. Height[a] \in Nat /\ Height[b] \in Nat
    BY TreeAssumption
  <1>2. s = [i \in 1 .. k |-> GetAncestor(b, Height[a] + i)]
    BY DEF Path
  <1>3. ASSUME NEW i \in 1 .. k
        PROVE  GetAncestor(b, Height[a] + i) \in Chain[b] \ {Genesis}
    <2>1. Height[a] + i \in Nat /\ Height[a] + i <= Height[b] /\ Height[a] + i # 0
      BY <1>1, SMTT(60)
    <2>2. /\ GetAncestor(b, Height[a] + i) \in Chain[b]
          /\ Height[GetAncestor(b, Height[a] + i)] = Height[a] + i
      BY <2>1, AncestorAt
    <2> QED BY <2>1, <2>2, TreeAssumption
  <1>4. \A i \in 1 .. k : s[i] \in Chain[b] \ {Genesis}
    BY <1>2, <1>3
  <1>5. Chain[b] \subseteq Blocks
    BY ChainBlocks
  <1>6. DOMAIN s = 1 .. k
    BY <1>2
  <1>7. PICK n \in Nat : 1 .. k = 1 .. n
    <2>1. CASE k >= 0
      BY <2>1, <1>1, SMTT(60)
    <2>2. CASE k < 0
      <3>1. 1 .. k = 1 .. 0 /\ 0 \in Nat
        BY <2>2, <1>1, SMTT(60)
      <3> QED BY <3>1
    <2> QED BY <1>1, <2>1, <2>2, SMTT(60)
  <1>8. s \in [1 .. n -> Blocks]
    <2> HIDE DEF k, s
    <2>1. \A i \in 1 .. n : s[i] \in Blocks
      BY <1>4, <1>5, <1>7
    <2>2. s = [i \in 1 .. n |-> s[i]]
      BY <1>2, <1>7
    <2> QED BY <2>1, <2>2
  <1>9. s \in Seq(Blocks)
    <2> HIDE DEF s
    <2> QED BY <1>8, SMTT(60)
  <1>10. Range(s) \subseteq Chain[b] \ {Genesis}
    BY <1>4, <1>6 DEF Range
  <1> QED BY <1>9, <1>10

(* The last of some headers is one of them. *)
LEMMA LastOne ==
    ASSUME NEW S, NEW s \in Seq(S), s # <<>>
    PROVE  s[Len(s)] \in Range(s)
  <1>1. Len(s) \in DOMAIN s
    BY SMTT(60)
  <1> QED BY <1>1 DEF Range

(* Headers come from chains the peer serves, each message from one chain. *)
LEMMA HeadersServed ==
    ASSUME NEW p \in Peers, RequestsOK(requests), NEW h \in HeadersFrom(p)
    PROVE  /\ h \in Seq(Blocks) /\ Range(h) \subseteq Serves[p]
           /\ \E b \in Blocks : Range(h) \subseteq Chain[b]
  <1>1. CASE p \in Responsive
    <2>1. PICK r \in requests[p] : /\ r.type = "getheaders"
                                   /\ h = HeadersAfter(r.block, PeerTip[p])
      BY <1>1, SMTT(60) DEF HeadersFrom
    <2> DEFINE t == PeerTip[p]
               path == Path(r.block, t)
               k == Lesser(Len(path), MAX_HEADERS_RESULTS)
    <2>2. t \in Blocks /\ r.block \in Chain[t] /\ Chain[t] \subseteq Serves[p] \cup {Genesis}
      BY <1>1, <2>1, DownloadAssumption DEF RequestsOK
    <2>3. r.block \in Blocks
      BY <2>2, ChainBlocks
    <2>4. path \in Seq(Blocks) /\ Range(path) \subseteq Chain[t] \ {Genesis}
      BY <2>2, <2>3, PathOn
    <2>5. h = SubSeq(path, 1, k)
      BY <2>1 DEF HeadersAfter
    <2> HIDE DEF path, t
    <2>6. k \in Nat /\ k <= Len(path)
      BY <2>4, DownloadAssumption, SMTT(60) DEF Lesser
    <2> HIDE DEF k
    <2>7. h \in Seq(Blocks) /\ \A i \in DOMAIN h : i \in DOMAIN path /\ h[i] = path[i]
      BY <2>4, <2>5, <2>6, SMTT(60)
    <2>8. Range(h) \subseteq Range(path)
      BY <2>7 DEF Range
    <2> QED BY <2>2, <2>4, <2>7, <2>8
  <1>2. CASE p \notin Responsive
    <2>1. PICK a \in Serves[p], b \in Serves[p] :
            h = Path(Parent[a], b) /\ Range(h) \subseteq Serves[p]
      BY <1>2, SMTT(60) DEF HeadersFrom
    <2>2. a \in Blocks \ {Genesis} /\ b \in Blocks
      BY ServedChain
    <2>3. Parent[a] \in Blocks
      BY <2>2, TreeAssumption
    <2>4. h \in Seq(Blocks) /\ Range(h) \subseteq Chain[b] \ {Genesis}
      BY <2>1, <2>2, <2>3, PathOn
    <2> QED BY <2>1, <2>2, <2>4
  <1> QED BY <1>1, <1>2

(* Headers leave the active chain and the blocks on disk alone. *)
LEMMA HeadersIndex ==
    ASSUME ChainOK, IndexOK(chain), NEW headers, NEW b \in Blocks, Range(headers) \subseteq Chain[b]
    PROVE  LET c == ProcessNewBlockHeaders(headers) IN
           /\ IndexOK(c) /\ c.data = chain.data /\ c.tip = chain.tip
           /\ c = [f \in {"index", "data", "failed", "scripts", "tip", "pindexBestHeader"} |-> c[f]]
  <1> DEFINE refused == RefusedHeaders(headers)
             taken == {x \in Range(headers) : Chain[x] \cap refused = {}}
             better == {x \in taken : Work(x) > Work(chain.pindexBestHeader)}
             stop == {x \in refused \ chain.index : Chain[x] \cap refused = {x}}
             marked == {x \in chain.index : /\ Chain[x] \cap Invalid \cap chain.failed # {}
                                            /\ \E r \in stop : x \in Chain[r]}
             top == CHOOSE x \in better : \A y \in better : Work(y) <= Work(x)
             best == IF better = {} THEN chain.pindexBestHeader ELSE top
             c == ProcessNewBlockHeaders(headers)
  <1>1. better \in SUBSET Chain[b] /\ taken \subseteq Chain[b]
    OBVIOUS
  <1>2. c = [chain EXCEPT !.index = @ \cup taken, !.failed = @ \cup marked,
                          !.pindexBestHeader = IF better = {} THEN @ ELSE top]
    BY DEF ProcessNewBlockHeaders
  <1>a. c = [chain EXCEPT !.index = @ \cup taken, !.failed = @ \cup marked,
                          !.pindexBestHeader = best]
    <2> HIDE DEF taken, marked, better, top
    <2> QED BY <1>2
  <1> HIDE DEF c, taken, marked
  <1>3. best \in Blocks
    <2>1. CASE better = {}
      BY <2>1 DEF IndexOK
    <2>2. CASE better # {}
      <3> HIDE DEF better
      <3>1. \E x \in better : \A y \in better : Work(y) <= Work(x)
        BY <1>1, <2>2, HighestAncestor DEF Work
      <3>2. top \in better
        BY <3>1
      <3>3. top \in Blocks
        BY <3>2, <1>1, ChainBlocks
      <3> QED BY <2>2, <3>3
    <2> QED BY <2>1, <2>2
  <1> HIDE DEF best
  <1>4. /\ c.index = chain.index \cup taken /\ c.data = chain.data /\ c.tip = chain.tip
        /\ c.pindexBestHeader = best
        /\ c = [f \in {"index", "data", "failed", "scripts", "tip", "pindexBestHeader"} |-> c[f]]
    BY <1>a DEF ChainOK
  <1>5. taken \subseteq Blocks
    BY <1>1, ChainBlocks
  <1>6. IndexOK(c)
    BY <1>3, <1>4, <1>5 DEF IndexOK
  <1> QED BY <1>4, <1>6 DEF c

(* A new tip has its chain on disk. *)
LEMMA ActivateIndex ==
    ASSUME NEW c, IndexOK(c), NEW new \in ActivateBestChain(c),
           c = [f \in {"index", "data", "failed", "scripts", "tip", "pindexBestHeader"} |-> c[f]]
    PROVE  IndexOK(new) /\ new.data = c.data
  <1> DEFINE linked == {b \in c.data : Chain[b] \subseteq c.data /\ Chain[b] \cap c.failed = {}}
             good == {b \in linked : Chain[b] \cap Invalid = {}}
             best == IF \A b \in good : Work(b) <= Work(c.tip) THEN {c.tip}
                     ELSE {b \in good : \A g \in good : Work(g) <= Work(b)}
             more(t) == {b \in linked : Work(b) > Work(t)}
             equal(t) == {b \in linked \ good : Work(b) = Work(t) /\ Work(b) > Work(c.tip)}
  <1>1. PICK t \in best : \E tried : new = Activated(c, linked, t, tried)
    <2>1. new \in UNION {{Activated(c, linked, t, more(t) \cup tied) : tied \in SUBSET equal(t)} :
                            t \in best}
      BY DEF ActivateBestChain
    <2> HIDE DEF more, equal, best, linked
    <2>2. PICK t \in best :
            new \in {Activated(c, linked, t, more(t) \cup tied) : tied \in SUBSET equal(t)}
      BY <2>1
    <2> QED BY <2>2
  <1>2. t \in Blocks /\ Chain[t] \subseteq c.data
    <2>1. t = c.tip \/ t \in linked
      BY <1>1
    <2> QED BY <2>1 DEF IndexOK
  <1> HIDE DEF linked, best
  <1>3. PICK x, y : new = [c EXCEPT !.tip = t, !.scripts = x, !.failed = y]
    BY <1>1 DEF Activated
  <1>4. /\ new.tip = t /\ new.data = c.data /\ new.index = c.index
        /\ new.pindexBestHeader = c.pindexBestHeader
    BY <1>3
  <1> QED BY <1>2, <1>4 DEF IndexOK

(* So has the tip after ProcessNewBlock, which takes nothing off the disk. *)
LEMMA ProcessIndex ==
    ASSUME ChainOK, IndexOK(chain), NEW b \in Blocks, NEW force,
           NEW new \in ProcessNewBlock(b, force)
    PROVE  IndexOK(new) /\ chain.data \subseteq new.data
  <1> DEFINE c == ProcessNewBlockHeaders(<<b>>)
             fields == {"index", "data", "failed", "scripts", "tip", "pindexBestHeader"}
  <1>1. Range(<<b>>) \subseteq Chain[b]
    BY ChainBlocks, SMTT(60) DEF Range
  <1>2. IndexOK(c) /\ c.data = chain.data /\ c = [f \in fields |-> c[f]]
    BY <1>1, HeadersIndex
  <1>3. PICK wanted : new = c \/ new \in ActivateBestChain([c EXCEPT !.data = IF wanted THEN @ \cup {b} ELSE @])
    BY DEF ProcessNewBlock
  <1> HIDE DEF c
  <1> DEFINE d == [c EXCEPT !.data = IF wanted THEN @ \cup {b} ELSE @]
  <1>4. /\ d = [f \in fields |-> d[f]] /\ d.data = IF wanted THEN c.data \cup {b} ELSE c.data
        /\ d.index = c.index /\ d.tip = c.tip /\ d.pindexBestHeader = c.pindexBestHeader
    BY <1>2
  <1> HIDE DEF d
  <1>5. IndexOK(d) /\ c.data \subseteq d.data
    BY <1>2, <1>4 DEF IndexOK
  <1>6. CASE new = c
    BY <1>2, <1>6
  <1>7. CASE new \in ActivateBestChain(d)
    BY <1>2, <1>4, <1>5, <1>7, ActivateIndex
  <1> QED BY <1>3, <1>6, <1>7 DEF d

(* What is known of a peer stays true while the disk fills, ... *)
LEMMA KnownLater ==
    ASSUME NEW p, NEW n, NEW data, NEW more, KnownOK(p, n, data), data \subseteq more
    PROVE  KnownOK(p, n, more)
  BY DEF KnownOK

(* ... is dropped when the connection closes, ... *)
LEMMA KnownClosing ==
    ASSUME NEW p, NEW n, NodeOK(n), NEW data, KnownOK(p, n, data), NEW leave
    PROVE  /\ KnownOK(p, Closing(n), data) /\ KnownOK(p, ClosingIf(n, leave), data)
           /\ KnownOK(p, Punish(n), data)
  <1>1. KnownOK(p, Closing(n), data)
    BY DEF KnownOK, Closing, NodeOK, NodeFields
  <1> QED BY <1>1 DEF ClosingIf, Punish

(* ... and grows by what the peer announces. *)
LEMMA KnownUpdate ==
    ASSUME NEW p \in Peers, NEW n, NodeOK(n), NEW data, KnownOK(p, n, data),
           NEW index \in SUBSET Blocks
    PROVE  /\ KnownOK(p, ProcessBlockAvailability(n, index), data)
           /\ \A b \in Serves[p] : KnownOK(p, UpdateBlockAvailability(n, b, index), data)
  <1> DEFINE m == ProcessBlockAvailability(n, index)
  <1>0. Null \notin index
    BY TreeAssumption
  <1>1. KnownOK(p, m, data)
    <2>1. CASE n.hashLastUnknownBlock \in index
      <3> DEFINE h == n.hashLastUnknownBlock
                 x == BetterKnown(n, h)
      <3>1. Served(p, h)
        BY <2>1, <1>0, ServedChain DEF KnownOK
      <3>2. Served(p, x) \/ x = Null
        BY <3>1 DEF BetterKnown, KnownOK
      <3>3. m = [n EXCEPT !.pindexBestKnownBlock = x, !.hashLastUnknownBlock = Null]
        BY <2>1 DEF ProcessBlockAvailability
      <3> HIDE DEF x, m
      <3>4. /\ m.pindexBestKnownBlock = x /\ m.hashLastUnknownBlock = Null
            /\ m.pindexLastCommonBlock = n.pindexLastCommonBlock
        BY <3>3 DEF NodeOK, NodeFields
      <3> QED BY <3>2, <3>4 DEF KnownOK
    <2>2. CASE n.hashLastUnknownBlock \notin index
      BY <2>2 DEF ProcessBlockAvailability
    <2> QED BY <2>1, <2>2
  <1>2. NodeOK(m)
    BY AlikeAvailability DEF Alike
  <1>3. ASSUME NEW b \in Serves[p] PROVE KnownOK(p, UpdateBlockAvailability(n, b, index), data)
    <2> HIDE DEF m
    <2> DEFINE x == BetterKnown(m, b)
               u == [m EXCEPT !.pindexBestKnownBlock = x]
               v == [m EXCEPT !.hashLastUnknownBlock = b]
    <2>1. UpdateBlockAvailability(n, b, index) \in {u, v}
      BY DEF UpdateBlockAvailability, m
    <2>2. Served(p, b)
      BY ServedChain
    <2>3. Served(p, x) \/ x = Null
      BY <1>1, <2>2 DEF BetterKnown, KnownOK
    <2> HIDE DEF x
    <2>4. KnownOK(p, u, data)
      <3>1. /\ u.pindexBestKnownBlock = x /\ u.hashLastUnknownBlock = m.hashLastUnknownBlock
            /\ u.pindexLastCommonBlock = m.pindexLastCommonBlock
        BY <1>2 DEF NodeOK, NodeFields
      <3> QED BY <2>3, <3>1, <1>1 DEF KnownOK
    <2>5. KnownOK(p, v, data)
      <3>1. /\ v.pindexBestKnownBlock = m.pindexBestKnownBlock /\ v.hashLastUnknownBlock = b
            /\ v.pindexLastCommonBlock = m.pindexLastCommonBlock
        BY <1>2 DEF NodeOK, NodeFields
      <3> QED BY <3>1, <1>1 DEF KnownOK
    <2> QED BY <2>1, <2>4, <2>5
  <1> QED BY <1>1, <1>3

(* A locator is sent from where the chains leave each other. *)
LEMMA GetHeadersOn ==
    ASSUME NEW p \in Responsive, NEW b \in Blocks
    PROVE  GetHeaders(p, b).block \in Chain[PeerTip[p]]
  <1>1. PeerTip[p] \in Blocks
    BY DownloadAssumption
  <1>2. LastCommonAncestor(b, PeerTip[p]) \in Chain[PeerTip[p]]
    BY <1>1, ForkIsCommon
  <1> QED BY <1>2 DEF GetHeaders

(* Requests that are sent, and requests that are answered. *)
LEMMA PushedOK ==
    ASSUME NEW r, RequestsOK(r), NEW p, NEW messages,
           p \in Responsive => \A m \in messages :
                m.type = "getheaders" => m.block \in Chain[PeerTip[p]]
    PROVE  RequestsOK(Pushed(r, p, messages))
  BY DEF RequestsOK, Pushed

(* A message from the peer takes requests off the list and adds none. *)
LEMMA AnsweredOK ==
    ASSUME RequestsOK(requests), NEW p, NEW answered
    PROVE  RequestsOK(Answered(p, answered))
  BY DEF RequestsOK, Answered

(* A getheaders to a responsive peer starts on that peer's chain. *)
LEMMA AskHeadersOK ==
    ASSUME NEW r, RequestsOK(r), NEW p, NEW b \in Blocks
    PROVE  RequestsOK(Pushed(r, p, {GetHeaders(p, b)}))
  BY GetHeadersOn, PushedOK

(* The other requests name a block. *)
LEMMA AskBlockOK ==
    ASSUME NEW r, RequestsOK(r), NEW p, NEW b
    PROVE  /\ RequestsOK(Pushed(r, p, {GetBlock(b)}))
           /\ RequestsOK(Pushed(r, p, {GetCompact(b)}))
           /\ RequestsOK(Pushed(r, p, {GetBlockTxn(b)}))
  <1>1. GetBlock(b).type # "getheaders"
    BY DEF GetBlock
  <1>2. GetCompact(b).type # "getheaders"
    BY DEF GetCompact
  <1>3. GetBlockTxn(b).type # "getheaders"
    BY DEF GetBlockTxn
  <1> QED BY <1>1, <1>2, <1>3, PushedOK

(* The three functions that write the books ask nobody for a block that    *)
(* the peer does not serve.                                                *)
LEMMA TakenServed ==
    ASSUME NEW d, Books(d), BooksServed(d), NEW b \in Blocks
    PROVE  BooksServed(MarkBlockAsReceived(d, b))
  <1> DEFINE m == MarkBlockAsReceived(d, b)
  <1>1. d.mapBlocksInFlight \in [Blocks -> Peers \cup {NoPeer}]
    BY DEF Books, BooksType
  <1>2. \/ m = d
        \/ m.mapBlocksInFlight = [d.mapBlocksInFlight EXCEPT ![b] = NoPeer]
    BY DEF MarkBlockAsReceived, TakeOffQueue
  <1> HIDE DEF m
  <1>3. \A c \in Blocks : m.mapBlocksInFlight[c] \in {d.mapBlocksInFlight[c], NoPeer}
    BY <1>1, <1>2
  <1>4. BooksServed(m)
    BY <1>3 DEF BooksServed, InFlight
  <1> QED BY <1>4 DEF m

(* A block asked of a peer that serves it leaves the books right. *)
LEMMA RequestedServed ==
    ASSUME NEW d, Books(d), BooksServed(d), NEW b \in Blocks, NEW p \in Peers, Served(p, b),
           NEW compact
    PROVE  BooksServed(MarkBlockAsInFlight(d, p, b, compact))
  <1> DEFINE e == MarkBlockAsReceived(d, b)
             m == MarkBlockAsInFlight(d, p, b, compact)
  <1>1. BooksServed(e)
    BY TakenServed
  <1>2. e.mapBlocksInFlight \in [Blocks -> Peers \cup {NoPeer}]
    BY ReceivedOnce DEF Follows, Books, BooksType
  <1>3. m = d \/ m = PutOnQueue(e, p, b, compact)
    BY DEF MarkBlockAsInFlight
  <1> HIDE DEF e, m
  <1>4. ASSUME m = PutOnQueue(e, p, b, compact) PROVE BooksServed(m)
    <2>1. m.mapBlocksInFlight = [e.mapBlocksInFlight EXCEPT ![b] = p]
      BY <1>4 DEF PutOnQueue
    <2>2. m.mapBlocksInFlight[b] = p
          /\ \A c \in Blocks \ {b} : m.mapBlocksInFlight[c] = e.mapBlocksInFlight[c]
      BY <2>1, <1>2
    <2> QED BY <2>2, <1>1 DEF BooksServed, InFlight
  <1>5. BooksServed(m)
    BY <1>3, <1>4
  <1> QED BY <1>5 DEF m

(* FinalizeNode takes blocks out of the books and adds none. *)
LEMMA FinalizedServed ==
    ASSUME NEW d, BooksServed(d), NEW p
    PROVE  BooksServed(FinalizeQueue(d, p))
  <1> DEFINE m == FinalizeQueue(d, p)
  <1>1. \A c \in Blocks : m.mapBlocksInFlight[c] \in {d.mapBlocksInFlight[c], NoPeer}
    BY DEF FinalizeQueue
  <1> HIDE DEF m
  <1>2. BooksServed(m)
    BY <1>1 DEF BooksServed, InFlight
  <1> QED BY <1>2 DEF m

(* One node changes, and the disk may fill. *)
LEMMA KnownStep ==
    ASSUME NodesOK, KnownNodes, NEW p \in Peers, NEW m, NodeOK(m), KnownOK(p, m, chain'.data),
           node' = [node EXCEPT ![p] = m], chain.data \subseteq chain'.data
    PROVE  KnownNodes'
  <1>1. node'[p] = m /\ \A q \in Peers \ {p} : node'[q] = node[q]
    BY NodeStep
  <1>2. \A q \in Peers \ {p} : KnownOK(q, node'[q], chain'.data)
    BY <1>1, KnownLater DEF KnownNodes
  <1> QED BY <1>1, <1>2 DEF KnownNodes

(* No node changes. *)
LEMMA KnownSame ==
    ASSUME KnownNodes, UNCHANGED node, chain.data \subseteq chain'.data
    PROVE  KnownNodes'
  BY KnownLater DEF KnownNodes
-----------------------------------------------------------------------------
(* The steps of the socket thread. *)
LEMMA ServedSocket ==
    ASSUME IInv, JInv, NEW p \in Peers,
           \/ \E kind : InitializeNode(p, kind)
           \/ CloseSocketDisconnect(p)
           \/ FinalizeNode(p)
    PROVE  JInv'
  <1>1. NodesOK /\ NodeOK(node[p]) /\ KnownOK(p, node[p], chain.data) /\ KnownNodes
    BY DEF IInv, NodesOK, JInv, KnownNodes
  <1>2. UNCHANGED <<chain, turn, toRequest>>
    BY DEF InitializeNode, CloseSocketDisconnect, FinalizeNode, handler
  <1>3. IndexOK(chain)' /\ AboutToAsk'
    BY <1>2 DEF JInv, IndexOK, AboutToAsk
  <1>4. ASSUME NEW m, NodeOK(m), KnownOK(p, m, chain.data), node' = [node EXCEPT ![p] = m]
        PROVE  KnownNodes'
    BY <1>1, <1>2, <1>4, KnownStep
  <1>5. ASSUME NEW kind
        PROVE  NodeOK(NewNode(kind)) /\ KnownOK(p, NewNode(kind), chain.data)
    BY DEF NewNode, NodeOK, NodeFields, KnownOK
  <1>6. NodeOK(NoNode("gone")) /\ KnownOK(p, NoNode("gone"), chain.data)
    BY DEF NewNode, NoNode, NodeOK, NodeFields, KnownOK
  <1>7. NodeOK(Closing(node[p])) /\ KnownOK(p, Closing(node[p]), chain.data)
    BY <1>1, AlikeClosing, KnownClosing DEF Alike
  <1>8. KnownNodes'
    <2>1. ASSUME NEW kind, InitializeNode(p, kind) PROVE KnownNodes'
      BY <2>1, <1>4, <1>5 DEF InitializeNode
    <2>2. CASE CloseSocketDisconnect(p)
      BY <2>2, <1>4, <1>7 DEF CloseSocketDisconnect
    <2>3. CASE FinalizeNode(p)
      BY <2>3, <1>4, <1>6 DEF FinalizeNode
    <2> QED BY <2>1, <2>2, <2>3
  <1>9. BooksServed(download)' /\ RequestsOK(requests)'
    <2>1. BooksServed(download) /\ RequestsOK(requests)
      BY DEF JInv
    <2>2. CASE FinalizeNode(p)
      <3>1. BooksServed(FinalizeQueue(download, p))
        BY <2>1, FinalizedServed
      <3>2. RequestsOK(requests')
        BY <2>1, <2>2 DEF FinalizeNode, RequestsOK
      <3> QED BY <2>2, <3>1, <3>2 DEF FinalizeNode
    <2>3. CASE UNCHANGED <<download, requests>>
      BY <2>1, <2>3
    <2> QED BY <2>2, <2>3 DEF InitializeNode, CloseSocketDisconnect
  <1> QED BY <1>3, <1>8, <1>9 DEF JInv

(* The version handshake, and an early end of SendMessages. *)
LEMMA ServedQuiet ==
    ASSUME IInv, JInv, NEW p \in Peers,
           ReceiveVersion(p) \/ SendNothing(p) \/ SendBanned(p)
    PROVE  JInv'
  <1>1. NodesOK /\ NodeOK(node[p]) /\ KnownOK(p, node[p], chain.data) /\ KnownNodes
    BY DEF IInv, NodesOK, JInv, KnownNodes
  <1>2. UNCHANGED <<chain, download, requests, toRequest>> /\ toRequest.blocks = {}
    <2>1. turn = NoPeer => toRequest.blocks = {}
      BY DEF IInv, HandlerOK
    <2> QED BY <2>1 DEF ReceiveVersion, SendNothing, SendBanned, Sends, BeforeSend, At, Ready, Unlocked
  <1>3. IndexOK(chain)' /\ AboutToAsk' /\ BooksServed(download)' /\ RequestsOK(requests)'
    BY <1>2 DEF JInv, IndexOK, AboutToAsk
  <1>4. KnownNodes'
    <2>1. CASE ReceiveVersion(p)
      <3> DEFINE preferred == node[p].kind # "inbound"
                 m == [node[p] EXCEPT !.fSuccessfullyConnected = TRUE,
                                      !.fPreferredDownload = preferred]
      <3>1. node' = [node EXCEPT ![p] = m]
        BY <2>1 DEF ReceiveVersion
      <3>2. Open(p)
        BY <2>1 DEF ReceiveVersion, Ready
      <3>3. NodeOK(m) /\ KnownOK(p, m, chain.data)
        BY <1>1, <3>2 DEF NodeOK, NodeFields, KnownOK, Open
      <3> HIDE DEF m
      <3> QED BY <1>1, <1>2, <3>1, <3>3, KnownStep
    <2>2. CASE SendNothing(p)
      BY <1>1, <1>2, <2>2, KnownSame DEF SendNothing
    <2>3. CASE SendBanned(p)
      <3>1. NodeOK(Punish(node[p])) /\ KnownOK(p, Punish(node[p]), chain.data)
        BY <1>1, AlikeClosing, KnownClosing DEF Alike
      <3>2. node' = [node EXCEPT ![p] = Punish(node[p])]
        BY <2>3 DEF SendBanned
      <3> QED BY <1>1, <1>2, <3>1, <3>2, KnownStep
    <2> QED BY <2>1, <2>2, <2>3
  <1> QED BY <1>3, <1>4 DEF JInv

(* Direct fetch asks for blocks of the announced chain. *)
LEMMA DirectFetchServed ==
    ASSUME NEW c, NEW p \in Peers, NEW last, Served(p, last)
    PROVE  \A b \in DirectFetch(c, p, last).blocks : Served(p, b)
  <1>1. \A b \in DirectFetch(c, p, last).blocks : b \in Chain[last]
    BY DEF DirectFetch, Lowest
  <1> QED BY <1>1, ServedChain

(* AcceptHeaders. *)
LEMMA ServedAccept ==
    ASSUME IInv, JInv, NEW p \in Peers, Talks(p), NEW headers \in Seq(Blocks), headers # <<>>,
           Range(headers) \subseteq Serves[p], NEW b \in Blocks, Range(headers) \subseteq Chain[b],
           NEW r, RequestsOK(r), AcceptHeaders(p, headers, r), turn' = p, UNCHANGED download
    PROVE  JInv'
  <1> DEFINE c == ProcessNewBlockHeaders(headers)
             last == headers[Len(headers)]
             n == UpdateBlockAvailability(node[p], last, c.index)
  <1>1. /\ ChainOK /\ IndexOK(chain) /\ NodesOK /\ KnownNodes
        /\ NodeOK(node[p]) /\ KnownOK(p, node[p], chain.data)
    BY DEF IInv, JInv, NodesOK, KnownNodes
  <1>2. IndexOK(c) /\ c.data = chain.data
    BY <1>1, HeadersIndex
  <1>3. last \in Serves[p]
    BY LastOne
  <1>4. last \in Blocks /\ Served(p, last)
    BY <1>3, ServedChain
  <1>5. PICK protect \in BOOLEAN, leave \in BOOLEAN, full \in BOOLEAN :
          /\ chain' = c
          /\ node' = [node EXCEPT ![p] = ClosingIf([n EXCEPT !.m_protect = @ \/ protect], leave)]
          /\ requests' = IF full THEN Pushed(r, p, {GetHeaders(p, last)}) ELSE r
          /\ toRequest' = DirectFetch(c, p, last)
    <2> DEFINE full == Len(headers) = MAX_HEADERS_RESULTS
               leave == /\ IsInitialBlockDownload /\ ~full
                        /\ Work(n.pindexBestKnownBlock) < MinimumWork
                        /\ IsOutboundDisconnectionCandidate(n)
               protect == /\ ~leave /\ IsOutboundDisconnectionCandidate(n)
                          /\ nProtected < MAX_OUTBOUND_PEERS_TO_PROTECT
                          /\ Work(n.pindexBestKnownBlock) >= Work(tip)
                          /\ ~n.m_protect
    <2>1. /\ chain' = c
          /\ node' = [node EXCEPT ![p] = ClosingIf([n EXCEPT !.m_protect = @ \/ protect], leave)]
          /\ requests' = IF full THEN Pushed(r, p, {GetHeaders(p, last)}) ELSE r
          /\ toRequest' = DirectFetch(c, p, last)
      BY DEF AcceptHeaders
    <2>2. full \in BOOLEAN /\ leave \in BOOLEAN /\ protect \in BOOLEAN
      OBVIOUS
    <2> HIDE DEF full, leave, protect, n, c, last
    <2> QED BY <2>1, <2>2
  <1> HIDE DEF c, last
  <1>6. NodeOK(n) /\ KnownOK(p, n, chain.data)
    <2>1. c.index \in SUBSET Blocks
      BY <1>2 DEF IndexOK
    <2>2. NodeOK(n)
      BY <1>1, AlikeAvailability DEF Alike
    <2>3. KnownOK(p, n, chain.data)
      BY <1>1, <1>3, <2>1, KnownUpdate
    <2> QED BY <2>2, <2>3
  <1> HIDE DEF n
  <1> DEFINE m == [n EXCEPT !.m_protect = @ \/ protect]
  <1>7. NodeOK(m) /\ KnownOK(p, m, chain.data)
    <2>1. n.m_protect \in BOOLEAN /\ Open(p) /\ node[p].fSuccessfullyConnected
      BY <1>6 DEF NodeOK, Talks, Ready
    <2>2. n.fSuccessfullyConnected /\ n.status = "open"
      <3>1. Alike(node[p], n)
        BY <1>1, AlikeAvailability DEF n
      <3> QED BY <2>1, <3>1 DEF Alike, Open
    <2> QED BY <2>1, <2>2, <1>6 DEF NodeOK, NodeFields, KnownOK
  <1> HIDE DEF m
  <1>8. NodeOK(ClosingIf(m, leave)) /\ KnownOK(p, ClosingIf(m, leave), chain.data)
    BY <1>7, AlikeClosing, KnownClosing DEF Alike
  <1>9. KnownNodes'
    BY <1>1, <1>2, <1>5, <1>8, KnownStep DEF m
  <1>10. AboutToAsk'
    BY <1>4, <1>5, DirectFetchServed DEF AboutToAsk
  <1>11. RequestsOK(requests')
    BY <1>4, <1>5, AskHeadersOK
  <1> QED BY <1>2, <1>5, <1>9, <1>10, <1>11 DEF JInv

(* A headers message. *)
LEMMA ServedHeaders ==
    ASSUME IInv, JInv, NEW p \in Peers, NEW headers \in HeadersFrom(p), ReceiveHeaders(p, headers)
    PROVE  JInv'
  <1> DEFINE r == Answered(p, AskedFor(p, headers))
  <1>1. /\ ChainOK /\ IndexOK(chain) /\ NodesOK /\ KnownNodes /\ RequestsOK(requests)
        /\ NodeOK(node[p]) /\ KnownOK(p, node[p], chain.data) /\ BooksServed(download)
    BY DEF IInv, JInv, NodesOK, KnownNodes
  <1>2. /\ headers \in Seq(Blocks) /\ Range(headers) \subseteq Serves[p]
        /\ \E b \in Blocks : Range(headers) \subseteq Chain[b]
    BY <1>1, HeadersServed
  <1>3. PICK b \in Blocks : Range(headers) \subseteq Chain[b]
    BY <1>2
  <1>4. RequestsOK(r)
    BY <1>1, AnsweredOK
  <1>5. Talks(p) /\ turn' = p /\ UNCHANGED download /\ toRequest.blocks = {}
    BY DEF ReceiveHeaders, Received, Talks, Ready, IInv, HandlerOK
  <1>6. BooksServed(download)'
    BY <1>1, <1>5
  <1>7. \/ headers = <<>> /\ requests' = r /\ UNCHANGED <<chain, node, toRequest>>
        \/ headers # <<>> /\ ProcessHeadersMessage(p, headers, Punished(p), r)
    BY DEF ReceiveHeaders
  <1> HIDE DEF r
  <1>8. CASE headers = <<>> /\ requests' = r /\ UNCHANGED <<chain, node, toRequest>>
    <2>1. KnownNodes'
      BY <1>1, <1>8, KnownSame
    <2>2. IndexOK(chain)' /\ AboutToAsk' /\ RequestsOK(requests)'
      BY <1>1, <1>4, <1>5, <1>8 DEF AboutToAsk
    <2> QED BY <1>6, <2>1, <2>2 DEF JInv
  <1>9. CASE headers # <<>> /\ UnconnectingHeaders(p, headers, r)
    <2> DEFINE last == headers[Len(headers)]
               m == UpdateBlockAvailability(node[p], last, chain.index)
    <2>1. last \in Serves[p]
      BY <1>2, <1>9, LastOne
    <2>2. /\ node' = [node EXCEPT ![p] = m] /\ UNCHANGED <<chain, toRequest>>
          /\ requests' = Pushed(r, p, {GetHeaders(p, chain.pindexBestHeader)})
      BY <1>9 DEF UnconnectingHeaders
    <2>3. NodeOK(m)
      BY <1>1, AlikeAvailability DEF Alike
    <2>4. chain.index \in SUBSET Blocks /\ chain.pindexBestHeader \in Blocks
      BY <1>1 DEF IndexOK
    <2>5. KnownOK(p, m, chain.data)
      BY <1>1, <2>1, <2>4, KnownUpdate
    <2> HIDE DEF m
    <2>6. KnownNodes'
      BY <1>1, <2>2, <2>3, <2>5, KnownStep
    <2>7. IndexOK(chain)' /\ AboutToAsk' /\ RequestsOK(requests)'
      BY <1>1, <1>4, <1>5, <2>2, <2>4, AskHeadersOK DEF AboutToAsk
    <2> QED BY <1>6, <2>6, <2>7 DEF JInv
  <1>10. CASE headers # <<>> /\ RefuseHeaders(p, headers, Punished(p), r)
    <2> DEFINE c == ProcessNewBlockHeaders(headers)
    <2>1. IndexOK(c) /\ c.data = chain.data
      BY <1>1, <1>3, HeadersIndex
    <2>2. chain' = c /\ requests' = r /\ UNCHANGED toRequest
      BY <1>10 DEF RefuseHeaders
    <2>3. PICK leave : node' = [node EXCEPT ![p] = ClosingIf(node[p], leave)]
      BY <1>10 DEF RefuseHeaders
    <2> HIDE DEF c
    <2>4. NodeOK(ClosingIf(node[p], leave)) /\ KnownOK(p, ClosingIf(node[p], leave), chain.data)
      BY <1>1, AlikeClosing, KnownClosing DEF Alike
    <2>5. KnownNodes'
      BY <1>1, <2>1, <2>2, <2>3, <2>4, KnownStep
    <2>6. IndexOK(chain)' /\ AboutToAsk' /\ RequestsOK(requests)'
      BY <1>4, <1>5, <2>1, <2>2 DEF AboutToAsk
    <2> QED BY <1>6, <2>5, <2>6 DEF JInv
  <1>11. CASE headers # <<>> /\ AcceptHeaders(p, headers, r)
    BY <1>2, <1>3, <1>4, <1>5, <1>11, ServedAccept
  <1> QED BY <1>7, <1>8, <1>9, <1>10, <1>11 DEF ProcessHeadersMessage

(* An inv. *)
LEMMA ServedInv ==
    ASSUME IInv, JInv, NEW p \in Peers, NEW b \in Serves[p], ReceiveInv(p, b)
    PROVE  JInv'
  <1> DEFINE m == UpdateBlockAvailability(node[p], b, chain.index)
  <1>1. /\ IndexOK(chain) /\ NodesOK /\ KnownNodes /\ RequestsOK(requests)
        /\ NodeOK(node[p]) /\ KnownOK(p, node[p], chain.data) /\ BooksServed(download)
    BY DEF IInv, JInv, NodesOK, KnownNodes
  <1>2. chain.index \in SUBSET Blocks /\ chain.pindexBestHeader \in Blocks
    BY <1>1 DEF IndexOK
  <1>3. /\ node' = [node EXCEPT ![p] = m] /\ UNCHANGED <<chain, download, toRequest>>
        /\ requests' \in {requests, Pushed(requests, p, {GetHeaders(p, chain.pindexBestHeader)})}
        /\ toRequest.blocks = {}
    BY DEF ReceiveInv, Talks, Ready, IInv, HandlerOK
  <1>4. NodeOK(m) /\ KnownOK(p, m, chain.data)
    BY <1>1, <1>2, AlikeAvailability, KnownUpdate DEF Alike
  <1> HIDE DEF m
  <1>5. KnownNodes'
    BY <1>1, <1>3, <1>4, KnownStep
  <1>6. RequestsOK(requests')
    BY <1>1, <1>2, <1>3, AskHeadersOK
  <1>7. IndexOK(chain)' /\ AboutToAsk' /\ BooksServed(download)'
    BY <1>1, <1>3 DEF AboutToAsk
  <1> QED BY <1>5, <1>6, <1>7 DEF JInv

(* A block on its way to ProcessNewBlock. *)
LEMMA ServedBlock ==
    ASSUME IInv, JInv, NEW p \in Peers, NEW b \in Blocks, ReceiveBlock(p, b)
    PROVE  JInv'
  <1>1. /\ KnownNodes /\ RequestsOK(requests) /\ Books(download) /\ BooksServed(download)
        /\ IndexOK(chain)
    BY DEF IInv, JInv
  <1>2. /\ UNCHANGED <<chain, node, toRequest>> /\ toRequest.blocks = {}
        /\ requests' = Answered(p, {GetBlock(b)}) /\ download' = MarkBlockAsReceived(download, b)
    BY DEF ReceiveBlock, Talks, Ready, IInv, HandlerOK
  <1>3. KnownNodes'
    BY <1>1, <1>2, KnownSame
  <1>4. RequestsOK(requests') /\ BooksServed(download')
    BY <1>1, <1>2, AnsweredOK, TakenServed
  <1> QED BY <1>1, <1>2, <1>3, <1>4 DEF JInv, AboutToAsk

(* A partial block is completed, or given up. *)
LEMMA ServedFill ==
    ASSUME NEW p, NEW b \in Blocks, NEW d, Books(d), BooksServed(d), NEW status,
           NEW r, RequestsOK(r), FillBlock(p, b, d, status, r)
    PROVE  BooksServed(download') /\ RequestsOK(requests')
  <1>1. download' \in {d, MarkBlockAsReceived(d, b)}
        /\ requests' \in {r, Pushed(r, p, {GetBlock(b)})}
    BY DEF FillBlock
  <1> QED BY <1>1, TakenServed, AskBlockOK

(* A compact block whose header was taken. *)
LEMMA ServedCompactKnown ==
    ASSUME Books(download), BooksServed(download), NEW p \in Peers, NEW b \in Serves[p],
           NEW status, NEW r, RequestsOK(r), CompactBlockKnown(p, b, status, r)
    PROVE  BooksServed(download') /\ RequestsOK(requests')
  <1>1. b \in Blocks /\ Served(p, b)
    BY ServedChain
  <1>2. CASE /\ UNCHANGED download
             /\ requests' \in {r, Pushed(r, p, {GetBlock(b)})}
    BY <1>2, AskBlockOK
  <1>3. CASE StartPartial(p, b, status, r) /\ b \notin download.partialBlock
    <2> DEFINE e == MarkBlockAsInFlight(download, p, b, TRUE)
               d == [e EXCEPT !.partialBlock = @ \cup {b}]
    <2>1. BooksServed(e)
      BY <1>1, RequestedServed
    <2>2. Follows(download, e, {p}, {b}) /\ e.mapBlocksInFlight[b] = p
      BY <1>1, Requested
    <2> HIDE DEF e
    <2>3. Books(e) /\ InFlight(e, b)
      BY <2>2, PeersAssumption DEF Follows, InFlight
    <2>4. Books(d) /\ d.mapBlocksInFlight = e.mapBlocksInFlight
      BY <1>1, <2>3, MadePartial DEF Follows
    <2> HIDE DEF d
    <2>5. \/ FillBlock(p, b, d, status, r)
          \/ download' = d /\ requests' = Pushed(r, p, {GetBlockTxn(b)})
      BY <1>3 DEF StartPartial, d, e
    <2>6. BooksServed(d)
      BY <2>1, <2>4 DEF BooksServed, InFlight
    <2> QED BY <1>1, <2>4, <2>5, <2>6, ServedFill, AskBlockOK
  <1> QED BY <1>2, <1>3 DEF CompactBlockKnown, StartPartial, Ignored, AskWhole, Optimistic

(* A compact block. *)
LEMMA ServedCompact ==
    ASSUME IInv, JInv, NEW p \in Peers, NEW b \in Serves[p], NEW status,
           ReceiveCompactBlock(p, b, status)
    PROVE  JInv'
  <1> DEFINE r == Answered(p, {GetCompact(b)})
             c == ProcessNewBlockHeaders(<<b>>)
             n == UpdateBlockAvailability(node[p], b, c.index)
  <1>1. /\ ChainOK /\ IndexOK(chain) /\ NodesOK /\ KnownNodes /\ RequestsOK(requests)
        /\ NodeOK(node[p]) /\ KnownOK(p, node[p], chain.data)
        /\ Books(download) /\ BooksServed(download)
    BY DEF IInv, JInv, NodesOK, KnownNodes
  <1>2. b \in Blocks /\ <<b>> \in Seq(Blocks) /\ <<b>> # <<>> /\ Range(<<b>>) = {b}
    BY ServedChain, SMTT(60) DEF Range
  <1>3. Range(<<b>>) \subseteq Chain[b] /\ Range(<<b>>) \subseteq Serves[p]
    BY <1>2, ChainBlocks
  <1>4. IndexOK(c) /\ c.data = chain.data
    BY <1>1, <1>2, <1>3, HeadersIndex
  <1>5. RequestsOK(r)
    BY <1>1, AnsweredOK
  <1>6. Talks(p) /\ toRequest.blocks = {}
    BY DEF ReceiveCompactBlock, Talks, Ready, IInv, HandlerOK
  <1>7. \/ /\ requests' \in {r, Pushed(r, p, {GetHeaders(p, chain.pindexBestHeader)})}
           /\ UNCHANGED <<chain, node, download, toRequest>>
        \/ chain' = c /\ requests' = r /\ UNCHANGED <<node, download, toRequest>>
        \/ AcceptHeaders(p, <<b>>, r) /\ turn' = p /\ UNCHANGED download
        \/ /\ chain' = c /\ CompactBlockKnown(p, b, status, r) /\ UNCHANGED toRequest
           /\ \E m \in {n, Punish(n)} : node' = [node EXCEPT ![p] = m]
    <2>1. CASE Parent[b] \notin chain.index
      BY <2>1 DEF ReceiveCompactBlock
    <2>2. CASE Parent[b] \in chain.index /\ RefusedHeaders(<<b>>) # {}
      BY <2>2 DEF ReceiveCompactBlock
    <2>3. CASE Parent[b] \in chain.index /\ RefusedHeaders(<<b>>) = {}
      <3>1. CASE Useful(b) /\ ~Near(b) /\ ~InFlight(download, b)
        BY <2>3, <3>1 DEF ReceiveCompactBlock, Received
      <3>2. CASE ~(Useful(b) /\ ~Near(b) /\ ~InFlight(download, b))
        BY <2>3, <3>2 DEF ReceiveCompactBlock
      <3> QED BY <3>1, <3>2
    <2> QED BY <2>1, <2>2, <2>3
  <1>8. NodeOK(n) /\ KnownOK(p, n, chain.data)
    <2>1. c.index \in SUBSET Blocks
      BY <1>4 DEF IndexOK
    <2> HIDE DEF c
    <2> QED BY <1>1, <2>1, AlikeAvailability, KnownUpdate DEF Alike
  <1> HIDE DEF r, c, n
  <1>9. NodeOK(Punish(n)) /\ KnownOK(p, Punish(n), chain.data)
    BY <1>8, AlikeClosing, KnownClosing DEF Alike
  <1>10. CASE /\ requests' \in {r, Pushed(r, p, {GetHeaders(p, chain.pindexBestHeader)})}
              /\ UNCHANGED <<chain, node, download, toRequest>>
    <2>1. RequestsOK(requests')
      BY <1>1, <1>5, <1>10, AskHeadersOK DEF IndexOK
    <2>2. KnownNodes'
      BY <1>1, <1>10, KnownSame
    <2> QED BY <1>1, <1>6, <1>10, <2>1, <2>2 DEF JInv, AboutToAsk
  <1>11. CASE chain' = c /\ requests' = r /\ UNCHANGED <<node, download, toRequest>>
    <2>1. KnownNodes'
      BY <1>1, <1>4, <1>11, KnownSame
    <2> QED BY <1>1, <1>4, <1>5, <1>6, <1>11, <2>1 DEF JInv, AboutToAsk
  <1>12. CASE AcceptHeaders(p, <<b>>, r) /\ turn' = p /\ UNCHANGED download
    BY <1>2, <1>3, <1>5, <1>6, <1>12, ServedAccept
  <1>13. CASE /\ chain' = c /\ CompactBlockKnown(p, b, status, r) /\ UNCHANGED toRequest
              /\ \E m \in {n, Punish(n)} : node' = [node EXCEPT ![p] = m]
    <2>1. KnownNodes'
      BY <1>1, <1>4, <1>8, <1>9, <1>13, KnownStep
    <2>2. BooksServed(download') /\ RequestsOK(requests')
      BY <1>1, <1>5, <1>13, ServedCompactKnown
    <2> QED BY <1>4, <1>6, <1>13, <2>1, <2>2 DEF JInv, AboutToAsk
  <1> QED BY <1>7, <1>10, <1>11, <1>12, <1>13

(* A blocktxn. *)
LEMMA ServedTxn ==
    ASSUME IInv, JInv, NEW p \in Peers, NEW b \in Blocks, NEW status, ReceiveBlockTxn(p, b, status)
    PROVE  JInv'
  <1> DEFINE r == Answered(p, {GetBlockTxn(b)})
  <1>1. /\ IndexOK(chain) /\ NodesOK /\ KnownNodes /\ RequestsOK(requests)
        /\ NodeOK(node[p]) /\ KnownOK(p, node[p], chain.data)
        /\ Books(download) /\ BooksServed(download)
    BY DEF IInv, JInv, NodesOK, KnownNodes
  <1>2. RequestsOK(r)
    BY <1>1, AnsweredOK
  <1>3. /\ UNCHANGED <<chain, toRequest>> /\ toRequest.blocks = {}
        /\ FillBlock(p, b, download, status, r) \/ Ignored(p, r)
        /\ node' = node \/ node' = [node EXCEPT ![p] = Punish(node[p])]
    BY DEF ReceiveBlockTxn, Talks, Ready, IInv, HandlerOK
  <1> HIDE DEF r
  <1>4. BooksServed(download') /\ RequestsOK(requests')
    <2>1. CASE FillBlock(p, b, download, status, r)
      BY <1>1, <1>2, <2>1, ServedFill
    <2>2. CASE Ignored(p, r)
      BY <1>1, <1>2, <2>2 DEF Ignored
    <2> QED BY <1>3, <2>1, <2>2
  <1>5. NodeOK(Punish(node[p])) /\ KnownOK(p, Punish(node[p]), chain.data)
    BY <1>1, AlikeClosing, KnownClosing DEF Alike
  <1>6. KnownNodes'
    BY <1>1, <1>3, <1>5, KnownStep, KnownSame
  <1> QED BY <1>1, <1>3, <1>4, <1>6 DEF JInv, AboutToAsk

(* ProcessNewBlock. *)
LEMMA ServedProcess ==
    ASSUME IInv, JInv, NEW p \in Peers, ProcessBlock(p)
    PROVE  JInv'
  <1>1. /\ ChainOK /\ IndexOK(chain) /\ KnownNodes /\ RequestsOK(requests)
        /\ Books(download) /\ BooksServed(download)
    BY DEF IInv, JInv
  <1>2. /\ hand.block \in Blocks /\ toRequest.blocks = {}
        /\ chain' \in ProcessNewBlock(hand.block, hand.force)
        /\ download' \in {download, MarkBlockAsReceived(download, hand.block)}
        /\ UNCHANGED <<node, requests, toRequest>>
    BY DEF ProcessBlock, At, Unlocked, IInv, HandlerOK
  <1>3. IndexOK(chain') /\ chain.data \subseteq chain'.data
    BY <1>1, <1>2, ProcessIndex
  <1>4. BooksServed(download')
    BY <1>1, <1>2, TakenServed
  <1>5. KnownNodes'
    BY <1>1, <1>2, <1>3, KnownSame
  <1> QED BY <1>1, <1>2, <1>3, <1>4, <1>5 DEF JInv, AboutToAsk
-----------------------------------------------------------------------------
(* FindNextBlocksToDownload asks for blocks of the peer's chain, and moves *)
(* pindexLastCommonBlock along it, only over blocks on disk.               *)
LEMMA FoundServed ==
    ASSUME IndexOK(chain), NEW p \in Peers, NEW n, KnownOK(p, n, chain.data), NEW count
    PROVE  LET next == FindNextBlocksToDownload(p, n, count) IN
           /\ \A b \in next.blocks : Served(p, b)
           /\ next.common # Null =>
                /\ next.common \in Blocks /\ Chain[next.common] \subseteq chain.data
                /\ next.common = Genesis \/ Served(p, next.common)
  <1> DEFINE best == BestKnown(n)
             guess == IF n.pindexLastCommonBlock # Null THEN n.pindexLastCommonBlock
                      ELSE GetAncestor(tip, Lesser(Height[best], Height[tip]))
             fork == LastCommonAncestor(guess, best)
             nWindowEnd == Height[fork] + BLOCK_DOWNLOAD_WINDOW
             walk == {b \in Blocks :
                        /\ b \in Chain[best] \ Chain[fork]
                        /\ Height[b] <= nWindowEnd + 1
                        /\ Chain[b] \cap chain.failed \subseteq Chain[fork]}
             linked == {b \in walk : HaveChain(b)} \cup {fork}
             within == {b \in walk : Missing(b) /\ Height[b] <= nWindowEnd}
             vBlocks == Lowest(within, count)
             common == CHOOSE b \in linked : \A c \in linked : Height[c] <= Height[b]
             next == FindNextBlocksToDownload(p, n, count)
  <1>1. \/ next = NothingToDownload(n)
        \/ best # Null /\ next.blocks = vBlocks /\ next.common = common
    BY DEF FindNextBlocksToDownload
  <1> HIDE DEF next
  <1>2. CASE next = NothingToDownload(n)
    <2>1. next.blocks = {} /\ next.common = n.pindexLastCommonBlock
      BY <1>2 DEF NothingToDownload
    <2> QED BY <2>1 DEF KnownOK, next
  <1>3. CASE best # Null /\ next.blocks = vBlocks /\ next.common = common
    <2>1. Served(p, best) /\ best \in Blocks
      BY <1>3, ServedChain DEF KnownOK, BestKnown
    <2>2. tip \in Blocks /\ Chain[tip] \subseteq chain.data
      BY DEF IndexOK, tip
    <2>3. guess \in Blocks /\ Chain[guess] \subseteq chain.data
      <3>1. CASE n.pindexLastCommonBlock # Null
        BY <3>1 DEF KnownOK
      <3>2. CASE n.pindexLastCommonBlock = Null
        <4> DEFINE h == Lesser(Height[best], Height[tip])
        <4>1. h \in Nat /\ h <= Height[tip]
          <5>1. Height[best] \in Nat /\ Height[tip] \in Nat
            BY <2>1, <2>2, TreeAssumption
          <5> QED BY <5>1, SMTT(60) DEF Lesser
        <4> HIDE DEF h
        <4>2. GetAncestor(tip, h) \in Chain[tip]
          BY <2>2, <4>1, AncestorAt
        <4>3. GetAncestor(tip, h) \in Blocks /\ Chain[GetAncestor(tip, h)] \subseteq chain.data
          BY <2>2, <4>2, ChainTransitive
        <4> QED BY <3>2, <4>3 DEF h
      <3> QED BY <3>1, <3>2
    <2> HIDE DEF guess, best
    <2>4. fork \in Chain[guess] /\ fork \in Chain[best]
      BY <2>1, <2>3, ForkIsCommon
    <2>5. fork \in Blocks /\ Chain[fork] \subseteq chain.data
      BY <2>3, <2>4, ChainTransitive
    <2>6. \A b \in vBlocks : b \in Chain[best]
      BY DEF Lowest
    <2>7. linked \in SUBSET Chain[best] /\ linked # {}
      BY <2>4
    <2>8. \A b \in linked : b \in Blocks /\ Chain[b] \subseteq chain.data
      BY <2>5 DEF HaveChain
    <2> HIDE DEF linked, vBlocks
    <2>9. \E b \in linked : \A c \in linked : Height[c] <= Height[b]
      BY <2>1, <2>7, HighestAncestor
    <2>10. common \in linked
      BY <2>9
    <2> HIDE DEF common
    <2>11. Served(p, common) /\ \A b \in vBlocks : Served(p, b)
      BY <2>1, <2>6, <2>7, <2>10, ServedChain
    <2> QED BY <1>3, <2>8, <2>10, <2>11 DEF next
  <1> QED BY <1>1, <1>2, <1>3

(* Starting the headers sync. *)
LEMMA ServedStart ==
    ASSUME IInv, JInv, NEW p \in Peers, node[p].fSuccessfullyConnected
    PROVE  /\ NodeOK(StartSync(p)) /\ KnownOK(p, StartSync(p), chain.data)
           /\ RequestsOK(Pushed(requests, p, SyncRequests(p)))
  <1>1. /\ IndexOK(chain) /\ RequestsOK(requests)
        /\ NodeOK(node[p]) /\ KnownOK(p, node[p], chain.data)
    BY DEF IInv, JInv, NodesOK, KnownNodes
  <1>2. chain.index \in SUBSET Blocks /\ chain.pindexBestHeader \in Blocks
    BY <1>1 DEF IndexOK
  <1> DEFINE n == IF StartsSync(p) THEN [node[p] EXCEPT !.fSyncStarted = TRUE,
                                                        !.nHeadersSyncTimeout = TRUE]
                  ELSE node[p]
  <1>3. NodeOK(n) /\ KnownOK(p, n, chain.data)
    <2>1. CASE StartsSync(p)
      BY <1>1, <2>1 DEF NodeOK, NodeFields, KnownOK
    <2>2. CASE ~StartsSync(p)
      BY <1>1, <2>2
    <2> QED BY <2>1, <2>2
  <1>4. StartSync(p) = ProcessBlockAvailability(n, chain.index)
    BY DEF StartSync
  <1> HIDE DEF n
  <1>5. NodeOK(StartSync(p)) /\ KnownOK(p, StartSync(p), chain.data)
    <2>1. NodeOK(ProcessBlockAvailability(n, chain.index))
      BY <1>3, AlikeAvailability DEF Alike
    <2>2. KnownOK(p, ProcessBlockAvailability(n, chain.index), chain.data)
      BY <1>2, <1>3, KnownUpdate
    <2> QED BY <1>4, <2>1, <2>2
  <1>6. SyncRequests(p) = {} \/ \E b \in Blocks : SyncRequests(p) = {GetHeaders(p, b)}
    BY <1>2, TreeAssumption DEF SyncRequests
  <1>7. RequestsOK(Pushed(requests, p, SyncRequests(p)))
    BY <1>1, <1>6, AskHeadersOK, PushedOK
  <1> QED BY <1>5, <1>7

(* The checks at the end of SendMessages do not touch what is known. *)
LEMMA KnownChecked ==
    ASSUME NEW p, NEW n, NodeOK(n), NEW data, KnownOK(p, n, data), NEW late, NEW common,
           common # Null =>
                /\ common \in Blocks /\ Chain[common] \subseteq data
                /\ common = Genesis \/ Served(p, common)
    PROVE  KnownOK(p, ConsiderEviction(
                        [CheckHeadersSync(n, late) EXCEPT !.pindexLastCommonBlock = common], late),
                   data)
  <1> DEFINE c == CheckHeadersSync(n, late)
             d == [c EXCEPT !.pindexLastCommonBlock = common]
             e == [d EXCEPT !.m_timeout = IF Considered(d) THEN Behind(d) ELSE @]
  <1>1. /\ c = [f \in NodeFields |-> c[f]]
        /\ c.pindexBestKnownBlock = n.pindexBestKnownBlock
        /\ c.hashLastUnknownBlock = n.hashLastUnknownBlock
    BY DEF CheckHeadersSync, NodeOK, NodeFields
  <1> HIDE DEF c
  <1>2. /\ d = [f \in NodeFields |-> d[f]] /\ d.pindexLastCommonBlock = common
        /\ d.pindexBestKnownBlock = n.pindexBestKnownBlock
        /\ d.hashLastUnknownBlock = n.hashLastUnknownBlock
    BY <1>1 DEF NodeFields
  <1> HIDE DEF d
  <1>3. /\ e = [f \in NodeFields |-> e[f]] /\ e.pindexLastCommonBlock = common
        /\ e.pindexBestKnownBlock = n.pindexBestKnownBlock
        /\ e.hashLastUnknownBlock = n.hashLastUnknownBlock
    BY <1>2 DEF NodeFields
  <1>4. PICK leave : ConsiderEviction(d, late) = ClosingIf(e, leave)
    BY DEF ConsiderEviction
  <1> HIDE DEF e
  <1>5. KnownOK(p, e, data)
    BY <1>3 DEF KnownOK
  <1>6. KnownOK(p, Closing(e), data)
    BY <1>3 DEF KnownOK, Closing, NodeFields
  <1> QED BY <1>4, <1>5, <1>6 DEF ClosingIf, d, c

(* SendMessages finds a clock past its timeout. *)
LEMMA ServedTimeout ==
    ASSUME IInv, JInv, NEW p \in Peers, NEW late, SendTimeout(p, late)
    PROVE  JInv'
  <1> DEFINE n == StartSync(p)
  <1>1. /\ IndexOK(chain) /\ NodesOK /\ KnownNodes /\ BooksServed(download)
    BY DEF IInv, JInv
  <1>2. /\ node[p].fSuccessfullyConnected /\ node' = [node EXCEPT ![p] = Closing(n)]
        /\ requests' = Pushed(requests, p, SyncRequests(p))
        /\ UNCHANGED <<chain, download, toRequest>> /\ toRequest.blocks = {}
    BY DEF SendTimeout, Sends, BeforeSend, At, Unlocked, Ready, IInv, HandlerOK
  <1>3. /\ NodeOK(n) /\ KnownOK(p, n, chain.data) /\ RequestsOK(requests')
    BY <1>2, ServedStart
  <1> HIDE DEF n
  <1>4. NodeOK(Closing(n)) /\ KnownOK(p, Closing(n), chain.data)
    BY <1>3, AlikeClosing, KnownClosing DEF Alike
  <1>5. KnownNodes'
    BY <1>1, <1>2, <1>4, KnownStep
  <1> QED BY <1>1, <1>2, <1>3, <1>5 DEF JInv, AboutToAsk

(* SendMessages chooses what to ask for. *)
LEMMA ServedSend ==
    ASSUME IInv, JInv, NEW p \in Peers, NEW late, SendRequests(p, late)
    PROVE  JInv'
  <1> DEFINE n == StartSync(p)
             Choice == IF ~IsInitialBlockDownload \/ Fetches(n)
                       THEN FindNextBlocksToDownload(p, n, Room(p))
                       ELSE NothingToDownload(n)
             m(next) == ConsiderEviction([CheckHeadersSync(n, late)
                            EXCEPT !.pindexLastCommonBlock = next.common], late)
  <1>1. /\ IndexOK(chain) /\ NodesOK /\ KnownNodes /\ BooksServed(download) /\ Books(download)
    BY DEF IInv, JInv
  <1>2. /\ node[p].fSuccessfullyConnected /\ UNCHANGED chain
        /\ requests' = Pushed(requests, p, SyncRequests(p))
    BY DEF SendRequests, Sends
  <1>3. PICK next \in {Choice} :
            /\ node' = [node EXCEPT ![p] = m(next)]
            /\ toRequest' = [blocks |-> next.blocks, compact |-> FALSE]
            /\ download' \in {download, [download EXCEPT !.nStallingSince[next.staller] = TRUE]}
            /\ next.blocks # {} => turn' = p
    BY DEF SendRequests
  <1>4. NodeOK(n) /\ KnownOK(p, n, chain.data) /\ RequestsOK(requests')
    BY <1>2, ServedStart
  <1>5. /\ \A b \in next.blocks : Served(p, b)
        /\ next.common # Null =>
                /\ next.common \in Blocks /\ Chain[next.common] \subseteq chain.data
                /\ next.common = Genesis \/ Served(p, next.common)
    <2>1. CASE next = FindNextBlocksToDownload(p, n, Room(p))
      <3> HIDE DEF n
      <3> QED BY <1>1, <1>4, <2>1, FoundServed
    <2>2. CASE next = NothingToDownload(n)
      <3> HIDE DEF n
      <3>1. next.blocks = {} /\ next.common = n.pindexLastCommonBlock
        BY <2>2 DEF NothingToDownload
      <3> QED BY <1>4, <3>1 DEF KnownOK
    <2> QED BY <1>3, <2>1, <2>2
  <1> HIDE DEF n, Choice
  <1>6. NodeOK(m(next)) /\ KnownOK(p, m(next), chain.data)
    BY <1>4, <1>5, CheckedNode, KnownChecked DEF AlikeButSync
  <1> HIDE DEF m
  <1>7. KnownNodes'
    BY <1>1, <1>2, <1>3, <1>6, KnownStep
  <1>8. BooksServed(download')
    <2>1. download'.mapBlocksInFlight = download.mapBlocksInFlight
      BY <1>1, <1>3 DEF Books, BooksType
    <2> QED BY <1>1, <2>1 DEF BooksServed, InFlight
  <1>9. AboutToAsk'
    BY <1>3, <1>5 DEF AboutToAsk
  <1> QED BY <1>1, <1>2, <1>4, <1>7, <1>8, <1>9 DEF JInv

(* A block chosen for a getdata goes on the books. *)
LEMMA ServedRequest ==
    ASSUME IInv, JInv, NEW p \in Peers, RequestBlock(p)
    PROVE  JInv'
  <1>1. /\ IndexOK(chain) /\ KnownNodes /\ BooksServed(download) /\ Books(download)
        /\ RequestsOK(requests) /\ AboutToAsk /\ toRequest.blocks \subseteq Blocks
    BY DEF IInv, JInv, HandlerOK
  <1>2. turn = p /\ UNCHANGED <<chain, node>>
    BY DEF RequestBlock
  <1>3. PICK b \in toRequest.blocks :
            /\ download' = MarkBlockAsInFlight(download, p, b, FALSE)
            /\ requests' \in {Pushed(requests, p, {GetCompact(b)}), Pushed(requests, p, {GetBlock(b)})}
            /\ toRequest' = [blocks |-> toRequest.blocks \ {b}, compact |-> FALSE]
            /\ turn' = turn \/ toRequest.blocks = {b}
    BY DEF RequestBlock, Lowest
  <1>4. b \in Blocks /\ Served(p, b)
    BY <1>1, <1>2 DEF AboutToAsk
  <1>5. BooksServed(download')
    BY <1>1, <1>3, <1>4, RequestedServed
  <1>6. RequestsOK(requests')
    <2>1. /\ RequestsOK(Pushed(requests, p, {GetBlock(b)}))
          /\ RequestsOK(Pushed(requests, p, {GetCompact(b)}))
      BY <1>1, AskBlockOK
    <2> QED BY <1>3, <2>1
  <1>7. AboutToAsk'
    <2>1. toRequest'.blocks = toRequest.blocks \ {b}
      BY <1>3
    <2> QED BY <1>1, <1>3, <2>1 DEF AboutToAsk
  <1>8. KnownNodes'
    BY <1>1, <1>2, KnownSame
  <1> QED BY <1>1, <1>2, <1>5, <1>6, <1>7, <1>8 DEF JInv

(* Every step keeps the second invariant. *)
LEMMA ServedInductive ==
    ASSUME IInv, JInv, [Next]_vars
    PROVE  JInv'
  <1>1. CASE UNCHANGED vars
    <2>1. UNCHANGED <<chain, node, download, requests, turn, toRequest>>
      BY <1>1 DEF vars, handler
    <2> QED BY <2>1 DEF JInv, IndexOK, KnownNodes, BooksServed, AboutToAsk, RequestsOK
  <1>2. ASSUME NEW p \in Peers, ReceiveMessage(p) PROVE JInv'
    <2>1. News(p) \subseteq Serves[p] /\ Serves[p] \subseteq Blocks
      BY DownloadAssumption DEF News
    <2>2. \/ \E h \in HeadersFrom(p) : ReceiveHeaders(p, h)
          \/ \E b \in Blocks : ReceiveBlock(p, b)
          \/ \E b \in Serves[p] : \E status : ReceiveCompactBlock(p, b, status)
          \/ \E b \in Blocks : \E status : ReceiveBlockTxn(p, b, status)
          \/ \E b \in Serves[p] : ReceiveInv(p, b)
      BY <1>2, <2>1 DEF ReceiveMessage
    <2> QED BY <2>2, ServedHeaders, ServedBlock, ServedCompact, ServedTxn, ServedInv
  <1>3. ASSUME NEW p \in Peers, SendMessages(p) PROVE JInv'
    <2>1. PICK late : SendTimeout(p, late) \/ SendRequests(p, late)
      BY <1>3 DEF SendMessages
    <2> QED BY <2>1, ServedTimeout, ServedSend
  <1>4. ASSUME NEW p \in Peers,
               \/ \E kind \in KindsOf[p] : InitializeNode(p, kind)
               \/ CloseSocketDisconnect(p) \/ FinalizeNode(p)
               \/ ReceiveVersion(p) \/ ReceiveMessage(p) \/ ProcessBlock(p)
               \/ SendNothing(p) \/ SendBanned(p) \/ SendMessages(p) \/ RequestBlock(p)
        PROVE  JInv'
    BY <1>2, <1>3, <1>4, ServedSocket, ServedQuiet, ServedProcess, ServedRequest
  <1> QED BY <1>1, <1>4 DEF Next

(* It holds before the first connection. *)
LEMMA ServedInitial ==
    ASSUME Init
    PROVE  JInv
  <1>1. IndexOK(chain)
    <2>1. Chain[Genesis] = {Genesis} /\ Genesis \in Blocks
      BY ChainUnfold, TreeAssumption, SMTT(60)
    <2> QED BY <2>1 DEF Init, IndexOK
  <1>2. KnownNodes
    BY DEF Init, KnownNodes, KnownOK, NoNode, NewNode
  <1>3. BooksServed(download)
    BY DEF Init, BooksServed, NothingInFlight, InFlight
  <1>4. AboutToAsk /\ RequestsOK(requests)
    BY DEF Init, AboutToAsk, RequestsOK, NoRequest
  <1> QED BY <1>1, <1>2, <1>3, <1>4 DEF JInv

(* No peer is ever asked for a block of a chain it is not on: not by       *)
(* FindNextBlocksToDownload, by the direct fetch after headers, or for a   *)
(* compact block, whatever the other peers sent.                           *)
THEOREM AskedOnlyForAnnounced == Spec => []OnlyAnnounced
  <1>1. Init => IInv /\ JInv
    BY Initial, ServedInitial
  <1>2. IInv /\ JInv /\ [Next]_vars => IInv' /\ JInv'
    BY Inductive, ServedInductive
  <1>3. IInv /\ JInv => OnlyAnnounced
    <2> SUFFICES ASSUME IInv, JInv, NEW p \in Peers, NEW b \in Range(download.vBlocksInFlight[p])
                 PROVE  Served(p, b)
      BY DEF OnlyAnnounced, Served
    <2>1. b \in Blocks /\ download.mapBlocksInFlight[b] = p
      BY DEF IInv, Books, Listed
    <2>2. InFlight(download, b)
      BY <2>1, PeersAssumption DEF InFlight
    <2> QED BY <2>1, <2>2 DEF JInv, BooksServed
  <1> QED BY <1>1, <1>2, <1>3, PTL DEF Spec

(* pindexLastCommonBlock never passes a block that is not on disk, so the  *)
(* walk from it misses none, and it is on the peer's chain.                *)
THEOREM LastCommonAlwaysFull == Spec => []LastCommonIsFull
  <1>1. Init => IInv /\ JInv
    BY Initial, ServedInitial
  <1>2. IInv /\ JInv /\ [Next]_vars => IInv' /\ JInv'
    BY Inductive, ServedInductive
  <1>3. JInv => LastCommonIsFull
    <2>1. Genesis \in Chain[Genesis]
      BY ChainBlocks, TreeAssumption
    <2> SUFFICES ASSUME JInv, NEW p \in Peers, node[p].pindexLastCommonBlock # Null
                 PROVE  /\ Chain[node[p].pindexLastCommonBlock] \subseteq chain.data
                        /\ \E a \in Serves[p] \cup {Genesis} :
                            node[p].pindexLastCommonBlock \in Chain[a]
      BY DEF LastCommonIsFull
    <2>2. KnownOK(p, node[p], chain.data)
      BY DEF JInv, KnownNodes
    <2> QED BY <2>1, <2>2 DEF KnownOK, Served
  <1> QED BY <1>1, <1>2, <1>3, PTL DEF Spec
=============================================================================
