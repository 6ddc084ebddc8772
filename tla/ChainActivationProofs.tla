----------------------- MODULE ChainActivationProofs -----------------------
(***************************************************************************)
(* Proofs about the block index and the selection of the active chain.     *)
(* The links of the index (nChainTx, mapBlocksUnlinked) are exact for any  *)
(* number of threads and any operator; the failure flags have causes once  *)
(* the operator is careful; the candidates and the tip are the best chain  *)
(* when, moreover, one thread calls into validation.                       *)
(***************************************************************************)
EXTENDS ChainActivation, BlockTreeProofs, FiniteSetTheorems

USE ZenonT(60)

-----------------------------------------------------------------------------
(* CBlockIndexWorkComparator *)

Seqs == [Blocks -> Int]

(* CBlockIndexWorkComparator is a strict total order on the blocks.        *)
LEMMA LessOrder ==
    ASSUME NEW s \in Seqs, NEW a \in Blocks, NEW b \in Blocks
    PROVE  /\ ~(Less(s, a, b) /\ Less(s, b, a)) /\ ~Less(s, a, a)
           /\ a # b => Less(s, a, b) \/ Less(s, b, a)
  BY WorkAssumption, PointerAssumption, SMTT(60) DEF Less, Seqs

(* "At least as good as" is transitive. *)
LEMMA NotLessTransitive ==
    ASSUME NEW s \in Seqs, NEW a \in Blocks, NEW b \in Blocks, NEW c \in Blocks,
           ~Less(s, a, b), ~Less(s, b, c)
    PROVE  ~Less(s, a, c)
  BY WorkAssumption, PointerAssumption, SMTT(60) DEF Less, Seqs

(* The order of two blocks depends on their own sequence ids only. *)
LEMMA LessLocal ==
    ASSUME NEW s, NEW u, NEW a \in Blocks, NEW b \in Blocks, s[a] = u[a], s[b] = u[b]
    PROVE  Less(s, a, b) <=> Less(u, a, b)
  BY DEF Less

(* A proper ancestor has less work. *)
LEMMA AncestorWork ==
    ASSUME NEW b \in Blocks, NEW a \in Chain[b], a # b
    PROVE  Work[a] < Work[b]
  <1>1. b # Genesis /\ Parent[b] \in Blocks /\ a \in Chain[Parent[b]]
    BY ChainLower
  <1> DEFINE S == {x \in Blocks : Work[x] <= Work[Parent[b]]}
  <1>2. AncestorClosed(S)
    <2> SUFFICES ASSUME NEW c \in S, c # Genesis PROVE Parent[c] \in S
      BY DEF AncestorClosed
    <2>1. Parent[c] \in Blocks /\ Work[c] > Work[Parent[c]]
      BY TreeAssumption, WorkAssumption
    <2>2. Work[c] \in Nat /\ Work[Parent[c]] \in Nat /\ Work[Parent[b]] \in Nat
      BY <1>1, <2>1, WorkAssumption
    <2> QED BY <2>1, <2>2, SMTT(60)
  <1>3. S \in SUBSET Blocks /\ Parent[b] \in S
    BY <1>1, WorkAssumption, SMTT(60)
  <1> HIDE DEF S
  <1>4. a \in S
    BY <1>1, <1>2, <1>3, ChainLeast
  <1>5. Work[a] <= Work[Parent[b]] /\ Work[a] \in Nat /\ Work[Parent[b]] \in Nat /\ Work[b] \in Nat
    BY <1>1, <1>4, WorkAssumption DEF S
  <1>6. Work[b] > Work[Parent[b]]
    BY <1>1, WorkAssumption
  <1> QED BY <1>5, <1>6, SMTT(60)

(* No block sorts worse than its ancestors. *)
LEMMA AncestorNotBetter ==
    ASSUME NEW s \in Seqs, NEW b \in Blocks, NEW a \in Chain[b]
    PROVE  ~Less(s, b, a)
  <1>1. a \in Blocks
    BY ChainBlocks
  <1>2. CASE a = b
    BY <1>2, LessOrder
  <1>3. CASE a # b
    <2>1. Work[a] < Work[b]
      BY <1>3, AncestorWork
    <2> QED BY <1>1, <2>1, WorkAssumption, SMTT(60) DEF Less
  <1> QED BY <1>2, <1>3

(* A finite set of blocks has a best one: what FindMostWorkChain looks for *)
(* exists.                                                                 *)
LEMMA BestExists ==
    ASSUME NEW s \in Seqs, NEW S \in SUBSET Blocks, IsFiniteSet(S), S # {}
    PROVE  \E c \in S : \A d \in S \ {c} : Less(s, d, c)
  <1> DEFINE Has(U) == \E c \in U : \A d \in U \ {c} : Less(s, d, c)
             N == {Cardinality(U) : U \in {V \in SUBSET S : V # {} /\ ~Has(V)}}
  <1> SUFFICES ASSUME ~Has(S) PROVE FALSE
    OBVIOUS
  <1>1. \A U \in SUBSET S : IsFiniteSet(U) /\ Cardinality(U) \in Nat
    BY FS_Subset, FS_CardinalityType
  <1>2. N \subseteq Nat /\ N # {}
    BY <1>1
  <1>3. PICK n \in N : \A m \in N : ~(<<m, n>> \in OpToRel(<, Nat))
    <2> HIDE DEF N
    <2> QED BY <1>2, WFMin, NatLessThanWellFounded
  <1>4. \A m \in N : ~(m < n)
    BY <1>2, <1>3 DEF OpToRel
  <1>5. PICK U \in SUBSET S : U # {} /\ ~Has(U) /\ n = Cardinality(U)
    OBVIOUS
  <1>6. PICK x \in U : TRUE
    BY <1>5
  <1> DEFINE V == U \ {x}
  <1>7. Cardinality(V) = Cardinality(U) - 1 /\ Cardinality(V) \in Nat /\ Cardinality(U) \in Nat
    BY <1>1, <1>6, FS_RemoveElement
  <1>8. V = {} \/ Has(V)
    <2>1. ~(Cardinality(V) \in N)
      <3> HIDE DEF N, V
      <3> QED BY <1>4, <1>5, <1>7, SMTT(60)
    <2> QED BY <2>1
  <1>9. V # {}
    BY <1>5, <1>6
  <1>10. PICK m \in V : \A d \in V \ {m} : Less(s, d, m)
    BY <1>8, <1>9
  <1>11. m \in Blocks /\ x \in Blocks /\ m # x
    OBVIOUS
  <1>12. CASE Less(s, x, m)
    <2>1. \A d \in U \ {m} : Less(s, d, m)
      BY <1>10, <1>12
    <2> QED BY <2>1, <1>5
  <1>13. CASE Less(s, m, x)
    <2>1. ASSUME NEW d \in U \ {x} PROVE Less(s, d, x)
      <3>1. d \in Blocks /\ d # x
        OBVIOUS
      <3>2. CASE d = m
        BY <3>2, <1>13
      <3>3. CASE d # m
        <4>1. Less(s, d, m)
          BY <3>3, <1>10
        <4>2. ~Less(s, m, d) /\ ~Less(s, x, m)
          BY <3>1, <4>1, <1>11, <1>13, LessOrder
        <4>3. ~Less(s, x, d)
          BY <4>2, <3>1, <1>11, NotLessTransitive
        <4> QED BY <4>3, <3>1, <1>11, LessOrder
      <3> QED BY <3>2, <3>3
    <2> QED BY <2>1, <1>5, <1>6
  <1> QED BY <1>11, <1>12, <1>13, LessOrder

-----------------------------------------------------------------------------
(* The index: types, and which blocks are linked *)

(* The index holds finitely many blocks, with each its ancestors; a block  *)
(* that is not in it has no status.                                        *)
Shape ==
    /\ TypeOK
    /\ IsFiniteSet(known) /\ AncestorClosed(known)
    /\ \A b \in Blocks \ known : failed[b] = {} /\ level[b] = TREE

(* nChainTx is set from the genesis block up; no block waits for a parent  *)
(* that is linked; the tip, the candidates and the targets are linked.     *)
Links ==
    /\ UnlinkedExact
    /\ Genesis \in linked /\ AncestorClosed(linked)
    /\ \A b \in linked \cup stranded : HasData(b)
    /\ linked \cap stranded = {}
    /\ \A b \in unlinked : Parent[b] \notin linked
    /\ candidates \subseteq linked /\ tip \in linked
    /\ \A t \in Threads : mostWork[t] \in linked \cup {Null, Idle}

FailFlags == [Blocks -> SUBSET {FAILED_VALID, FAILED_CHILD}]

(* Setting a failure flag gives failure flags, and clears none. *)
LEMMA MarkedFlags ==
    ASSUME NEW f \in FailFlags, NEW S, NEW flag \in {FAILED_VALID, FAILED_CHILD}
    PROVE  /\ Marked(f, S, flag) \in FailFlags
           /\ \A b \in Blocks : Marked(f, S, flag)[b] = IF b \in S THEN f[b] \cup {flag} ELSE f[b]
  BY DEF Marked, FailFlags

Levels == [Blocks -> {TREE, TRANSACTIONS, SCRIPTS}]

(* RaiseValidity gives a validity level and never lowers one. *)
LEMMA RaisedLevels ==
    ASSUME NEW f, NEW l \in Levels, NEW S, NEW upTo \in {TREE, TRANSACTIONS, SCRIPTS}
    PROVE  /\ Raised(f, l, S, upTo) \in Levels
           /\ \A b \in Blocks : b \notin S => Raised(f, l, S, upTo)[b] = l[b]
           /\ \A b \in Blocks : Raised(f, l, S, upTo)[b] >= l[b]
           /\ \A b \in S \cap Blocks : f[b] = {} => Raised(f, l, S, upTo)[b] >= upTo
  BY SMTT(60) DEF Raised, Levels, TREE, TRANSACTIONS, SCRIPTS

(* When the data of b arrives on a linked parent, what is linked is b and  *)
(* blocks that waited, each with its parent; and nothing that still waits  *)
(* has a linked parent.                                                    *)
LEMMA NewlyLinkedClosed ==
    ASSUME Shape, Links, NEW b \in Blocks, b # Genesis, Parent[b] \in linked, b \notin unlinked
    PROVE  /\ b \in NewlyLinked(b) /\ NewlyLinked(b) \subseteq unlinked \cup {b}
           /\ AncestorClosed(linked \cup NewlyLinked(b))
           /\ \A d \in unlinked \ NewlyLinked(b) : Parent[d] \notin linked \cup NewlyLinked(b)
  <1> DEFINE new == NewlyLinked(b)
  <1>1. unlinked \subseteq Blocks /\ Genesis \notin unlinked
    BY DEF Shape, TypeOK, Links, UnlinkedExact
  <1>2. b \in new /\ new \subseteq unlinked \cup {b}
    BY ChainBlocks DEF NewlyLinked
  <1>3. ASSUME NEW d \in new, d # b PROVE Parent[d] \in new
    <2>1. d \in unlinked /\ d \in Blocks /\ d # Genesis /\ b \in Chain[d] /\ Chain[d] \ Chain[b] \subseteq unlinked
      BY <1>1, <1>3 DEF NewlyLinked
    <2>2. Parent[d] \in Blocks /\ b \in Chain[Parent[d]] /\ Chain[Parent[d]] \subseteq Chain[d]
      BY <2>1, <1>3, ChainLower, ChainUnfold, SMTT(60)
    <2>3. Parent[d] \in Chain[Parent[d]]
      BY <2>2, ChainBlocks
    <2>4. CASE Parent[d] \in Chain[b]
      <3>1. Parent[d] = b
        <4> SUFFICES ASSUME Parent[d] # b PROVE FALSE
          OBVIOUS
        <4>1. Height[Parent[d]] < Height[b] /\ Height[b] < Height[Parent[d]]
          BY <2>2, <2>4, ChainLower
        <4>2. Height[Parent[d]] \in Nat /\ Height[b] \in Nat
          BY <2>2, TreeAssumption
        <4> QED BY <4>1, <4>2, SMTT(60)
      <3> QED BY <3>1, <1>2
    <2>5. CASE Parent[d] \notin Chain[b]
      <3>1. Parent[d] \in unlinked
        BY <2>1, <2>2, <2>3, <2>5
      <3> QED BY <3>1, <2>1, <2>2 DEF NewlyLinked
    <2> QED BY <2>4, <2>5
  <1>4. AncestorClosed(linked \cup new)
    BY <1>3 DEF AncestorClosed, Links
  <1>5. ASSUME NEW d \in unlinked \ new, Parent[d] \in new PROVE FALSE
    <2>1. d \in Blocks /\ d # Genesis /\ Parent[d] \in Blocks
      BY <1>1, TreeAssumption
    <2>2. b \in Chain[Parent[d]] /\ Chain[Parent[d]] \ Chain[b] \subseteq unlinked
      BY <1>5 DEF NewlyLinked
    <2>3. Chain[d] = Chain[Parent[d]] \cup {d}
      BY <2>1, ChainUnfold
    <2> QED BY <2>2, <2>3, <1>5 DEF NewlyLinked
  <1>6. \A d \in unlinked \ new : Parent[d] \notin linked
    BY DEF Links
  <1> QED BY <1>2, <1>4, <1>5, <1>6

(* A header that is new to the index leaves the links as they are. *)
LEMMA IndexHeader ==
    ASSUME Shape, Links, NEW b \in Blocks, b # Genesis, ProcessNewBlockHeaders(b)
    PROVE  Shape' /\ Links'
  <1>1. Parent[b] \in known /\ b \notin known /\ known' = known \cup {b}
    BY DEF ProcessNewBlockHeaders, HeaderAccepted
  <1>2. UNCHANGED <<level, failed, linked, seq, unlinked, stranded, failedBlocks, candidates, tip,
                    mostWork, nextSeq, reverseSeq, lastPrecious, calls, aborted>>
    BY DEF ProcessNewBlockHeaders, precious
  <1>3. level[b] = TREE
    BY <1>1 DEF Shape
  <1>4. Shape'
    <2>1. IsFiniteSet(known')
      BY <1>1, FS_AddElement DEF Shape
    <2> QED BY <1>1, <1>2, <2>1 DEF Shape, TypeOK, AncestorClosed
  <1>5. UnlinkedExact'
    BY <1>1, <1>2, <1>3, SMTT(60) DEF Links, UnlinkedExact, HasData, TREE, TRANSACTIONS
  <1> QED BY <1>4, <1>5, <1>2 DEF Links, HasData, AncestorClosed

(* Rejecting a header sets failure flags only. *)
LEMMA IndexReject ==
    ASSUME Shape, Links, NEW b \in Blocks, b # Genesis, RejectHeader(b)
    PROVE  Shape' /\ Links'
  <1>1. UNCHANGED <<known, level, linked, seq, unlinked, stranded, failedBlocks, candidates, tip,
                    mostWork, nextSeq, reverseSeq, lastPrecious, calls>>
    BY DEF RejectHeader, precious
  <1>2. PICK f \in FailedAncestors(b) :
            IF FAILED_VALID \in failed[f]
            THEN /\ failed' = Marked(failed, Chain[Parent[b]] \ Chain[f], FAILED_CHILD)
                 /\ UNCHANGED aborted
            ELSE aborted' = TRUE /\ UNCHANGED failed
    BY DEF RejectHeader
  <1>3. Parent[b] \in known
    BY DEF RejectHeader
  <1>4. Chain[Parent[b]] \subseteq known
    <2>1. known \in SUBSET Blocks /\ AncestorClosed(known)
      BY DEF Shape, TypeOK
    <2> QED BY <1>3, <2>1, ChainLeast
  <1>5. failed \in FailFlags
    BY DEF Shape, TypeOK, FailFlags
  <1>6. failed' \in FailFlags /\ \A d \in Blocks \ known : failed'[d] = failed[d]
    <2> DEFINE S == Chain[Parent[b]] \ Chain[f]
    <2>1. /\ Marked(failed, S, FAILED_CHILD) \in FailFlags
          /\ \A d \in Blocks \ S : Marked(failed, S, FAILED_CHILD)[d] = failed[d]
      <3> HIDE DEF S
      <3> QED BY <1>5, MarkedFlags
    <2> QED BY <1>2, <1>4, <1>5, <2>1
  <1>7. aborted' \in BOOLEAN
    BY <1>2 DEF Shape, TypeOK
  <1>8. Shape'
    BY <1>1, <1>6, <1>7 DEF Shape, TypeOK, FailFlags, AncestorClosed
  <1> QED BY <1>1, <1>8 DEF Links, UnlinkedExact, HasData, AncestorClosed

(* The data of a block arrives: the parts of ReceivedBlockTransactions. *)
LEMMA IndexData ==
    ASSUME Shape, Links, NEW b \in Blocks, b # Genesis, HeaderAccepted(b), level[b] < TRANSACTIONS,
           known' = known \cup {b}, level' = Raised(failed, level, {b}, TRANSACTIONS),
           ReceivedBlockTransactions(b),
           UNCHANGED <<failed, failedBlocks, tip, reverseSeq, lastPrecious, calls, aborted>>,
           NEW t \in Threads, mostWork' = [mostWork EXCEPT ![t] = Null]
    PROVE  Shape' /\ Links'
  <1>1. b \notin linked /\ b \notin unlinked /\ b \notin stranded
    <2>1. ~HasData(b)
      BY SMTT(60) DEF HasData, Shape, TypeOK, TREE, TRANSACTIONS, SCRIPTS
    <2> QED BY <2>1 DEF Links, UnlinkedExact
  <1>2. failed[b] = {} /\ Parent[b] \in known
    BY DEF HeaderAccepted, Failed, Shape, AncestorClosed
  <1>3. level \in Levels /\ level' \in Levels /\ HasData(b)' /\ \A d \in Blocks \ {b} : level'[d] = level[d]
    <2>1. level \in Levels
      BY DEF Shape, TypeOK, Levels
    <2> QED BY <1>2, <2>1, RaisedLevels, SMTT(60) DEF HasData
  <1>4. IsFiniteSet(known') /\ AncestorClosed(known') /\ known' \subseteq Blocks
    <2>1. IsFiniteSet(known')
      BY FS_AddElement DEF Shape
    <2> QED BY <1>2, <2>1 DEF Shape, TypeOK, AncestorClosed
  <1>5. \A d \in Blocks \ known' : failed'[d] = {} /\ level'[d] = TREE
    BY <1>3 DEF Shape
  <1>6. mostWork' \in [Threads -> Blocks \cup {Null, Idle}]
    BY DEF Shape, TypeOK
  <1>7. {d \in known' : HasData(d)'} = {d \in known : HasData(d)} \cup {b}
    BY <1>3 DEF HasData, Shape, TypeOK
  <1>8. CASE Parent[b] \in linked
    <2> DEFINE new == NewlyLinked(b)
    <2>1. /\ b \in new /\ new \subseteq unlinked \cup {b}
          /\ AncestorClosed(linked \cup new)
          /\ \A d \in unlinked \ new : Parent[d] \notin linked \cup new
      BY <1>1, <1>8, NewlyLinkedClosed
    <2>2. new \subseteq known' /\ IsFiniteSet(new) /\ Cardinality(new) \in Nat
      <3>1. new \subseteq known'
        BY <2>1 DEF Shape, TypeOK
      <3> HIDE DEF new
      <3> QED BY <3>1, <1>4, FS_Subset, FS_CardinalityType
    <2>3. PICK ord \in QueueOrders(new) :
             LET s == [d \in Blocks |-> IF d \in new THEN nextSeq + ord[d] ELSE seq[d]]
             IN  /\ linked' = linked \cup new
                 /\ unlinked' = Waiting(new)
                 /\ seq' = s
                 /\ nextSeq' = nextSeq + Cardinality(new)
                 /\ candidates' = candidates \cup {d \in new : ~Less(s, d, tip)}
                 /\ UNCHANGED stranded
      BY <1>8 DEF ReceivedBlockTransactions
    <2> HIDE DEF new
    <2>4. /\ linked' = linked \cup new /\ unlinked' = unlinked \ new /\ stranded' = stranded
          /\ candidates' \subseteq candidates \cup new /\ nextSeq' = nextSeq + Cardinality(new)
      BY <2>3 DEF Waiting
    <2>5. nextSeq' \in Nat /\ seq' \in [Blocks -> Int]
      <3>1. \A d \in new : ord[d] \in Int
        BY <2>2, <2>3, SMTT(60) DEF QueueOrders
      <3>2. nextSeq \in Nat /\ seq \in [Blocks -> Int]
        BY DEF Shape, TypeOK
      <3> QED BY <2>2, <2>3, <3>1, <3>2, SMTT(60)
    <2>6. Shape'
      <3>1. TypeOK'
        BY <1>3, <1>4, <1>6, <2>2, <2>4, <2>5 DEF Shape, TypeOK, Levels
      <3> QED BY <3>1, <1>4, <1>5 DEF Shape
    <2>7. UnlinkedExact'
      <3>1. unlinked = {d \in known : HasData(d)} \ (linked \cup stranded)
        BY DEF Links, UnlinkedExact
      <3>2. unlinked' = {d \in known' : HasData(d)'} \ (linked' \cup stranded')
        BY <1>1, <1>7, <2>1, <2>4, <3>1
      <3> QED BY <3>2 DEF UnlinkedExact
    <2>8. \A d \in linked' \cup stranded' : HasData(d)'
      <3>1. \A d \in linked \cup stranded \cup unlinked : HasData(d) /\ d \in Blocks
        BY DEF Links, UnlinkedExact, Shape, TypeOK
      <3> QED BY <1>3, <2>1, <2>4, <3>1 DEF HasData
    <2>9. linked' \cap stranded' = {}
      BY <1>1, <2>1, <2>4 DEF Links, UnlinkedExact
    <2>10. Genesis \in linked' /\ AncestorClosed(linked')
      BY <2>1, <2>4 DEF Links
    <2>11. \A d \in unlinked' : Parent[d] \notin linked'
      BY <2>1, <2>4
    <2>12. candidates' \subseteq linked' /\ tip' \in linked'
      BY <2>4 DEF Links
    <2>13. \A u \in Threads : mostWork'[u] \in linked' \cup {Null, Idle}
      BY <2>4 DEF Links, Shape, TypeOK
    <2>14. AncestorClosed(linked)'
      BY <2>10 DEF AncestorClosed
    <2> QED BY <2>6, <2>7, <2>8, <2>9, <2>10, <2>11, <2>12, <2>13, <2>14 DEF Links
  <1>9. CASE Parent[b] \notin linked
    <2>1. /\ unlinked' = IF Waits(b) THEN unlinked \cup {b} ELSE unlinked
          /\ stranded' = IF Waits(b) THEN stranded ELSE stranded \cup {b}
          /\ UNCHANGED <<linked, seq, nextSeq, candidates>>
      <3>1. level[Parent[b]] >= TREE
        BY TreeAssumption, SMTT(60) DEF Shape, TypeOK, TREE, TRANSACTIONS, SCRIPTS
      <3>2. Waits(b) <=> ~Failed(Parent[b])
        BY <3>1 DEF Waits, IsValid
      <3> QED BY <1>9, <3>2 DEF ReceivedBlockTransactions
    <2>2. Shape'
      <3>1. TypeOK'
        BY <1>3, <1>4, <1>6, <2>1 DEF Shape, TypeOK, Levels
      <3> QED BY <3>1, <1>4, <1>5 DEF Shape
    <2>3. UnlinkedExact'
      <3>1. unlinked = {d \in known : HasData(d)} \ (linked \cup stranded)
        BY DEF Links, UnlinkedExact
      <3>2. unlinked' = {d \in known' : HasData(d)'} \ (linked' \cup stranded')
        BY <1>1, <1>7, <2>1, <3>1
      <3> QED BY <3>2 DEF UnlinkedExact
    <2>4. \A d \in linked' \cup stranded' : HasData(d)'
      <3>1. \A d \in linked \cup stranded : HasData(d) /\ d \in Blocks
        BY DEF Links, Shape, TypeOK
      <3> QED BY <1>3, <2>1, <3>1 DEF HasData
    <2>5. linked' \cap stranded' = {} /\ \A d \in unlinked' : Parent[d] \notin linked'
      BY <1>1, <1>9, <2>1 DEF Links
    <2>6. \A u \in Threads : mostWork'[u] \in linked' \cup {Null, Idle}
      BY <2>1 DEF Links, Shape, TypeOK
    <2> QED BY <2>1, <2>2, <2>3, <2>4, <2>5, <2>6 DEF Links, AncestorClosed
  <1> QED BY <1>8, <1>9

(* ProcessNewBlock keeps the index in shape and its links exact. *)
LEMMA IndexBlock ==
    ASSUME Shape, Links, NEW t \in Threads, NEW b \in Blocks, b # Genesis, NEW fRequested \in BOOLEAN,
           ProcessNewBlock(t, b, fRequested)
    PROVE  Shape' /\ Links'
  <1>1. /\ HeaderAccepted(b) /\ known' = known \cup {b}
        /\ UNCHANGED <<failedBlocks, tip, reverseSeq, lastPrecious, calls, aborted>>
    BY DEF ProcessNewBlock, Indexed, precious
  <1>2. Parent[b] \in known
    BY <1>1 DEF HeaderAccepted, Shape, AncestorClosed
  <1>3. IsFiniteSet(known') /\ AncestorClosed(known') /\ known' \subseteq Blocks
    <2>1. IsFiniteSet(known')
      BY <1>1, FS_AddElement DEF Shape
    <2> QED BY <1>1, <1>2, <2>1 DEF Shape, TypeOK, AncestorClosed
  <1>4. CASE ~WantsBlock(b, fRequested)
    <2>1. /\ mostWork' = [mostWork EXCEPT ![t] = Null]
          /\ UNCHANGED <<level, failed, linked, seq, unlinked, stranded, nextSeq, candidates>>
      BY <1>4 DEF ProcessNewBlock
    <2>2. \A d \in Blocks \ known : level[d] = TREE /\ failed[d] = {}
      BY DEF Shape
    <2>3. UnlinkedExact'
      BY <1>1, <2>1, <2>2, SMTT(60) DEF Links, UnlinkedExact, HasData, TREE, TRANSACTIONS
    <2>4. Shape'
      BY <1>1, <1>3, <2>1, <2>2 DEF Shape, TypeOK, AncestorClosed
    <2>5. \A u \in Threads : mostWork'[u] \in linked' \cup {Null, Idle}
      BY <2>1 DEF Links, Shape, TypeOK
    <2> QED BY <1>1, <2>1, <2>3, <2>4, <2>5 DEF Links, HasData, AncestorClosed
  <1>5. CASE WantsBlock(b, fRequested) /\ b \in ContextFails
    <2>1. /\ failed' = Marked(failed, {b}, FAILED_VALID)
          /\ UNCHANGED <<level, linked, seq, unlinked, stranded, nextSeq, candidates, mostWork>>
      BY <1>5 DEF ProcessNewBlock
    <2>2. \A d \in Blocks \ known : level[d] = TREE /\ failed[d] = {}
      BY DEF Shape
    <2>3. UnlinkedExact'
      BY <1>1, <2>1, <2>2, SMTT(60) DEF Links, UnlinkedExact, HasData, TREE, TRANSACTIONS
    <2>4. failed' \in FailFlags /\ \A d \in Blocks \ {b} : failed'[d] = failed[d]
      <3>1. failed \in FailFlags
        BY DEF Shape, TypeOK, FailFlags
      <3> QED BY <2>1, <3>1, MarkedFlags
    <2>5. Shape'
      BY <1>1, <1>3, <2>1, <2>2, <2>4 DEF Shape, TypeOK, FailFlags, AncestorClosed
    <2> QED BY <1>1, <2>1, <2>3, <2>5 DEF Links, HasData, AncestorClosed
  <1>6. CASE WantsBlock(b, fRequested) /\ b \notin ContextFails
    <2>1. /\ ReceivedBlockTransactions(b)
          /\ level' = Raised(failed, level, {b}, TRANSACTIONS)
          /\ mostWork' = [mostWork EXCEPT ![t] = Null]
          /\ UNCHANGED failed
      BY <1>6 DEF ProcessNewBlock
    <2>2. level[b] < TRANSACTIONS
      BY <1>6 DEF WantsBlock
    <2> QED BY <1>1, <2>1, <2>2, IndexData
  <1> QED BY <1>4, <1>5, <1>6

-----------------------------------------------------------------------------
(* One turn of ActivateBestChain *)

(* The target of a turn, and the candidates and failure flags once the     *)
(* search for it is over.                                                  *)
Target(t) == IF mostWork[t] = Null THEN FindMostWorkChain ELSE mostWork[t]
Searched(t) == IF mostWork[t] = Null THEN candidates \ ErasedBySearch ELSE candidates
Flagged(t) == IF mostWork[t] = Null THEN Marked(failed, MarkedBySearch, FAILED_CHILD) ELSE failed

(* The blocks a turn connects, the ones it finds invalid, and its new tip. *)
Connected(target) == Tried(target) \ ConnectFails
Invalid(target) == Tried(target) \cap ConnectFails
NewTip(target) == Highest(Connected(target) \cup {LastCommonAncestor(tip, target)})
Kept(target, cand) == IF Connected(target) = {} THEN cand ELSE Pruned(cand, seq, NewTip(target))

(* A turn in terms of these. *)
LEMMA TurnEffect ==
    ASSUME NEW t \in Threads, ActivateBestChain(t)
    PROVE  /\ mostWork[t] # Idle
           /\ UNCHANGED <<known, linked, seq, unlinked, stranded, nextSeq, reverseSeq, lastPrecious, calls>>
           /\ IF Target(t) = Null \/ Target(t) = tip
              THEN /\ mostWork' = [mostWork EXCEPT ![t] = Idle]
                   /\ candidates' = Searched(t) /\ failed' = Flagged(t)
                   /\ UNCHANGED <<tip, level, failedBlocks, aborted>>
              ELSE /\ tip' = NewTip(Target(t))
                   /\ level' = Raised(Flagged(t), level, Connected(Target(t)), SCRIPTS)
                   /\ failed' = Marked(Flagged(t), Invalid(Target(t)), FAILED_VALID)
                   /\ failedBlocks' = failedBlocks \cup Invalid(Target(t))
                   /\ candidates' = Kept(Target(t), Searched(t)) \ Invalid(Target(t))
                   /\ aborted' = (Connected(Target(t)) # {} /\ Kept(Target(t), Searched(t)) = {})
                   /\ mostWork' = [mostWork EXCEPT
                            ![t] = NextMostWork(Invalid(Target(t)), NewTip(Target(t)), Target(t))]
  <1>1. /\ mostWork[t] # Idle
        /\ IF Target(t) = Null \/ Target(t) = tip
           THEN /\ mostWork' = [mostWork EXCEPT ![t] = Idle]
                /\ candidates' = Searched(t) /\ failed' = Flagged(t)
                /\ UNCHANGED <<tip, level, failedBlocks, aborted>>
           ELSE ActivateBestChainStep(t, Target(t), Searched(t), Flagged(t))
    BY DEF ActivateBestChain, Target, Searched, Flagged
  <1>2. UNCHANGED <<known, linked, seq, unlinked, stranded, nextSeq, reverseSeq, lastPrecious, calls>>
    BY DEF ActivateBestChain, precious
  <1>3. ASSUME ActivateBestChainStep(t, Target(t), Searched(t), Flagged(t))
        PROVE  /\ tip' = NewTip(Target(t))
               /\ level' = Raised(Flagged(t), level, Connected(Target(t)), SCRIPTS)
               /\ failed' = Marked(Flagged(t), Invalid(Target(t)), FAILED_VALID)
               /\ failedBlocks' = failedBlocks \cup Invalid(Target(t))
               /\ candidates' = Kept(Target(t), Searched(t)) \ Invalid(Target(t))
               /\ aborted' = (Connected(Target(t)) # {} /\ Kept(Target(t), Searched(t)) = {})
               /\ mostWork' = [mostWork EXCEPT
                        ![t] = NextMostWork(Invalid(Target(t)), NewTip(Target(t)), Target(t))]
    BY <1>3, ZenonT(60) DEF ActivateBestChainStep, NewTip, Connected, Invalid, Kept
  <1> QED BY <1>1, <1>2, <1>3

(* FindMostWorkChain finds the best usable candidate if there is one. *)
LEMMA FoundCandidate ==
    ASSUME Shape
    PROVE  \/ FindMostWorkChain = Null /\ Usable = {}
           \/ /\ FindMostWorkChain \in Usable
              /\ \A d \in Usable \ {FindMostWorkChain} : Less(seq, d, FindMostWorkChain)
  <1>1. CASE Usable = {}
    BY <1>1 DEF FindMostWorkChain
  <1>2. CASE Usable # {}
    <2>1. Usable \in SUBSET Blocks /\ IsFiniteSet(Usable)
      <3>1. Usable \subseteq known /\ known \subseteq Blocks /\ IsFiniteSet(known)
        BY DEF Usable, Shape, TypeOK
      <3> QED BY <3>1, FS_Subset
    <2>2. seq \in Seqs
      BY DEF Shape, TypeOK, Seqs
    <2>3. \E c \in Usable : \A d \in Usable \ {c} : Less(seq, d, c)
      BY <1>2, <2>1, <2>2, BestExists
    <2> QED BY <1>2, <2>3 DEF FindMostWorkChain
  <1> QED BY <1>1, <1>2

(* Where a turn leads: the new tip is on the target's chain, and its own   *)
(* chain is made of blocks of the old one and of the blocks connected.     *)
LEMMA NewTipChain ==
    ASSUME tip \in Blocks, NEW target \in Blocks
    PROVE  /\ NewTip(target) \in Chain[target] /\ NewTip(target) \in Blocks
           /\ Chain[NewTip(target)] \subseteq Chain[tip] \cup Connected(target)
           /\ Connected(target) = {} => NewTip(target) \in Chain[tip]
           /\ Connected(target) \subseteq Chain[target] /\ Invalid(target) \subseteq Chain[target]
  <1> DEFINE fork == LastCommonAncestor(tip, target)
             S == Connected(target) \cup {fork}
             h == NewTip(target)
             stops == {b \in Path(target) : b \in ConnectFails \/ Work[b] > Work[tip]}
  <1>1. fork \in Chain[tip] /\ fork \in Chain[target]
    BY ForkIsCommon
  <1>2. Connected(target) \subseteq Chain[target] /\ Invalid(target) \subseteq Chain[target]
    BY DEF Connected, Invalid, Tried, Path
  <1>3. h \in S /\ \A c \in S : Height[c] <= Height[h]
    <2>1. S \in SUBSET Chain[target] /\ S # {}
      BY <1>1, <1>2
    <2>2. h = CHOOSE b \in S : \A c \in S : Height[c] <= Height[b]
      BY DEF NewTip, Highest
    <2> HIDE DEF S, h
    <2>3. \E b \in S : \A c \in S : Height[c] <= Height[b]
      BY <2>1, HighestAncestor
    <2> QED BY <2>2, <2>3
  <1>4. h \in Chain[target] /\ h \in Blocks
    BY <1>1, <1>2, <1>3, ChainBlocks
  <1> HIDE DEF h, fork
  <1>5. ASSUME NEW x \in Chain[h], x \notin Chain[tip] PROVE x \in Connected(target)
    <2>1. h # fork
      BY <1>1, <1>5, ChainTransitive
    <2>2. h \in Connected(target)
      BY <1>3, <2>1
    <2>3. x \in Blocks /\ x \in Path(target)
      BY <1>4, <1>5, ChainTransitive, ChainBlocks DEF Path
    <2>4. \A s \in stops : Height[h] <= Height[s]
      BY <2>2 DEF Connected, Tried
    <2>5. x = h \/ Height[x] < Height[h]
      BY <1>4, ChainLower
    <2>6. Height[x] \in Nat /\ Height[h] \in Nat /\ \A s \in stops : Height[s] \in Nat
      BY <1>4, <2>3, ChainBlocks, TreeAssumption DEF Path
    <2>7. \A s \in stops : Height[x] <= Height[s]
      BY <2>4, <2>5, <2>6, SMTT(60)
    <2>8. x \in Tried(target)
      BY <2>3, <2>7 DEF Tried
    <2>9. x \notin ConnectFails
      <3> SUFFICES ASSUME x \in ConnectFails PROVE FALSE
        OBVIOUS
      <3>1. x \in stops
        BY <2>3
      <3>2. x = h
        BY <3>1, <2>4, <2>5, <2>6, SMTT(60)
      <3> QED BY <3>2, <2>2 DEF Connected
    <2> QED BY <2>8, <2>9 DEF Connected
  <1>6. Connected(target) = {} => h \in Chain[tip]
    BY <1>1, <1>3
  <1> QED BY <1>2, <1>4, <1>5, <1>6 DEF h

(* What a turn keeps of the index. *)
LEMMA IndexActivate ==
    ASSUME Shape, Links, NEW t \in Threads, ActivateBestChain(t)
    PROVE  Shape' /\ Links'
  <1>1. Target(t) \in linked \cup {Null}
    BY FoundCandidate, TurnEffect DEF Target, Usable, Links
  <1>2. Searched(t) \subseteq candidates
    BY DEF Searched
  <1>3. MarkedBySearch \subseteq known
    <2> SUFFICES ASSUME NEW c \in candidates PROVE Chain[c] \subseteq known
      BY DEF MarkedBySearch, Discarded, AboveFailed, Path
    <2>1. known \in SUBSET Blocks /\ AncestorClosed(known) /\ c \in known
      BY DEF Shape, TypeOK
    <2> QED BY <2>1, ChainLeast
  <1>4. Flagged(t) \in FailFlags /\ \A b \in Blocks \ known : Flagged(t)[b] = {}
    <2>1. failed \in FailFlags /\ \A b \in Blocks \ known : failed[b] = {}
      BY DEF Shape, TypeOK, FailFlags
    <2>2. /\ Marked(failed, MarkedBySearch, FAILED_CHILD) \in FailFlags
          /\ \A b \in Blocks \ MarkedBySearch :
                Marked(failed, MarkedBySearch, FAILED_CHILD)[b] = failed[b]
      BY <2>1, MarkedFlags
    <2> QED BY <1>3, <2>1, <2>2 DEF Flagged
  <1>5. UNCHANGED <<known, linked, seq, unlinked, stranded, nextSeq, reverseSeq, lastPrecious, calls>>
    BY TurnEffect
  <1>6. CASE Target(t) = Null \/ Target(t) = tip
    <2>1. /\ mostWork' = [mostWork EXCEPT ![t] = Idle]
          /\ candidates' = Searched(t) /\ failed' = Flagged(t)
          /\ UNCHANGED <<tip, level, failedBlocks, aborted>>
      BY <1>6, TurnEffect
    <2>2. Shape'
      BY <1>2, <1>4, <1>5, <2>1 DEF Shape, TypeOK, FailFlags, AncestorClosed
    <2>3. \A u \in Threads : mostWork'[u] \in linked' \cup {Null, Idle}
      BY <1>5, <2>1 DEF Links, Shape, TypeOK
    <2> QED BY <1>2, <1>5, <2>1, <2>2, <2>3 DEF Links, UnlinkedExact, HasData, AncestorClosed
  <1>7. CASE ~(Target(t) = Null \/ Target(t) = tip)
    <2> DEFINE target == Target(t)
    <2>1. target \in linked
      BY <1>1, <1>7
    <2>2. linked \in SUBSET Blocks /\ AncestorClosed(linked) /\ linked \subseteq known /\ tip \in linked
      BY DEF Links, Shape, TypeOK
    <2>3. Chain[target] \subseteq linked
      BY <2>1, <2>2, ChainLeast
    <2>4. /\ NewTip(target) \in linked
          /\ Connected(target) \subseteq linked /\ Invalid(target) \subseteq linked
      BY <2>1, <2>2, <2>3, NewTipChain
    <2>5. /\ tip' = NewTip(target)
          /\ level' = Raised(Flagged(t), level, Connected(target), SCRIPTS)
          /\ failed' = Marked(Flagged(t), Invalid(target), FAILED_VALID)
          /\ failedBlocks' = failedBlocks \cup Invalid(target)
          /\ candidates' = Kept(target, Searched(t)) \ Invalid(target)
          /\ aborted' = (Connected(target) # {} /\ Kept(target, Searched(t)) = {})
          /\ mostWork' = [mostWork EXCEPT ![t] = NextMostWork(Invalid(target), NewTip(target), target)]
      BY <1>7, TurnEffect
    <2> HIDE DEF target
    <2>6. level' \in Levels /\ (\A b \in Blocks : HasData(b)' <=> HasData(b))
          /\ \A b \in Blocks \ known : level'[b] = level[b]
      <3>1. level \in Levels
        BY DEF Shape, TypeOK, Levels
      <3>2. /\ level' \in Levels
            /\ \A b \in Blocks : b \notin Connected(target) => level'[b] = level[b]
            /\ \A b \in Blocks : level'[b] >= level[b]
        <4> DEFINE l == Raised(Flagged(t), level, Connected(target), SCRIPTS)
        <4>1. SCRIPTS \in {TREE, TRANSACTIONS, SCRIPTS}
          OBVIOUS
        <4>2. /\ l \in Levels
              /\ \A b \in Blocks : b \notin Connected(target) => l[b] = level[b]
              /\ \A b \in Blocks : l[b] >= level[b]
          <5> HIDE DEF l
          <5>1. \A f, S : Raised(f, level, S, SCRIPTS) \in Levels
            BY <3>1, <4>1, RaisedLevels
          <5>2. \A f, S : \A b \in Blocks :
                    b \notin S => Raised(f, level, S, SCRIPTS)[b] = level[b]
            BY DEF Raised
          <5>3. \A f, S : \A b \in Blocks : Raised(f, level, S, SCRIPTS)[b] >= level[b]
            BY <3>1, SMTT(60) DEF Raised, Levels, TREE, TRANSACTIONS, SCRIPTS
          <5> QED BY <5>1, <5>2, <5>3, Zenon DEF l
        <4> QED BY <2>5, <4>2
      <3>3. \A b \in Connected(target) : b \in Blocks /\ HasData(b)
        BY <2>2, <2>4 DEF Links
      <3>4. \A b \in Connected(target) : HasData(b)'
        BY <3>1, <3>2, <3>3, SMTT(60) DEF HasData, Levels, TREE, TRANSACTIONS, SCRIPTS
      <3> QED BY <2>2, <2>4, <3>2, <3>3, <3>4 DEF HasData
    <2>7. failed' \in FailFlags /\ \A b \in Blocks \ known : failed'[b] = {}
      <3>1. \A b \in Blocks \ Invalid(target) : failed'[b] = Flagged(t)[b]
        BY <1>4, <2>5, MarkedFlags
      <3> QED BY <1>4, <2>2, <2>4, <2>5, <3>1, MarkedFlags
    <2>8. candidates' \subseteq candidates
      BY <1>2, <2>5 DEF Kept, Pruned
    <2>9. mostWork'[t] \in linked \cup {Null, Idle} /\ mostWork' \in [Threads -> Blocks \cup {Null, Idle}]
      <3>1. NextMostWork(Invalid(target), NewTip(target), target) \in linked \cup {Null, Idle}
        BY <2>1 DEF NextMostWork, target
      <3> QED BY <2>2, <2>5, <3>1 DEF Shape, TypeOK
    <2>10. Shape'
      <3>1. TypeOK'
        BY <1>5, <2>2, <2>4, <2>5, <2>6, <2>7, <2>8, <2>9 DEF Shape, TypeOK, FailFlags, Levels
      <3> QED BY <1>5, <2>6, <2>7, <3>1 DEF Shape, AncestorClosed
    <2>11. \A u \in Threads : mostWork'[u] \in linked' \cup {Null, Idle}
      BY <1>5, <2>5, <2>9 DEF Links, Shape, TypeOK
    <2>12. UnlinkedExact'
      <3>1. unlinked = {d \in known : HasData(d)} \ (linked \cup stranded) /\ known \subseteq Blocks
        BY DEF Links, UnlinkedExact, Shape, TypeOK
      <3>2. unlinked' = {d \in known' : HasData(d)'} \ (linked' \cup stranded')
        BY <1>5, <2>6, <3>1
      <3> QED BY <3>2 DEF UnlinkedExact
    <2>13. \A b \in linked' \cup stranded' : HasData(b)'
      BY <1>5, <2>6 DEF Links, Shape, TypeOK
    <2> QED BY <1>5, <2>4, <2>5, <2>8, <2>10, <2>11, <2>12, <2>13 DEF Links, AncestorClosed
  <1> QED BY <1>6, <1>7

-----------------------------------------------------------------------------
(* The calls of the operator, and the index *)

(* InvalidateBlock moves the tip to an ancestor and adds linked            *)
(* candidates.                                                             *)
LEMMA IndexInvalidate ==
    ASSUME Shape, Links, NEW t \in Threads, NEW b \in RpcBlocks, InvalidateBlock(t, b)
    PROVE  Shape' /\ Links'
  <1> DEFINE inChain == b \in Chain[tip]
             newTip == IF inChain THEN Parent[b] ELSE tip
             children == IF inChain THEN Chain[tip] \ Chain[b] ELSE {}
             fail1 == Marked(failed, children, FAILED_CHILD)
             fail == Marked(fail1, {b}, FAILED_VALID)
  <1>1. /\ b \in known /\ tip' = newTip /\ failed' = fail
        /\ candidates' = (candidates \ (children \cup {b})) \cup Readded(fail, newTip)
        /\ failedBlocks' = failedBlocks \cup {b}
        /\ mostWork' = [mostWork EXCEPT ![t] = Null]
        /\ UNCHANGED <<known, level, linked, seq, unlinked, stranded, nextSeq,
                       reverseSeq, lastPrecious, calls, aborted>>
    BY DEF InvalidateBlock, precious
  <1>2. linked \in SUBSET Blocks /\ AncestorClosed(linked) /\ linked \subseteq known /\ tip \in linked
    BY DEF Links, Shape, TypeOK
  <1>3. Chain[tip] \subseteq linked /\ b \in Blocks /\ b # Genesis
    BY <1>2, ChainLeast, RpcAssumption
  <1>4. newTip \in linked
    BY <1>2, <1>3 DEF AncestorClosed
  <1>5. children \subseteq linked
    BY <1>3
  <1>6. candidates' \subseteq linked
    BY <1>1 DEF Readded, Links
  <1> HIDE DEF newTip, children
  <1>7. failed \in FailFlags /\ \A d \in Blocks \ known : failed[d] = {}
    BY DEF Shape, TypeOK, FailFlags
  <1>8. fail1 \in FailFlags /\ \A d \in Blocks \ known : fail1[d] = {}
    <2>1. fail1 \in FailFlags /\ \A d \in Blocks \ children : fail1[d] = failed[d]
      BY <1>7, MarkedFlags
    <2> QED BY <1>2, <1>5, <1>7, <2>1
  <1> HIDE DEF fail1
  <1>9. fail \in FailFlags /\ \A d \in Blocks \ known : fail[d] = {}
    <2>1. fail \in FailFlags /\ \A d \in Blocks \ {b} : fail[d] = fail1[d]
      BY <1>8, MarkedFlags
    <2> QED BY <1>1, <1>8, <2>1
  <1> HIDE DEF fail
  <1>10. Shape'
    BY <1>1, <1>2, <1>4, <1>6, <1>9 DEF Shape, TypeOK, FailFlags, AncestorClosed
  <1>11. \A u \in Threads : mostWork'[u] \in linked' \cup {Null, Idle}
    BY <1>1 DEF Links, Shape, TypeOK
  <1> QED BY <1>1, <1>4, <1>6, <1>10, <1>11 DEF Links, UnlinkedExact, HasData, AncestorClosed

(* ResetBlockFailureFlags adds linked candidates. *)
LEMMA IndexReconsider ==
    ASSUME Shape, Links, NEW t \in Threads, NEW b \in RpcBlocks, ReconsiderBlock(t, b)
    PROVE  Shape' /\ Links'
  <1>1. /\ failed' = [d \in Blocks |-> IF d \in Reset(b) \cup Chain[b] THEN {} ELSE failed[d]]
        /\ candidates' = candidates \cup
              {d \in Reset(b) \cap linked : level[d] >= TRANSACTIONS /\ Less(seq, tip, d)}
        /\ failedBlocks' = FailedAfter(Reset(b))
        /\ mostWork' = [mostWork EXCEPT ![t] = Null]
        /\ UNCHANGED <<known, level, linked, seq, unlinked, stranded, tip, nextSeq,
                       reverseSeq, lastPrecious, calls, aborted>>
    BY DEF ReconsiderBlock, precious
  <1>2. failedBlocks' \subseteq failedBlocks /\ candidates' \subseteq linked
    BY <1>1 DEF FailedAfter, Links
  <1>3. failed' \in FailFlags /\ \A d \in Blocks \ known : failed'[d] = {}
    BY <1>1 DEF Shape, TypeOK, FailFlags
  <1>4. Shape'
    BY <1>1, <1>2, <1>3 DEF Shape, TypeOK, FailFlags, AncestorClosed
  <1>5. \A u \in Threads : mostWork'[u] \in linked' \cup {Null, Idle}
    BY <1>1 DEF Links, Shape, TypeOK
  <1> QED BY <1>1, <1>2, <1>4, <1>5 DEF Links, UnlinkedExact, HasData, AncestorClosed

(* PreciousBlock gives a sequence id and adds a linked candidate. *)
LEMMA IndexPrecious ==
    ASSUME Shape, Links, NEW t \in Threads, NEW b \in RpcBlocks, PreciousBlock(t, b)
    PROVE  Shape' /\ Links'
  <1> DEFINE rev == IF Work[tip] > lastPrecious THEN -1 ELSE reverseSeq
             s == [seq EXCEPT ![b] = rev]
             cand == IF IsValid(b, TRANSACTIONS) /\ b \in linked
                     THEN Pruned(candidates \cup {b}, s, tip)
                     ELSE candidates \ {b}
  <1>1. /\ calls' = calls + 1 /\ lastPrecious' = Work[tip] /\ seq' = s /\ reverseSeq' = rev - 1
        /\ candidates' = cand
        /\ aborted' = (IsValid(b, TRANSACTIONS) /\ b \in linked /\ cand = {})
        /\ mostWork' = [mostWork EXCEPT ![t] = Null]
        /\ UNCHANGED <<known, level, failed, linked, unlinked, stranded, failedBlocks, tip, nextSeq>>
    BY DEF PreciousBlock
  <1>2. candidates' \subseteq linked
    BY <1>1 DEF Links, Pruned
  <1>3. rev \in Int /\ Work[tip] \in Nat
    BY WorkAssumption, SMTT(60) DEF Shape, TypeOK
  <1> HIDE DEF rev
  <1>4. seq' \in [Blocks -> Int] /\ reverseSeq' \in Int /\ lastPrecious' \in Nat /\ calls' \in Nat
    <2>1. seq \in [Blocks -> Int] /\ calls \in Nat
      BY DEF Shape, TypeOK
    <2>2. s \in [Blocks -> Int]
      BY <1>3, <2>1
    <2> QED BY <1>1, <1>3, <2>1, <2>2, SMTT(60)
  <1>5. mostWork' \in [Threads -> Blocks \cup {Null, Idle}] /\ aborted' \in BOOLEAN
    BY <1>1 DEF Shape, TypeOK
  <1>6. Shape'
    BY <1>1, <1>2, <1>4, <1>5 DEF Shape, TypeOK, AncestorClosed
  <1>7. \A u \in Threads : mostWork'[u] \in linked' \cup {Null, Idle}
    BY <1>1 DEF Links, Shape, TypeOK
  <1> QED BY <1>1, <1>2, <1>6, <1>7 DEF Links, UnlinkedExact, HasData, AncestorClosed

(* The index starts in shape. *)
LEMMA IndexInit ==
    ASSUME Init
    PROVE  Shape /\ Links
  <1>1. AncestorClosed({Genesis}) /\ IsFiniteSet({Genesis}) /\ Genesis \in Blocks
    BY FS_Singleton, TreeAssumption DEF AncestorClosed
  <1>2. Shape
    <2>1. /\ known = {Genesis} /\ linked = {Genesis} /\ candidates = {Genesis} /\ tip = Genesis
          /\ unlinked = {} /\ stranded = {} /\ failedBlocks = {}
          /\ nextSeq = 2 /\ reverseSeq = -1 /\ lastPrecious = 0 /\ calls = 0 /\ aborted = FALSE
      BY DEF Init
    <2>2. /\ level \in [Blocks -> {TREE, TRANSACTIONS, SCRIPTS}]
          /\ failed \in [Blocks -> SUBSET {FAILED_VALID, FAILED_CHILD}]
          /\ \A b \in Blocks \ known : failed[b] = {} /\ level[b] = TREE
      BY DEF Init
    <2>3. seq \in [Blocks -> Int] /\ mostWork \in [Threads -> Blocks \cup {Null, Idle}]
      BY SMTT(60) DEF Init
    <2>4. nextSeq \in Nat /\ reverseSeq \in Int /\ lastPrecious \in Nat /\ calls \in Nat
      BY <2>1, SMTT(60)
    <2>5. aborted \in BOOLEAN
      BY <2>1
    <2>6. TypeOK
      BY <1>1, <2>1, <2>2, <2>3, <2>4, <2>5 DEF TypeOK
    <2> QED BY <1>1, <2>1, <2>2, <2>6 DEF Shape
  <1>3. {b \in known : HasData(b)} = {Genesis}
    <2>1. known = {Genesis} /\ level[Genesis] = 5
      BY <1>1 DEF Init, SCRIPTS
    <2> QED BY <2>1, SMTT(60) DEF HasData, TRANSACTIONS
  <1>4. UnlinkedExact
    BY <1>3 DEF Init, UnlinkedExact
  <1> QED BY <1>1, <1>2, <1>3, <1>4 DEF Init, Links, HasData

(* Every step keeps it. *)
LEMMA IndexStep ==
    ASSUME Shape, Links, [Next]_vars
    PROVE  Shape' /\ Links'
  <1>1. CASE UNCHANGED vars
    BY <1>1, SMTT(60) DEF vars, index, precious, Shape, TypeOK, Links, UnlinkedExact, HasData, AncestorClosed
  <1>2. CASE Next
    <2>1. ASSUME NEW b \in Blocks \ {Genesis}, ProcessNewBlockHeaders(b) PROVE Shape' /\ Links'
      BY <2>1, IndexHeader
    <2>2. ASSUME NEW b \in Blocks \ {Genesis}, RejectHeader(b) PROVE Shape' /\ Links'
      BY <2>2, IndexReject
    <2>3. ASSUME NEW t \in Threads, NEW b \in Blocks \ {Genesis}, NEW r \in BOOLEAN, ProcessNewBlock(t, b, r)
          PROVE  Shape' /\ Links'
      BY <2>3, IndexBlock
    <2>4. ASSUME NEW t \in Threads, NEW b \in RpcBlocks,
                 InvalidateBlock(t, b) \/ ReconsiderBlock(t, b) \/ PreciousBlock(t, b)
          PROVE  Shape' /\ Links'
      BY <2>4, IndexInvalidate, IndexReconsider, IndexPrecious
    <2>5. ASSUME NEW t \in Threads, ActivateBestChain(t) PROVE Shape' /\ Links'
      BY <2>5, IndexActivate
    <2> QED BY <1>2, <2>1, <2>2, <2>3, <2>4, <2>5 DEF Next
  <1> QED BY <1>1, <1>2

(* The ancestors of a linked block are linked; conversely a block is       *)
(* linked once every block of its chain has data and none is stranded.     *)
LEMMA LinksExact ==
    ASSUME Shape, Links
    PROVE  LinkedExactly
  <1>1. known \in SUBSET Blocks /\ linked \in SUBSET Blocks /\ AncestorClosed(linked) /\ AncestorClosed(known)
    BY DEF Shape, TypeOK, Links
  <1>2. ASSUME NEW b \in linked, NEW a \in Chain[b] PROVE HasData(a) /\ a \notin stranded
    <2>1. a \in linked
      BY <1>1, ChainLeast
    <2> QED BY <2>1 DEF Links
  <1>3. ASSUME NEW b \in known, \A a \in Chain[b] : HasData(a) /\ a \notin stranded PROVE b \in linked
    <2> DEFINE bad == Chain[b] \ linked
    <2> SUFFICES ASSUME bad # {} PROVE FALSE
      BY <1>1, ChainBlocks
    <2>1. Chain[b] \subseteq known /\ AncestorClosed(Chain[b]) /\ b \in Blocks
      BY <1>1, ChainLeast, ChainBlocks
    <2>2. bad \in SUBSET Blocks
      BY <1>1, <2>1
    <2> HIDE DEF bad
    <2>3. PICK x \in bad : \A y \in bad : Height[x] <= Height[y]
      BY <2>2, LowestBlock
    <2>4. x \in Chain[b] /\ x \notin linked /\ x \in known /\ x \in Blocks
      BY <2>1, <2>2 DEF bad
    <2>5. x \in unlinked /\ x # Genesis
      BY <1>3, <2>4 DEF Links, UnlinkedExact
    <2>6. Parent[x] \notin linked /\ Parent[x] \in Chain[b]
      BY <2>1, <2>4, <2>5 DEF Links, AncestorClosed
    <2>7. Parent[x] \in bad /\ Height[x] = Height[Parent[x]] + 1 /\ Height[Parent[x]] \in Nat
      BY <2>4, <2>5, <2>6, TreeAssumption DEF bad
    <2> QED BY <2>3, <2>7, SMTT(60)
  <1>4. TypeOK
    BY DEF Shape
  <1> QED BY <1>2, <1>3, <1>4 DEF LinkedExactly

(* nChainTx and mapBlocksUnlinked are exact for every tree of blocks,      *)
(* whatever the order of arrival, the number of threads in                 *)
(* ActivateBestChain and the operator's calls (ReceivedBlockTransactions). *)
THEOREM IndexAlwaysLinked ==
    Spec => [](LinkedExactly /\ UnlinkedExact)
  <1>1. Init => Shape /\ Links
    BY IndexInit
  <1>2. Shape /\ Links /\ [Next]_vars => (Shape /\ Links)'
    BY IndexStep
  <1>3. Shape /\ Links => LinkedExactly /\ UnlinkedExact
    BY LinksExact DEF Links
  <1> QED BY <1>1, <1>2, <1>3, PTL DEF Spec

-----------------------------------------------------------------------------
(* Failure flags *)

(* Every failure flag of f has a FAILED_VALID block below it. *)
Caused(f) == \A b \in Blocks : f[b] # {} => \E a \in Chain[b] : FAILED_VALID \in f[a]

(* ... of the index, and g_failed_blocks holds only such blocks. *)
Causes ==
    /\ Caused(failed)
    /\ \A b \in failedBlocks : FAILED_VALID \in failed[b]

(* FAILED_VALID may be set on any block; FAILED_CHILD above a failed one.  *)
LEMMA MarkCaused ==
    ASSUME NEW f \in FailFlags, Caused(f), NEW S \in SUBSET Blocks,
           NEW flag \in {FAILED_VALID, FAILED_CHILD},
           flag = FAILED_VALID \/ \A b \in S : \E a \in Chain[b] : f[a] # {}
    PROVE  Caused(Marked(f, S, flag))
  <1> DEFINE m == Marked(f, S, flag)
  <1>1. \A b \in Blocks : m[b] = IF b \in S THEN f[b] \cup {flag} ELSE f[b]
    BY DEF Marked
  <1> HIDE DEF m
  <1> SUFFICES ASSUME NEW b \in Blocks, m[b] # {} PROVE \E a \in Chain[b] : FAILED_VALID \in m[a]
    BY DEF Caused, m
  <1>2. b \in Chain[b] /\ Chain[b] \subseteq Blocks
    BY ChainBlocks
  <1>3. ASSUME NEW a \in Chain[b], f[a] # {} PROVE \E d \in Chain[b] : FAILED_VALID \in m[d]
    <2>1. PICK d \in Chain[a] : FAILED_VALID \in f[d]
      BY <1>2, <1>3 DEF Caused
    <2>2. d \in Chain[b] /\ d \in Blocks
      BY <1>2, ChainTransitive
    <2> QED BY <1>1, <2>1, <2>2
  <1>4. CASE f[b] # {}
    BY <1>2, <1>3, <1>4
  <1>5. CASE f[b] = {} /\ flag = FAILED_VALID
    BY <1>1, <1>2, <1>5
  <1>6. CASE f[b] = {} /\ flag # FAILED_VALID
    <2>1. b \in S
      BY <1>1, <1>6
    <2> QED BY <1>3, <1>6, <2>1
  <1> QED BY <1>4, <1>5, <1>6

(* The blocks the search marks lie above a failed block. *)
LEMMA MarkedAboveFailed ==
    ASSUME Shape, NEW b \in MarkedBySearch
    PROVE  b \in Blocks /\ \E a \in Chain[b] : Failed(a)
  <1>1. PICK c \in Discarded : b \in AboveFailed(c)
    BY DEF MarkedBySearch
  <1>2. c \in Blocks /\ FailedOnPath(c) # {}
    BY <1>1 DEF Discarded, Usable, Shape, TypeOK
  <1>3. PICK f \in FailedOnPath(c) : TRUE
    BY <1>2
  <1>4. b \in Chain[c] /\ f \in Chain[c] /\ Failed(f) /\ Height[b] > Height[f]
    BY <1>1, <1>3 DEF AboveFailed, FailedOnPath, Path
  <1>5. b \in Blocks /\ f \in Blocks
    BY <1>2, <1>4, ChainBlocks
  <1>6. Height[f] <= Height[b]
    BY <1>4, <1>5, TreeAssumption, SMTT(60)
  <1>7. f \in Chain[b]
    BY <1>2, <1>4, <1>6, ChainTotal
  <1> QED BY <1>4, <1>5, <1>7

(* Rejecting a header marks blocks above a FAILED_VALID one. *)
LEMMA CausesReject ==
    ASSUME Shape, Causes, NEW b \in Blocks, b # Genesis, RejectHeader(b)
    PROVE  /\ Causes' /\ aborted' = aborted
           /\ \A d \in Blocks : failed[d] \subseteq failed'[d]
           /\ \A d \in Blocks : FAILED_VALID \in failed'[d] <=> FAILED_VALID \in failed[d]
  <1>1. PICK f \in FailedAncestors(b) :
            IF FAILED_VALID \in failed[f]
            THEN /\ failed' = Marked(failed, Chain[Parent[b]] \ Chain[f], FAILED_CHILD)
                 /\ UNCHANGED aborted
            ELSE aborted' = TRUE /\ UNCHANGED failed
    BY DEF RejectHeader
  <1>2. failedBlocks' = failedBlocks /\ Parent[b] \in known
    BY DEF RejectHeader
  <1>3. f \in failedBlocks /\ f \in Chain[Parent[b]]
    BY DEF FailedAncestors
  <1>4. FAILED_VALID \in failed[f] /\ Parent[b] \in Blocks /\ known \subseteq Blocks
    BY <1>2, <1>3 DEF Causes, Shape, TypeOK
  <1> DEFINE S == Chain[Parent[b]] \ Chain[f]
  <1>5. failed' = Marked(failed, S, FAILED_CHILD) /\ aborted' = aborted
    BY <1>1, <1>4
  <1>6. S \in SUBSET Blocks /\ f \in Blocks
    BY <1>3, <1>4, ChainBlocks
  <1>7. ASSUME NEW x \in S PROVE \E a \in Chain[x] : failed[a] # {}
    <2>1. ~(Height[x] <= Height[f])
      BY <1>3, <1>4, ChainTotal
    <2>2. Height[f] <= Height[x]
      BY <2>1, <1>6, TreeAssumption, SMTT(60)
    <2>3. f \in Chain[x]
      BY <2>2, <1>3, <1>4, ChainTotal
    <2> QED BY <2>3, <1>4
  <1>8. failed \in FailFlags
    BY DEF Shape, TypeOK, FailFlags
  <1> HIDE DEF S
  <1>9. Caused(failed)'
    <2>1. Caused(failed)
      BY DEF Causes
    <2>2. Caused(Marked(failed, S, FAILED_CHILD))
      BY <2>1, <1>6, <1>7, <1>8, MarkCaused
    <2> QED BY <1>5, <2>2 DEF Caused
  <1>10. \A d \in Blocks : failed'[d] = IF d \in S THEN failed[d] \cup {FAILED_CHILD} ELSE failed[d]
    BY <1>5 DEF Marked
  <1>11. FAILED_CHILD # FAILED_VALID
    BY DEF FAILED_CHILD, FAILED_VALID
  <1>12. \A d \in failedBlocks' : FAILED_VALID \in failed'[d]
    BY <1>2, <1>10 DEF Causes, Shape, TypeOK
  <1> QED BY <1>5, <1>9, <1>10, <1>11, <1>12 DEF Causes

(* What a turn of ActivateBestChain does to the failure flags. *)
LEMMA FlaggedCaused ==
    ASSUME Shape, Caused(failed), NEW t \in Threads
    PROVE  /\ Flagged(t) \in FailFlags /\ Caused(Flagged(t))
           /\ \A b \in Blocks : failed[b] \subseteq Flagged(t)[b]
           /\ \A b \in Blocks : Flagged(t)[b] # failed[b] => \E a \in Chain[b] : failed[a] # {}
  <1> DEFINE m == Marked(failed, MarkedBySearch, FAILED_CHILD)
  <1>1. failed \in FailFlags
    BY DEF Shape, TypeOK, FailFlags
  <1>2. \A b \in MarkedBySearch : b \in Blocks /\ \E a \in Chain[b] : failed[a] # {}
    BY MarkedAboveFailed DEF Failed
  <1>3. MarkedBySearch \in SUBSET Blocks
    BY <1>2
  <1>4. /\ m \in FailFlags
        /\ \A b \in Blocks : m[b] = IF b \in MarkedBySearch THEN failed[b] \cup {FAILED_CHILD} ELSE failed[b]
    <2>1. \A b \in Blocks : m[b] = IF b \in MarkedBySearch THEN failed[b] \cup {FAILED_CHILD} ELSE failed[b]
      BY DEF Marked
    <2> QED BY <1>1, <2>1, MarkedFlags
  <1>5. Caused(m)
    BY <1>1, <1>2, <1>3, MarkCaused
  <1> HIDE DEF m
  <1>6. Flagged(t) = m \/ Flagged(t) = failed
    BY DEF Flagged, m
  <1> QED BY <1>1, <1>2, <1>4, <1>5, <1>6

(* A turn of ActivateBestChain gives every flag it sets a cause. *)
LEMMA CausesActivate ==
    ASSUME Shape, Links, Causes, NEW t \in Threads, ActivateBestChain(t)
    PROVE  Causes'
  <1>1. Caused(failed)
    BY DEF Causes
  <1>2. /\ Flagged(t) \in FailFlags /\ Caused(Flagged(t))
        /\ \A b \in Blocks : failed[b] \subseteq Flagged(t)[b]
    BY <1>1, FlaggedCaused
  <1>3. failedBlocks \subseteq Blocks
    BY DEF Shape, TypeOK
  <1>4. CASE Target(t) = Null \/ Target(t) = tip
    <2>1. failed' = Flagged(t) /\ failedBlocks' = failedBlocks
      BY <1>4, TurnEffect
    <2>2. Caused(failed)'
      BY <1>2, <2>1 DEF Caused
    <2> QED BY <1>2, <1>3, <2>1, <2>2 DEF Causes
  <1>5. CASE ~(Target(t) = Null \/ Target(t) = tip)
    <2> DEFINE bad == Invalid(Target(t))
    <2>1. failed' = Marked(Flagged(t), bad, FAILED_VALID) /\ failedBlocks' = failedBlocks \cup bad
      BY <1>5, TurnEffect
    <2>2. Target(t) \in linked \cup {Null} /\ linked \subseteq Blocks /\ tip \in Blocks
      BY FoundCandidate, TurnEffect DEF Target, Usable, Links, Shape, TypeOK
    <2>3. Target(t) \in Blocks
      BY <1>5, <2>2
    <2>4. bad \in SUBSET Blocks
      BY <2>2, <2>3, NewTipChain, ChainBlocks
    <2> HIDE DEF bad
    <2>5. Caused(Marked(Flagged(t), bad, FAILED_VALID))
      BY <1>2, <2>4, MarkCaused
    <2>6. \A b \in Blocks : failed'[b] = IF b \in bad THEN Flagged(t)[b] \cup {FAILED_VALID} ELSE Flagged(t)[b]
      BY <2>1 DEF Marked
    <2>7. \A b \in failedBlocks' : FAILED_VALID \in failed'[b]
      BY <1>2, <1>3, <2>1, <2>4, <2>6 DEF Causes
    <2>8. Caused(failed)'
      BY <2>1, <2>5 DEF Caused
    <2> QED BY <2>7, <2>8 DEF Causes
  <1> QED BY <1>4, <1>5

(* ProcessNewBlock sets FAILED_VALID or nothing. *)
LEMMA CausesBlock ==
    ASSUME Shape, Causes, NEW t \in Threads, NEW b \in Blocks, NEW fRequested \in BOOLEAN,
           ProcessNewBlock(t, b, fRequested)
    PROVE  Causes'
  <1>1. UNCHANGED failedBlocks /\ (failed' = failed \/ failed' = Marked(failed, {b}, FAILED_VALID))
    BY DEF ProcessNewBlock
  <1>2. CASE failed' = failed
    BY <1>1, <1>2 DEF Causes, Caused
  <1>3. CASE failed' = Marked(failed, {b}, FAILED_VALID)
    <2>1. failed \in FailFlags /\ Caused(failed)
      BY DEF Shape, TypeOK, FailFlags, Causes
    <2>2. Caused(Marked(failed, {b}, FAILED_VALID))
      BY <2>1, MarkCaused
    <2>3. \A d \in Blocks : failed[d] \subseteq failed'[d]
      BY <1>3 DEF Marked
    <2>4. Caused(failed)'
      BY <1>3, <2>2 DEF Caused
    <2> QED BY <1>1, <2>3, <2>4 DEF Causes, Shape, TypeOK
  <1> QED BY <1>1, <1>2, <1>3

(* InvalidateBlock marks the block and what lies above it. *)
LEMMA CausesInvalidate ==
    ASSUME Shape, Causes, NEW t \in Threads, NEW b \in RpcBlocks, InvalidateBlock(t, b)
    PROVE  Causes'
  <1> DEFINE children == IF b \in Chain[tip] THEN Chain[tip] \ Chain[b] ELSE {}
             fail == Marked(Marked(failed, children, FAILED_CHILD), {b}, FAILED_VALID)
  <1>1. failed' = fail /\ failedBlocks' = failedBlocks \cup {b}
    BY DEF InvalidateBlock
  <1>2. b \in Blocks /\ tip \in Blocks /\ failedBlocks \subseteq Blocks
    BY RpcAssumption DEF Shape, TypeOK
  <1>3. ASSUME NEW x \in children PROVE b \in Chain[x]
    <2>1. b \in Chain[tip] /\ x \in Chain[tip] /\ x \notin Chain[b]
      OBVIOUS
    <2>2. ~(Height[x] <= Height[b])
      BY <1>2, <2>1, ChainTotal
    <2>3. x \in Blocks
      BY <1>2, <2>1, ChainBlocks
    <2>4. Height[b] <= Height[x]
      BY <1>2, <2>2, <2>3, TreeAssumption, SMTT(60)
    <2> QED BY <1>2, <2>1, <2>4, ChainTotal
  <1> HIDE DEF children
  <1>4. /\ \A d \in Blocks : failed[d] \subseteq fail[d]
        /\ \A d \in Blocks : fail[d] # {} => failed[d] # {} \/ d \in children \/ d = b
        /\ FAILED_VALID \in fail[b]
    BY <1>2 DEF Marked
  <1> HIDE DEF fail
  <1>5. ASSUME NEW d \in Blocks, fail[d] # {} PROVE \E a \in Chain[d] : FAILED_VALID \in fail[a]
    <2>1. CASE failed[d] # {}
      <3>1. PICK a \in Chain[d] : FAILED_VALID \in failed[a]
        BY <2>1 DEF Causes, Caused
      <3> QED BY <3>1, <1>4, ChainBlocks
    <2>2. CASE d \in children
      BY <2>2, <1>3, <1>4
    <2>3. CASE d = b
      BY <2>3, <1>4, ChainBlocks
    <2> QED BY <1>4, <1>5, <2>1, <2>2, <2>3
  <1>6. Caused(failed)'
    BY <1>1, <1>5 DEF Caused
  <1> QED BY <1>1, <1>2, <1>4, <1>6 DEF Causes

(* ResetBlockFailureFlags on a block with no failed ancestor clears the    *)
(* block and everything above it, and no flag that others rest on.         *)
LEMMA CausesReconsider ==
    ASSUME CarefulOperator, Shape, Causes, NEW t \in Threads, NEW b \in RpcBlocks, ReconsiderBlock(t, b)
    PROVE  /\ Causes'
           /\ \A d \in Blocks : failed'[d] = IF b \in Chain[d] THEN {} ELSE failed[d]
  <1>1. /\ failed' = [d \in Blocks |-> IF d \in Reset(b) \cup Chain[b] THEN {} ELSE failed[d]]
        /\ failedBlocks' = failedBlocks \ Reset(b)
        /\ b \in known /\ \A a \in Chain[Parent[b]] : failed[a] = {}
    BY DEF ReconsiderBlock, FailedAfter, Careful, Failed
  <1>2. b \in Blocks /\ failedBlocks \subseteq Blocks /\ \A d \in Blocks \ known : failed[d] = {}
    BY RpcAssumption DEF Shape, TypeOK
  <1>3. \A d \in Chain[b] : d # b => failed[d] = {}
    BY <1>1, <1>2, ChainLower
  <1>4. \A d \in Reset(b) : b \in Chain[d]
    BY DEF Reset
  <1>5. \A d \in known : b \in Chain[d] /\ failed[d] # {} => d \in Reset(b)
    BY DEF Reset, IsValid, Failed
  <1>6. ASSUME NEW d \in Blocks PROVE failed'[d] = IF b \in Chain[d] THEN {} ELSE failed[d]
    <2>1. failed'[d] = IF d \in Reset(b) \cup Chain[b] THEN {} ELSE failed[d]
      BY <1>1
    <2>2. b \in Chain[b]
      BY <1>2, ChainBlocks
    <2> QED BY <1>2, <1>3, <1>4, <1>5, <2>1, <2>2
  <1>7. ASSUME NEW d \in Blocks, failed'[d] # {} PROVE \E a \in Chain[d] : FAILED_VALID \in failed'[a]
    <2>1. b \notin Chain[d] /\ failed[d] # {}
      BY <1>6, <1>7
    <2>2. PICK a \in Chain[d] : FAILED_VALID \in failed[a]
      BY <2>1 DEF Causes, Caused
    <2>3. a \in Blocks /\ b \notin Chain[a]
      BY <2>1, ChainTransitive
    <2> QED BY <2>2, <2>3, <1>6
  <1>8. ASSUME NEW d \in failedBlocks' PROVE FAILED_VALID \in failed'[d]
    <2>1. d \in Blocks /\ FAILED_VALID \in failed[d] /\ d \notin Reset(b)
      BY <1>1, <1>2 DEF Causes
    <2> QED BY <1>2, <1>5, <1>6, <2>1
  <1>9. Caused(failed)'
    BY <1>7 DEF Caused
  <1> QED BY <1>6, <1>8, <1>9 DEF Causes

(* Every step of a node with a careful operator keeps the causes. *)
LEMMA CausesStep ==
    ASSUME CarefulOperator, Shape, Links, Causes, [Next]_vars
    PROVE  Causes'
  <1>1. CASE UNCHANGED vars
    BY <1>1 DEF vars, index, Causes, Caused
  <1>2. CASE Next
    <2>1. ASSUME NEW b \in Blocks \ {Genesis}, ProcessNewBlockHeaders(b) PROVE Causes'
      BY <2>1 DEF ProcessNewBlockHeaders, Causes, Caused
    <2>2. ASSUME NEW b \in Blocks \ {Genesis}, RejectHeader(b) PROVE Causes'
      BY <2>2, CausesReject
    <2>3. ASSUME NEW t \in Threads, NEW b \in Blocks \ {Genesis}, NEW r \in BOOLEAN, ProcessNewBlock(t, b, r)
          PROVE  Causes'
      BY <2>3, CausesBlock
    <2>4. ASSUME NEW t \in Threads, NEW b \in RpcBlocks, InvalidateBlock(t, b) PROVE Causes'
      BY <2>4, CausesInvalidate
    <2>5. ASSUME NEW t \in Threads, NEW b \in RpcBlocks, ReconsiderBlock(t, b) PROVE Causes'
      BY <2>5, CausesReconsider
    <2>6. ASSUME NEW t \in Threads, NEW b \in RpcBlocks, PreciousBlock(t, b) PROVE Causes'
      BY <2>6 DEF PreciousBlock, Causes, Caused
    <2>7. ASSUME NEW t \in Threads, ActivateBestChain(t) PROVE Causes'
      BY <2>7, CausesActivate
    <2> QED BY <1>2, <2>1, <2>2, <2>3, <2>4, <2>5, <2>6, <2>7 DEF Next
  <1> QED BY <1>1, <1>2

(* A failure flag always has a FAILED_VALID block among the ancestors, for *)
(* any number of threads, as long as reconsiderblock is called on blocks   *)
(* that descend from no failed one (CheckBlockIndex).                      *)
THEOREM FailuresHaveCauses ==
    ASSUME CarefulOperator
    PROVE  Spec => []FailedHaveCause
  <1>1. Init => Shape /\ Links /\ Causes
    <2>1. Init => Causes
      BY DEF Init, Causes, Caused
    <2> QED BY <2>1, IndexInit
  <1>2. Shape /\ Links /\ Causes /\ [Next]_vars => (Shape /\ Links /\ Causes)'
    BY IndexStep, CausesStep
  <1>3. Shape /\ Causes => FailedHaveCause
    BY DEF Shape, TypeOK, Causes, Caused, FailedHaveCause, HasInvalidAncestor, Failed
  <1> QED BY <1>1, <1>2, <1>3, PTL DEF Spec
-----------------------------------------------------------------------------
(* No block of b's chain has a failure flag; none is invalid. *)
SoundIn(f, b) == \A a \in Chain[b] : f[a] = {}
Connects(b) == Chain[b] \cap ConnectFails = {}

(* A reference r: a candidate that can be connected, such that every       *)
(* linked block at least as good as r is a candidate too unless it has     *)
(* failed.  When no activation is under way the tip is one; a              *)
(* reorganisation that met an invalid block has a worse tip, and its       *)
(* reference is a block that was connected before.                         *)
Reference(cand, f, s, r) ==
    /\ r \in cand /\ SoundIn(f, r) /\ Connects(r)
    /\ \A b \in linked : f[b] = {} /\ ~Less(s, b, r) => b \in cand

(* c is sound, and no sound candidate is better. *)
BestOf(cand, f, s, c) ==
    /\ SoundIn(f, c)
    /\ \A d \in cand : SoundIn(f, d) => ~Less(s, c, d)

(* The active chain is sound, and no candidate is worse than the tip. *)
TipHolds(cand, f, s, t) ==
    /\ SoundIn(f, t) /\ Connects(t)
    /\ \A c \in cand : ~Less(s, c, t)

Aims(cand, f, s, target, r) ==
    /\ target \in cand /\ BestOf(cand, f, s, target)
    /\ ~Less(s, target, r)

Selection ==
    /\ TipHolds(candidates, failed, seq, tip)
    /\ \A t \in Threads :
        IF mostWork[t] = Idle
        THEN Reference(candidates, failed, seq, tip) /\ BestOf(candidates, failed, seq, tip)
        ELSE \E r \in candidates :
                /\ Reference(candidates, failed, seq, r)
                /\ mostWork[t] # Null => Aims(candidates, failed, seq, mostWork[t], r)

(* What the search erases has failed. *)
LEMMA ErasedFailed ==
    ASSUME Shape, NEW t \in Threads, mostWork[t] = Null, NEW e \in ErasedBySearch, e \in Blocks
    PROVE  Flagged(t)[e] # {}
  <1>1. PICK c \in Discarded : e \in AboveFailed(c) \cup TopFailed(c)
    BY DEF ErasedBySearch
  <1>2. CASE e \in AboveFailed(c)
    <2>1. e \in MarkedBySearch
      BY <1>1, <1>2 DEF MarkedBySearch
    <2> QED BY <2>1 DEF Flagged, Marked
  <1>3. CASE e \in TopFailed(c)
    <2>1. failed[e] # {}
      BY <1>3 DEF TopFailed, FailedOnPath, Failed
    <2> QED BY <2>1 DEF Flagged, Marked
  <1> QED BY <1>1, <1>2, <1>3

(* Once the search is over there is a target: the best candidate whose     *)
(* chain is sound, and at least as good as the reference.                  *)
LEMMA SearchAims ==
    ASSUME Shape, Links, Causes, TipHolds(candidates, failed, seq, tip),
           NEW t \in Threads, mostWork[t] # Idle,
           NEW r \in candidates, Reference(candidates, failed, seq, r),
           mostWork[t] # Null => Aims(candidates, failed, seq, mostWork[t], r)
    PROVE  /\ Aims(Searched(t), Flagged(t), seq, Target(t), r)
           /\ Reference(Searched(t), Flagged(t), seq, r)
           /\ TipHolds(Searched(t), Flagged(t), seq, tip)
  <1>1. CASE mostWork[t] # Null
    BY <1>1 DEF Target, Searched, Flagged
  <1>2. CASE mostWork[t] = Null
    <2> DEFINE T == FindMostWorkChain
               f == Flagged(t)
               cand == candidates \ ErasedBySearch
    <2>1. Target(t) = T /\ Searched(t) = cand
      BY <1>2 DEF Target, Searched
    <2>2. candidates \subseteq Blocks /\ tip \in Blocks /\ linked \subseteq Blocks /\ seq \in Seqs
      BY DEF Shape, TypeOK, Seqs
    <2>3. \A c \in candidates : SoundIn(failed, c) <=> c \in Usable
      BY <2>2 DEF Usable, FailedOnPath, Path, Failed, SoundIn, TipHolds
    <2>4. r \in Usable
      BY <2>3 DEF Reference
    <2>5. T \in Usable /\ \A d \in Usable \ {T} : Less(seq, d, T)
      BY <2>4, FoundCandidate
    <2> HIDE DEF T
    <2>6. T \in candidates /\ T \in Blocks /\ SoundIn(failed, T)
      BY <2>2, <2>3, <2>5 DEF Usable
    <2>7. \A d \in Usable : ~Less(seq, T, d)
      BY <2>2, <2>5, <2>6, LessOrder DEF Usable
    <2>8. /\ \A b \in Blocks : failed[b] \subseteq f[b]
          /\ \A b \in Blocks : f[b] # failed[b] => \E a \in Chain[b] : failed[a] # {}
      BY FlaggedCaused DEF Causes
    <2>9. \A e \in ErasedBySearch \cap Blocks : f[e] # {}
      BY <1>2, ErasedFailed
    <2> HIDE DEF f
    <2>10. ASSUME NEW c \in Blocks PROVE SoundIn(failed, c) <=> SoundIn(f, c)
      <3>1. ASSUME SoundIn(failed, c), NEW a \in Chain[c] PROVE f[a] = {}
        <4>1. a \in Blocks /\ Chain[a] \subseteq Chain[c]
          BY ChainTransitive
        <4>2. failed[a] = {} /\ \A d \in Chain[a] : failed[d] = {}
          BY <3>1, <4>1 DEF SoundIn
        <4> QED BY <2>8, <4>1, <4>2
      <3>2. ASSUME SoundIn(f, c), NEW a \in Chain[c] PROVE failed[a] = {}
        BY <2>8, <3>2, ChainBlocks DEF SoundIn
      <3> QED BY <3>1, <3>2 DEF SoundIn
    <2>11. ASSUME NEW c \in candidates, SoundIn(failed, c) PROVE c \in cand
      <3>1. SoundIn(f, c) /\ c \in Chain[c]
        BY <2>2, <2>10, <2>11, ChainBlocks
      <3> QED BY <2>2, <2>9, <3>1 DEF SoundIn
    <2>12. Aims(cand, f, seq, T, r)
      <3>1. T \in cand /\ SoundIn(f, T)
        BY <2>6, <2>10, <2>11
      <3>2. \A d \in cand : SoundIn(f, d) => ~Less(seq, T, d)
        BY <2>2, <2>3, <2>7, <2>10
      <3> HIDE DEF cand
      <3> QED BY <2>4, <2>7, <3>1, <3>2 DEF Aims, BestOf
    <2>13. Reference(cand, f, seq, r)
      <3>1. r \in cand /\ SoundIn(f, r) /\ Connects(r)
        BY <2>2, <2>10, <2>11 DEF Reference
      <3>2. ASSUME NEW b \in linked, f[b] = {}, ~Less(seq, b, r) PROVE b \in cand
        <4>1. failed[b] = {} /\ b \in Blocks
          BY <2>2, <2>8, <3>2
        <4>2. b \in candidates
          BY <3>2, <4>1 DEF Reference
        <4> QED BY <2>9, <3>2, <4>1, <4>2
      <3> HIDE DEF cand
      <3> QED BY <3>1, <3>2 DEF Reference
    <2>14. TipHolds(cand, f, seq, tip)
      BY <2>2, <2>10 DEF TipHolds
    <2> QED BY <2>1, <2>12, <2>13, <2>14 DEF f
  <1> QED BY <1>1, <1>2

(* A turn that connects blocks towards the target: it leaves a sound tip,  *)
(* and a reference that is the tip itself once the target is reached.      *)
LEMMA StepSelects ==
    ASSUME Shape, Links, NEW cand \in SUBSET candidates, NEW f \in FailFlags, NEW target, NEW r,
           Aims(cand, f, seq, target, r), Reference(cand, f, seq, r), TipHolds(cand, f, seq, tip),
           NEW fail, fail = Marked(f, Invalid(target), FAILED_VALID),
           NEW kept, kept = Kept(target, cand) \ Invalid(target)
    PROVE  /\ TipHolds(kept, fail, seq, NewTip(target))
           /\ Kept(target, cand) # {}
           /\ \E q \in kept :
                /\ Reference(kept, fail, seq, q)
                /\ NewTip(target) = target => q = target
                /\ Invalid(target) = {} => Aims(kept, fail, seq, target, q)
  <1> DEFINE h == NewTip(target)
             bad == Invalid(target)
             pruned == Kept(target, cand)
  <1>1. /\ candidates \subseteq linked /\ linked \in SUBSET Blocks /\ AncestorClosed(linked)
        /\ tip \in Blocks /\ seq \in Seqs
    BY DEF Shape, TypeOK, Links, Seqs
  <1>2. target \in linked /\ target \in Blocks /\ r \in Blocks /\ r \in cand
    BY <1>1 DEF Aims, Reference
  <1>3. /\ h \in Chain[target] /\ h \in Blocks
        /\ Chain[h] \subseteq Chain[tip] \cup Connected(target)
        /\ Connected(target) = {} => h \in Chain[tip]
        /\ Connected(target) \subseteq Chain[target] /\ bad \subseteq Chain[target]
    BY <1>1, <1>2, NewTipChain
  <1>4. Chain[target] \subseteq linked /\ h \in linked
    <2>1. Chain[target] \subseteq linked
      BY <1>1, <1>2, ChainLeast
    <2> QED BY <1>3, <2>1
  <1>5. bad \subseteq ConnectFails /\ bad \subseteq Blocks /\ Connected(target) \cap ConnectFails = {}
    BY <1>1, <1>3, <1>4 DEF Invalid, Connected
  <1>6. Connects(h)
    BY <1>3, <1>5 DEF Connects, TipHolds
  <1>7. SoundIn(f, h)
    BY <1>3 DEF SoundIn, TipHolds, Aims, BestOf
  <1>8. \A b \in Blocks : fail[b] = IF b \in bad THEN f[b] \cup {FAILED_VALID} ELSE f[b]
    BY DEF Marked
  <1>9. ASSUME NEW c \in Blocks, Connects(c), SoundIn(f, c) PROVE SoundIn(fail, c) /\ c \notin bad
    <2>1. c \in Chain[c] /\ Chain[c] \subseteq Blocks
      BY ChainBlocks
    <2>2. \A a \in Chain[c] : a \notin bad
      BY <1>5, <1>9 DEF Connects
    <2> HIDE DEF bad
    <2> QED BY <1>8, <1>9, <2>1, <2>2 DEF SoundIn
  <1>10. \A c \in Blocks : SoundIn(fail, c) => SoundIn(f, c)
    <2> SUFFICES ASSUME NEW c \in Blocks, SoundIn(fail, c), NEW a \in Chain[c] PROVE f[a] = {}
      BY DEF SoundIn
    <2>1. a \in Blocks /\ fail[a] = {}
      BY ChainBlocks DEF SoundIn
    <2> HIDE DEF bad
    <2> QED BY <1>8, <2>1
  <1>11. pruned \subseteq cand /\ \A c \in cand : ~Less(seq, c, h) => c \in pruned
    BY DEF Kept, Pruned
  <1>12. \A c \in pruned : ~Less(seq, c, h)
    <2>1. CASE Connected(target) # {}
      BY <2>1 DEF Kept, Pruned
    <2>2. CASE Connected(target) = {}
      <3> SUFFICES ASSUME NEW c \in cand PROVE ~Less(seq, c, h)
        BY <1>11
      <3>1. ~Less(seq, c, tip) /\ ~Less(seq, tip, h) /\ c \in Blocks
        BY <1>1, <1>3, <2>2, AncestorNotBetter DEF TipHolds
      <3> QED BY <1>1, <1>3, <3>1, NotLessTransitive
    <2> QED BY <2>1, <2>2
  <1> HIDE DEF h, bad, pruned
  <1>13. kept = pruned \ bad
    BY DEF pruned, bad
  <1>14. TipHolds(kept, fail, seq, h)
    <2>1. SoundIn(fail, h)
      BY <1>3, <1>6, <1>7, <1>9
    <2>2. \A c \in kept : ~Less(seq, c, h)
      BY <1>12, <1>13
    <2> QED BY <1>6, <2>1, <2>2 DEF TipHolds
  <1>15. ASSUME NEW q \in cand, SoundIn(f, q), Connects(q), ~Less(seq, q, h), ~Less(seq, q, r)
         PROVE  q \in kept /\ Reference(kept, fail, seq, q)
    <2>1. q \in Blocks /\ SoundIn(fail, q) /\ q \notin bad
      BY <1>1, <1>9, <1>15
    <2>2. q \in kept
      BY <1>11, <1>13, <1>15, <2>1
    <2>3. ASSUME NEW b \in linked, fail[b] = {}, ~Less(seq, b, q) PROVE b \in kept
      <3>1. b \in Blocks
        BY <1>1
      <3>2. b \notin bad /\ f[b] = {}
        BY <1>8, <2>3, <3>1
      <3>3. ~Less(seq, b, r) /\ ~Less(seq, b, h)
        BY <1>1, <1>2, <1>3, <1>15, <2>1, <2>3, <3>1, NotLessTransitive
      <3>4. b \in cand
        BY <3>2, <3>3 DEF Reference
      <3> QED BY <1>11, <1>13, <3>2, <3>3, <3>4
    <2> QED BY <1>15, <2>1, <2>2, <2>3 DEF Reference
  <1>16. ASSUME Less(seq, r, h) PROVE h \in cand /\ ~Less(seq, h, h) /\ ~Less(seq, h, r)
    <2>1. ~Less(seq, h, r) /\ ~Less(seq, h, h)
      BY <1>1, <1>2, <1>3, <1>16, LessOrder
    <2>2. f[h] = {}
      BY <1>3, <1>7, ChainBlocks DEF SoundIn
    <2> QED BY <1>4, <2>1, <2>2 DEF Reference
  <1>17. \E q \in kept : Reference(kept, fail, seq, q) /\ (q = h \/ (q = r /\ ~Less(seq, r, h)))
    <2>1. CASE Less(seq, r, h)
      BY <1>6, <1>7, <1>15, <1>16, <2>1
    <2>2. CASE ~Less(seq, r, h)
      <3>1. ~Less(seq, r, r) /\ SoundIn(f, r) /\ Connects(r)
        BY <1>1, <1>2, LessOrder DEF Reference
      <3> QED BY <1>2, <1>15, <2>2, <3>1
    <2> QED BY <2>1, <2>2
  <1>18. PICK q \in kept : Reference(kept, fail, seq, q) /\ (q = h \/ (q = r /\ ~Less(seq, r, h)))
    BY <1>17
  <1>19. ~Less(seq, target, r) /\ ~Less(seq, target, h)
    BY <1>1, <1>2, <1>3, AncestorNotBetter DEF Aims
  <1>20. h = target => q = target
    BY <1>1, <1>2, <1>18, <1>19, LessOrder, SMTT(60)
  <1>21. ASSUME bad = {} PROVE Aims(kept, fail, seq, target, q)
    <2>1. target \in kept
      BY <1>11, <1>13, <1>19, <1>21 DEF Aims
    <2>2. SoundIn(fail, target)
      <3>1. Chain[target] \subseteq Blocks /\ SoundIn(f, target)
        BY <1>2, ChainBlocks DEF Aims, BestOf
      <3> QED BY <1>8, <1>21, <3>1 DEF SoundIn
    <2>3. \A d \in kept : SoundIn(fail, d) => ~Less(seq, target, d)
      BY <1>1, <1>10, <1>11, <1>13 DEF Aims, BestOf
    <2>4. ~Less(seq, target, q)
      BY <1>18, <1>19
    <2> QED BY <2>1, <2>2, <2>3, <2>4 DEF Aims, BestOf
  <1>22. pruned # {}
    BY <1>13, <1>18
  <1> QED BY <1>14, <1>18, <1>20, <1>21, <1>22 DEF h, bad, pruned

(* Only one thread calls into validation. *)
OneThread == \E t : Threads = {t}

(* More failure flags, and the same FAILED_VALID blocks: a sound chain     *)
(* stays sound.                                                            *)
LEMMA SoundKept ==
    ASSUME NEW f, NEW fail, Caused(fail), \A d \in Blocks : f[d] \subseteq fail[d],
           \A d \in Blocks : FAILED_VALID \in fail[d] => FAILED_VALID \in f[d],
           NEW b \in Blocks
    PROVE  SoundIn(f, b) <=> SoundIn(fail, b)
  <1>1. Chain[b] \subseteq Blocks
    BY ChainBlocks
  <1>2. ASSUME SoundIn(f, b), NEW a \in Chain[b] PROVE fail[a] = {}
    <2> SUFFICES ASSUME fail[a] # {} PROVE FALSE
      OBVIOUS
    <2>1. PICK d \in Chain[a] : FAILED_VALID \in fail[d]
      BY <1>1 DEF Caused
    <2>2. d \in Chain[b] /\ d \in Blocks
      BY <1>1, ChainTransitive
    <2> QED BY <1>2, <2>1, <2>2 DEF SoundIn
  <1>3. ASSUME SoundIn(fail, b), NEW a \in Chain[b] PROVE f[a] = {}
    BY <1>1, <1>3 DEF SoundIn
  <1> QED BY <1>2, <1>3 DEF SoundIn

(* The parts of the selection do not notice such flags. *)
LEMMA SelectionKept ==
    ASSUME Shape, NEW fail, Caused(fail), \A d \in Blocks : failed[d] \subseteq fail[d],
           \A d \in Blocks : FAILED_VALID \in fail[d] => FAILED_VALID \in failed[d]
    PROVE  /\ \A c \in Blocks : Reference(candidates, failed, seq, c) => Reference(candidates, fail, seq, c)
           /\ \A c \in Blocks : BestOf(candidates, failed, seq, c) => BestOf(candidates, fail, seq, c)
           /\ \A c \in Blocks : TipHolds(candidates, failed, seq, c) => TipHolds(candidates, fail, seq, c)
  <1>1. \A c \in Blocks : SoundIn(failed, c) <=> SoundIn(fail, c)
    BY SoundKept
  <1>2. candidates \subseteq Blocks /\ linked \subseteq Blocks
    BY DEF Shape, TypeOK
  <1>3. \A b \in linked : fail[b] = {} => failed[b] = {}
    BY <1>2
  <1> QED BY <1>1, <1>2, <1>3 DEF Reference, BestOf, TipHolds

(* The flags a rejected header sets lie above a FAILED_VALID block, so     *)
(* that nothing that was sound is touched.                                 *)
LEMMA SelectReject ==
    ASSUME Shape, Links, Causes, Selection, NEW b \in Blocks, b # Genesis, RejectHeader(b)
    PROVE  Selection'
  <1>1. /\ Causes'
        /\ \A d \in Blocks : failed[d] \subseteq failed'[d]
        /\ \A d \in Blocks : FAILED_VALID \in failed'[d] <=> FAILED_VALID \in failed[d]
    BY CausesReject
  <1>2. UNCHANGED <<linked, seq, candidates, tip, mostWork>>
    BY DEF RejectHeader
  <1>3. Caused(failed')
    BY <1>1 DEF Causes, Caused
  <1>4. /\ \A c \in Blocks : Reference(candidates, failed, seq, c) => Reference(candidates, failed', seq, c)
        /\ \A c \in Blocks : BestOf(candidates, failed, seq, c) => BestOf(candidates, failed', seq, c)
        /\ \A c \in Blocks : TipHolds(candidates, failed, seq, c) => TipHolds(candidates, failed', seq, c)
    BY <1>1, <1>3, SelectionKept
  <1>5. tip \in Blocks /\ candidates \subseteq Blocks
    BY DEF Shape, TypeOK
  <1>6. TipHolds(candidates, failed, seq, tip)'
    BY <1>2, <1>4, <1>5 DEF Selection, TipHolds
  <1>7. ASSUME NEW c \in Blocks
        PROVE  /\ Reference(candidates, failed, seq, c) => Reference(candidates, failed, seq, c)'
               /\ BestOf(candidates, failed, seq, c) => BestOf(candidates, failed, seq, c)'
    BY <1>2, <1>4 DEF Reference, BestOf
  <1>8. ASSUME NEW t \in Threads, mostWork[t] # Idle
        PROVE  \E r \in candidates' :
                /\ Reference(candidates, failed, seq, r)'
                /\ mostWork'[t] # Null => Aims(candidates, failed, seq, mostWork[t], r)'
    <2>1. PICK r \in candidates :
                /\ Reference(candidates, failed, seq, r)
                /\ mostWork[t] # Null => Aims(candidates, failed, seq, mostWork[t], r)
      BY <1>8 DEF Selection
    <2>2. Reference(candidates, failed, seq, r)'
      BY <1>5, <1>7, <2>1
    <2>3. ASSUME mostWork[t] # Null PROVE Aims(candidates, failed, seq, mostWork[t], r)'
      <3>1. mostWork[t] \in candidates /\ BestOf(candidates, failed, seq, mostWork[t])
            /\ ~Less(seq, mostWork[t], r)
        BY <2>1, <2>3 DEF Aims
      <3>2. BestOf(candidates, failed, seq, mostWork[t])'
        BY <1>2, <1>4, <1>5, <3>1 DEF BestOf
      <3> QED BY <1>2, <3>1, <3>2 DEF Aims
    <2> QED BY <1>2, <2>2, <2>3
  <1>9. ASSUME NEW t \in Threads, mostWork[t] = Idle
        PROVE  Reference(candidates, failed, seq, tip)' /\ BestOf(candidates, failed, seq, tip)'
    <2>1. Reference(candidates, failed, seq, tip) /\ BestOf(candidates, failed, seq, tip)
      BY <1>9 DEF Selection
    <2>2. Reference(candidates, failed', seq, tip) /\ BestOf(candidates, failed', seq, tip)
      BY <1>4, <1>5, <2>1
    <2> QED BY <1>2, <2>2 DEF Reference, BestOf
  <1> QED BY <1>2, <1>6, <1>8, <1>9 DEF Selection

(* When the only thread is idle, the tip is the reference. *)
LEMMA IdleSelection ==
    ASSUME OneThread, Selection, NEW t \in Threads, mostWork[t] = Idle
    PROVE  /\ TipHolds(candidates, failed, seq, tip)
           /\ Reference(candidates, failed, seq, tip) /\ BestOf(candidates, failed, seq, tip)
           /\ \A u \in Threads : u = t
  BY DEF Selection, OneThread

(* After a call that starts an activation the tip is still a reference. *)
LEMMA StartSelection ==
    ASSUME OneThread, Shape, NEW t \in Threads, mostWork' = [mostWork EXCEPT ![t] = Null],
           TipHolds(candidates, failed, seq, tip)', Reference(candidates, failed, seq, tip)'
    PROVE  Selection'
  <1>1. \A u \in Threads : mostWork'[u] = Null
    BY DEF OneThread, Shape, TypeOK
  <1>2. Null # Idle
    BY PointerAssumption
  <1>3. tip' \in candidates'
    BY DEF Reference
  <1> QED BY <1>1, <1>2, <1>3 DEF Selection

(* The blocks ReceivedBlockTransactions links become candidates unless     *)
(* they are worse than the tip.                                            *)
LEMMA SelectBlock ==
    ASSUME OneThread, Shape, Links, Causes, Selection, NEW t \in Threads, NEW b \in Blocks, b # Genesis,
           NEW fRequested \in BOOLEAN, ProcessNewBlock(t, b, fRequested)
    PROVE  Selection'
  <1>1. mostWork[t] = Idle /\ HeaderAccepted(b) /\ UNCHANGED tip
    BY DEF ProcessNewBlock
  <1>2. /\ TipHolds(candidates, failed, seq, tip)
        /\ Reference(candidates, failed, seq, tip) /\ BestOf(candidates, failed, seq, tip)
        /\ \A u \in Threads : u = t
    BY <1>1, IdleSelection
  <1>3. CASE ~WantsBlock(b, fRequested)
    <2>1. /\ mostWork' = [mostWork EXCEPT ![t] = Null]
          /\ UNCHANGED <<failed, linked, seq, candidates>>
      BY <1>3 DEF ProcessNewBlock
    <2>2. TipHolds(candidates, failed, seq, tip)' /\ Reference(candidates, failed, seq, tip)'
      BY <1>1, <1>2, <2>1 DEF TipHolds, Reference
    <2> QED BY <2>1, <2>2, StartSelection
  <1>4. CASE WantsBlock(b, fRequested) /\ b \in ContextFails
    <2>1. /\ failed' = Marked(failed, {b}, FAILED_VALID)
          /\ UNCHANGED <<linked, seq, candidates, mostWork>>
      BY <1>4 DEF ProcessNewBlock
    <2>2. b \notin linked /\ \A d \in Blocks \ {b} : failed'[d] = failed[d]
      <3>1. ~HasData(b)
        BY <1>4, SMTT(60) DEF WantsBlock, HasData, Shape, TypeOK, TREE, TRANSACTIONS, SCRIPTS
      <3> QED BY <2>1, <3>1 DEF Links, Marked
    <2>3. linked \in SUBSET Blocks /\ AncestorClosed(linked) /\ candidates \subseteq linked /\ tip \in linked
      BY DEF Links, Shape, TypeOK
    <2>4. ASSUME NEW c \in linked PROVE SoundIn(failed, c) <=> SoundIn(failed', c)
      <3>1. Chain[c] \subseteq linked
        BY <2>3, ChainLeast
      <3>2. \A a \in Chain[c] : failed'[a] = failed[a]
        BY <2>2, <2>3, <3>1
      <3> QED BY <3>2 DEF SoundIn
    <2>5. \A c \in linked : failed'[c] = failed[c]
      BY <2>2, <2>3
    <2>6. TipHolds(candidates, failed, seq, tip)'
      <3>1. TipHolds(candidates, failed', seq, tip)
        BY <1>2, <2>3, <2>4 DEF TipHolds
      <3> QED BY <1>1, <2>1, <3>1 DEF TipHolds
    <2>7. Reference(candidates, failed, seq, tip)'
      <3>1. Reference(candidates, failed', seq, tip)
        BY <1>2, <2>3, <2>4, <2>5 DEF Reference
      <3> QED BY <1>1, <2>1, <3>1 DEF Reference
    <2>8. BestOf(candidates, failed, seq, tip)'
      <3>1. BestOf(candidates, failed', seq, tip)
        BY <1>2, <2>3, <2>4 DEF BestOf
      <3> QED BY <1>1, <2>1, <3>1 DEF BestOf
    <2>9. \A u \in Threads : mostWork'[u] = Idle
      BY <1>1, <1>2, <2>1
    <2> QED BY <2>6, <2>7, <2>8, <2>9 DEF Selection
  <1>5. CASE WantsBlock(b, fRequested) /\ b \notin ContextFails
    <2>1. /\ ReceivedBlockTransactions(b) /\ UNCHANGED failed
          /\ mostWork' = [mostWork EXCEPT ![t] = Null]
      BY <1>5 DEF ProcessNewBlock
    <2>2. b \notin linked /\ b \notin unlinked
      <3>1. ~HasData(b)
        BY <1>5, SMTT(60) DEF WantsBlock, HasData, Shape, TypeOK, TREE, TRANSACTIONS, SCRIPTS
      <3> QED BY <3>1 DEF Links, UnlinkedExact
    <2>3. linked \in SUBSET Blocks /\ candidates \subseteq linked /\ tip \in linked /\ unlinked \cap linked = {}
          /\ unlinked \subseteq Blocks
      BY DEF Links, Shape, TypeOK, UnlinkedExact
    <2>4. CASE Parent[b] \notin linked
      <3>1. UNCHANGED <<linked, seq, candidates>>
        BY <2>1, <2>4 DEF ReceivedBlockTransactions
      <3>2. TipHolds(candidates, failed, seq, tip)' /\ Reference(candidates, failed, seq, tip)'
        BY <1>1, <1>2, <2>1, <3>1 DEF TipHolds, Reference
      <3> QED BY <2>1, <3>2, StartSelection
    <2>5. CASE Parent[b] \in linked
      <3> DEFINE new == NewlyLinked(b)
      <3>1. new \subseteq unlinked \cup {b}
        BY DEF NewlyLinked
      <3>2. PICK ord \in QueueOrders(new) :
               LET s == [d \in Blocks |-> IF d \in new THEN nextSeq + ord[d] ELSE seq[d]]
               IN  /\ linked' = linked \cup new
                   /\ unlinked' = Waiting(new)
                   /\ seq' = s
                   /\ nextSeq' = nextSeq + Cardinality(new)
                   /\ candidates' = candidates \cup {d \in new : ~Less(s, d, tip)}
                   /\ UNCHANGED stranded
        BY <2>1, <2>5 DEF ReceivedBlockTransactions
      <3>3. /\ linked' = linked \cup new
            /\ candidates' = candidates \cup {d \in new : ~Less(seq', d, tip)}
            /\ \A d \in linked : seq'[d] = seq[d]
        BY <3>1, <3>2, <2>2, <2>3
      <3> HIDE DEF new
      <3>4. \A c, d \in linked : Less(seq', c, d) <=> Less(seq, c, d)
        BY <2>3, <3>3, LessLocal
      <3>5. TipHolds(candidates, failed, seq, tip)'
        <4>1. \A c \in candidates' : ~Less(seq', c, tip)
          BY <1>2, <2>3, <3>3, <3>4 DEF TipHolds
        <4> QED BY <1>1, <1>2, <2>1, <4>1 DEF TipHolds
      <3>6. Reference(candidates, failed, seq, tip)'
        <4>1. ASSUME NEW d \in linked', failed[d] = {}, ~Less(seq', d, tip) PROVE d \in candidates'
          BY <1>2, <2>3, <3>3, <3>4, <4>1 DEF Reference
        <4> QED BY <1>1, <1>2, <2>1, <3>3, <4>1 DEF Reference
      <3> QED BY <2>1, <3>5, <3>6, StartSelection
    <2> QED BY <2>4, <2>5
  <1> QED BY <1>3, <1>4, <1>5

(* InvalidateBlock steps back to a sound tip, and finds again every block  *)
(* that is at least as good as it.                                         *)
LEMMA SelectInvalidate ==
    ASSUME OneThread, Shape, Links, Causes, Selection, NEW t \in Threads, NEW b \in RpcBlocks,
           InvalidateBlock(t, b)
    PROVE  Selection'
  <1> DEFINE inChain == b \in Chain[tip]
             newTip == IF inChain THEN Parent[b] ELSE tip
             children == IF inChain THEN Chain[tip] \ Chain[b] ELSE {}
             fail == Marked(Marked(failed, children, FAILED_CHILD), {b}, FAILED_VALID)
  <1>1. /\ mostWork[t] = Idle /\ tip' = newTip /\ failed' = fail
        /\ candidates' = (candidates \ (children \cup {b})) \cup Readded(fail, newTip)
        /\ mostWork' = [mostWork EXCEPT ![t] = Null]
        /\ UNCHANGED <<linked, seq>>
    BY DEF InvalidateBlock
  <1>2. TipHolds(candidates, failed, seq, tip)
    BY <1>1, IdleSelection
  <1>3. linked \in SUBSET Blocks /\ linked \subseteq known /\ AncestorClosed(linked) /\ tip \in linked
        /\ candidates \subseteq linked /\ seq \in Seqs /\ b \in Blocks /\ b # Genesis
    BY RpcAssumption DEF Links, Shape, TypeOK, Seqs
  <1>4. newTip \in Chain[tip] /\ b \notin Chain[newTip]
    <2>1. CASE inChain
      <3>1. Parent[b] \in Chain[tip] /\ Parent[b] \in Blocks
        BY <1>3, <2>1, ChainBlocks, TreeAssumption DEF AncestorClosed
      <3>2. Height[b] = Height[Parent[b]] + 1 /\ Height[Parent[b]] \in Nat
        BY <1>3, TreeAssumption
      <3>3. b \notin Chain[Parent[b]]
        BY <3>1, <3>2, ChainLower, SMTT(60)
      <3> QED BY <2>1, <3>1, <3>3
    <2>2. CASE ~inChain
      BY <1>3, <2>2, ChainBlocks
    <2> QED BY <2>1, <2>2
  <1>5. newTip \in Blocks /\ Chain[newTip] \subseteq Chain[tip] /\ newTip \in linked
    <2>1. Chain[tip] \subseteq linked
      BY <1>3, ChainLeast
    <2> QED BY <1>3, <1>4, <2>1, ChainTransitive
  <1>6. ASSUME NEW a \in Chain[newTip] PROVE a \notin children /\ a # b
    <2>1. a # b
      BY <1>4
    <2>2. CASE inChain
      <3>1. a \in Chain[b]
        BY <1>3, <2>2, ChainUnfold
      <3> QED BY <2>1, <3>1
    <2>3. CASE ~inChain
      BY <2>1, <2>3
    <2> QED BY <2>2, <2>3
  <1> HIDE DEF newTip, children
  <1>7. /\ \A d \in Blocks : d \notin children /\ d # b => fail[d] = failed[d]
        /\ \A d \in Blocks : d \in children \cup {b} => fail[d] # {}
    BY <1>3 DEF Marked
  <1> HIDE DEF fail
  <1>8. SoundIn(fail, newTip) /\ Connects(newTip)
    <2>1. \A a \in Chain[newTip] : a \in Blocks /\ failed[a] = {}
      BY <1>2, <1>5, ChainBlocks DEF TipHolds, SoundIn
    <2>2. Connects(newTip)
      BY <1>2, <1>5 DEF TipHolds, Connects
    <2> QED BY <1>6, <1>7, <2>1, <2>2 DEF SoundIn
  <1>9. ASSUME NEW d \in linked, fail[d] = {}, ~Less(seq, d, newTip) PROVE d \in candidates'
    <2>1. level[d] >= TRANSACTIONS
      BY DEF Links, HasData
    <2>2. d \in Readded(fail, newTip)
      BY <1>3, <1>9, <2>1 DEF Readded
    <2> QED BY <1>1, <2>2
  <1>10. newTip \in candidates'
    <2>1. ~Less(seq, newTip, newTip)
      BY <1>3, <1>5, LessOrder
    <2>2. fail[newTip] = {}
      BY <1>5, <1>8, ChainBlocks DEF SoundIn
    <2> QED BY <1>5, <1>9, <2>1, <2>2
  <1>11. ASSUME NEW c \in candidates' PROVE ~Less(seq, c, newTip)
    <2>1. CASE c \in Readded(fail, newTip)
      BY <2>1 DEF Readded
    <2>2. CASE c \in candidates
      <3>1. ~Less(seq, c, tip) /\ ~Less(seq, tip, newTip) /\ c \in Blocks /\ tip \in Blocks
        BY <1>2, <1>3, <1>4, <2>2, AncestorNotBetter DEF TipHolds
      <3> QED BY <1>3, <1>5, <3>1, NotLessTransitive
    <2> QED BY <1>1, <2>1, <2>2
  <1>12. TipHolds(candidates, failed, seq, tip)'
    BY <1>1, <1>8, <1>11 DEF TipHolds
  <1>13. Reference(candidates, failed, seq, tip)'
    BY <1>1, <1>8, <1>9, <1>10 DEF Reference
  <1> QED BY <1>1, <1>12, <1>13, StartSelection

(* ResetBlockFailureFlags finds every block it clears that is better than  *)
(* the tip.                                                                *)
LEMMA SelectReconsider ==
    ASSUME OneThread, CarefulOperator, Shape, Links, Causes, Selection,
           NEW t \in Threads, NEW b \in RpcBlocks, ReconsiderBlock(t, b)
    PROVE  Selection'
  <1>1. /\ mostWork[t] = Idle /\ b \in known
        /\ candidates' = candidates \cup
              {d \in Reset(b) \cap linked : level[d] >= TRANSACTIONS /\ Less(seq, tip, d)}
        /\ mostWork' = [mostWork EXCEPT ![t] = Null]
        /\ UNCHANGED <<linked, seq, tip>>
    BY DEF ReconsiderBlock
  <1>2. TipHolds(candidates, failed, seq, tip) /\ Reference(candidates, failed, seq, tip)
    BY <1>1, IdleSelection
  <1>3. \A d \in Blocks : failed'[d] = IF b \in Chain[d] THEN {} ELSE failed[d]
    BY CausesReconsider
  <1>4. linked \in SUBSET Blocks /\ linked \subseteq known /\ tip \in linked
        /\ candidates \subseteq linked /\ seq \in Seqs
    BY DEF Links, Shape, TypeOK, Seqs
  <1>5. SoundIn(failed', tip)
    BY <1>2, <1>3, <1>4, ChainBlocks DEF TipHolds, SoundIn
  <1>6. ASSUME NEW c \in candidates' PROVE ~Less(seq, c, tip)
    <2>1. CASE c \in candidates
      BY <1>2, <2>1 DEF TipHolds
    <2>2. CASE c \in linked /\ Less(seq, tip, c)
      BY <1>4, <2>2, LessOrder
    <2> QED BY <1>1, <2>1, <2>2
  <1>7. ASSUME NEW d \in linked, failed'[d] = {}, ~Less(seq, d, tip) PROVE d \in candidates'
    <2>1. CASE failed[d] = {}
      BY <1>1, <1>2, <1>7, <2>1 DEF Reference
    <2>2. CASE failed[d] # {}
      <3>1. d \in Reset(b) /\ level[d] >= TRANSACTIONS
        BY <1>3, <1>4, <1>7, <2>2 DEF Reset, IsValid, Failed, Links, HasData
      <3>2. d # tip
        BY <1>2, <1>4, <2>2, ChainBlocks DEF TipHolds, SoundIn
      <3>3. Less(seq, tip, d)
        BY <1>4, <1>7, <3>2, LessOrder
      <3> QED BY <1>1, <3>1, <3>3
    <2> QED BY <2>1, <2>2
  <1>8. TipHolds(candidates, failed, seq, tip)'
    BY <1>1, <1>2, <1>5, <1>6 DEF TipHolds
  <1>9. Reference(candidates, failed, seq, tip)'
    BY <1>1, <1>2, <1>5, <1>7 DEF Reference
  <1> QED BY <1>1, <1>8, <1>9, StartSelection

(* PreciousBlock changes the place of its block only, and never deletes    *)
(* the tip from the candidates.                                            *)
LEMMA SelectPrecious ==
    ASSUME OneThread, CarefulOperator, Shape, Links, Causes, Selection,
           NEW t \in Threads, NEW b \in RpcBlocks, PreciousBlock(t, b)
    PROVE  Selection' /\ ~aborted'
  <1> DEFINE rev == IF Work[tip] > lastPrecious THEN -1 ELSE reverseSeq
             s == [seq EXCEPT ![b] = rev]
             cand == IF IsValid(b, TRANSACTIONS) /\ b \in linked
                     THEN Pruned(candidates \cup {b}, s, tip)
                     ELSE candidates \ {b}
  <1>1. /\ mostWork[t] = Idle /\ b # tip /\ seq' = s /\ candidates' = cand
        /\ aborted' = (IsValid(b, TRANSACTIONS) /\ b \in linked /\ cand = {})
        /\ mostWork' = [mostWork EXCEPT ![t] = Null]
        /\ UNCHANGED <<failed, linked, tip>>
    BY DEF PreciousBlock
  <1>2. TipHolds(candidates, failed, seq, tip) /\ Reference(candidates, failed, seq, tip)
    BY <1>1, IdleSelection
  <1>3. linked \in SUBSET Blocks /\ tip \in linked /\ candidates \subseteq linked
        /\ seq \in Seqs /\ seq' \in Seqs
    <2>1. Shape' /\ Links'
      BY IndexPrecious
    <2> QED BY <2>1 DEF Links, Shape, TypeOK, Seqs
  <1>4. \A d \in Blocks \ {b} : seq'[d] = seq[d]
    BY <1>1, <1>3 DEF Seqs
  <1>5. \A d \in linked \ {b} : Less(seq', d, tip) <=> Less(seq, d, tip)
    BY <1>1, <1>3, <1>4, LessLocal
  <1>6. /\ cand \subseteq candidates \cup {b}
        /\ b \in cand => b \in linked /\ ~Less(seq', b, tip)
        /\ \A d \in candidates \ {b} : d \in cand
        /\ b \in linked /\ failed[b] = {} /\ ~Less(seq', b, tip) => b \in cand
    <2>1. CASE IsValid(b, TRANSACTIONS) /\ b \in linked
      <3>1. cand = {c \in candidates \cup {b} : ~Less(seq', c, tip)}
        BY <1>1, <2>1 DEF Pruned
      <3>2. \A d \in candidates \ {b} : ~Less(seq', d, tip)
        BY <1>2, <1>3, <1>5 DEF TipHolds
      <3> QED BY <2>1, <3>1, <3>2
    <2>2. CASE ~(IsValid(b, TRANSACTIONS) /\ b \in linked)
      <3>1. cand = candidates \ {b}
        BY <2>2
      <3>2. ~(b \in linked /\ failed[b] = {})
        BY <2>2 DEF IsValid, Failed, Links, HasData
      <3> QED BY <3>1, <3>2
    <2> QED BY <2>1, <2>2
  <1>7. tip \in cand
    BY <1>1, <1>2, <1>6 DEF Reference
  <1> HIDE DEF cand, s
  <1>8. TipHolds(candidates, failed, seq, tip)'
    <2>1. \A c \in cand : ~Less(seq', c, tip)
      BY <1>2, <1>3, <1>5, <1>6 DEF TipHolds
    <2> QED BY <1>1, <1>2, <2>1 DEF TipHolds
  <1>9. Reference(candidates, failed, seq, tip)'
    <2>1. ASSUME NEW d \in linked, failed[d] = {}, ~Less(seq', d, tip) PROVE d \in cand
      BY <1>2, <1>5, <1>6, <2>1 DEF Reference
    <2> QED BY <1>1, <1>2, <1>7, <2>1 DEF Reference
  <1>10. Selection'
    BY <1>1, <1>8, <1>9, StartSelection
  <1> QED BY <1>1, <1>7, <1>10

(* A turn of ActivateBestChain keeps the selection sound, and ends only at *)
(* the best sound candidate.                                               *)
LEMMA SelectActivate ==
    ASSUME OneThread, Shape, Links, Causes, Selection, ~aborted, NEW t \in Threads, ActivateBestChain(t)
    PROVE  Selection' /\ ~aborted'
  <1>1. mostWork[t] # Idle /\ UNCHANGED <<linked, seq>>
    BY TurnEffect
  <1>2. PICK r \in candidates :
            /\ Reference(candidates, failed, seq, r)
            /\ mostWork[t] # Null => Aims(candidates, failed, seq, mostWork[t], r)
    BY <1>1 DEF Selection
  <1>3. TipHolds(candidates, failed, seq, tip)
    BY DEF Selection
  <1>4. /\ Aims(Searched(t), Flagged(t), seq, Target(t), r)
        /\ Reference(Searched(t), Flagged(t), seq, r)
        /\ TipHolds(Searched(t), Flagged(t), seq, tip)
    BY <1>1, <1>2, <1>3, SearchAims
  <1>5. \A u \in Threads : u = t
    BY DEF OneThread
  <1>6. Searched(t) \in SUBSET candidates /\ Flagged(t) \in FailFlags
    BY FlaggedCaused DEF Searched, Causes
  <1>7. candidates \subseteq Blocks /\ tip \in Blocks /\ seq \in Seqs /\ mostWork \in [Threads -> Blocks \cup {Null, Idle}]
    BY DEF Shape, TypeOK, Seqs
  <1>8. Target(t) \in Blocks /\ r \in Blocks /\ Target(t) # Null
    BY <1>4, <1>6, <1>7, TreeAssumption DEF Aims
  <1>9. CASE Target(t) = tip
    <2>1. /\ mostWork' = [mostWork EXCEPT ![t] = Idle]
          /\ candidates' = Searched(t) /\ failed' = Flagged(t)
          /\ UNCHANGED <<tip, level, failedBlocks, aborted>>
      BY <1>9, TurnEffect
    <2>2. r = tip
      BY <1>4, <1>7, <1>8, <1>9, LessOrder DEF Aims, TipHolds, Reference
    <2>3. Reference(candidates, failed, seq, tip)'
      BY <1>1, <1>4, <2>1, <2>2 DEF Reference
    <2>4. BestOf(candidates, failed, seq, tip)'
      BY <1>1, <1>4, <1>9, <2>1 DEF Aims, BestOf
    <2>5. TipHolds(candidates, failed, seq, tip)'
      BY <1>1, <1>4, <2>1 DEF TipHolds
    <2>6. \A u \in Threads : mostWork'[u] = Idle
      BY <1>5, <1>7, <2>1
    <2> QED BY <2>1, <2>3, <2>4, <2>5, <2>6 DEF Selection
  <1>10. CASE Target(t) # tip
    <2> DEFINE target == Target(t)
    <2>1. /\ tip' = NewTip(target)
          /\ failed' = Marked(Flagged(t), Invalid(target), FAILED_VALID)
          /\ candidates' = Kept(target, Searched(t)) \ Invalid(target)
          /\ aborted' = (Connected(target) # {} /\ Kept(target, Searched(t)) = {})
          /\ mostWork' = [mostWork EXCEPT ![t] = NextMostWork(Invalid(target), NewTip(target), target)]
      BY <1>8, <1>10, TurnEffect
    <2> HIDE DEF target
    <2>2. Aims(Searched(t), Flagged(t), seq, target, r)
      BY <1>4 DEF target
    <2>3. /\ TipHolds(candidates', failed', seq, NewTip(target))
          /\ Kept(target, Searched(t)) # {}
          /\ \E q \in candidates' :
               /\ Reference(candidates', failed', seq, q)
               /\ NewTip(target) = target => q = target
               /\ Invalid(target) = {} => Aims(candidates', failed', seq, target, q)
      BY <1>4, <1>6, <2>1, <2>2, StepSelects, SMTT(60)
    <2>4. PICK q \in candidates' :
               /\ Reference(candidates', failed', seq, q)
               /\ NewTip(target) = target => q = target
               /\ Invalid(target) = {} => Aims(candidates', failed', seq, target, q)
      BY <2>3
    <2>5. TipHolds(candidates, failed, seq, tip)'
      BY <1>1, <2>1, <2>3 DEF TipHolds
    <2>6. Reference(candidates, failed, seq, q)'
      BY <1>1, <2>4 DEF Reference
    <2>7. Null # Idle /\ target # Idle /\ target # Null
      BY <1>8, PointerAssumption DEF target
    <2>8. \A u \in Threads : mostWork'[u] = NextMostWork(Invalid(target), NewTip(target), target)
      BY <1>5, <1>7, <2>1
    <2>9. CASE Invalid(target) # {}
      <3>1. \A u \in Threads : mostWork'[u] = Null
        BY <2>8, <2>9 DEF NextMostWork
      <3> QED BY <2>1, <2>3, <2>4, <2>5, <2>6, <2>7, <3>1 DEF Selection
    <2>10. CASE Invalid(target) = {} /\ NewTip(target) = target
      <3>1. \A u \in Threads : mostWork'[u] = Idle
        BY <2>8, <2>10 DEF NextMostWork
      <3>2. q = tip'
        BY <2>1, <2>4, <2>10
      <3>3. BestOf(candidates, failed, seq, tip)'
        BY <1>1, <2>1, <2>4, <2>10 DEF Aims, BestOf
      <3>4. Reference(candidates, failed, seq, tip)'
        BY <1>1, <2>4, <3>2 DEF Reference
      <3> QED BY <2>1, <2>3, <2>5, <3>1, <3>3, <3>4 DEF Selection
    <2>11. CASE Invalid(target) = {} /\ NewTip(target) # target
      <3>1. \A u \in Threads : mostWork'[u] = target
        BY <2>8, <2>11 DEF NextMostWork
      <3>2. Aims(candidates', failed', seq', target, q)
        BY <1>1, <2>4, <2>11
      <3>3. ASSUME NEW u \in Threads PROVE Aims(candidates, failed, seq, mostWork[u], q)'
        BY <3>1, <3>2 DEF Aims, BestOf
      <3> QED BY <2>1, <2>3, <2>4, <2>5, <2>6, <2>7, <3>1, <3>3 DEF Selection
    <2> QED BY <2>9, <2>10, <2>11
  <1> QED BY <1>9, <1>10

(* The inductive invariant of a node with one thread and a careful         *)
(* operator.                                                               *)
SelectionInv == Shape /\ Links /\ Causes /\ Selection /\ ~aborted

(* The genesis block is the best chain of a new node.                      *)
LEMMA SelectionInit ==
    ASSUME Init
    PROVE  SelectionInv
  <1>1. Shape /\ Links
    BY IndexInit
  <1>2. Causes /\ ~aborted
    BY DEF Init, Causes, Caused
  <1>3. Chain[Genesis] = {Genesis} /\ Genesis \in Blocks
    BY ChainUnfold, TreeAssumption
  <1>4. tip = Genesis /\ candidates = {Genesis} /\ linked = {Genesis} /\ (\A b \in Blocks : failed[b] = {})
        /\ \A t \in Threads : mostWork[t] = Idle
    BY DEF Init
  <1>5. SoundIn(failed, tip) /\ Connects(tip)
    BY <1>3, <1>4, GenesisConnects DEF SoundIn, Connects
  <1>6. seq \in Seqs
    BY <1>1 DEF Shape, TypeOK, Seqs
  <1>7. ~Less(seq, tip, tip)
    BY <1>3, <1>4, <1>6, LessOrder
  <1>8. TipHolds(candidates, failed, seq, tip) /\ Reference(candidates, failed, seq, tip)
        /\ BestOf(candidates, failed, seq, tip)
    BY <1>4, <1>5, <1>7 DEF TipHolds, Reference, BestOf
  <1> QED BY <1>1, <1>2, <1>4, <1>8 DEF SelectionInv, Selection

(* Every step keeps the invariant.                                         *)
LEMMA SelectionStep ==
    ASSUME OneThread, CarefulOperator, SelectionInv, [Next]_vars
    PROVE  SelectionInv'
  <1>1. Shape /\ Links /\ Causes /\ Selection /\ ~aborted
    BY DEF SelectionInv
  <1>2. Shape' /\ Links' /\ Causes'
    BY <1>1, IndexStep, CausesStep
  <1> SUFFICES Selection' /\ ~aborted'
    BY <1>2 DEF SelectionInv
  <1>3. ASSUME UNCHANGED <<failed, linked, seq, candidates, tip, mostWork, aborted>>
        PROVE  Selection' /\ ~aborted'
    BY <1>1, <1>3 DEF Selection, TipHolds, Reference, BestOf, Aims
  <1>4. CASE UNCHANGED vars
    BY <1>3, <1>4 DEF vars, index
  <1>5. CASE Next
    <2>1. ASSUME NEW b \in Blocks \ {Genesis}, ProcessNewBlockHeaders(b) PROVE Selection' /\ ~aborted'
      BY <1>3, <2>1 DEF ProcessNewBlockHeaders
    <2>2. ASSUME NEW b \in Blocks \ {Genesis}, RejectHeader(b) PROVE Selection' /\ ~aborted'
      BY <1>1, <2>2, SelectReject, CausesReject
    <2>3. ASSUME NEW t \in Threads, NEW b \in Blocks \ {Genesis}, NEW r \in BOOLEAN, ProcessNewBlock(t, b, r)
          PROVE  Selection' /\ ~aborted'
      <3>1. aborted' = aborted
        BY <2>3 DEF ProcessNewBlock
      <3> QED BY <1>1, <2>3, <3>1, SelectBlock
    <2>4. ASSUME NEW t \in Threads, NEW b \in RpcBlocks, InvalidateBlock(t, b) PROVE Selection' /\ ~aborted'
      <3>1. aborted' = aborted
        BY <2>4 DEF InvalidateBlock
      <3> QED BY <1>1, <2>4, <3>1, SelectInvalidate
    <2>5. ASSUME NEW t \in Threads, NEW b \in RpcBlocks, ReconsiderBlock(t, b) PROVE Selection' /\ ~aborted'
      <3>1. aborted' = aborted
        BY <2>5 DEF ReconsiderBlock
      <3> QED BY <1>1, <2>5, <3>1, SelectReconsider
    <2>6. ASSUME NEW t \in Threads, NEW b \in RpcBlocks, PreciousBlock(t, b) PROVE Selection' /\ ~aborted'
      BY <1>1, <2>6, SelectPrecious
    <2>7. ASSUME NEW t \in Threads, ActivateBestChain(t) PROVE Selection' /\ ~aborted'
      BY <1>1, <2>7, SelectActivate
    <2> QED BY <1>5, <2>1, <2>2, <2>3, <2>4, <2>5, <2>6, <2>7 DEF Next
  <1> QED BY <1>4, <1>5

(* With a cause for every flag, a chain without a FAILED_VALID block has   *)
(* no failure flag at all.                                                 *)
LEMMA SoundWithoutInvalid ==
    ASSUME Causes, NEW b \in Blocks, ~HasInvalidAncestor(b)
    PROVE  SoundIn(failed, b)
  <1> SUFFICES ASSUME NEW a \in Chain[b], failed[a] # {} PROVE FALSE
    BY DEF SoundIn
  <1>1. PICK d \in Chain[a] : FAILED_VALID \in failed[d]
    BY ChainBlocks DEF Causes, Caused
  <1>2. d \in Chain[b]
    BY ChainTransitive
  <1> QED BY <1>1, <1>2 DEF HasInvalidAncestor

(* For every tree of blocks, every choice of invalid ones and every order  *)
(* of arrivals and operator calls, a node whose validation is called by    *)
(* one thread fails no assert of AcceptBlockHeader or                      *)
(* PruneBlockIndexCandidates, keeps setBlockIndexCandidates as             *)
(* CheckBlockIndex wants it, never has a failed block in the active chain, *)
(* and rests only on the best chain that has not failed (ActivateBestChain,*)
(* InvalidateBlock, ResetBlockFailureFlags, PreciousBlock).  The operator  *)
(* reconsiders only blocks with no failed ancestor and does not call       *)
(* preciousblock on the tip.                                               *)
THEOREM BestChainAlwaysActive ==
    ASSUME OneThread, CarefulOperator
    PROVE  Spec => [](NoAbort /\ CandidatesExact /\ BestChainActive)
  <1>1. Init => SelectionInv
    BY SelectionInit
  <1>2. SelectionInv /\ [Next]_vars => SelectionInv'
    BY SelectionStep
  <1>3. SelectionInv => NoAbort /\ CandidatesExact /\ BestChainActive
    <2> SUFFICES ASSUME SelectionInv PROVE NoAbort /\ CandidatesExact /\ BestChainActive
      OBVIOUS
    <2>1. Shape /\ Links /\ Causes /\ Selection /\ ~aborted
      BY DEF SelectionInv
    <2>2. candidates \subseteq linked /\ linked \subseteq Blocks /\ tip \in Blocks
      BY <2>1 DEF Links, Shape, TypeOK
    <2>3. TipHolds(candidates, failed, seq, tip)
      BY <2>1 DEF Selection
    <2>4. Quiet => Reference(candidates, failed, seq, tip) /\ BestOf(candidates, failed, seq, tip)
      BY <2>1 DEF Quiet, Selection, OneThread
    <2>5. ASSUME NEW b \in linked, ~HasInvalidAncestor(b) PROVE SoundIn(failed, b) /\ failed[b] = {}
      BY <2>1, <2>2, <2>5, SoundWithoutInvalid, ChainBlocks DEF SoundIn
    <2>6. CandidatesExact
      BY <2>2, <2>3, <2>4, <2>5 DEF CandidatesExact, TipHolds, Reference
    <2>7. ASSUME Quiet, NEW c \in linked, ~HasInvalidAncestor(c), Less(seq, tip, c) PROVE FALSE
      <3>1. ~Less(seq, c, tip)
        BY <2>1, <2>2, <2>7, LessOrder DEF Shape, TypeOK, Seqs
      <3>2. c \in candidates
        BY <2>4, <2>5, <2>7, <3>1 DEF Reference
      <3> QED BY <2>4, <2>5, <2>7, <3>2 DEF BestOf
    <2>8. BestChainActive
      BY <2>3, <2>7 DEF BestChainActive, TipHolds, SoundIn, Failed
    <2> QED BY <2>1, <2>6, <2>8 DEF NoAbort
  <1> QED BY <1>1, <1>2, <1>3, PTL DEF Spec
=============================================================================
