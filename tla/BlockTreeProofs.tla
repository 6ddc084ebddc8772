------------------------- MODULE BlockTreeProofs -------------------------
(***************************************************************************)
(* What the walks along pprev reach: the laws of Chain that the proofs     *)
(* about the block index use.                                              *)
(***************************************************************************)
EXTENDS BlockTree, NaturalsInduction, WellFoundedInduction, TLAPS

USE ZenonT(60)

(* A set of blocks that a walk along pprev does not leave. *)
AncestorClosed(S) == \A c \in S : c # Genesis => Parent[c] \in S

(* A set of numbers has a least one. *)
LEMMA LeastNumber ==
    ASSUME NEW T \in SUBSET Nat, T # {}
    PROVE  \E x \in T : \A y \in T : x <= y
  <1>1. PICK x \in T : \A y \in T : ~(<<y, x>> \in OpToRel(<, Nat))
    BY WFMin, NatLessThanWellFounded
  <1>2. \A y \in T : ~(y < x)
    BY <1>1 DEF OpToRel
  <1>3. \A y \in T : x <= y
    BY <1>2, SMTT(60)
  <1> QED BY <1>3

(* A set of blocks has a lowest one. *)
LEMMA LowestBlock ==
    ASSUME NEW S \in SUBSET Blocks, S # {}
    PROVE  \E b \in S : \A c \in S : Height[b] <= Height[c]
  <1> DEFINE T == {Height[b] : b \in S}
  <1>1. T \in SUBSET Nat /\ T # {}
    BY TreeAssumption, SMTT(60)
  <1> HIDE DEF T
  <1>2. PICK x \in T : \A y \in T : x <= y
    BY <1>1, LeastNumber
  <1> QED BY <1>2 DEF T

(* The recursion of Chain has a solution, so Chain obeys it: one more step *)
(* along pprev adds the block itself.                                      *)
LEMMA ChainUnfold ==
    /\ Chain[Null] = {}
    /\ \A b \in Blocks : Chain[b] = Chain[Parent[b]] \cup {b}
  <1> DEFINE D == Blocks \cup {Null}
             Up(b) == {a \in Blocks : \A S \in SUBSET Blocks :
                        b \in S /\ AncestorClosed(S) => a \in S}
             g == [b \in D |-> IF b = Null THEN {} ELSE Up(b)]
             Solves(u) == u = [b \in D |-> IF b = Null THEN {} ELSE u[Parent[b]] \cup {b}]
  <1>1. ASSUME NEW b \in Blocks PROVE g[b] = g[Parent[b]] \cup {b}
    <2>1. CASE b = Genesis
      <3>1. AncestorClosed({Genesis})
        BY DEF AncestorClosed
      <3>2. Up(b) = {b}
        BY <2>1, <3>1
      <3>3. g[Parent[b]] = {} /\ g[b] = Up(b)
        BY <2>1, TreeAssumption
      <3> QED BY <3>2, <3>3
    <2>2. CASE b # Genesis
      <3>1. Parent[b] \in Blocks /\ Parent[b] # Null /\ b # Null
        BY <2>2, TreeAssumption
      <3>2. ASSUME NEW a \in Up(b), a # b PROVE a \in Up(Parent[b])
        <4> SUFFICES ASSUME NEW S \in SUBSET Blocks, Parent[b] \in S, AncestorClosed(S)
                     PROVE  a \in S
          BY <3>2
        <4>1. AncestorClosed(S \cup {b})
          BY DEF AncestorClosed
        <4>2. a \in S \cup {b}
          BY <4>1, <3>2
        <4> QED BY <4>2, <3>2
      <3>3. ASSUME NEW a \in Up(Parent[b]) PROVE a \in Up(b)
        BY <3>3, <2>2 DEF AncestorClosed
      <3>4. b \in Up(b)
        OBVIOUS
      <3>5. g[b] = Up(b) /\ g[Parent[b]] = Up(Parent[b])
        BY <3>1
      <3> QED BY <3>2, <3>3, <3>4, <3>5
    <2> QED BY <2>1, <2>2
  <1>2. Solves(g)
    BY <1>1
  <1> HIDE DEF g
  <1>3. Solves(CHOOSE u : Solves(u))
    BY <1>2
  <1>4. Chain = [b \in D |-> (CHOOSE u : Solves(u))[b]]
    BY DEF Chain
  <1> DEFINE f == CHOOSE u : Solves(u)
  <1>5. f = [b \in D |-> IF b = Null THEN {} ELSE f[Parent[b]] \cup {b}]
    BY <1>3
  <1>6. Chain = [b \in D |-> f[b]]
    BY <1>4
  <1> HIDE DEF f
  <1>7. Chain[Null] = {}
    BY <1>5, <1>6
  <1>8. ASSUME NEW b \in Blocks PROVE Chain[b] = Chain[Parent[b]] \cup {b}
    <2>1. b # Null /\ Parent[b] \in D
      BY TreeAssumption
    <2>2. f[b] = f[Parent[b]] \cup {b}
      BY <2>1, <1>5
    <2> QED BY <2>1, <2>2, <1>6
  <1> QED BY <1>7, <1>8

(* A walk along pprev stays in every set that is closed under pprev, and   *)
(* visits only such a set.                                                 *)
LEMMA ChainLeast ==
    ASSUME NEW S \in SUBSET Blocks, AncestorClosed(S), NEW b \in S
    PROVE  Chain[b] \subseteq S
  <1> DEFINE bad == {x \in S : ~(Chain[x] \subseteq S)}
  <1> SUFFICES ASSUME bad # {} PROVE FALSE
    OBVIOUS
  <1>1. bad \in SUBSET Blocks
    OBVIOUS
  <1> HIDE DEF bad
  <1>2. PICK x \in bad : \A y \in bad : Height[x] <= Height[y]
    BY <1>1, LowestBlock
  <1>3. x \in S /\ x \in Blocks /\ ~(Chain[x] \subseteq S)
    BY DEF bad
  <1>4. CASE x = Genesis
    BY <1>3, <1>4, ChainUnfold, TreeAssumption, SMTT(60)
  <1>5. CASE x # Genesis
    <2>1. Parent[x] \in S
      BY <1>3, <1>5 DEF AncestorClosed
    <2>2. Parent[x] \in bad
      BY <2>1, <1>3, ChainUnfold, SMTT(60) DEF bad
    <2>3. Height[x] = Height[Parent[x]] + 1 /\ Height[Parent[x]] \in Nat
      BY <1>3, <1>5, TreeAssumption
    <2> QED BY <1>2, <2>2, <2>3, SMTT(60)
  <1> QED BY <1>4, <1>5

(* A chain holds blocks of the tree, its own end and the genesis block,    *)
(* and with a block that block's parent.                                   *)
LEMMA ChainBlocks ==
    ASSUME NEW b \in Blocks
    PROVE  /\ Chain[b] \subseteq Blocks /\ b \in Chain[b] /\ Genesis \in Chain[b]
           /\ AncestorClosed(Chain[b])
  <1>1. AncestorClosed(Blocks)
    BY TreeAssumption DEF AncestorClosed
  <1>2. Chain[b] \subseteq Blocks /\ b \in Chain[b]
    BY <1>1, ChainLeast, ChainUnfold
  <1> DEFINE S == {x \in Blocks : Genesis \in Chain[x] /\ AncestorClosed(Chain[x])}
             bad == Blocks \ S
  <1>3. CASE bad # {}
    <2>1. bad \in SUBSET Blocks
      OBVIOUS
    <2> HIDE DEF bad
    <2>2. PICK x \in bad : \A y \in bad : Height[x] <= Height[y]
      BY <1>3, <2>1, LowestBlock
    <2>3. x \in Blocks /\ x \notin S
      BY DEF bad
    <2>4. CASE x = Genesis
      BY <2>3, <2>4, ChainUnfold, TreeAssumption, SMTT(60) DEF AncestorClosed
    <2>5. CASE x # Genesis
      <3>1. Parent[x] \in Blocks /\ Height[x] = Height[Parent[x]] + 1 /\ Height[Parent[x]] \in Nat
        BY <2>3, <2>5, TreeAssumption
      <3>2. Parent[x] \in S
        BY <2>2, <3>1, SMTT(60) DEF bad
      <3>3. Chain[x] = Chain[Parent[x]] \cup {x} /\ Parent[x] \in Chain[Parent[x]]
        BY <2>3, <3>1, ChainUnfold
      <3>4. x \in S
        BY <2>3, <3>2, <3>3 DEF AncestorClosed
      <3> QED BY <2>3, <3>4
    <2> QED BY <2>4, <2>5
  <1>4. CASE bad = {}
    BY <1>2, <1>4
  <1> QED BY <1>3, <1>4

(* The ancestors of an ancestor are ancestors. *)
LEMMA ChainTransitive ==
    ASSUME NEW b \in Blocks, NEW a \in Chain[b]
    PROVE  a \in Blocks /\ Chain[a] \subseteq Chain[b]
  BY ChainBlocks, ChainLeast

(* Proper ancestors are lower, and are ancestors of the parent. *)
LEMMA ChainLower ==
    ASSUME NEW b \in Blocks, NEW a \in Chain[b], a # b
    PROVE  /\ Height[a] < Height[b]
           /\ b # Genesis /\ Parent[b] \in Blocks /\ a \in Chain[Parent[b]]
  <1>1. b # Genesis
    BY ChainUnfold, TreeAssumption, SMTT(60)
  <1>2. Parent[b] \in Blocks /\ a \in Chain[Parent[b]]
    BY <1>1, ChainUnfold, TreeAssumption, SMTT(60)
  <1> DEFINE S == {x \in Blocks : Height[x] <= Height[Parent[b]]}
  <1>3. AncestorClosed(S)
    <2> SUFFICES ASSUME NEW c \in S, c # Genesis PROVE Parent[c] \in S
      BY DEF AncestorClosed
    <2>1. Parent[c] \in Blocks /\ Height[c] = Height[Parent[c]] + 1
      BY TreeAssumption
    <2>2. Height[c] \in Nat /\ Height[Parent[c]] \in Nat /\ Height[Parent[b]] \in Nat
      BY <1>2, <2>1, TreeAssumption
    <2> QED BY <2>1, <2>2, SMTT(60)
  <1>4. Parent[b] \in S
    BY <1>2, TreeAssumption, SMTT(60)
  <1>5. S \in SUBSET Blocks
    OBVIOUS
  <1> HIDE DEF S
  <1>6. a \in S
    BY <1>2, <1>3, <1>4, <1>5, ChainLeast
  <1>7. Height[a] <= Height[Parent[b]] /\ a \in Blocks
    BY <1>6 DEF S
  <1>8. Height[b] = Height[Parent[b]] + 1 /\ Height[Parent[b]] \in Nat /\ Height[a] \in Nat
    BY <1>1, <1>2, <1>7, TreeAssumption
  <1> QED BY <1>1, <1>2, <1>7, <1>8, SMTT(60)

(* Of two ancestors of a block, the lower is an ancestor of the higher. *)
LEMMA ChainTotal ==
    ASSUME NEW b \in Blocks, NEW a \in Chain[b], NEW c \in Chain[b], Height[a] <= Height[c]
    PROVE  a \in Chain[c]
  <1> DEFINE S == {x \in Blocks : x \in Chain[c] \/ c \in Chain[x]}
  <1>1. c \in Blocks /\ a \in Blocks
    BY ChainBlocks
  <1>3. b \in S
    OBVIOUS
  <1>4. AncestorClosed(S)
    <2> SUFFICES ASSUME NEW x \in S, x # Genesis PROVE Parent[x] \in S
      BY DEF AncestorClosed
    <2>1. Parent[x] \in Blocks
      BY TreeAssumption
    <2>2. CASE x \in Chain[c]
      BY <2>1, <2>2, <1>1, ChainBlocks DEF AncestorClosed
    <2>3. CASE c \in Chain[x] /\ c # x
      BY <2>1, <2>3, ChainLower
    <2>4. CASE c = x
      BY <2>2, <2>4, <1>1, ChainBlocks
    <2> QED BY <2>2, <2>3, <2>4
  <1>5. S \in SUBSET Blocks
    OBVIOUS
  <1>6. a \in S
    <2> HIDE DEF S
    <2> QED BY <1>3, <1>4, <1>5, ChainLeast
  <1>7. CASE c \in Chain[a] /\ a # c
    <2>1. Height[c] < Height[a]
      BY <1>1, <1>7, ChainLower
    <2>2. Height[c] \in Nat /\ Height[a] \in Nat
      BY <1>1, TreeAssumption
    <2> QED BY <2>1, <2>2, SMTT(60)
  <1> QED BY <1>1, <1>6, <1>7, ChainBlocks

(* Among ancestors of one block there is a highest. *)
LEMMA HighestAncestor ==
    ASSUME NEW b \in Blocks, NEW S \in SUBSET Chain[b], S # {}
    PROVE  \E h \in S : \A c \in S : Height[c] <= Height[h]
  <1> DEFINE above == {x \in Blocks : S \subseteq Chain[x]}
  <1>1. S \subseteq Blocks /\ b \in above /\ above \in SUBSET Blocks
    BY ChainBlocks
  <1> HIDE DEF above
  <1>2. PICK x \in above : \A y \in above : Height[x] <= Height[y]
    BY <1>1, LowestBlock
  <1>3. x \in Blocks /\ S \subseteq Chain[x]
    BY DEF above
  <1>4. ASSUME x \notin S PROVE FALSE
    <2>1. PICK a \in S : a # x
      BY <1>4
    <2>2. Parent[x] \in Blocks /\ x # Genesis
      BY <1>3, <2>1, ChainLower
    <2>3. S \subseteq Chain[Parent[x]]
      BY <1>3, <1>4, ChainLower
    <2>4. Parent[x] \in above
      BY <2>2, <2>3 DEF above
    <2>5. Height[x] = Height[Parent[x]] + 1 /\ Height[Parent[x]] \in Nat
      BY <1>3, <2>2, TreeAssumption
    <2> QED BY <1>2, <2>4, <2>5, SMTT(60)
  <1>5. \A c \in S : Height[c] <= Height[x]
    <2> SUFFICES ASSUME NEW c \in S, c # x PROVE Height[c] <= Height[x]
      BY <1>3, TreeAssumption, SMTT(60)
    <2>1. Height[c] < Height[x]
      BY <1>3, ChainLower
    <2> QED BY <2>1, <1>1, <1>3, TreeAssumption, SMTT(60)
  <1> QED BY <1>4, <1>5

(* The fork of two chains is on both, and no common block is higher. *)
LEMMA ForkIsCommon ==
    ASSUME NEW a \in Blocks, NEW b \in Blocks
    PROVE  /\ LastCommonAncestor(a, b) \in Chain[a] \cap Chain[b]
           /\ Chain[a] \cap Chain[b] = Chain[LastCommonAncestor(a, b)]
  <1> DEFINE S == Chain[a] \cap Chain[b]
             f == CHOOSE c \in S : \A d \in S : Height[d] <= Height[c]
  <1>1. LastCommonAncestor(a, b) = f
    BY TreeAssumption DEF LastCommonAncestor
  <1>2. S \in SUBSET Chain[a] /\ S # {}
    BY ChainBlocks
  <1> HIDE DEF S
  <1>3. \E h \in S : \A c \in S : Height[c] <= Height[h]
    BY <1>2, HighestAncestor
  <1>4. f \in S /\ \A d \in S : Height[d] <= Height[f]
    BY <1>3
  <1> HIDE DEF f
  <1>5. Chain[f] \subseteq S
    BY <1>4, ChainTransitive DEF S
  <1>6. S \subseteq Chain[f]
    BY <1>4, ChainTotal DEF S
  <1> QED BY <1>1, <1>4, <1>5, <1>6 DEF S

==========================================================================
