------------------------- MODULE ChainstateProofs -------------------------
(***************************************************************************)
(* Proofs about the coin database through flushes, crashes and replays.    *)
(***************************************************************************)
EXTENDS Chainstate, BlockTreeProofs

USE ZenonT(60)

-----------------------------------------------------------------------------
(* What the loops over the transactions of a block compute *)

(* Two loops that start alike and step alike end alike. *)
LEMMA SameLoop ==
    ASSUME NEW n \in Nat, NEW f, NEW g, f[0] = g[0],
           \A i \in 1..n : f[i - 1] = g[i - 1] => f[i] = g[i]
    PROVE  f[n] = g[n]
  <1> DEFINE bad == {i \in 0..n : f[i] # g[i]}
  <1> SUFFICES ASSUME bad # {} PROVE FALSE
    BY SMTT(60)
  <1>1. bad \in SUBSET Nat
    BY SMTT(60)
  <1> HIDE DEF bad
  <1>2. PICK i \in bad : \A j \in bad : i <= j
    BY <1>1, LeastNumber
  <1>3. i \in 0..n /\ f[i] # g[i]
    BY DEF bad
  <1>4. i \in 1..n /\ i - 1 \in 0..n /\ ~(i <= i - 1)
    BY <1>3, SMTT(60)
  <1>5. i - 1 \notin bad
    BY <1>2, <1>4
  <1> QED BY <1>3, <1>4, <1>5 DEF bad

(* A function on the outpoints. *)
IsMap(u) == u = [o \in OutPoints |-> u[o]]

(* The transactions of a block are a sequence of sets of outpoints. *)
LEMMA Transactions ==
    ASSUME NEW b \in Blocks
    PROVE  /\ Len(Vtx[b]) \in Nat /\ DOMAIN Vtx[b] = 1..Len(Vtx[b])
           /\ \A i \in 1..Len(Vtx[b]) : Vtx[b][i].adds \subseteq OutPoints /\ Vtx[b][i].spends \subseteq OutPoints
           /\ \A i, j \in 1..Len(Vtx[b]) : \A o :
                o \in Vtx[b][i].adds /\ o \in Vtx[b][j].spends => i < j
  <1>1. Vtx[b] \in Seq([spends : SUBSET OutPoints, adds : SUBSET OutPoints])
    BY BlocksAssumption
  <1>2. Len(Vtx[b]) \in Nat /\ DOMAIN Vtx[b] = 1..Len(Vtx[b])
    BY <1>1, SMTT(60)
  <1>3. ASSUME NEW i \in 1..Len(Vtx[b])
        PROVE  Vtx[b][i].adds \subseteq OutPoints /\ Vtx[b][i].spends \subseteq OutPoints
    <2> DEFINE Tx == [spends : SUBSET OutPoints, adds : SUBSET OutPoints]
    <2>1. Vtx[b] \in Seq(Tx)
      BY <1>1
    <2> HIDE DEF Tx
    <2>2. Vtx[b][i] \in Tx
      BY <2>1, SMTT(60)
    <2> QED BY <2>2 DEF Tx
  <1>4. \A i, j \in 1..Len(Vtx[b]) : \A o :
            o \in Vtx[b][i].adds /\ o \in Vtx[b][j].spends => i < j
    <2>1. \A i, j \in DOMAIN Vtx[b] : Vtx[b][i].adds \cap Vtx[b][j].spends # {} => i < j
      BY BlocksAssumption
    <2> QED BY <1>2, <2>1
  <1> QED BY <1>2, <1>3, <1>4

(* RollforwardBlock leaves a coin of the block's height for every outpoint *)
(* the block creates and does not spend, none for those it spends, and the *)
(* other outpoints alone: the order of the transactions does not show.     *)
LEMMA RollforwardBlockLaw ==
    ASSUME NEW b \in Blocks, NEW u, IsMap(u)
    PROVE  RollforwardBlock(b, u) =
             [o \in OutPoints |-> IF o \in Spends(b) THEN Spent
                                  ELSE IF o \in Adds(b) THEN Height[b] ELSE u[o]]
  <1> DEFINE n == Len(Vtx[b])
             spent(i) == UNION {Vtx[b][j].spends : j \in 1..i}
             added(i) == UNION {Vtx[b][j].adds : j \in 1..i}
             g == [i \in 0..n |-> [o \in OutPoints |->
                    IF o \in spent(i) THEN Spent ELSE IF o \in added(i) THEN Height[b] ELSE u[o]]]
             Step(i, x) == [o \in OutPoints |->
                    IF o \in Vtx[b][i].adds THEN Height[b]
                    ELSE IF o \in Vtx[b][i].spends THEN Spent
                    ELSE x[o]]
             Solves(h) == h = [i \in 0..n |-> IF i = 0 THEN u ELSE Step(i, h[i - 1])]
             f == CHOOSE h : Solves(h)
  <1>1. n \in Nat /\ DOMAIN Vtx[b] = 1..n
    BY Transactions
  <1>2. ASSUME NEW i \in 1..n
        PROVE  /\ i - 1 \in 0..n /\ i \in 0..n /\ i # 0
               /\ spent(i) = spent(i - 1) \cup Vtx[b][i].spends
               /\ added(i) = added(i - 1) \cup Vtx[b][i].adds
               /\ Vtx[b][i].adds \cap spent(i) = {}
    <2>1. i - 1 \in 0..n /\ i \in 0..n /\ i # 0 /\ 1..i = (1..(i - 1)) \cup {i} /\ 1..i \subseteq 1..n
      BY <1>1, SMTT(60)
    <2>2. \A j \in 1..i : ~(i < j)
      BY SMTT(60)
    <2>3. Vtx[b][i].adds \cap spent(i) = {}
      BY <2>1, <2>2, Transactions, SMTT(60)
    <2> QED BY <2>1, <2>3
  <1>3. g[0] = u
    <2>1. spent(0) = {} /\ added(0) = {} /\ 0 \in 0..n
      BY <1>1, SMTT(60)
    <2>2. u = [o \in OutPoints |-> u[o]]
      BY DEF IsMap
    <2> QED BY <2>1, <2>2
  <1>4. ASSUME NEW i \in 1..n PROVE g[i] = Step(i, g[i - 1])
    <2> HIDE DEF spent, added
    <2>1. g[i - 1] = [o \in OutPoints |-> IF o \in spent(i - 1) THEN Spent ELSE IF o \in added(i - 1) THEN Height[b] ELSE u[o]]
      BY <1>2
    <2>2. g[i] = [o \in OutPoints |-> IF o \in spent(i) THEN Spent ELSE IF o \in added(i) THEN Height[b] ELSE u[o]]
      BY <1>2
    <2> HIDE DEF g
    <2> QED BY <1>2, <2>1, <2>2
  <1> HIDE DEF Step
  <1>5. Solves(g)
    <2>1. \A i \in 0..n : i # 0 => i \in 1..n
      BY <1>1, SMTT(60)
    <2>2. g = [i \in 0..n |-> g[i]]
      OBVIOUS
    <2> HIDE DEF g
    <2> QED BY <1>3, <1>4, <2>1, <2>2
  <1> HIDE DEF g
  <1>6. Solves(f)
    BY <1>5
  <1>7. RollforwardBlock(b, u) = f[n]
    BY DEF RollforwardBlock, Step
  <1> HIDE DEF f
  <1>8. f[0] = u /\ \A i \in 1..n : f[i] = Step(i, f[i - 1])
    <2>1. 0 \in 0..n
      BY <1>1, SMTT(60)
    <2> QED BY <1>2, <1>6, <2>1
  <1>9. \A i \in 1..n : f[i - 1] = g[i - 1] => f[i] = g[i]
    BY <1>4, <1>8
  <1>10. f[n] = g[n]
    BY <1>1, <1>3, <1>8, <1>9, SameLoop
  <1>11. spent(n) = Spends(b) /\ added(n) = Adds(b)
    BY <1>1 DEF Spends, Adds
  <1>12. n \in 0..n
    BY <1>1, SMTT(60)
  <1> HIDE DEF n, spent, added
  <1>13. g[n] = [o \in OutPoints |->
                    IF o \in spent(n) THEN Spent ELSE IF o \in added(n) THEN Height[b] ELSE u[o]]
    BY <1>12 DEF g
  <1> QED BY <1>7, <1>10, <1>11, <1>13

(* DisconnectBlock leaves no coin for the outpoints the block creates, the *)
(* coin of the undo data for the others it spends.                         *)
LEMMA DisconnectBlockLaw ==
    ASSUME NEW b \in Blocks, NEW u, IsMap(u), NEW undo
    PROVE  DisconnectBlock(b, u, undo) =
             [o \in OutPoints |-> IF o \in Adds(b) THEN Spent
                                  ELSE IF o \in Spends(b) THEN undo[o] ELSE u[o]]
  <1> DEFINE n == Len(Vtx[b])
             spent(i) == UNION {Vtx[b][j].spends : j \in (n + 1 - i)..n}
             added(i) == UNION {Vtx[b][j].adds : j \in (n + 1 - i)..n}
             g == [i \in 0..n |-> [o \in OutPoints |->
                    IF o \in added(i) THEN Spent ELSE IF o \in spent(i) THEN undo[o] ELSE u[o]]]
             Step(i, x) == LET tx == Vtx[b][n + 1 - i]
                           IN  [o \in OutPoints |->
                                    IF o \in tx.spends THEN undo[o]
                                    ELSE IF o \in tx.adds THEN Spent
                                    ELSE x[o]]
             Solves(h) == h = [i \in 0..n |-> IF i = 0 THEN u ELSE Step(i, h[i - 1])]
             f == CHOOSE h : Solves(h)
  <1>1. n \in Nat /\ DOMAIN Vtx[b] = 1..n
    BY Transactions
  <1>2. ASSUME NEW i \in 1..n
        PROVE  /\ i - 1 \in 0..n /\ i \in 0..n /\ i # 0
               /\ spent(i) = spent(i - 1) \cup Vtx[b][n + 1 - i].spends
               /\ added(i) = added(i - 1) \cup Vtx[b][n + 1 - i].adds
               /\ Vtx[b][n + 1 - i].spends \cap added(i) = {}
    <2> DEFINE k == n + 1 - i
    <2>1. /\ i - 1 \in 0..n /\ i \in 0..n /\ i # 0 /\ k \in 1..n
          /\ k..n = ((n + 1 - (i - 1))..n) \cup {k} /\ k..n \subseteq 1..n
      BY <1>1, SMTT(60)
    <2>2. \A j \in k..n : ~(j < k)
      BY <1>1, SMTT(60)
    <2>3. Vtx[b][k].spends \cap added(i) = {}
      BY <2>1, <2>2, Transactions, SMTT(60)
    <2> QED BY <2>1, <2>3, SMTT(60)
  <1>3. g[0] = u
    <2>1. spent(0) = {} /\ added(0) = {} /\ 0 \in 0..n
      BY <1>1, SMTT(60)
    <2>2. u = [o \in OutPoints |-> u[o]]
      BY DEF IsMap
    <2> QED BY <2>1, <2>2
  <1>4. ASSUME NEW i \in 1..n PROVE g[i] = Step(i, g[i - 1])
    <2> HIDE DEF spent, added
    <2>1. g[i - 1] = [o \in OutPoints |-> IF o \in added(i - 1) THEN Spent ELSE IF o \in spent(i - 1) THEN undo[o] ELSE u[o]]
      BY <1>2
    <2>2. g[i] = [o \in OutPoints |-> IF o \in added(i) THEN Spent ELSE IF o \in spent(i) THEN undo[o] ELSE u[o]]
      BY <1>2
    <2> HIDE DEF g
    <2> QED BY <1>2, <2>1, <2>2
  <1> HIDE DEF Step
  <1>5. Solves(g)
    <2>1. \A i \in 0..n : i # 0 => i \in 1..n
      BY <1>1, SMTT(60)
    <2>2. g = [i \in 0..n |-> g[i]]
      OBVIOUS
    <2> HIDE DEF g
    <2> QED BY <1>3, <1>4, <2>1, <2>2
  <1> HIDE DEF g
  <1>6. Solves(f)
    BY <1>5
  <1>7. DisconnectBlock(b, u, undo) = f[n]
    BY DEF DisconnectBlock, Step
  <1> HIDE DEF f
  <1>8. f[0] = u /\ \A i \in 1..n : f[i] = Step(i, f[i - 1])
    <2>1. 0 \in 0..n
      BY <1>1, SMTT(60)
    <2> QED BY <1>2, <1>6, <2>1
  <1>9. \A i \in 1..n : f[i - 1] = g[i - 1] => f[i] = g[i]
    BY <1>4, <1>8
  <1>10. f[n] = g[n]
    BY <1>1, <1>3, <1>8, <1>9, SameLoop
  <1>11. spent(n) = Spends(b) /\ added(n) = Adds(b)
    <2>1. (n + 1 - n)..n = DOMAIN Vtx[b]
      BY <1>1, SMTT(60)
    <2> QED BY <2>1 DEF Spends, Adds
  <1>12. n \in 0..n
    BY <1>1, SMTT(60)
  <1> HIDE DEF n, spent, added
  <1>13. g[n] = [o \in OutPoints |->
                    IF o \in added(n) THEN Spent ELSE IF o \in spent(n) THEN undo[o] ELSE u[o]]
    BY <1>12 DEF g
  <1> QED BY <1>7, <1>10, <1>11, <1>13

-----------------------------------------------------------------------------
(* The UTXO set of a chain *)

(* Along a chain an outpoint is created by one block and spent by one, not *)
(* before it is created.                                                   *)
LEMMA CoinHistory ==
    ASSUME NEW b \in Blocks, NEW c \in Chain[b], NEW d \in Chain[b], NEW o
    PROVE  /\ o \in Adds(c) /\ o \in Adds(d) => c = d
           /\ o \in Spends(c) /\ o \in Spends(d) => c = d
           /\ o \in Spends(c) /\ o \in Adds(d) => d \in Chain[c]
  <1>0. \A x \in Chain[b] : x \in Blocks /\ Chain[x] \subseteq Chain[b] /\ Height[x] \in Nat
    BY ChainTransitive, TreeAssumption
  <1>1. ASSUME NEW x \in Chain[b], NEW y \in Chain[b], x # y, Height[x] <= Height[y]
        PROVE  Adds(x) \cap Adds(y) = {} /\ Spends(x) \cap Spends(y) = {}
    <2>1. x \in Chain[y] /\ y \in Blocks
      BY <1>0, <1>1, ChainTotal
    <2>2. x \in Chain[Parent[y]]
      BY <2>1, <1>1, ChainLower
    <2>3. Adds(y) \cap Adds(x) = {} /\ Spends(y) \cap Spends(x) = {}
      BY <2>1, <2>2, BlocksAssumption
    <2> QED BY <2>3
  <1>2. ASSUME NEW x \in Chain[b], NEW y \in Chain[b], x # y
        PROVE  Adds(x) \cap Adds(y) = {} /\ Spends(x) \cap Spends(y) = {}
    <2>1. CASE Height[x] <= Height[y]
      BY <1>1, <1>2, <2>1
    <2>2. CASE Height[y] <= Height[x]
      <3>1. Adds(y) \cap Adds(x) = {} /\ Spends(y) \cap Spends(x) = {}
        BY <1>1, <1>2, <2>2
      <3> QED BY <3>1
    <2>3. Height[x] <= Height[y] \/ Height[y] <= Height[x]
      BY <1>0, SMTT(60)
    <2> QED BY <2>1, <2>2, <2>3
  <1>3. ASSUME o \in Spends(c), o \in Adds(d) PROVE d \in Chain[c]
    <2>1. PICK e \in Chain[c] : o \in Adds(e)
      BY <1>0, <1>3, BlocksAssumption
    <2>2. e \in Chain[b]
      BY <1>0, <2>1
    <2> QED BY <1>2, <1>3, <2>1, <2>2
  <1> QED BY <1>2, <1>3

(* What the UTXO set says of an outpoint. *)
LEMMA UtxoValue ==
    ASSUME NEW b \in Blocks \cup {Null}, NEW o \in OutPoints
    PROVE  /\ \A c \in Chain[b] : o \in Spends(c) => UtxoAt(b)[o] = Spent
           /\ (\A c \in Chain[b] : o \notin Adds(c)) => UtxoAt(b)[o] = Spent
           /\ \A c \in Chain[b] : o \in Adds(c) /\ (\A d \in Chain[b] : o \notin Spends(d))
                => UtxoAt(b)[o] = Height[c]
  <1>1. UtxoAt(b)[o] = IF \E c \in Chain[b] : o \in Adds(c) /\ \A d \in Chain[b] : o \notin Spends(d)
                       THEN Height[CHOOSE c \in Chain[b] : o \in Adds(c)] ELSE Spent
    BY DEF UtxoAt
  <1>2. ASSUME NEW c \in Chain[b], o \in Adds(c), \A d \in Chain[b] : o \notin Spends(d)
        PROVE  UtxoAt(b)[o] = Height[c]
    <2> DEFINE e == CHOOSE x \in Chain[b] : o \in Adds(x)
    <2>1. e \in Chain[b] /\ o \in Adds(e)
      BY <1>2
    <2>2. b \in Blocks
      BY ChainUnfold
    <2>3. UtxoAt(b)[o] = Height[e]
      BY <1>1, <1>2
    <2> HIDE DEF e
    <2>4. e = c
      BY <1>2, <2>1, <2>2, CoinHistory
    <2> QED BY <2>3, <2>4
  <1> QED BY <1>1, <1>2

(* The UTXO set is a coin map. *)
LEMMA UtxoType ==
    ASSUME NEW b \in Blocks \cup {Null}
    PROVE  UtxoAt(b) \in CoinMap
  <1>1. Chain[b] \subseteq Blocks
    BY ChainUnfold, ChainBlocks
  <1>2. ASSUME NEW o \in OutPoints PROVE UtxoAt(b)[o] \in {Spent} \cup {Height[c] : c \in Blocks}
    <2>1. CASE \E c \in Chain[b] : o \in Adds(c) /\ \A d \in Chain[b] : o \notin Spends(d)
      <3>1. PICK c \in Chain[b] : o \in Adds(c) /\ \A d \in Chain[b] : o \notin Spends(d)
        BY <2>1
      <3>2. UtxoAt(b)[o] = Height[c]
        BY <3>1, UtxoValue
      <3> QED BY <1>1, <3>2
    <2>2. CASE ~\E c \in Chain[b] : o \in Adds(c) /\ \A d \in Chain[b] : o \notin Spends(d)
      BY <2>2 DEF UtxoAt
    <2> QED BY <2>1, <2>2
  <1>3. UtxoAt(b) = [o \in OutPoints |-> UtxoAt(b)[o]]
    BY SMTT(60) DEF UtxoAt
  <1> QED BY <1>2, <1>3 DEF CoinMap

(* Blocks that do not touch an outpoint do not change its coin. *)
LEMMA UtxoUntouched ==
    ASSUME NEW a \in Blocks \cup {Null}, NEW b \in Blocks \cup {Null}, Chain[a] \subseteq Chain[b],
           NEW o \in OutPoints, \A c \in Chain[b] \ Chain[a] : o \notin Adds(c) /\ o \notin Spends(c)
    PROVE  UtxoAt(b)[o] = UtxoAt(a)[o]
  <1>1. CASE \E c \in Chain[b] : o \in Spends(c)
    <2>1. PICK c \in Chain[b] : o \in Spends(c)
      BY <1>1
    <2>2. c \in Chain[a]
      BY <2>1
    <2> QED BY <2>1, <2>2, UtxoValue, SMTT(60)
  <1>2. CASE \A c \in Chain[b] : o \notin Adds(c)
    <2>1. \A c \in Chain[a] : o \notin Adds(c)
      BY <1>2
    <2> QED BY <1>2, <2>1, UtxoValue, SMTT(60)
  <1>3. CASE (\E c \in Chain[b] : o \in Adds(c)) /\ \A c \in Chain[b] : o \notin Spends(c)
    <2>1. PICK c \in Chain[b] : o \in Adds(c)
      BY <1>3
    <2>2. c \in Chain[a] /\ \A d \in Chain[a] : o \notin Spends(d)
      BY <1>3, <2>1
    <2> QED BY <1>3, <2>1, <2>2, UtxoValue, SMTT(60)
  <1> QED BY <1>1, <1>2, <1>3
(* One block more: what connecting it makes of the coins of its parent,    *)
(* and what it creates is not in its parent's UTXO set.                    *)
LEMMA UtxoStep ==
    ASSUME NEW b \in Blocks, NEW o \in OutPoints
    PROVE  /\ UtxoAt(b)[o] = IF o \in Spends(b) THEN Spent
                             ELSE IF o \in Adds(b) THEN Height[b] ELSE UtxoAt(Parent[b])[o]
           /\ o \in Adds(b) => UtxoAt(Parent[b])[o] = Spent
  <1>1. Parent[b] \in Blocks \cup {Null} /\ Chain[b] = Chain[Parent[b]] \cup {b} /\ b \in Chain[b]
    BY TreeAssumption, ChainUnfold
  <1>2. ASSUME o \in Spends(b) PROVE UtxoAt(b)[o] = Spent
    BY <1>1, <1>2, UtxoValue
  <1>3. ASSUME o \notin Spends(b), o \in Adds(b) PROVE UtxoAt(b)[o] = Height[b]
    <2>1. ASSUME NEW d \in Chain[b], o \in Spends(d) PROVE FALSE
      <3>1. b \in Chain[d] /\ d # b
        BY <1>1, <1>3, <2>1, CoinHistory
      <3>2. d \in Blocks /\ Height[b] \in Nat /\ Height[d] \in Nat
        BY ChainBlocks, TreeAssumption
      <3>3. Height[b] < Height[d] /\ Height[d] < Height[b]
        BY <3>1, <3>2, ChainLower
      <3> QED BY <3>2, <3>3, SMTT(60)
    <2> QED BY <1>1, <1>3, <2>1, UtxoValue
  <1>4. ASSUME o \notin Spends(b), o \notin Adds(b) PROVE UtxoAt(b)[o] = UtxoAt(Parent[b])[o]
    BY <1>1, <1>4, UtxoUntouched, SMTT(60)
  <1>5. ASSUME o \in Adds(b) PROVE UtxoAt(Parent[b])[o] = Spent
    <2>1. \A c \in Chain[Parent[b]] : o \notin Adds(c)
      BY <1>5, BlocksAssumption
    <2> QED BY <1>1, <2>1, UtxoValue
  <1> QED BY <1>2, <1>3, <1>4, <1>5

(* A coin map is a function on the outpoints, so is a UTXO set. *)
LEMMA Maps ==
    /\ \A u \in CoinMap : IsMap(u)
    /\ \A b \in Blocks \cup {Null} : UtxoAt(b) = [o \in OutPoints |-> UtxoAt(b)[o]] /\ IsMap(UtxoAt(b))
  BY SMTT(60) DEF CoinMap, UtxoAt, IsMap

(* ConnectBlock makes the UTXO set of a block of that of its parent.       *)
LEMMA ConnectGivesUtxo ==
    ASSUME NEW b \in Blocks
    PROVE  RollforwardBlock(b, UtxoAt(Parent[b])) = UtxoAt(b)
  <1>1. Parent[b] \in Blocks \cup {Null}
    BY TreeAssumption
  <1> DEFINE u == UtxoAt(Parent[b])
  <1>2. IsMap(u)
    BY <1>1, Maps
  <1> HIDE DEF u
  <1>3. RollforwardBlock(b, u) = [o \in OutPoints |->
            IF o \in Spends(b) THEN Spent ELSE IF o \in Adds(b) THEN Height[b] ELSE u[o]]
    BY <1>2, RollforwardBlockLaw
  <1>4. UtxoAt(b) = [o \in OutPoints |-> UtxoAt(b)[o]]
    BY Maps
  <1>5. \A o \in OutPoints : UtxoAt(b)[o] = IF o \in Spends(b) THEN Spent ELSE IF o \in Adds(b) THEN Height[b] ELSE u[o]
    BY UtxoStep DEF u
  <1>6. RollforwardBlock(b, u) = UtxoAt(b)
    BY <1>3, <1>4, <1>5
  <1> QED BY <1>6 DEF u

(* DisconnectBlock, with the undo data of the connection, makes the UTXO   *)
(* set of the parent again.                                                *)
LEMMA DisconnectGivesUtxo ==
    ASSUME NEW b \in Blocks
    PROVE  DisconnectBlock(b, UtxoAt(b), BlockUndo(b, UtxoAt(Parent[b]))) = UtxoAt(Parent[b])
  <1>1. Parent[b] \in Blocks \cup {Null}
    BY TreeAssumption
  <1> DEFINE u == UtxoAt(Parent[b])
             undo == BlockUndo(b, u)
  <1>2. IsMap(UtxoAt(b)) /\ u = [o \in OutPoints |-> u[o]]
    BY <1>1, Maps
  <1>3. \A o \in OutPoints : UtxoAt(b)[o] = IF o \in Spends(b) THEN Spent ELSE IF o \in Adds(b) THEN Height[b] ELSE u[o]
    BY UtxoStep
  <1>4. \A o \in OutPoints : o \in Adds(b) => u[o] = Spent
    BY UtxoStep
  <1>5. \A o \in Spends(b) : o \notin Adds(b) => undo[o] = u[o]
    BY DEF BlockUndo
  <1> HIDE DEF u, undo
  <1>6. DisconnectBlock(b, UtxoAt(b), undo) = [o \in OutPoints |->
            IF o \in Adds(b) THEN Spent ELSE IF o \in Spends(b) THEN undo[o] ELSE UtxoAt(b)[o]]
    BY <1>2, DisconnectBlockLaw, SMTT(60)
  <1>7. DisconnectBlock(b, UtxoAt(b), undo) = u
    BY <1>2, <1>3, <1>4, <1>5, <1>6
  <1> QED BY <1>7 DEF u, undo
-----------------------------------------------------------------------------
(* What a replay computes *)

Touches(c, o) == o \in Adds(c) \/ o \in Spends(c)

(* The block that CChain::Next would give: below the end of a chain every  *)
(* block has its child on the chain, and the genesis block is the child of *)
(* none.                                                                   *)
LEMMA ChildOnChain ==
    ASSUME NEW e \in Blocks, NEW b \in Chain[e] \cup {Null}, b # e
    PROVE  \E k \in Chain[e] : Parent[k] = b
  <1>1. CASE b = Null
    BY <1>1, ChainBlocks, TreeAssumption
  <1>2. CASE b \in Chain[e]
    <2> DEFINE S == {c \in Chain[e] : b \in Chain[c] /\ c # b}
    <2>1. S \in SUBSET Blocks /\ e \in S
      BY <1>2, ChainBlocks
    <2>2. PICK k \in S : \A c \in S : Height[k] <= Height[c]
      BY <2>1, LowestBlock
    <2>3. k \in Blocks /\ k \in Chain[e] /\ b \in Chain[k] /\ b # k
      BY <2>1, <2>2
    <2>4. /\ k # Genesis /\ Parent[k] \in Blocks /\ b \in Chain[Parent[k]]
          /\ Height[k] = Height[Parent[k]] + 1 /\ Height[Parent[k]] \in Nat
      BY <2>3, ChainLower, TreeAssumption
    <2>5. Parent[k] \in Chain[e]
      BY <2>3, <2>4, ChainBlocks DEF AncestorClosed
    <2>6. Parent[k] \notin S
      BY <2>2, <2>4, SMTT(60)
    <2> QED BY <2>3, <2>4, <2>5, <2>6
  <1> QED BY <1>1, <1>2

(* A block is above its parent's chain. *)
LEMMA ParentBelow ==
    ASSUME NEW b \in Blocks
    PROVE  /\ Parent[b] \in Blocks \cup {Null} /\ b \notin Chain[Parent[b]]
           /\ Chain[b] = Chain[Parent[b]] \cup {b}
  <1>1. Parent[b] \in Blocks \cup {Null} /\ Chain[b] = Chain[Parent[b]] \cup {b}
    BY TreeAssumption, ChainUnfold
  <1>2. ASSUME b \in Chain[Parent[b]] PROVE FALSE
    <2>1. Parent[b] \in Blocks /\ Height[b] = Height[Parent[b]] + 1 /\ Height[Parent[b]] \in Nat
      BY <1>1, <1>2, ChainUnfold, TreeAssumption
    <2>2. b # Parent[b]
      BY <2>1, SMTT(60)
    <2>3. Height[b] < Height[Parent[b]]
      BY <1>2, <2>1, <2>2, ChainLower
    <2> QED BY <2>1, <2>3, SMTT(60)
  <1> QED BY <1>1, <1>2

(* Rolling back: an outpoint touched above the fork gets its coin of the   *)
(* fork, whatever the database held for it; the others keep what they had. *)
LEMMA RollbackLaw ==
    ASSUME NEW old \in Blocks \cup {Null}, NEW fork \in Chain[old] \cup {Null},
           NEW u, IsMap(u), NEW undo,
           \A c \in Chain[old] \ {Genesis} : undo[c] = BlockUndo(c, UtxoAt(Parent[c]))
    PROVE  Rollback(old, fork, u, undo) =
             [o \in OutPoints |-> IF \E c \in Chain[old] \ Chain[fork] : Touches(c, o)
                                  THEN UtxoAt(fork)[o] ELSE u[o]]
  <1> DEFINE D == Chain[old] \cup {Null}
             child(b) == CHOOSE c \in Chain[old] : Parent[c] = b
             Step(k, x) == IF k = Genesis THEN x ELSE DisconnectBlock(k, x, undo[k])
             Solves(h) == h = [b \in D |-> IF b = old THEN u ELSE Step(child(b), h[child(b)])]
             f == CHOOSE h : Solves(h)
             G(b) == [o \in OutPoints |-> IF \E c \in Chain[old] \ Chain[b] : Touches(c, o)
                                          THEN UtxoAt(b)[o] ELSE u[o]]
             g == [b \in D |-> G(b)]
  <1>1. D \subseteq Blocks \cup {Null} /\ old \in D
    BY ChainUnfold, ChainBlocks
  <1>2. G(old) = u
    BY DEF IsMap
  <1>3. ASSUME NEW b \in D, b # old
        PROVE  /\ child(b) \in Chain[old] /\ child(b) \in Blocks /\ Parent[child(b)] = b
               /\ G(b) = Step(child(b), G(child(b)))
    <2> DEFINE k == child(b)
    <2>1. old \in Blocks
      BY <1>3, ChainUnfold
    <2>2. k \in Chain[old] /\ Parent[k] = b
      BY <1>3, <2>1, ChildOnChain
    <2>3. k \in Blocks /\ Chain[k] \subseteq Chain[old]
      BY <2>1, <2>2, ChainTransitive
    <2> HIDE DEF k, child
    <2>4. b \in Blocks \cup {Null} /\ k \notin Chain[b] /\ Chain[k] = Chain[b] \cup {k}
      BY <2>2, <2>3, ParentBelow
    <2>5. Chain[old] \ Chain[b] = (Chain[old] \ Chain[k]) \cup {k}
      BY <2>2, <2>4
    <2>6. \A o \in OutPoints : G(k)[o] = IF \E c \in Chain[old] \ Chain[k] : Touches(c, o)
                                         THEN UtxoAt(k)[o] ELSE u[o]
      OBVIOUS
    <2>7. \A o \in OutPoints : ~Touches(k, o) => UtxoAt(k)[o] = UtxoAt(b)[o]
      BY <2>2, <2>3, UtxoStep DEF Touches
    <2>8. CASE k = Genesis
      <3>1. \A o : ~Touches(k, o)
        BY <2>8, BlocksAssumption, SMTT(60) DEF Touches, Adds, Spends
      <3>2. G(b) = G(k)
        BY <2>5, <2>7, <3>1
      <3> QED BY <2>2, <2>3, <2>8, <3>2 DEF k
    <2>9. CASE k # Genesis
      <3>1. IsMap(G(k))
        BY DEF IsMap
      <3>2. undo[k] = BlockUndo(k, UtxoAt(b))
        BY <2>2, <2>9
      <3> HIDE DEF G
      <3>3. DisconnectBlock(k, G(k), undo[k]) =
              [o \in OutPoints |-> IF o \in Adds(k) THEN Spent
                                   ELSE IF o \in Spends(k) THEN undo[k][o] ELSE G(k)[o]]
        BY <2>3, <3>1, DisconnectBlockLaw, SMTT(60)
      <3>4. ASSUME NEW o \in OutPoints
            PROVE  (IF \E c \in Chain[old] \ Chain[b] : Touches(c, o) THEN UtxoAt(b)[o] ELSE u[o]) =
                   (IF o \in Adds(k) THEN Spent ELSE IF o \in Spends(k) THEN undo[k][o] ELSE G(k)[o])
        <4>1. CASE o \in Adds(k)
          <5>1. UtxoAt(b)[o] = Spent
            BY <2>2, <2>3, <4>1, UtxoStep
          <5> QED BY <2>5, <4>1, <5>1 DEF Touches
        <4>2. CASE o \notin Adds(k) /\ o \in Spends(k)
          <5>1. undo[k][o] = UtxoAt(b)[o]
            BY <3>2, <4>2 DEF BlockUndo
          <5> QED BY <2>5, <4>2, <5>1 DEF Touches
        <4>3. CASE o \notin Adds(k) /\ o \notin Spends(k)
          <5>1. ~Touches(k, o)
            BY <4>3 DEF Touches
          <5> QED BY <2>5, <2>6, <2>7, <4>3, <5>1
        <4> QED BY <4>1, <4>2, <4>3
      <3>5. G(b) = DisconnectBlock(k, G(k), undo[k])
        BY <3>3, <3>4 DEF G
      <3> QED BY <2>2, <2>3, <2>9, <3>5 DEF k
    <2> QED BY <2>8, <2>9
  <1> HIDE DEF G, child, Step
  <1>4. Solves(g)
    <2>1. \A b \in D : b # old => child(b) \in D /\ g[b] = Step(child(b), g[child(b)])
      BY <1>3
    <2>2. g[old] = u
      BY <1>1, <1>2
    <2>3. g = [b \in D |-> g[b]]
      OBVIOUS
    <2> HIDE DEF g, D
    <2> QED BY <2>1, <2>2, <2>3
  <1> HIDE DEF g
  <1>5. Solves(f)
    BY <1>4
  <1>6. Rollback(old, fork, u, undo) = f[fork]
    BY DEF Rollback, child, Step
  <1> HIDE DEF f
  <1>7. f[old] = u /\ \A b \in D : b # old => f[b] = Step(child(b), f[child(b)])
    BY <1>1, <1>5
  <1>8. g[old] = u /\ \A b \in D : b # old => g[b] = Step(child(b), g[child(b)])
    BY <1>1, <1>4
  <1> DEFINE bad == {b \in Chain[old] : f[b] # g[b]}
  <1>9. bad = {}
    <2> SUFFICES ASSUME bad # {} PROVE FALSE
      OBVIOUS
    <2>1. old \in Blocks /\ bad \in SUBSET Chain[old]
      BY ChainUnfold
    <2>2. PICK b \in bad : \A c \in bad : Height[c] <= Height[b]
      BY <2>1, HighestAncestor
    <2>3. b \in Chain[old] /\ b \in D /\ f[b] # g[b] /\ b \in Blocks /\ b # old
      BY <1>7, <1>8, <2>1, <2>2, ChainBlocks
    <2>4. child(b) \in Chain[old] /\ child(b) \in Blocks /\ Parent[child(b)] = b
      BY <1>3, <2>3
    <2>5. Height[child(b)] = Height[b] + 1 /\ Height[b] \in Nat
      BY <2>3, <2>4, TreeAssumption
    <2>6. child(b) \notin bad
      BY <2>2, <2>5, SMTT(60)
    <2>7. f[child(b)] = g[child(b)]
      BY <2>4, <2>6
    <2> QED BY <1>7, <1>8, <2>3, <2>7
  <1>10. f[fork] = g[fork]
    <2>1. CASE fork \in Chain[old]
      BY <1>9, <2>1
    <2>2. CASE fork \notin Chain[old] /\ old # Null
      <3>1. fork = Null /\ fork \in D /\ child(fork) \in Chain[old]
        BY <1>3, <2>2
      <3>2. f[child(fork)] = g[child(fork)]
        BY <1>9, <3>1
      <3> QED BY <1>7, <1>8, <2>2, <3>1, <3>2
    <2>3. CASE fork \notin Chain[old] /\ old = Null
      BY <1>7, <1>8, <2>3
    <2> QED BY <2>1, <2>2, <2>3
  <1> QED BY <1>6, <1>10 DEF g, G
(* Rolling forward: an outpoint touched above the fork gets its coin of    *)
(* the new tip; the others keep what they had.                             *)
LEMMA RollforwardLaw ==
    ASSUME NEW new \in Blocks, NEW fork \in Chain[new] \cup {Null}, NEW u, IsMap(u)
    PROVE  Rollforward(new, fork, u) =
             [o \in OutPoints |-> IF \E c \in Chain[new] \ Chain[fork] : Touches(c, o)
                                  THEN UtxoAt(new)[o] ELSE u[o]]
  <1> DEFINE D == Chain[new] \cup {Null}
             Base(b) == b = fork \/ b = Null
             Solves(h) == h = [b \in D |-> IF Base(b) THEN u ELSE RollforwardBlock(b, h[Parent[b]])]
             f == CHOOSE h : Solves(h)
             Above(b) == IF fork \in Chain[b] THEN Chain[b] \ Chain[fork] ELSE Chain[b]
             G(b) == [o \in OutPoints |-> IF \E c \in Above(b) : Touches(c, o)
                                          THEN UtxoAt(b)[o] ELSE u[o]]
             g == [b \in D |-> G(b)]
  <1>1. /\ D \subseteq Blocks \cup {Null} /\ new \in D
        /\ \A b \in D : b # Null => b \in Blocks /\ b \in Chain[new] /\ Chain[b] \subseteq Chain[new] /\ Parent[b] \in D
    BY ChainBlocks, ChainTransitive, TreeAssumption DEF AncestorClosed
  <1>2. ASSUME NEW b \in D, Base(b) PROVE G(b) = u
    <2>1. b = Null => Chain[b] = {}
      BY ChainUnfold
    <2>2. b = fork /\ b # Null => b \in Chain[b]
      BY <1>1, ChainBlocks
    <2>3. Above(b) = {}
      BY <1>2, <2>1, <2>2
    <2> QED BY <2>3 DEF IsMap
  <1>3. ASSUME NEW b \in D, ~Base(b) PROVE G(b) = RollforwardBlock(b, G(Parent[b]))
    <2> DEFINE p == Parent[b]
    <2>1. b \in Blocks /\ b # fork /\ b # Null
      BY <1>1, <1>3
    <2>2. p \in Blocks \cup {Null} /\ b \notin Chain[p] /\ Chain[b] = Chain[p] \cup {b}
      BY <2>1, ParentBelow
    <2>3. fork \in Chain[b] => b \notin Chain[fork]
      <3> SUFFICES ASSUME fork \in Chain[b], b \in Chain[fork] PROVE FALSE
        OBVIOUS
      <3>1. fork \in Blocks /\ Height[b] \in Nat /\ Height[fork] \in Nat
        BY <2>1, ChainBlocks, TreeAssumption
      <3>2. Height[fork] < Height[b] /\ Height[b] < Height[fork]
        BY <2>1, <3>1, ChainLower
      <3> QED BY <3>1, <3>2, SMTT(60)
    <2>4. Above(b) = Above(p) \cup {b}
      BY <2>1, <2>2, <2>3
    <2>5. IsMap(G(p))
      BY DEF IsMap
    <2>6. \A o \in OutPoints : G(p)[o] = IF \E c \in Above(p) : Touches(c, o)
                                         THEN UtxoAt(p)[o] ELSE u[o]
      OBVIOUS
    <2> HIDE DEF p, Above, G
    <2>7. RollforwardBlock(b, G(p)) =
            [o \in OutPoints |-> IF o \in Spends(b) THEN Spent
                                 ELSE IF o \in Adds(b) THEN Height[b] ELSE G(p)[o]]
      BY <2>1, <2>5, RollforwardBlockLaw
    <2>8. ASSUME NEW o \in OutPoints
          PROVE  (IF \E c \in Above(b) : Touches(c, o) THEN UtxoAt(b)[o] ELSE u[o]) =
                 (IF o \in Spends(b) THEN Spent ELSE IF o \in Adds(b) THEN Height[b] ELSE G(p)[o])
      <3>1. UtxoAt(b)[o] = IF o \in Spends(b) THEN Spent
                           ELSE IF o \in Adds(b) THEN Height[b] ELSE UtxoAt(p)[o]
        BY <2>1, UtxoStep DEF p
      <3>2. CASE Touches(b, o)
        <4>1. \E c \in Above(b) : Touches(c, o)
          BY <2>4, <3>2
        <4> QED BY <3>1, <3>2, <4>1 DEF Touches
      <3>3. CASE ~Touches(b, o)
        <4>1. (\E c \in Above(b) : Touches(c, o)) <=> (\E c \in Above(p) : Touches(c, o))
          BY <2>4, <3>3
        <4>2. o \notin Spends(b) /\ o \notin Adds(b)
          BY <3>3 DEF Touches
        <4> QED BY <2>6, <3>1, <4>1, <4>2
      <3> QED BY <3>2, <3>3
    <2> QED BY <2>7, <2>8 DEF G, p
  <1> HIDE DEF G, Base
  <1>4. Solves(g)
    <2>1. \A b \in D : Base(b) => g[b] = u
      BY <1>2
    <2>2. \A b \in D : ~Base(b) => g[b] = RollforwardBlock(b, g[Parent[b]])
      BY <1>1, <1>3 DEF Base
    <2>3. g = [b \in D |-> g[b]]
      OBVIOUS
    <2> HIDE DEF g, D
    <2> QED BY <2>1, <2>2, <2>3
  <1> HIDE DEF g
  <1>5. Solves(f)
    BY <1>4
  <1>6. Rollforward(new, fork, u) = f[new]
    BY DEF Rollforward, Base
  <1> HIDE DEF f
  <1>7. \A b \in D : f[b] = IF Base(b) THEN u ELSE RollforwardBlock(b, f[Parent[b]])
    BY <1>5
  <1>8. \A b \in D : g[b] = IF Base(b) THEN u ELSE RollforwardBlock(b, g[Parent[b]])
    BY <1>4
  <1> DEFINE bad == {b \in Chain[new] : f[b] # g[b]}
  <1>9. bad = {}
    <2> SUFFICES ASSUME bad # {} PROVE FALSE
      OBVIOUS
    <2>1. bad \in SUBSET Blocks
      BY ChainBlocks
    <2>2. PICK b \in bad : \A c \in bad : Height[b] <= Height[c]
      BY <2>1, LowestBlock
    <2>3. b \in Chain[new] /\ b \in D /\ b \in Blocks /\ f[b] # g[b] /\ ~Base(b)
      BY <1>7, <1>8, <2>1, <2>2
    <2>4. f[Parent[b]] # g[Parent[b]]
      BY <1>7, <1>8, <2>3
    <2>5. Parent[b] # Null /\ Parent[b] \in D
      BY <1>1, <1>7, <1>8, <2>3, <2>4, TreeAssumption DEF Base
    <2>6. Parent[b] \in bad
      BY <2>4, <2>5
    <2>7. Height[b] = Height[Parent[b]] + 1 /\ Height[Parent[b]] \in Nat
      BY <2>3, <2>5, TreeAssumption
    <2> QED BY <2>2, <2>6, <2>7, SMTT(60)
  <1>10. f[new] = g[new] /\ g[new] = G(new)
    BY <1>1, <1>9, ChainBlocks DEF g
  <1>11. Above(new) = Chain[new] \ Chain[fork]
    <2>1. CASE fork \in Chain[new]
      BY <2>1
    <2>2. CASE fork \notin Chain[new]
      BY <2>2, ChainUnfold
    <2> QED BY <2>1, <2>2
  <1> QED BY <1>6, <1>10, <1>11 DEF G

(* A half-written database holds, for every outpoint, the coin of the old  *)
(* tip or that of the new one.  Rolling back to the fork and forward to    *)
(* the new tip makes the UTXO set of the new tip of it.                    *)
LEMMA ReplayRepairs ==
    ASSUME NEW new \in Blocks, NEW old \in Blocks \cup {Null}, NEW m \in CoinMap, NEW undo,
           \A o \in OutPoints : m[o] \in {UtxoAt(new)[o], UtxoAt(old)[o]},
           \A c \in Chain[old] \ {Genesis} : undo[c] = BlockUndo(c, UtxoAt(Parent[c]))
    PROVE  LET fork == LastCommonAncestor(old, new)
           IN  Rollforward(new, fork, Rollback(old, fork, m, undo)) = UtxoAt(new)
  <1> DEFINE fork == LastCommonAncestor(old, new)
             back == Rollback(old, fork, m, undo)
  <1>1. /\ fork \in Blocks \cup {Null} /\ fork \in Chain[old] \cup {Null} /\ fork \in Chain[new] \cup {Null}
        /\ Chain[fork] \subseteq Chain[old] /\ Chain[fork] \subseteq Chain[new]
    <2>1. CASE old = Null
      <3>1. fork = Null
        BY <2>1 DEF LastCommonAncestor
      <3> QED BY <3>1, ChainUnfold
    <2>2. CASE old \in Blocks
      <3>1. fork \in Chain[old] /\ fork \in Chain[new]
        BY <2>2, ForkIsCommon
      <3> QED BY <2>2, <3>1, ChainTransitive
    <2> QED BY <2>1, <2>2
  <1> HIDE DEF fork
  <1>2. IsMap(m)
    BY Maps
  <1>3. back = [o \in OutPoints |-> IF \E c \in Chain[old] \ Chain[fork] : Touches(c, o)
                                    THEN UtxoAt(fork)[o] ELSE m[o]]
    BY <1>1, <1>2, RollbackLaw, SMTT(60)
  <1> HIDE DEF back
  <1>4. IsMap(back)
    BY <1>3 DEF IsMap
  <1>5. Rollforward(new, fork, back) =
          [o \in OutPoints |-> IF \E c \in Chain[new] \ Chain[fork] : Touches(c, o)
                               THEN UtxoAt(new)[o] ELSE back[o]]
    BY <1>1, <1>4, RollforwardLaw, ZenonT(60)
  <1>6. ASSUME NEW o \in OutPoints, ~\E c \in Chain[new] \ Chain[fork] : Touches(c, o)
        PROVE  back[o] = UtxoAt(new)[o]
    <2>1. UtxoAt(new)[o] = UtxoAt(fork)[o]
      BY <1>1, <1>6, UtxoUntouched, SMTT(60) DEF Touches
    <2>2. CASE \E c \in Chain[old] \ Chain[fork] : Touches(c, o)
      BY <1>3, <2>1, <2>2
    <2>3. CASE ~\E c \in Chain[old] \ Chain[fork] : Touches(c, o)
      <3>1. UtxoAt(old)[o] = UtxoAt(fork)[o]
        BY <1>1, <2>3, UtxoUntouched DEF Touches
      <3>2. back[o] = m[o]
        BY <1>3, <2>3
      <3> QED BY <2>1, <3>1, <3>2
    <2> QED BY <2>2, <2>3
  <1>7. UtxoAt(new) = [o \in OutPoints |-> UtxoAt(new)[o]]
    BY Maps
  <1>8. Rollforward(new, fork, back) = UtxoAt(new)
    BY <1>5, <1>6, <1>7
  <1> QED BY <1>8 DEF fork, back
-----------------------------------------------------------------------------
(* The databases and the memory *)

(* The undo data of a block is what its connection to its parent's chain   *)
(* gives.                                                                  *)
UndoOf(b) == BlockUndo(b, UtxoAt(Parent[b]))

Indexes == [known : SUBSET Blocks, undo : [Blocks -> {NoUndo} \cup {UndoOf(b) : b \in Blocks}]]
UndoExact(x) == \A b \in Blocks : x.undo[b] \in {NoUndo, UndoOf(b)}

(* The chain of b can be rolled back with what x knows. *)
Recorded(x, b) ==
    /\ Chain[b] \subseteq x.known
    /\ \A c \in Chain[b] \ {Genesis} : x.undo[c] # NoUndo

Up == pc \in {"run", "coins", "assets", "replay"}
Flushing == pc \in {"coins", "replay"}

(* The block index. *)
IndexInv ==
    /\ index \in Indexes /\ mem \in Indexes /\ UndoExact(index) /\ UndoExact(mem)
    /\ Genesis \in index.known /\ Genesis \in mem.known
    /\ Up => /\ Recorded(mem, tip)
             /\ index.known \subseteq mem.known
             /\ \A b \in Blocks : index.undo[b] # NoUndo => mem.undo[b] # NoUndo

(* The coin database: consistent, or between two tips that are recorded in *)
(* the block index.                                                        *)
DiskInv ==
    \/ /\ heads = <<>> /\ coins = UtxoAt(best) /\ Recorded(index, best)
    \/ /\ best = Null
       /\ \E new \in Blocks, old \in Blocks \cup {Null} :
            /\ heads = <<new, old>> /\ Recorded(index, new) /\ Recorded(index, old)
            /\ \A o \in OutPoints : coins[o] \in {UtxoAt(new)[o], UtxoAt(old)[o]}
            /\ Flushing => tip = new

(* The node: its coin view is that of its tip; a flush leaves behind       *)
(* nothing but what it has still to write.                                 *)
NodeInv ==
    /\ pc # "failed"
    /\ Up => utxo = UtxoAt(tip)
    /\ Flushing => /\ tip \in Blocks /\ Recorded(index, tip)
                   /\ \A o \in OutPoints \ left : coins[o] = utxo[o]
    /\ pc \in {"run", "assets"} => heads = <<>>

IInv == TypeOK /\ IndexInv /\ DiskInv /\ NodeInv

(* A start finds nothing on disk: the empty UTXO set is that of no block.  *)
LEMMA EmptyUtxo == UtxoAt(Null) = NoCoins /\ NoCoins \in CoinMap
  BY ChainUnfold DEF UtxoAt, NoCoins, CoinMap

(* The undo data of a block is some, and no two blocks of a chain share an *)
(* index entry.                                                            *)
LEMMA UndoType ==
    ASSUME NEW b \in Blocks
    PROVE  UndoOf(b) # NoUndo
  <1>1. Parent[b] \in Blocks \cup {Null}
    BY TreeAssumption
  <1>2. UtxoAt(Parent[b]) \in CoinMap
    BY <1>1, UtxoType
  <1> QED BY <1>2, ValuesAssumption DEF UndoOf

(* An index that knows more records what one that knows less does. *)
LEMMA RecordedMore ==
    ASSUME NEW x, NEW y, NEW b \in Blocks \cup {Null}, Recorded(x, b), x.known \subseteq y.known,
           \A c \in Blocks : x.undo[c] # NoUndo => y.undo[c] # NoUndo
    PROVE  Recorded(y, b)
  <1>1. Chain[b] \subseteq Blocks
    BY ChainUnfold, ChainBlocks
  <1> QED BY <1>1 DEF Recorded

(* The index of a node that knows the genesis block alone. *)
LEMMA EmptyIndexLaw ==
    /\ EmptyIndex \in Indexes /\ UndoExact(EmptyIndex) /\ EmptyIndex.known = {Genesis}
    /\ Recorded(EmptyIndex, Null)
  BY ChainUnfold, TreeAssumption DEF Recorded, UndoExact, Indexes, EmptyIndex

(* The invariant holds at the first start. *)
LEMMA InitInv == Init => IInv
  <1> SUFFICES ASSUME Init PROVE IInv
    OBVIOUS
  <1>1. TypeOK
    BY EmptyUtxo, TreeAssumption, ValuesAssumption, SMTT(60) DEF Init, TypeOK, EmptyIndex
  <1>3. IndexInv
    BY EmptyIndexLaw DEF Init, IndexInv
  <1>4. DiskInv
    BY EmptyIndexLaw, EmptyUtxo DEF Init, DiskInv
  <1>5. NodeInv
    BY EmptyUtxo DEF Init, NodeInv, Up, Flushing
  <1> QED BY <1>1, <1>3, <1>4, <1>5 DEF IInv
(* AcceptBlock: the index in memory knows one block more. *)
LEMMA InvAcceptBlock ==
    ASSUME IInv, NEW b \in Blocks, AcceptBlock(b)
    PROVE  IInv'
  <1>1. /\ pc = "run" /\ mem \in Indexes /\ tip \in Blocks \cup {Null}
        /\ UNCHANGED <<pc, coins, best, heads, index, assetdb, tip, utxo, left, assets, crashes>>
    BY DEF IInv, TypeOK, IndexInv, AcceptBlock, disk
  <1>2. mem' \in Indexes /\ mem'.known = mem.known \cup {b} /\ mem'.undo = mem.undo
    BY <1>1 DEF AcceptBlock, Indexes
  <1>3. TypeOK'
    BY <1>1, <1>2 DEF IInv, TypeOK, Indexes
  <1>4. IndexInv'
    <2>1. Recorded(mem, tip)
      BY <1>1 DEF IInv, IndexInv, Up
    <2>2. Recorded(mem', tip)
      BY <1>1, <1>2, <2>1, RecordedMore
    <2> QED BY <1>1, <1>2, <2>2 DEF IInv, IndexInv, UndoExact, Up, Recorded
  <1>5. DiskInv'
    BY <1>1 DEF IInv, DiskInv, Recorded, Flushing
  <1>6. NodeInv'
    BY <1>1 DEF IInv, NodeInv, Recorded, Up, Flushing
  <1> QED BY <1>3, <1>4, <1>5, <1>6 DEF IInv

(* ConnectTip: the coin view becomes that of the block, whose undo data is *)
(* recorded, if it was not, from the coin view of its parent.              *)
LEMMA InvConnectTip ==
    ASSUME IInv, NEW b \in Blocks, ConnectTip(b)
    PROVE  IInv'
  <1>1. /\ pc = "run" /\ mem \in Indexes /\ tip \in Blocks \cup {Null}
        /\ tip' = b /\ Parent[b] = tip /\ b \in mem.known
        /\ utxo = UtxoAt(Parent[b]) /\ utxo' = RollforwardBlock(b, utxo)
        /\ UNCHANGED <<pc, coins, best, heads, index, assetdb, left, crashes>>
    BY DEF IInv, TypeOK, IndexInv, NodeInv, Up, ConnectTip, disk
  <1>2. utxo' = UtxoAt(b) /\ utxo' \in CoinMap
    BY <1>1, ConnectGivesUtxo, UtxoType
  <1>3. BlockUndo(b, utxo) = UndoOf(b) /\ UndoOf(b) # NoUndo
    BY <1>1, UndoType DEF UndoOf
  <1>4. /\ mem' = [mem EXCEPT !.undo[b] = IF b = Genesis \/ mem.undo[b] # NoUndo
                                         THEN mem.undo[b] ELSE UndoOf(b)]
    BY <1>3 DEF ConnectTip
  <1>5. /\ mem' \in Indexes /\ mem'.known = mem.known
        /\ \A c \in Blocks : mem'.undo[c] = IF c = b /\ b # Genesis /\ mem.undo[b] = NoUndo
                                            THEN UndoOf(b) ELSE mem.undo[c]
    BY <1>1, <1>4 DEF Indexes
  <1>6. TypeOK'
    BY <1>1, <1>2, <1>5 DEF IInv, TypeOK, Indexes
  <1>7. IndexInv'
    <2>1. Recorded(mem, tip) /\ Chain[b] = Chain[tip] \cup {b} /\ Chain[b] \subseteq Blocks
      BY <1>1, ChainUnfold, ChainBlocks DEF IInv, IndexInv, Up
    <2>2. Recorded(mem', b)
      BY <1>1, <1>3, <1>5, <2>1 DEF Recorded
    <2>3. UndoExact(mem')
      BY <1>5 DEF IInv, IndexInv, UndoExact
    <2>4. \A c \in Blocks : index.undo[c] # NoUndo => mem'.undo[c] # NoUndo
      BY <1>1, <1>3, <1>5 DEF IInv, IndexInv, Up
    <2> QED BY <1>1, <1>5, <2>2, <2>3, <2>4 DEF IInv, IndexInv, UndoExact, Up, Recorded
  <1>8. DiskInv'
    BY <1>1 DEF IInv, DiskInv, NodeInv, Recorded, Flushing
  <1>9. NodeInv'
    BY <1>1, <1>2 DEF IInv, NodeInv, Up, Flushing
  <1> QED BY <1>6, <1>7, <1>8, <1>9 DEF IInv

(* DisconnectTip: the undo data gives the coin view of the parent back. *)
LEMMA InvDisconnectTip ==
    ASSUME IInv, DisconnectTip
    PROVE  IInv'
  <1>1. /\ pc = "run" /\ tip \in Blocks /\ mem.undo[tip] = UndoOf(tip)
        /\ tip' = Parent[tip] /\ utxo = UtxoAt(tip) /\ utxo' = DisconnectBlock(tip, utxo, mem.undo[tip])
        /\ UNCHANGED <<pc, coins, best, heads, index, assetdb, left, mem, crashes>>
    BY DEF IInv, TypeOK, IndexInv, UndoExact, NodeInv, Up, DisconnectTip, disk
  <1>2. tip' \in Blocks \cup {Null} /\ utxo' = UtxoAt(tip')
    BY <1>1, TreeAssumption, DisconnectGivesUtxo DEF UndoOf
  <1>3. utxo' \in CoinMap
    BY <1>2, UtxoType
  <1>4. TypeOK'
    BY <1>1, <1>2, <1>3 DEF IInv, TypeOK
  <1>5. IndexInv'
    <2>1. Recorded(mem, tip) /\ Chain[tip'] \subseteq Chain[tip]
      BY <1>1, ChainUnfold DEF IInv, IndexInv, Up
    <2>2. Recorded(mem, tip')
      BY <2>1 DEF Recorded
    <2> QED BY <1>1, <2>2 DEF IInv, IndexInv, UndoExact, Up, Recorded
  <1>6. DiskInv'
    BY <1>1, SMTT(60) DEF IInv, DiskInv, NodeInv, Recorded, Flushing
  <1>7. NodeInv'
    BY <1>1, <1>2 DEF IInv, NodeInv, Up, Flushing
  <1> QED BY <1>4, <1>5, <1>6, <1>7 DEF IInv

(* Writing the block index loses nothing the coin database names. *)
LEMMA IndexWritten ==
    ASSUME IInv, pc = "run", index' = mem, UNCHANGED <<coins, best, heads, tip, mem>>,
           pc' \in {"run", "coins"}
    PROVE  IndexInv' /\ DiskInv' /\ heads = <<>> /\ Recorded(mem, tip)
  <1>1. /\ mem \in Indexes /\ UndoExact(mem) /\ Genesis \in mem.known /\ Recorded(mem, tip)
        /\ heads = <<>> /\ coins = UtxoAt(best) /\ Recorded(index, best) /\ best \in Blocks \cup {Null}
        /\ index.known \subseteq mem.known /\ \A b \in Blocks : index.undo[b] # NoUndo => mem.undo[b] # NoUndo
    BY SMTT(60) DEF IInv, IndexInv, DiskInv, NodeInv, TypeOK, Up
  <1>2. Recorded(mem, best)
    BY <1>1, RecordedMore
  <1>3. IndexInv'
    BY <1>1 DEF IndexInv, UndoExact, Recorded
  <1>4. DiskInv'
    BY <1>1, <1>2 DEF DiskInv, Recorded
  <1> QED BY <1>1, <1>3, <1>4
(* FlushStateToDisk without the coins. *)
LEMMA InvWriteBlockIndex ==
    ASSUME IInv, WriteBlockIndex
    PROVE  IInv'
  <1>1. /\ pc = "run" /\ pc' = "run" /\ index' = mem
        /\ UNCHANGED <<coins, best, heads, assetdb, tip, utxo, left, mem, assets, crashes>>
    BY DEF WriteBlockIndex
  <1>2. IndexInv' /\ DiskInv' /\ heads = <<>>
    BY <1>1, IndexWritten
  <1>3. TypeOK'
    BY <1>1 DEF IInv, TypeOK
  <1>4. NodeInv'
    BY <1>1, <1>2 DEF IInv, NodeInv, Up, Flushing
  <1> QED BY <1>2, <1>3, <1>4 DEF IInv

(* FlushStateToDisk: the chain of the tip is in the block index before the *)
(* first batch of coins; what is to be written is where the database and   *)
(* the coin view differ.                                                   *)
LEMMA InvFlushStateToDisk ==
    ASSUME IInv, FlushStateToDisk
    PROVE  IInv'
  <1>1. /\ pc = "run" /\ pc' = "coins" /\ index' = mem /\ tip # Null
        /\ left' = {o \in OutPoints : utxo[o] # coins[o]}
        /\ UNCHANGED <<coins, best, heads, assetdb, tip, utxo, mem, assets, crashes>>
    BY DEF FlushStateToDisk
  <1>2. IndexInv' /\ DiskInv' /\ heads = <<>> /\ Recorded(mem, tip)
    BY <1>1, IndexWritten
  <1>3. TypeOK'
    BY <1>1 DEF IInv, TypeOK
  <1>4. NodeInv'
    BY <1>1, <1>2 DEF IInv, TypeOK, NodeInv, Up, Flushing, Recorded
  <1> QED BY <1>2, <1>3, <1>4 DEF IInv

(* A partial batch leaves, for every outpoint, the old coin or the new.    *)
LEMMA InvWritePartialBatch ==
    ASSUME IInv, NEW S \in SUBSET left, WritePartialBatch(S)
    PROVE  IInv'
  <1>1. /\ Flushing /\ Up /\ tip \in Blocks /\ Recorded(index, tip) /\ utxo = UtxoAt(tip)
        /\ coins' = [o \in OutPoints |-> IF o \in S THEN utxo[o] ELSE coins[o]]
        /\ best' = Null /\ heads' = <<tip, OldTip>> /\ left' = left \ S
        /\ UNCHANGED <<pc, index, assetdb, tip, utxo, mem, assets, crashes>>
        /\ coins \in CoinMap /\ utxo \in CoinMap /\ best \in Blocks \cup {Null}
    BY DEF IInv, TypeOK, NodeInv, Up, Flushing, WritePartialBatch
  <1>2. /\ OldTip \in Blocks \cup {Null} /\ Recorded(index, OldTip)
        /\ \A o \in OutPoints : coins[o] \in {UtxoAt(tip)[o], UtxoAt(OldTip)[o]}
    <2>1. CASE heads = <<>> /\ coins = UtxoAt(best) /\ Recorded(index, best)
      BY <1>1, <2>1 DEF OldTip
    <2>2. CASE ~(heads = <<>> /\ coins = UtxoAt(best) /\ Recorded(index, best))
      <3>1. PICK new \in Blocks, old \in Blocks \cup {Null} :
                /\ best = Null /\ heads = <<new, old>> /\ Recorded(index, old) /\ tip = new
                /\ \A o \in OutPoints : coins[o] \in {UtxoAt(new)[o], UtxoAt(old)[o]}
        BY <1>1, <2>2 DEF IInv, DiskInv
      <3>2. OldTip = old
        BY <3>1 DEF OldTip
      <3> QED BY <3>1, <3>2
    <2> QED BY <2>1, <2>2
  <1>3. coins' \in CoinMap
    BY <1>1 DEF CoinMap
  <1>4. TypeOK'
    BY <1>1, <1>2, <1>3 DEF IInv, TypeOK
  <1>5. IndexInv'
    BY <1>1 DEF IInv, IndexInv, UndoExact, Up, Recorded
  <1>6. DiskInv'
    <2>1. \A o \in OutPoints : coins'[o] \in {UtxoAt(tip)[o], UtxoAt(OldTip)[o]}
      BY <1>1, <1>2
    <2> HIDE DEF OldTip
    <2>2. PICK old \in Blocks \cup {Null} : old = OldTip
      BY <1>2
    <2>3. heads' = <<tip, old>> /\ Recorded(index, tip) /\ Recorded(index, old)
      BY <1>1, <1>2, <2>2
    <2>4. Recorded(index', tip) /\ Recorded(index', old)
      BY <1>1, <2>3
    <2>5. \A o \in OutPoints : coins'[o] \in {UtxoAt(tip)[o], UtxoAt(old)[o]}
      BY <2>1, <2>2
    <2>6. tip' = tip /\ best' = Null
      BY <1>1
    <2> QED BY <1>1, <2>3, <2>4, <2>5, <2>6 DEF DiskInv, Recorded
  <1>7. NodeInv'
    <2>1. \A o \in OutPoints \ left' : coins'[o] = utxo'[o]
      BY <1>1 DEF IInv, NodeInv
    <2> QED BY <1>1, <2>1 DEF IInv, NodeInv, Up, Flushing, Recorded
  <1> QED BY <1>4, <1>5, <1>6, <1>7 DEF IInv

(* The final batch makes the database that of the tip. *)
LEMMA InvWriteFinalBatch ==
    ASSUME IInv, WriteFinalBatch
    PROVE  IInv'
  <1>1. /\ Flushing /\ Up /\ tip \in Blocks /\ Recorded(index, tip) /\ utxo = UtxoAt(tip)
        /\ coins' = [o \in OutPoints |-> IF o \in left THEN utxo[o] ELSE coins[o]]
        /\ best' = tip /\ heads' = <<>> /\ left' = {} /\ pc' \in {"assets", "run"}
        /\ UNCHANGED <<index, assetdb, tip, utxo, mem, assets, crashes>>
        /\ coins \in CoinMap /\ utxo \in CoinMap
        /\ \A o \in OutPoints \ left : coins[o] = utxo[o]
    BY DEF IInv, TypeOK, NodeInv, Up, Flushing, WriteFinalBatch
  <1>2. coins' = utxo
    <2>1. utxo = [o \in OutPoints |-> utxo[o]]
      BY <1>1 DEF CoinMap
    <2> QED BY <1>1, <2>1
  <1>3. TypeOK'
    BY <1>1, <1>2 DEF IInv, TypeOK
  <1>4. IndexInv'
    BY <1>1 DEF IInv, IndexInv, UndoExact, Up, Recorded
  <1>5. DiskInv'
    BY <1>1, <1>2 DEF DiskInv, Recorded
  <1>6. NodeInv'
    BY <1>1 DEF NodeInv, Up, Flushing
  <1> QED BY <1>3, <1>4, <1>5, <1>6 DEF IInv

(* The asset database is not read here. *)
LEMMA InvDump ==
    ASSUME IInv, pc = "assets", pc' \in {"assets", "run"},
           UNCHANGED <<coins, best, heads, index, tip, utxo, left, mem, crashes>>
    PROVE  IInv'
  <1>1. TypeOK'
    BY DEF IInv, TypeOK
  <1>2. IndexInv'
    BY DEF IInv, IndexInv, UndoExact, Up, Recorded
  <1>3. DiskInv'
    BY SMTT(60) DEF IInv, DiskInv, NodeInv, Recorded
  <1>4. NodeInv'
    BY DEF IInv, NodeInv, Up, Flushing
  <1> QED BY <1>1, <1>2, <1>3, <1>4 DEF IInv

(* A crash keeps the databases. *)
LEMMA InvCrash ==
    ASSUME IInv, Crash
    PROVE  IInv'
  <1>1. /\ pc' = "down" /\ tip' = Null /\ utxo' = NoCoins /\ left' = {} /\ mem' = EmptyIndex
        /\ crashes' = crashes + 1 /\ crashes < MaxCrashes /\ crashes \in 0..MaxCrashes
        /\ UNCHANGED <<coins, best, heads, index, assetdb>>
    BY DEF IInv, TypeOK, Crash, disk
  <1>2. crashes' \in 0..MaxCrashes
    BY <1>1, ValuesAssumption, SMTT(60)
  <1>3. TypeOK'
    BY <1>1, <1>2, EmptyUtxo, EmptyIndexLaw, TreeAssumption DEF IInv, TypeOK
  <1>4. IndexInv'
    BY <1>1, EmptyIndexLaw DEF IInv, IndexInv, UndoExact, Up
  <1>5. DiskInv'
    BY <1>1 DEF IInv, DiskInv, Flushing, Recorded
  <1>6. NodeInv'
    BY <1>1 DEF NodeInv, Up, Flushing
  <1> QED BY <1>3, <1>4, <1>5, <1>6 DEF IInv

(* Start-up with a consistent coin database: the best block is in the      *)
(* index, with the undo data of its chain.                                 *)
LEMMA InvLoadChainTip ==
    ASSUME IInv, LoadChainTip
    PROVE  IInv'
  <1>1. /\ heads = <<>> /\ mem' = index /\ tip' = best /\ utxo' = coins
        /\ pc' = IF best \in index.known \cup {Null} THEN "run" ELSE "failed"
        /\ UNCHANGED <<coins, best, heads, index, assetdb, left, crashes>>
        /\ best \in Blocks \cup {Null} /\ index \in Indexes
    BY DEF IInv, TypeOK, IndexInv, LoadChainTip, disk
  <1>2. coins = UtxoAt(best) /\ Recorded(index, best)
    BY <1>1 DEF IInv, DiskInv
  <1>3. best \in index.known \cup {Null}
    BY <1>1, <1>2, ChainBlocks DEF Recorded
  <1>4. pc' = "run"
    BY <1>1, <1>3
  <1>5. TypeOK'
    BY <1>1, <1>4 DEF IInv, TypeOK, Indexes
  <1>6. IndexInv'
    BY <1>1, <1>2, <1>4 DEF IInv, IndexInv, UndoExact, Up, Recorded
  <1>7. DiskInv'
    BY <1>1, <1>2, <1>4 DEF DiskInv, Recorded
  <1>8. NodeInv'
    BY <1>1, <1>2, <1>4 DEF NodeInv, Up, Flushing
  <1> QED BY <1>5, <1>6, <1>7, <1>8 DEF IInv

(* Start-up after an interrupted flush: both heads and the undo data       *)
(* between them are in the index, and the replay gives the UTXO set of the *)
(* new tip.                                                                *)
LEMMA InvReplayBlocks ==
    ASSUME IInv, ReplayBlocks
    PROVE  IInv'
  <1>1. /\ heads # <<>> /\ mem' = index
        /\ UNCHANGED <<coins, best, heads, index, assetdb, crashes>>
        /\ index \in Indexes /\ UndoExact(index) /\ coins \in CoinMap
    BY DEF IInv, TypeOK, IndexInv, ReplayBlocks, disk
  <1>2. PICK new \in Blocks, old \in Blocks \cup {Null} :
            /\ best = Null /\ heads = <<new, old>> /\ Recorded(index, new) /\ Recorded(index, old)
            /\ \A o \in OutPoints : coins[o] \in {UtxoAt(new)[o], UtxoAt(old)[o]}
    BY <1>1 DEF IInv, DiskInv
  <1>3. heads[1] = new /\ heads[2] = old
    BY <1>2
  <1> DEFINE fork == LastCommonAncestor(old, new)
             replayed == Rollforward(new, fork, Rollback(old, fork, coins, index.undo))
  <1>4. Chain[old] \subseteq Blocks
    BY ChainUnfold, ChainBlocks
  <1>5. \A c \in Chain[old] \ {Genesis} : index.undo[c] # NoUndo /\ index.undo[c] = BlockUndo(c, UtxoAt(Parent[c]))
    BY <1>1, <1>2, <1>4 DEF Recorded, UndoExact, UndoOf
  <1>6. replayed = UtxoAt(new)
    BY <1>1, <1>2, <1>5, ReplayRepairs
  <1>7. HeadsKnown
    <2>1. new \in index.known /\ old \in index.known \cup {Null}
      BY <1>2, ChainBlocks DEF Recorded
    <2> QED BY <1>3, <2>1 DEF HeadsKnown
  <1>8. /\ pc' = "replay" /\ tip' = new /\ utxo' = replayed
        /\ left' = {o \in OutPoints : replayed[o] # coins[o]}
    BY <1>3, <1>5, <1>7 DEF ReplayBlocks, ReplayTarget
  <1> HIDE DEF replayed
  <1>9. utxo' = UtxoAt(new) /\ utxo' \in CoinMap
    BY <1>6, <1>8, UtxoType
  <1>10. TypeOK'
    BY <1>1, <1>8, <1>9 DEF IInv, TypeOK, Indexes
  <1>11. IndexInv'
    BY <1>1, <1>2, <1>8 DEF IInv, IndexInv, UndoExact, Recorded
  <1>12. DiskInv'
    BY <1>1, <1>2, <1>8 DEF DiskInv, Recorded
  <1>13. NodeInv'
    BY <1>1, <1>2, <1>8, <1>9 DEF NodeInv, Up, Flushing, Recorded
  <1> QED BY <1>10, <1>11, <1>12, <1>13 DEF IInv

(* Every step keeps the invariant. *)
LEMMA StepInv ==
    ASSUME IInv, [Next]_vars
    PROVE  IInv'
  <1>1. CASE UNCHANGED vars
    BY <1>1, SMTT(60) DEF vars, IInv, TypeOK, IndexInv, DiskInv, NodeInv, UndoExact, Recorded, Up, Flushing
  <1>2. CASE DumpDone \/ \E a \in UNION {Issues[b] : b \in Blocks} : DumpAsset(a)
    <2>1. pc = "assets" /\ pc' \in {"assets", "run"} /\ UNCHANGED <<coins, best, heads, index, tip, utxo, left, mem, crashes>>
      BY <1>2 DEF DumpDone, DumpAsset, disk
    <2> QED BY <2>1, InvDump
  <1> QED BY <1>1, <1>2, InvAcceptBlock, InvConnectTip, InvDisconnectTip, InvWriteBlockIndex,
            InvFlushStateToDisk, InvWritePartialBatch, InvWriteFinalBatch, InvCrash,
            InvLoadChainTip, InvReplayBlocks DEF Next

(* The coin database is exactly the UTXO set of the best block it names,   *)
(* and the coin view that of the tip, through any number of crashes inside *)
(* flushes and replays and for every tree of valid blocks: interrupted     *)
(* flushes are repaired by ReplayBlocks.                                   *)
THEOREM CoinsAlwaysMatchTip == Spec => []CoinsMatchTip
  <1>1. IInv => CoinsMatchTip
    BY SMTT(60) DEF IInv, DiskInv, NodeInv, Up, CoinsMatchTip
  <1> QED BY <1>1, InitInv, StepInv, PTL DEF Spec

(* Start-up never fails: what the coin database names is in the block      *)
(* index, and a flush goes on towards the head block an interrupted one    *)
(* recorded.                                                               *)
THEOREM StartupAlwaysSucceeds == Spec => []StartupSucceeds
  <1>1. IInv => StartupSucceeds
    BY SMTT(60) DEF IInv, DiskInv, NodeInv, Flushing, StartupSucceeds
  <1> QED BY <1>1, InitInv, StepInv, PTL DEF Spec

(* An interrupted flush is completed towards its new tip. *)
THEOREM FlushAlwaysCompleted == Spec => FlushCompleted
  <1>1. IInv /\ [Next]_vars => [heads # <<>> /\ heads' = <<>> => best' = heads[1]]_vars
    <2> SUFFICES ASSUME IInv, Next, heads # <<>>, heads' = <<>> PROVE best' = heads[1]
      OBVIOUS
    <2>1. PICK new \in Blocks, old \in Blocks \cup {Null} : heads = <<new, old>> /\ (Flushing => tip = new)
      BY DEF IInv, DiskInv
    <2>2. WriteFinalBatch
      BY DEF Next, AcceptBlock, ConnectTip, DisconnectTip, WriteBlockIndex, FlushStateToDisk,
             WritePartialBatch, DumpAsset, DumpDone, Crash, LoadChainTip, ReplayBlocks, disk
    <2> QED BY <2>1, <2>2 DEF WriteFinalBatch, Flushing
  <1> QED BY <1>1, InitInv, StepInv, PTL DEF Spec, FlushCompleted
==========================================================================
