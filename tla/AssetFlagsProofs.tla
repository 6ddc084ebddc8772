-------------------------- MODULE AssetFlagsProofs --------------------------
(***************************************************************************)
(* The flags of the active chain are answered exactly, for any flags,      *)
(* blocks and chain length: FlagsExact and the invariants it rests on.     *)
(***************************************************************************)
EXTENDS AssetFlags, SequenceTheorems, TLAPS

Plain == Flags \ Roots

(* FlagsExact is a fact about the three layers together, so it is carried  *)
(* as DumpExact: what the layers add up to.  DisconnectTip reverses        *)
(* commands and needs HistoryExact to know that this restores the flags    *)
(* there were before the block.                                            *)
IInv ==
    /\ TypeOK
    /\ OneCommand
    /\ LookupsOnDisk
    /\ DumpExact
    /\ HistoryExact

(* A flag that is no root has no sub-qualifiers, and the look-ups of       *)
(* CheckForAddressQualifier and CheckForAddressRestriction agree on it.    *)
LEMMA PlainHas ==
    ASSUME NEW f \in Plain
    PROVE  Has(f) <=> CheckForRestriction(f)
<1>1. SubsOf(f) = {}
  BY DEF Plain, Roots, SubsOf
<1>2. ~SubAdded(f) /\ db \cap SubsOf(f) = {}
  BY <1>1 DEF SubAdded
<1> QED
  BY <1>2 DEF Has, CheckForAddressQualifier

(* An answer is what a dump would leave on disk: the dirty commands first, *)
(* then the database, which the look-up cache never contradicts.           *)
LEMMA AnswerIsDump ==
    ASSUME TypeOK, OneCommand, LookupsOnDisk, NEW f \in Flags
    PROVE  CheckForRestriction(f) <=> f \in (db \ Erased) \cup Written
<1>1. passets.add[f] \in Change /\ passets.undo[f] \in Change
  BY DEF TypeOK, Cache, Block
<1>2. f \in lru \cup db <=> f \in db
  BY DEF LookupsOnDisk
<1>3. f \in Written <=> passets.add[f] = "set" \/ passets.undo[f] = "clear"
  BY DEF Written
<1>4. f \in Erased <=> passets.add[f] = "clear" \/ passets.undo[f] = "set"
  BY DEF Erased
<1> QED
  BY <1>1, <1>2, <1>3, <1>4 DEF CheckForRestriction, Dirty, OneCommand, Change

(* Hence the invariant gives the property: every flag that is no root is   *)
(* answered by the node as the active chain left it.                       *)
LEMMA ExactAnswers ==
    IInv => FlagsExact
<1> SUFFICES ASSUME IInv, NEW f \in Flags \ Roots
             PROVE  Has(f) <=> f \in assigned
  BY DEF FlagsExact
<1>1. f \in (db \ Erased) \cup Written <=> f \in assigned
  BY DEF IInv, DumpExact
<1>2. Has(f) <=> CheckForRestriction(f)
  BY PlainHas DEF Plain
<1> QED
  BY <1>1, <1>2, AnswerIsDump DEF IInv

(* The empty node satisfies the invariant: no flag set, no command dirty. *)
LEMMA InitIInv ==
    Init => IInv
<1> SUFFICES ASSUME Init PROVE IInv
  OBVIOUS
<1>1. passets.add = NoChange /\ passets.undo = NoChange
  BY DEF Init, Empty
<1>2. TypeOK
  BY DEF Init, TypeOK, Empty, Cache, Block, Change, NoChange
<1>3. OneCommand
  BY <1>1 DEF OneCommand, NoChange
<1>4. LookupsOnDisk
  BY DEF Init, LookupsOnDisk
<1>5. Written = {} /\ db = {} /\ assigned = {}
  BY <1>1 DEF Init, Written, NoChange
<1>6. DumpExact
  BY <1>5 DEF DumpExact
<1>7. HistoryExact
  BY DEF Init, HistoryExact
<1> QED
  BY <1>2, <1>3, <1>4, <1>6, <1>7 DEF IInv

(* Flush of the cache of a connected block: its changes take the place of  *)
(* whatever command passets held for those flags.                          *)
LEMMA FlushConnecting ==
    ASSUME TypeOK, OneCommand, NEW b \in Block, passets' = Flushed(Connecting(b))
    PROVE  /\ passets' \in Cache
           /\ \A f \in Flags : /\ passets'.add[f] = IF b[f] # "none" THEN b[f] ELSE passets.add[f]
                               /\ passets'.undo[f] = IF b[f] # "none" THEN "none" ELSE passets.undo[f]
<1>1. /\ passets'.add = Over(b, NoChange, passets.add)
      /\ passets'.undo = Over(NoChange, b, passets.undo)
  BY DEF Flushed, Connecting
<1>2. \A f \in Flags : /\ passets'.add[f] = IF b[f] # "none" THEN b[f] ELSE passets.add[f]
                       /\ passets'.undo[f] = IF b[f] # "none" THEN "none" ELSE passets.undo[f]
  BY <1>1 DEF Over, NoChange
<1>3. /\ passets.add \in Block /\ passets.undo \in Block
      /\ passets.rootAdd \subseteq Subs /\ passets.rootRemove \subseteq Subs
  BY DEF TypeOK, Cache
<1>4. Over(b, NoChange, passets.add) \in Block /\ Over(NoChange, b, passets.undo) \in Block
  BY <1>3 DEF Over, NoChange, Block, Change
<1>5. SubsWith(b, "set") \subseteq Subs /\ SubsWith(b, "clear") \subseteq Subs
  BY DEF SubsWith
<1>6. passets' \in Cache
  BY <1>3, <1>4, <1>5 DEF Flushed, Connecting, Cache
<1> QED
  BY <1>2, <1>6

(* Flush of the cache of a disconnected block: its changes become commands *)
(* to reverse, and what passets held for those flags goes.                 *)
LEMMA FlushDisconnecting ==
    ASSUME TypeOK, OneCommand, NEW b \in Block, passets' = Flushed(Disconnecting(b))
    PROVE  /\ passets' \in Cache
           /\ \A f \in Flags : /\ passets'.undo[f] = IF b[f] # "none" THEN b[f] ELSE passets.undo[f]
                               /\ passets'.add[f] = IF b[f] # "none" THEN "none" ELSE passets.add[f]
<1>1. /\ passets'.undo = Over(b, NoChange, passets.undo)
      /\ passets'.add = Over(NoChange, b, passets.add)
  BY DEF Flushed, Disconnecting
<1>2. \A f \in Flags : /\ passets'.undo[f] = IF b[f] # "none" THEN b[f] ELSE passets.undo[f]
                       /\ passets'.add[f] = IF b[f] # "none" THEN "none" ELSE passets.add[f]
  BY <1>1 DEF Over, NoChange
<1>3. /\ passets.add \in Block /\ passets.undo \in Block
      /\ passets.rootAdd \subseteq Subs /\ passets.rootRemove \subseteq Subs
  BY DEF TypeOK, Cache
<1>4. Over(b, NoChange, passets.undo) \in Block /\ Over(NoChange, b, passets.add) \in Block
  BY <1>3 DEF Over, NoChange, Block, Change
<1>5. SubsWith(b, "set") \subseteq Subs /\ SubsWith(b, "clear") \subseteq Subs
  BY DEF SubsWith
<1>6. passets' \in Cache
  BY <1>3, <1>4, <1>5 DEF Flushed, Disconnecting, Cache
<1> QED
  BY <1>2, <1>6

(* Connecting a block keeps the invariant: the check of its changes against *)
(* the answers is a check against the flags of the active chain.           *)
LEMMA ConnectKeeps ==
    ASSUME IInv, NEW b \in Block, ConnectTip(b)
    PROVE  IInv'
<1> USE DEF IInv
<1>1. /\ passets' \in Cache
      /\ \A f \in Flags : /\ passets'.add[f] = IF b[f] # "none" THEN b[f] ELSE passets.add[f]
                          /\ passets'.undo[f] = IF b[f] # "none" THEN "none" ELSE passets.undo[f]
  BY FlushConnecting DEF ConnectTip
<1>2. /\ chain' = Append(chain, [block |-> b, before |-> assigned])
      /\ chain \in Seq([block : Block, before : SUBSET Flags])
      /\ [block |-> b, before |-> assigned] \in [block : Block, before : SUBSET Flags]
  BY DEF ConnectTip, TypeOK
<1>3. TypeOK'
  <2>1. assigned' \subseteq Flags
    BY DEF ConnectTip, Applied
  <2>2. lru' \subseteq Flags /\ db' \subseteq Flags
    BY DEF ConnectTip, TypeOK
  <2>3. chain' \in Seq([block : Block, before : SUBSET Flags])
    BY <1>2
  <2> QED
    BY <1>1, <2>1, <2>2, <2>3 DEF TypeOK
<1>4. OneCommand'
  BY <1>1 DEF OneCommand
<1>5. LookupsOnDisk'
  BY DEF LookupsOnDisk, ConnectTip, Reads
<1>6. \A f \in Flags \ Roots : /\ b[f] = "set" => f \notin assigned
                               /\ b[f] = "clear" => f \in assigned
  BY ExactAnswers DEF FlagsExact, ConnectTip, VerifyChange
<1>7. DumpExact'
  <2> SUFFICES ASSUME NEW f \in Flags \ Roots
               PROVE  f \in (db' \ Erased') \cup Written' <=> f \in assigned'
    BY DEF DumpExact
  <2>1. b[f] \in Change
    BY DEF Block
  <2>2. /\ f \in Written' <=> passets'.add[f] = "set" \/ passets'.undo[f] = "clear"
        /\ f \in Erased' <=> passets'.add[f] = "clear" \/ passets'.undo[f] = "set"
        /\ f \in Written <=> passets.add[f] = "set" \/ passets.undo[f] = "clear"
        /\ f \in Erased <=> passets.add[f] = "clear" \/ passets.undo[f] = "set"
    BY DEF Written, Erased
  <2>3. f \in assigned' <=> b[f] = "set" \/ (b[f] = "none" /\ f \in assigned)
    BY DEF ConnectTip, Applied
  <2>4. f \in (db \ Erased) \cup Written <=> f \in assigned
    BY DEF DumpExact
  <2>5. db' = db
    BY DEF ConnectTip
  <2>6. /\ passets'.add[f] = IF b[f] # "none" THEN b[f] ELSE passets.add[f]
        /\ passets'.undo[f] = IF b[f] # "none" THEN "none" ELSE passets.undo[f]
    BY <1>1
  <2> QED
    BY <2>1, <2>2, <2>3, <2>4, <2>5, <2>6 DEF Change
<1>8. HistoryExact'
  <2> DEFINE n == Len(chain)
  <2>1. /\ n \in Nat
        /\ Len(chain') = n + 1
        /\ \A i \in 1 .. n : chain'[i] = chain[i]
        /\ chain'[n + 1] = [block |-> b, before |-> assigned]
    BY <1>2
  <2>2. assigned' = Applied(b, assigned)
    BY DEF ConnectTip
  <2> SUFFICES ASSUME NEW i \in 1 .. n + 1
               PROVE  /\ (IF i = n + 1 THEN assigned' ELSE chain'[i + 1].before)
                           = Applied(chain'[i].block, chain'[i].before)
                      /\ \A f \in Flags \ Roots :
                            /\ chain'[i].block[f] = "set" => f \notin chain'[i].before
                            /\ chain'[i].block[f] = "clear" => f \in chain'[i].before
    BY <2>1 DEF HistoryExact, Applied
  <2>3. CASE i = n + 1
    BY <2>1, <2>2, <2>3, <1>6
  <2>4. CASE i \in 1 .. n
    <3>1. chain'[i] = chain[i] /\ i # n + 1
      BY <2>1, <2>4
    <3>2. /\ (IF i = n THEN assigned ELSE chain[i + 1].before)
               = Applied(chain[i].block, chain[i].before)
          /\ \A f \in Flags \ Roots : /\ chain[i].block[f] = "set" => f \notin chain[i].before
                                      /\ chain[i].block[f] = "clear" => f \in chain[i].before
      BY <2>4 DEF HistoryExact
    <3>3. chain'[i + 1].before = IF i = n THEN assigned ELSE chain[i + 1].before
      <4>1. CASE i = n
        BY <2>1, <4>1
      <4>2. CASE i # n
        <5>1. i + 1 \in 1 .. n
          BY <2>1, <2>4, <4>2
        <5> QED
          BY <2>1, <4>2, <5>1
      <4> QED
        BY <4>1, <4>2
    <3> QED
      BY <3>1, <3>2, <3>3
  <2> QED
    BY <2>1, <2>3, <2>4
<1> QED
  BY <1>3, <1>4, <1>5, <1>7, <1>8

(* What DisconnectTip takes off the chain, and what is left of it. *)
LEMMA WithoutLast ==
    ASSUME NEW S, NEW s \in Seq(S), s # <<>>
    PROVE  /\ Len(s) \in Nat \ {0}
           /\ s[Len(s)] \in S
           /\ SubSeq(s, 1, Len(s) - 1) \in Seq(S)
           /\ Len(SubSeq(s, 1, Len(s) - 1)) = Len(s) - 1
           /\ \A i \in 1 .. Len(s) - 1 : SubSeq(s, 1, Len(s) - 1)[i] = s[i]
<1> DEFINE n == Len(s)
           t == SubSeq(s, 1, n - 1)
<1>1. n \in Nat /\ n # 0 /\ \A i \in 1 .. n : s[i] \in S
  OBVIOUS
<1>2. 1 .. n - 1 \subseteq 1 .. n /\ n \in 1 .. n
  BY <1>1
<1>3. \A i \in 1 .. n - 1 : s[i] \in S
  BY <1>1, <1>2
<1>4. /\ t \in Seq(S)
      /\ Len(t) = IF 1 <= n - 1 THEN n - 1 - 1 + 1 ELSE 0
      /\ \A i \in 1 .. n - 1 - 1 + 1 : t[i] = s[1 + i - 1]
  <2> HIDE DEF n
  <2> QED
    BY <1>1, <1>3, SubSeqProperties
<1> HIDE DEF n, t
<1>5. Len(t) = n - 1 /\ \A i \in 1 .. n - 1 : t[i] = s[i]
  BY <1>1, <1>4
<1> QED
  BY <1>1, <1>2, <1>4, <1>5 DEF n, t

(* Disconnecting the tip keeps the invariant: reversing a change that was  *)
(* one restores the flag, and the others were not touched.                 *)
LEMMA DisconnectKeeps ==
    ASSUME IInv, DisconnectTip
    PROVE  IInv'
<1> USE DEF IInv
<1> DEFINE n == Len(chain)
           b == chain[n].block
           old == chain[n].before
           Entry == [block : Block, before : SUBSET Flags]
<1>0. chain \in Seq(Entry) /\ chain # <<>>
  BY DEF DisconnectTip, TypeOK
<1>1. n \in Nat /\ n \in 1 .. n
  BY <1>0
<1>2. b \in Block /\ old \subseteq Flags
  <2> HIDE DEF Entry
  <2>1. chain[n] \in Entry
    BY <1>0, WithoutLast
  <2> QED
    BY <2>1 DEF Entry
<1>3. /\ passets' = Flushed(Disconnecting(b))
      /\ chain' = SubSeq(chain, 1, n - 1)
      /\ assigned' = old
      /\ db' = db /\ lru' = lru
  BY DEF DisconnectTip
<1>4. /\ assigned = Applied(b, old)
      /\ \A f \in Flags \ Roots : /\ b[f] = "set" => f \notin old
                                  /\ b[f] = "clear" => f \in old
  BY <1>1 DEF HistoryExact
<1>5. /\ Len(chain') = n - 1
      /\ \A i \in 1 .. n - 1 : chain'[i] = chain[i]
      /\ chain' \in Seq(Entry)
  <2> HIDE DEF Entry
  <2> QED
    BY <1>0, <1>3, WithoutLast
<1> HIDE DEF b, old
<1>6. /\ passets' \in Cache
      /\ \A f \in Flags : /\ passets'.undo[f] = IF b[f] # "none" THEN b[f] ELSE passets.undo[f]
                          /\ passets'.add[f] = IF b[f] # "none" THEN "none" ELSE passets.add[f]
  BY <1>2, <1>3, FlushDisconnecting
<1>7. TypeOK'
  BY <1>2, <1>3, <1>5, <1>6 DEF TypeOK
<1>8. OneCommand'
  BY <1>6 DEF OneCommand
<1>9. LookupsOnDisk'
  BY <1>3 DEF LookupsOnDisk
<1>10. DumpExact'
  <2> SUFFICES ASSUME NEW f \in Flags \ Roots
               PROVE  f \in (db' \ Erased') \cup Written' <=> f \in assigned'
    BY DEF DumpExact
  <2>1. b[f] \in Change
    BY <1>2 DEF Block
  <2>2. /\ f \in Written' <=> passets'.add[f] = "set" \/ passets'.undo[f] = "clear"
        /\ f \in Erased' <=> passets'.add[f] = "clear" \/ passets'.undo[f] = "set"
        /\ f \in Written <=> passets.add[f] = "set" \/ passets.undo[f] = "clear"
        /\ f \in Erased <=> passets.add[f] = "clear" \/ passets.undo[f] = "set"
    BY DEF Written, Erased
  <2>3. /\ f \in assigned <=> b[f] = "set" \/ (b[f] = "none" /\ f \in old)
        /\ b[f] = "set" => f \notin old
        /\ b[f] = "clear" => f \in old
    BY <1>4 DEF Applied
  <2>4. f \in (db \ Erased) \cup Written <=> f \in assigned
    BY DEF DumpExact
  <2>5. /\ passets'.undo[f] = IF b[f] # "none" THEN b[f] ELSE passets.undo[f]
        /\ passets'.add[f] = IF b[f] # "none" THEN "none" ELSE passets.add[f]
    BY <1>6
  <2>6. db' = db /\ assigned' = old
    BY <1>3
  <2> QED
    BY <2>1, <2>2, <2>3, <2>4, <2>5, <2>6 DEF Change
<1>11. HistoryExact'
  <2> SUFFICES ASSUME NEW i \in 1 .. n - 1
               PROVE  /\ (IF i = n - 1 THEN assigned' ELSE chain'[i + 1].before)
                           = Applied(chain'[i].block, chain'[i].before)
                      /\ \A f \in Flags \ Roots :
                            /\ chain'[i].block[f] = "set" => f \notin chain'[i].before
                            /\ chain'[i].block[f] = "clear" => f \in chain'[i].before
    BY <1>5 DEF HistoryExact, Applied
  <2>1. i \in 1 .. n /\ i # n /\ chain'[i] = chain[i]
    BY <1>1, <1>5
  <2>2. /\ chain[i + 1].before = Applied(chain[i].block, chain[i].before)
        /\ \A f \in Flags \ Roots : /\ chain[i].block[f] = "set" => f \notin chain[i].before
                                    /\ chain[i].block[f] = "clear" => f \in chain[i].before
    BY <2>1 DEF HistoryExact
  <2>3. (IF i = n - 1 THEN assigned' ELSE chain'[i + 1].before) = chain[i + 1].before
    <3>1. CASE i = n - 1
      BY <1>1, <1>3, <3>1 DEF old
    <3>2. CASE i # n - 1
      <4>1. i + 1 \in 1 .. n - 1
        BY <1>1, <3>2
      <4> QED
        BY <1>5, <3>2, <4>1
    <3> QED
      BY <3>1, <3>2
  <2> QED
    BY <2>1, <2>2, <2>3
<1> QED
  BY <1>7, <1>8, <1>9, <1>10, <1>11

(* A dump keeps the invariant: the database takes over what passets held. *)
LEMMA DumpKeeps ==
    ASSUME IInv, DumpCacheToDatabase
    PROVE  IInv'
<1> USE DEF IInv
<1>1. passets'.add = NoChange /\ passets'.undo = NoChange
  BY DEF DumpCacheToDatabase, Empty
<1>2. /\ db' = (db \ Erased) \cup Written
      /\ lru' = (lru \ Erased) \cup Written
      /\ chain' = chain /\ assigned' = assigned
  BY DEF DumpCacheToDatabase
<1>3. Written \subseteq Flags
  BY DEF Written
<1>4. passets' \in Cache
  BY DEF DumpCacheToDatabase, Empty, Cache, Block, Change, NoChange
<1>5. TypeOK'
  BY <1>2, <1>3, <1>4 DEF TypeOK
<1>6. OneCommand'
  BY <1>1 DEF OneCommand, NoChange
<1>7. LookupsOnDisk'
  BY <1>2 DEF LookupsOnDisk
<1>8. Written' = {} /\ Erased' = {}
  BY <1>1 DEF Written, Erased, NoChange
<1>9. DumpExact'
  BY <1>2, <1>8 DEF DumpExact
<1>10. HistoryExact'
  BY <1>2 DEF HistoryExact, Applied
<1> QED
  BY <1>5, <1>6, <1>7, <1>9, <1>10

(* A step that only touches the look-up cache, within the database, keeps  *)
(* the invariant.                                                          *)
LEMMA LookupKeeps ==
    ASSUME IInv, lru' \subseteq db, UNCHANGED <<db, passets, chain, assigned>>
    PROVE  IInv'
<1> USE DEF IInv
<1>1. TypeOK'
  BY DEF TypeOK
<1>2. OneCommand' /\ LookupsOnDisk'
  BY DEF OneCommand, LookupsOnDisk
<1>3. DumpExact'
  BY DEF DumpExact, Written, Erased
<1>4. HistoryExact'
  BY DEF HistoryExact, Applied
<1> QED
  BY <1>1, <1>2, <1>3, <1>4

(* Every behaviour of connecting, disconnecting, dumping and looking up    *)
(* keeps the inductive invariant.                                          *)
THEOREM InductiveInvariant ==
    Spec => []IInv
<1>1. IInv /\ [Next]_vars => IInv'
  <2> SUFFICES ASSUME IInv, [Next]_vars PROVE IInv'
    OBVIOUS
  <2>1. ASSUME NEW b \in Block, ConnectTip(b) PROVE IInv'
    BY <2>1, ConnectKeeps
  <2>2. CASE DisconnectTip
    BY <2>2, DisconnectKeeps
  <2>3. CASE DumpCacheToDatabase
    BY <2>3, DumpKeeps
  <2>4. ASSUME NEW f \in Flags, CheckFlag(f) PROVE IInv'
    <3>1. lru' \subseteq db
      BY <2>4 DEF CheckFlag, Reads, IInv, LookupsOnDisk
    <3> QED
      BY <2>4, <3>1, LookupKeeps DEF CheckFlag
  <2>5. ASSUME NEW f \in Flags, Evict(f) PROVE IInv'
    <3>1. lru' \subseteq db
      BY <2>5 DEF Evict, IInv, LookupsOnDisk
    <3> QED
      BY <2>5, <3>1, LookupKeeps DEF Evict
  <2>6. CASE UNCHANGED vars
    <3>1. lru' \subseteq db
      BY <2>6 DEF vars, IInv, LookupsOnDisk
    <3> QED
      BY <2>6, <3>1, LookupKeeps DEF vars
  <2> QED
    BY <2>1, <2>2, <2>3, <2>4, <2>5, <2>6 DEF Next
<1> QED
  BY InitIInv, <1>1, PTL DEF Spec

(* Every flag that is no root qualifier is answered exactly as the blocks  *)
(* of the active chain left it, for every chain, reorganisation, dump and  *)
(* state of the look-up caches.                                            *)
THEOREM FlagsAnsweredExactly ==
    Spec => []FlagsExact
BY InductiveInvariant, ExactAnswers, PTL

(* At every moment a dump would write the flags of the active chain and no *)
(* others, root qualifiers aside.                                          *)
THEOREM DumpsExactly ==
    Spec => []DumpExact
<1>1. IInv => DumpExact
  BY DEF IInv
<1> QED
  BY InductiveInvariant, <1>1, PTL

(* Every command of every block of the active chain changed the flag it    *)
(* names, so that DisconnectBlock, which reverses commands, restores what  *)
(* was there before.                                                       *)
THEOREM CommandsChangeTheirFlag ==
    Spec => []HistoryExact
<1>1. IInv => HistoryExact
  BY DEF IInv
<1> QED
  BY InductiveInvariant, <1>1, PTL
=============================================================================
