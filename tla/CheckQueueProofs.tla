------------------------- MODULE CheckQueueProofs -------------------------
(***************************************************************************)
(* Proofs about CheckQueue for any number of workers, masters and checks   *)
(* and any batch size: no check is lost, Wait returns the conjunction of   *)
(* the checks, and nothing is left behind for the next block.              *)
(***************************************************************************)
EXTENDS CheckQueue, FiniteSetTheorems, TLAPS

USE ZenonT(60)

Sleeping == {t \in Threads : pc[t] \in {"wait", "woken"}}
Looping ==
    {t \in Threads : pc[t] \in {"wait", "woken", "work"} \/ (pc[t] = "lock" /\ vChecks[t] # {})}

(* nIdle and nTotal never fall below the threads they count (interrupted   *)
(* threads stay counted), so that a batch has at least one check.          *)
Counted == Cardinality(Sleeping) <= nIdle /\ Cardinality(Looping) <= nTotal

(* ControlMutex is held by the one master that is not idle. *)
ControlHeld ==
    /\ \A m \in Masters : control = m <=> pc[m] # "idle"
    /\ \A m \in Masters : pc[m] # "gone"
    /\ \A w \in Workers : pc[w] \in {"lock", "work", "wait", "woken", "gone"}

Settled == control = None \/ pc[control] = "waited"

(* Where the failed checks are: still to be accounted for, or recorded in  *)
(* fAllOk or in the result of the batch they were in.                      *)
Blame ==
    /\ ~Settled /\ fAllOk => bad \subseteq Outstanding
    /\ ~fAllOk => bad # {}
    /\ \A t \in Threads : ~fOk[t] => bad # {}
    /\ \A t \in Threads : vChecks[t] = {} => fOk[t] /\ pc[t] # "work"
    /\ \A t \in Threads : pc[t] = "lock" /\ fOk[t] => vChecks[t] \cap bad = {}
    /\ control = None => nAdded = 0

IInv ==
    /\ TypeOK /\ NoCheckLost /\ VerdictExact /\ QuietAfterWait
    /\ ControlHeld /\ Blame /\ Counted

-----------------------------------------------------------------------------
(* The sets counted are finite. *)
LEMMA Finite ==
    ASSUME TypeOK
    PROVE  /\ IsFiniteSet(Outstanding) /\ Outstanding \subseteq 1 .. nAdded
           /\ IsFiniteSet(queue)
           /\ IsFiniteSet(Sleeping) /\ IsFiniteSet(Looping)
  <1>1. Outstanding \subseteq 1 .. nAdded
    BY DEF TypeOK, Outstanding
  <1>2. IsFiniteSet(1 .. nAdded)
    BY FS_Interval, SMTT(60) DEF TypeOK
  <1>3. IsFiniteSet(Threads)
    BY FS_Union, ThreadsAssumption DEF Threads
  <1>4. Sleeping \subseteq Threads /\ Looping \subseteq Threads
    BY DEF Sleeping, Looping
  <1>5. queue \subseteq 1 .. nAdded
    BY DEF TypeOK
  <1> QED
    BY <1>1, <1>2, <1>3, <1>4, <1>5, FS_Subset

(* A batch has at least one check. *)
LEMMA BatchNotEmpty ==
    ASSUME NEW size \in Nat, NEW total \in Nat, NEW idle \in Nat
    PROVE  BatchLen(size, total, idle) \in Nat \ {0}
  <1>1. size \div (total + idle + 1) \in Int
    BY SMTT(60)
  <1> QED
    BY <1>1, SizesAssumption, SMTT(60) DEF BatchLen

(* What is outstanding, check by check. *)
LEMMA OutstandingMembers ==
    ASSUME NEW c
    PROVE  c \in Outstanding <=> c \in queue \/ \E t \in Threads : c \in vChecks[t]
  BY DEF Outstanding

(* The state in which a critical section reaches the top of the loop: the  *)
(* thread's batch is accounted for in ok, todo, total and idle.            *)
AtTop(t, W, ok, todo, total, idle) ==
    /\ t \in Threads /\ pc[t] \in {"lock", "woken"}
    /\ W \subseteq Waiting(Threads) /\ t \notin W
    /\ ok \in BOOLEAN /\ todo \in Nat /\ total \in Nat /\ idle \in Nat
    /\ ~Settled /\ ok => bad \subseteq Outstanding \ vChecks[t]
    /\ ~ok => bad # {}
    /\ Settled => ok
    /\ todo = Cardinality(Outstanding \ vChecks[t])
    /\ Cardinality(Sleeping \ {t}) <= idle
    /\ Cardinality(Looping \cup {t}) <= total

(* A thread at the top of the loop keeps the outstanding checks together   *)
(* and the other threads' batches as they are.                             *)
LEMMA TopMovesChecks ==
    ASSUME IInv, NEW t, NEW W, NEW ok, NEW todo, NEW total, NEW idle,
           AtTop(t, W, ok, todo, total, idle),
           LoopTop(t, W, ok, todo, total, idle)
    PROVE  /\ Outstanding' = Outstanding \ vChecks[t]
           /\ \A u \in Threads \ {t} : vChecks'[u] = vChecks[u] /\ fOk'[u] = fOk[u]
           /\ vChecks' \in [Threads -> SUBSET (1 .. nAdded)]
           /\ fOk' \in [Threads -> BOOLEAN]
           /\ queue' \subseteq queue /\ vChecks'[t] \subseteq queue /\ vChecks'[t] \cap queue' = {}
  <1> USE DEF IInv, TypeOK, AtTop
  <1>1. CASE TakeBatch(t, W, ok, total, idle)
    <2>1. PICK S \in SUBSET queue : queue' = queue \ S /\ vChecks' = [vChecks EXCEPT ![t] = S]
      BY <1>1 DEF TakeBatch
    <2>2. \A c : c \in Outstanding' <=> c \in queue' \/ \E u \in Threads : c \in vChecks'[u]
      BY DEF Outstanding
    <2>3. \A c : c \in Outstanding <=> c \in queue \/ \E u \in Threads : c \in vChecks[u]
      BY DEF Outstanding
    <2>4. vChecks'[t] = S /\ \A u \in Threads \ {t} : vChecks'[u] = vChecks[u]
      BY <2>1
    <2>5. vChecks[t] \cap queue = {} /\ \A u \in Threads \ {t} : vChecks[t] \cap vChecks[u] = {}
      BY DEF NoCheckLost
    <2>6. \A c : c \in Outstanding' <=> c \in Outstanding \ vChecks[t]
      BY <2>1, <2>2, <2>3, <2>4, <2>5
    <2>7. Outstanding' = Outstanding \ vChecks[t]
      BY <2>6
    <2>8. fOk' = [fOk EXCEPT ![t] = ok]
      BY <1>1 DEF TakeBatch
    <2> QED
      BY <2>1, <2>4, <2>7, <2>8
  <1>2. CASE Return(t, ok, todo, total, idle) \/ Sleep(t, W, ok, todo, total, idle)
    <2>1. queue' = queue /\ vChecks' = [vChecks EXCEPT ![t] = {}] /\ fOk' = [fOk EXCEPT ![t] = TRUE]
      BY <1>2 DEF Return, Sleep, NoBatch
    <2>2. \A c : c \in Outstanding' <=> c \in queue' \/ \E u \in Threads : c \in vChecks'[u]
      BY DEF Outstanding
    <2>3. \A c : c \in Outstanding <=> c \in queue \/ \E u \in Threads : c \in vChecks[u]
      BY DEF Outstanding
    <2>4. vChecks'[t] = {} /\ \A u \in Threads \ {t} : vChecks'[u] = vChecks[u]
      BY <2>1
    <2>5. vChecks[t] \cap queue = {} /\ \A u \in Threads \ {t} : vChecks[t] \cap vChecks[u] = {}
      BY DEF NoCheckLost
    <2>6. \A c : c \in Outstanding' <=> c \in Outstanding \ vChecks[t]
      BY <2>1, <2>2, <2>3, <2>4, <2>5
    <2>7. Outstanding' = Outstanding \ vChecks[t]
      BY <2>6
    <2> QED
      BY <2>1, <2>4, <2>7
  <1> QED
    BY <1>1, <1>2 DEF LoopTop

(* A critical section that reaches the top of the loop keeps the           *)
(* invariant.                                                              *)
LEMMA TopKeeps ==
    ASSUME IInv, NEW t, NEW W, NEW ok, NEW todo, NEW total, NEW idle,
           AtTop(t, W, ok, todo, total, idle),
           LoopTop(t, W, ok, todo, total, idle)
    PROVE  IInv'
  <1> DEFINE Rest == Outstanding \ vChecks[t]
  <1>1. Outstanding' = Rest
    BY TopMovesChecks
  <1>2. /\ \A u \in Threads \ {t} : vChecks'[u] = vChecks[u] /\ fOk'[u] = fOk[u]
        /\ vChecks' \in [Threads -> SUBSET (1 .. nAdded)]
        /\ fOk' \in [Threads -> BOOLEAN]
        /\ queue' \subseteq queue /\ vChecks'[t] \subseteq queue /\ vChecks'[t] \cap queue' = {}
    BY TopMovesChecks
  <1>3. /\ nTodo' = todo
        /\ UNCHANGED <<control, dtor, nAdded, bad, interrupted>>
    BY DEF LoopTop, session
  <1>4. IsFiniteSet(Sleeping) /\ IsFiniteSet(Looping) /\ IsFiniteSet(Rest)
    BY Finite, FS_Difference DEF IInv
  <1>5. /\ t \in Threads /\ pc[t] \in {"lock", "woken"}
        /\ W \subseteq Waiting(Threads) /\ t \notin W
        /\ ok \in BOOLEAN /\ todo \in Nat /\ total \in Nat /\ idle \in Nat
    BY DEF AtTop
  <1>6. t \in Masters => control = t /\ ~Settled
    <2>1. t \in Masters => control = t
      BY <1>5 DEF IInv, ControlHeld
    <2> QED
      BY <2>1, <1>5, ThreadsAssumption DEF Settled
  <1>7. nTotal' \in Nat /\ nIdle' \in Nat /\ fAllOk' \in BOOLEAN /\ fRet' \in BOOLEAN \cup {None}
    <2>1. CASE TakeBatch(t, W, ok, total, idle)
      BY <2>1, <1>5 DEF TakeBatch, IInv, TypeOK
    <2>2. CASE Return(t, ok, todo, total, idle)
      <3>1. t \in Looping \cup {t} /\ IsFiniteSet(Looping \cup {t})
        BY <1>4, FS_AddElement
      <3>2. Cardinality(Looping \cup {t}) \in Nat \ {0}
        BY <3>1, FS_EmptySet, FS_CardinalityType
      <3>3. total >= 1
        BY <3>2, <1>5, SMTT(60) DEF AtTop
      <3> QED
        BY <3>3, <2>2, <1>5, SMTT(60) DEF Return, IInv, TypeOK
    <2>3. CASE Sleep(t, W, ok, todo, total, idle)
      BY <2>3, <1>5, SMTT(60) DEF Sleep, IInv, TypeOK
    <2> QED
      BY <2>1, <2>2, <2>3 DEF LoopTop
  <1>8. \E where \in {"work", "waited", "wait"} : \E V \in {W, {}} :
          /\ pc' = Moved(V, t, where)
          /\ where = "work" <=> queue # {}
          /\ where = "waited" => t \in Masters /\ todo = 0
    BY DEF LoopTop, TakeBatch, Return, Sleep
  <1>9. PICK where \in {"work", "waited", "wait"}, V \in {W, {}} :
          /\ pc' = Moved(V, t, where)
          /\ where = "work" <=> queue # {}
          /\ where = "waited" => t \in Masters /\ todo = 0
    BY <1>8
  <1>10. /\ pc' \in [Threads -> {"lock", "work", "wait", "woken", "gone", "idle", "control",
                                 "waited", "terminated"}]
         /\ pc'[t] = where
         /\ \A u \in Threads \ {t} : pc'[u] = pc[u] \/ (pc[u] = "wait" /\ pc'[u] = "woken")
    BY <1>9, <1>5 DEF Moved, Waiting, IInv, TypeOK
  <1>11. TypeOK'
    <2>1. /\ nAdded' \in 0 .. MaxChecks /\ bad' \subseteq 1 .. nAdded' /\ dtor' \in BOOLEAN
          /\ control' \in Masters \cup {None} /\ interrupted' \subseteq Threads
      BY <1>3 DEF IInv, TypeOK
    <2>2. queue' \subseteq 1 .. nAdded' /\ vChecks' \in [Threads -> SUBSET (1 .. nAdded')]
      BY <1>2, <1>3 DEF IInv, TypeOK
    <2>3. nTodo' \in Nat
      BY <1>3, <1>5
    <2> QED
      BY <2>1, <2>2, <2>3, <1>2, <1>7, <1>10 DEF TypeOK
  <1>12. NoCheckLost'
    <2>1. nTodo' = Cardinality(Outstanding')
      BY <1>1, <1>3 DEF AtTop
    <2>2. ASSUME NEW u \in Threads PROVE vChecks'[u] \cap queue' = {}
      BY <1>2 DEF IInv, NoCheckLost
    <2>3. ASSUME NEW u \in Threads, NEW v \in Threads, u # v
          PROVE  vChecks'[u] \cap vChecks'[v] = {}
      BY <2>3, <1>2 DEF IInv, NoCheckLost
    <2>4. vChecks'[t] # {} => where = "work"
      BY <1>2, <1>9
    <2>5. ASSUME NEW u \in Threads, vChecks'[u] # {} PROVE pc'[u] \in {"work", "lock"}
      BY <2>4, <2>5, <1>2, <1>10 DEF IInv, NoCheckLost
    <2> QED
      BY <2>1, <2>2, <2>3, <2>5 DEF NoCheckLost
  <1>13. ControlHeld'
    BY <1>3, <1>5, <1>6, <1>9, <1>10, ThreadsAssumption, SMTT(60) DEF IInv, ControlHeld, Threads
  <1>14. Settled' <=> (Settled \/ where = "waited")
    <2>1. CASE control = None
      BY <2>1, <1>3, <1>6, <1>9, ThreadsAssumption DEF Settled
    <2>2. CASE control = t
      BY <2>2, <1>3, <1>5, <1>10 DEF Settled
    <2>3. CASE control # None /\ control # t
      <3>1. control \in Threads \ {t} /\ t \notin Masters
        BY <2>3, <1>6 DEF IInv, TypeOK, Threads
      <3>2. where # "waited"
        BY <3>1, <1>9
      <3>3. pc'[control] = "waited" <=> pc[control] = "waited"
        BY <3>1, <1>10
      <3> QED
        BY <3>2, <3>3, <1>3 DEF Settled
    <2> QED
      BY <2>1, <2>2, <2>3
  <1>15. QuietAfterWait'
    <2>1. ASSUME where = "waited" PROVE Outstanding' = {} /\ nTodo' = 0 /\ fAllOk'
      <3>1. todo = 0 /\ Return(t, ok, todo, total, idle)
        BY <2>1, <1>9, <1>10, <1>5 DEF LoopTop, TakeBatch, Return, Sleep, Moved
      <3>2. Rest = {}
        BY <3>1, <1>4, FS_EmptySet DEF AtTop
      <3> QED
        BY <3>1, <3>2, <1>1, <1>3 DEF Return
    <2>2. ASSUME Settled, where # "waited" PROVE Outstanding' = {} /\ nTodo' = 0 /\ fAllOk'
      <3>1. Outstanding = {}
        BY <2>2 DEF IInv, QuietAfterWait, Settled
      <3>2. Outstanding' = {} /\ nTodo' = 0
        BY <3>1, <1>1, <1>3, FS_EmptySet DEF AtTop
      <3>3. fAllOk' = ok /\ ok
        BY <2>2, <1>9, <1>10, <1>5 DEF LoopTop, TakeBatch, Return, Sleep, Moved, AtTop
      <3> QED
        BY <3>2, <3>3
    <2> QED
      BY <2>1, <2>2, <1>14 DEF QuietAfterWait, Settled
  <1>16. VerdictExact'
    <2>1. ASSUME where = "waited" PROVE fRet' = (bad' = {})
      <3>1. todo = 0 /\ Return(t, ok, todo, total, idle)
        BY <2>1, <1>9, <1>10, <1>5 DEF LoopTop, TakeBatch, Return, Sleep, Moved
      <3>2. Rest = {}
        BY <3>1, <1>4, FS_EmptySet DEF AtTop
      <3>3. ~Settled
        BY <3>1, <1>6 DEF Return
      <3>4. ok = (bad = {})
        BY <3>2, <3>3, <1>5 DEF AtTop
      <3> QED
        BY <3>1, <3>4, <1>3 DEF Return
    <2>2. ASSUME NEW m \in Masters, pc'[m] = "waited", where # "waited"
          PROVE  fRet' = (bad' = {})
      <3>1. pc[m] = "waited"
        BY <2>2, <1>10 DEF Threads
      <3>2. fRet' = fRet
        BY <2>2, <1>9, <1>10, <1>5 DEF LoopTop, TakeBatch, Return, Sleep, Moved
      <3> QED
        BY <3>1, <3>2, <1>3 DEF IInv, VerdictExact
    <2> QED
      BY <2>1, <2>2 DEF VerdictExact
  <1>17. where # "waited" => fAllOk' = ok
    BY <1>9, <1>10, <1>5 DEF LoopTop, TakeBatch, Return, Sleep, Moved
  <1>18. fAllOk' \in {ok, TRUE}
    BY DEF LoopTop, TakeBatch, Return, Sleep
  <1>19. (where = "work" /\ vChecks'[t] # {} /\ fOk'[t] = ok) \/ (where # "work" /\ fOk'[t] = TRUE)
    <2>1. CASE TakeBatch(t, W, ok, total, idle)
      <3>1. PICK S \in SUBSET queue :
              /\ Cardinality(S) = BatchLen(Cardinality(queue), total, idle)
              /\ vChecks' = [vChecks EXCEPT ![t] = S]
        BY <2>1 DEF TakeBatch
      <3>2. Cardinality(queue) \in Nat
        BY Finite, FS_CardinalityType DEF IInv
      <3>3. Cardinality(S) # 0
        BY <3>1, <3>2, <1>5, BatchNotEmpty
      <3>4. S # {}
        BY <3>3, FS_EmptySet
      <3>5. vChecks'[t] = S
        BY <3>1, <1>5 DEF IInv, TypeOK
      <3>6. fOk'[t] = ok /\ where = "work"
        BY <2>1, <1>5, <1>9 DEF TakeBatch, IInv, TypeOK
      <3> QED
        BY <3>4, <3>5, <3>6
    <2>2. CASE Return(t, ok, todo, total, idle) \/ Sleep(t, W, ok, todo, total, idle)
      BY <2>2, <1>5, <1>9 DEF Return, Sleep, NoBatch, IInv, TypeOK
    <2> QED
      BY <2>1, <2>2 DEF LoopTop
  <1>20. Blame'
    <2>1. ~Settled' /\ fAllOk' => bad' \subseteq Outstanding'
      BY <1>1, <1>3, <1>14, <1>17 DEF AtTop
    <2>2. ~fAllOk' => bad' # {}
      BY <1>3, <1>18 DEF AtTop
    <2>3. ASSUME NEW u \in Threads PROVE ~fOk'[u] => bad' # {}
      BY <1>2, <1>3, <1>19 DEF AtTop, IInv, Blame
    <2>4. ASSUME NEW u \in Threads PROVE vChecks'[u] = {} => fOk'[u] /\ pc'[u] # "work"
      BY <1>2, <1>10, <1>19 DEF IInv, Blame
    <2>5. ASSUME NEW u \in Threads, pc'[u] = "lock", fOk'[u] PROVE vChecks'[u] \cap bad' = {}
      BY <2>5, <1>2, <1>3, <1>10 DEF IInv, Blame
    <2>6. control' = None => nAdded' = 0
      BY <1>3 DEF IInv, Blame
    <2> QED
      BY <2>1, <2>2, <2>3, <2>4, <2>5, <2>6 DEF Blame
  <1>21. Counted'
    <2>1. Sleeping' \subseteq IF where = "wait" THEN (Sleeping \ {t}) \cup {t} ELSE Sleeping \ {t}
      BY <1>10 DEF Sleeping
    <2>2. Looping' \subseteq IF where = "waited" THEN (Looping \cup {t}) \ {t} ELSE Looping \cup {t}
      BY <1>2, <1>10 DEF Looping
    <2>3. /\ IsFiniteSet(Sleeping \ {t}) /\ IsFiniteSet(Looping \cup {t})
          /\ IsFiniteSet((Sleeping \ {t}) \cup {t}) /\ IsFiniteSet((Looping \cup {t}) \ {t})
      BY <1>4, FS_AddElement, FS_RemoveElement
    <2>4. /\ Cardinality((Sleeping \ {t}) \cup {t}) = Cardinality(Sleeping \ {t}) + 1
          /\ Cardinality((Looping \cup {t}) \ {t}) = Cardinality(Looping \cup {t}) - 1
      BY <2>3, FS_AddElement, FS_RemoveElement
    <2>5. /\ Cardinality(Sleeping \ {t}) \in Nat /\ Cardinality(Looping \cup {t}) \in Nat
          /\ Cardinality(Sleeping') \in Nat /\ Cardinality(Looping') \in Nat
      BY <2>3, <1>4, <1>11, Finite, FS_CardinalityType, FS_Subset, <2>1, <2>2
    <2>6. /\ nIdle' = IF where = "wait" THEN idle + 1 ELSE idle
          /\ nTotal' = IF where = "waited" THEN total - 1 ELSE total
      BY <1>9, <1>10, <1>5 DEF LoopTop, TakeBatch, Return, Sleep, Moved
    <2>7. Cardinality(Sleeping') <= nIdle'
      <3>1. CASE where = "wait"
        <4>1. Cardinality(Sleeping') <= Cardinality((Sleeping \ {t}) \cup {t})
          BY <3>1, <2>1, <2>3, FS_Subset
        <4> QED
          BY <4>1, <3>1, <2>4, <2>5, <2>6, <1>5, SMTT(60) DEF AtTop
      <3>2. CASE where # "wait"
        <4>1. Cardinality(Sleeping') <= Cardinality(Sleeping \ {t})
          BY <3>2, <2>1, <2>3, FS_Subset
        <4> QED
          BY <4>1, <3>2, <2>5, <2>6, <1>5, SMTT(60) DEF AtTop
      <3> QED
        BY <3>1, <3>2
    <2>8. Cardinality(Looping') <= nTotal'
      <3>1. CASE where = "waited"
        <4>1. Cardinality(Looping') <= Cardinality((Looping \cup {t}) \ {t})
          BY <3>1, <2>2, <2>3, FS_Subset
        <4> QED
          BY <4>1, <3>1, <2>4, <2>5, <2>6, <1>5, SMTT(60) DEF AtTop
      <3>2. CASE where # "waited"
        <4>1. Cardinality(Looping') <= Cardinality(Looping \cup {t})
          BY <3>2, <2>2, <2>3, FS_Subset
        <4> QED
          BY <4>1, <3>2, <2>5, <2>6, <1>5, SMTT(60) DEF AtTop
      <3> QED
        BY <3>1, <3>2
    <2> QED
      BY <2>7, <2>8 DEF Counted
  <1> QED
    BY <1>11, <1>12, <1>13, <1>15, <1>16, <1>20, <1>21 DEF IInv

(* Each way into the critical section accounts for the thread's batch. *)
LEMMA EnterKeeps ==
    ASSUME IInv, NEW t \in Threads, Enter(t)
    PROVE  IInv'
  <1>1. pc[t] = "lock" /\ vChecks[t] = {} /\ LoopTop(t, {}, fAllOk, nTodo, nTotal + 1, nIdle)
    BY DEF Enter
  <1>2. /\ IsFiniteSet(Sleeping) /\ IsFiniteSet(Looping)
        /\ Cardinality(Sleeping) \in Nat /\ Cardinality(Looping) \in Nat
    BY Finite, FS_CardinalityType DEF IInv
  <1>3. Cardinality(Sleeping \ {t}) <= Cardinality(Sleeping)
    <2>1. Sleeping \ {t} \in SUBSET Sleeping
      OBVIOUS
    <2> QED
      BY <2>1, <1>2, FS_Subset
  <1>4. Cardinality(Looping \cup {t}) <= Cardinality(Looping) + 1 /\ Cardinality(Looping \cup {t}) \in Nat
    <2>1. Cardinality(Looping \cup {t}) =
            IF t \in Looping THEN Cardinality(Looping) ELSE Cardinality(Looping) + 1
      BY <1>2, FS_AddElement
    <2> QED
      BY <2>1, <1>2, SMTT(60)
  <1>5. Cardinality(Sleeping \ {t}) <= nIdle /\ Cardinality(Looping \cup {t}) <= nTotal + 1
    <2>1. Cardinality(Sleeping \ {t}) \in Nat
      BY <1>2, FS_Difference, FS_CardinalityType
    <2> QED
      BY <2>1, <1>2, <1>3, <1>4, SMTT(60) DEF IInv, TypeOK, Counted
  <1>6. Outstanding \ vChecks[t] = Outstanding
    BY <1>1
  <1>7. Settled => fAllOk
    BY DEF Settled, IInv, QuietAfterWait
  <1>8. AtTop(t, {}, fAllOk, nTodo, nTotal + 1, nIdle)
    BY <1>1, <1>5, <1>6, <1>7, SMTT(60) DEF AtTop, IInv, TypeOK, NoCheckLost, Blame
  <1> QED
    BY <1>1, <1>8, TopKeeps

(* The clean-up moves the verdict on the batch into fAllOk. *)
LEMMA CleanUpKeeps ==
    ASSUME IInv, NEW t \in Threads, CleanUp(t)
    PROVE  IInv'
  <1> DEFINE todo == nTodo - Cardinality(vChecks[t])
             ok == fAllOk /\ fOk[t]
  <1>1. pc[t] = "lock" /\ vChecks[t] # {}
    BY DEF CleanUp
  <1>2. PICK W \in SUBSET Waiting(Threads) : LoopTop(t, W, ok, todo, nTotal, nIdle)
    <2>1. \A W \in NotifyOne(Masters) : W \subseteq Waiting(Threads)
      BY DEF NotifyOne, Waiting, Threads
    <2> QED
      BY <2>1 DEF CleanUp
  <1>3. t \notin W
    BY <1>1 DEF Waiting
  <1>4. /\ IsFiniteSet(Sleeping) /\ IsFiniteSet(Looping) /\ IsFiniteSet(Outstanding)
        /\ Cardinality(Sleeping) \in Nat /\ Cardinality(Looping) \in Nat
    BY Finite, FS_CardinalityType DEF IInv
  <1>5. t \in Looping /\ t \notin Sleeping
    BY <1>1 DEF Looping, Sleeping
  <1>6. Looping \cup {t} = Looping /\ Sleeping \ {t} = Sleeping
    BY <1>5
  <1>7. vChecks[t] \subseteq Outstanding
    BY DEF Outstanding
  <1>8. Outstanding \cap vChecks[t] = vChecks[t]
    BY <1>7
  <1>9. todo = Cardinality(Outstanding \ vChecks[t]) /\ todo \in Nat
    <2>1. /\ Cardinality(Outstanding \ vChecks[t]) = Cardinality(Outstanding) - Cardinality(vChecks[t])
          /\ IsFiniteSet(Outstanding \ vChecks[t])
      BY <1>4, <1>8, FS_Difference
    <2>2. Cardinality(Outstanding \ vChecks[t]) \in Nat
      BY <2>1, FS_CardinalityType
    <2> QED
      BY <2>1, <2>2 DEF IInv, NoCheckLost
  <1>10. ~Settled
    BY <1>1, <1>7 DEF Settled, IInv, QuietAfterWait
  <1>11. ok \in BOOLEAN
    OBVIOUS
  <1>12. ok => bad \subseteq Outstanding \ vChecks[t]
    BY <1>1, <1>10 DEF IInv, Blame
  <1>13. ~ok => bad # {}
    BY DEF IInv, Blame
  <1>14. AtTop(t, W, ok, todo, nTotal, nIdle)
    <2> HIDE DEF ok, todo
    <2> QED
      BY <1>1, <1>3, <1>6, <1>9, <1>10, <1>11, <1>12, <1>13 DEF AtTop, IInv, TypeOK, Counted
  <1> HIDE DEF ok, todo
  <1> QED
    BY <1>2, <1>14, TopKeeps

(* Waking up takes the thread off nIdle. *)
LEMMA ResumeKeeps ==
    ASSUME IInv, NEW t \in Threads, Resume(t)
    PROVE  IInv'
  <1>1. pc[t] = "woken" /\ LoopTop(t, {}, fAllOk, nTodo, nTotal, nIdle - 1)
    BY DEF Resume
  <1>2. /\ IsFiniteSet(Sleeping) /\ IsFiniteSet(Looping)
        /\ Cardinality(Sleeping) \in Nat /\ Cardinality(Looping) \in Nat
    BY Finite, FS_CardinalityType DEF IInv
  <1>3. t \in Looping /\ t \in Sleeping
    BY <1>1 DEF Looping, Sleeping
  <1>4. Looping \cup {t} = Looping
    BY <1>3
  <1>5. Cardinality(Sleeping \ {t}) = Cardinality(Sleeping) - 1 /\ Cardinality(Sleeping \ {t}) \in Nat
    BY <1>2, <1>3, FS_RemoveElement, FS_CardinalityType
  <1>6. Cardinality(Sleeping \ {t}) <= nIdle - 1 /\ nIdle - 1 \in Nat
    BY <1>2, <1>5, SMTT(60) DEF IInv, TypeOK, Counted
  <1>7. vChecks[t] = {}
    BY <1>1 DEF IInv, NoCheckLost
  <1>8. Outstanding \ vChecks[t] = Outstanding
    BY <1>7
  <1>9. Settled => fAllOk
    BY DEF Settled, IInv, QuietAfterWait
  <1>10. AtTop(t, {}, fAllOk, nTodo, nTotal, nIdle - 1)
    BY <1>1, <1>4, <1>6, <1>8, <1>9 DEF AtTop, IInv, TypeOK, NoCheckLost, Blame, Counted
  <1> QED
    BY <1>1, <1>10, TopKeeps
(* Evaluating a batch records a failure in fOk. *)
LEMMA WorkKeeps ==
    ASSUME IInv, NEW t \in Threads, Work(t)
    PROVE  IInv'
  <1> USE DEF session
  <1>1. /\ pc[t] = "work"
        /\ UNCHANGED <<queue, nIdle, nTotal, fAllOk, nTodo, vChecks, control, dtor, fRet, nAdded, bad, interrupted>>
        /\ pc' = [pc EXCEPT ![t] = "lock"]
        /\ fOk' = [fOk EXCEPT ![t] = fOk[t] /\ vChecks[t] \cap bad = {}]
    BY DEF Work
  <1>2. vChecks[t] # {}
    BY <1>1 DEF IInv, Blame
  <1>3. TypeOK'
    BY <1>1 DEF IInv, TypeOK
  <1>4. Outstanding' = Outstanding
    BY <1>1 DEF Outstanding
  <1>5. NoCheckLost'
    BY <1>1, <1>4 DEF IInv, TypeOK, NoCheckLost
  <1>6. pc'[t] = "lock" /\ \A u \in Threads \ {t} : pc'[u] = pc[u]
    BY <1>1 DEF IInv, TypeOK
  <1>7. Settled' <=> Settled
    BY <1>1, <1>6 DEF Settled, IInv, TypeOK, Threads
  <1>8. QuietAfterWait'
    BY <1>1, <1>4, <1>7 DEF IInv, QuietAfterWait, Settled
  <1>9. VerdictExact'
    BY <1>1, <1>6 DEF IInv, VerdictExact, Threads
  <1>10. ControlHeld'
    BY <1>1, <1>6 DEF IInv, ControlHeld, Threads
  <1>11. Sleeping' = Sleeping /\ Looping' = Looping
    BY <1>1, <1>2, <1>6 DEF Sleeping, Looping
  <1>12. Counted'
    BY <1>1, <1>11 DEF IInv, Counted
  <1>13. fOk'[t] = (fOk[t] /\ vChecks[t] \cap bad = {}) /\ \A u \in Threads \ {t} : fOk'[u] = fOk[u]
    BY <1>1 DEF IInv, TypeOK
  <1>14. Blame'
    <2>1. ~Settled' /\ fAllOk' => bad' \subseteq Outstanding'
      BY <1>1, <1>4, <1>7 DEF IInv, Blame
    <2>2. \A u \in Threads : ~fOk'[u] => bad' # {}
      BY <1>1, <1>13 DEF IInv, Blame
    <2>3. \A u \in Threads : vChecks'[u] = {} => fOk'[u] /\ pc'[u] # "work"
      BY <1>1, <1>2, <1>6, <1>13 DEF IInv, Blame
    <2>4. \A u \in Threads : pc'[u] = "lock" /\ fOk'[u] => vChecks'[u] \cap bad' = {}
      BY <1>1, <1>6, <1>13 DEF IInv, Blame
    <2> QED
      BY <2>1, <2>2, <2>3, <2>4, <1>1 DEF IInv, Blame
  <1> QED
    BY <1>3, <1>5, <1>8, <1>9, <1>10, <1>12, <1>14 DEF IInv

(* A wake-up for nothing, an interruption, and the start of Wait only move *)
(* a thread that holds no check.                                           *)
Moves(t, where) ==
    /\ t \in Threads /\ pc[t] \in {"wait", "woken", "control"}
    /\ \/ pc[t] = "wait" /\ where = "woken"
       \/ pc[t] \in {"wait", "woken"} /\ t \in Workers /\ where = "gone"
       \/ t \in Masters /\ where \in {"lock", "terminated"}
    /\ pc' = [pc EXCEPT ![t] = where]
    /\ dtor' \in BOOLEAN /\ interrupted' \subseteq Threads
    /\ UNCHANGED <<queue, nIdle, nTotal, fAllOk, nTodo, vChecks, fOk, control, fRet, nAdded, bad>>

(* Such a move keeps the invariant. *)
LEMMA MoveKeeps ==
    ASSUME IInv, NEW t, NEW where, Moves(t, where)
    PROVE  IInv'
  <1> USE DEF Moves
  <1>1. vChecks[t] = {}
    BY DEF IInv, NoCheckLost
  <1>2. pc'[t] = where /\ \A u \in Threads \ {t} : pc'[u] = pc[u]
    BY DEF IInv, TypeOK
  <1>3. where \in {"woken", "gone", "lock", "terminated"}
    OBVIOUS
  <1>4. TypeOK'
    BY <1>3 DEF IInv, TypeOK
  <1>5. Outstanding' = Outstanding
    BY DEF Outstanding
  <1>6. NoCheckLost'
    BY <1>1, <1>2, <1>5 DEF IInv, NoCheckLost
  <1>7. Settled' <=> Settled
    BY <1>2, <1>3 DEF Settled, IInv, TypeOK, Threads
  <1>8. QuietAfterWait'
    BY <1>5, <1>7 DEF IInv, QuietAfterWait, Settled
  <1>9. VerdictExact'
    BY <1>2, <1>3 DEF IInv, VerdictExact, Threads
  <1>10. ControlHeld'
    BY <1>2, <1>3, ThreadsAssumption DEF IInv, ControlHeld, Threads
  <1>11. Sleeping' \subseteq Sleeping /\ Looping' \subseteq Looping
    BY <1>1, <1>2, <1>3 DEF Sleeping, Looping
  <1>12. Counted'
    <2>1. IsFiniteSet(Sleeping) /\ IsFiniteSet(Looping) /\ IsFiniteSet(Sleeping') /\ IsFiniteSet(Looping')
      BY <1>11, Finite, FS_Subset DEF IInv
    <2>2. /\ Cardinality(Sleeping) \in Nat /\ Cardinality(Looping) \in Nat
          /\ Cardinality(Sleeping') \in Nat /\ Cardinality(Looping') \in Nat
      BY <2>1, FS_CardinalityType
    <2>3. Cardinality(Sleeping') <= Cardinality(Sleeping) /\ Cardinality(Looping') <= Cardinality(Looping)
      BY <2>1, <1>11, FS_Subset
    <2> QED
      BY <2>2, <2>3, SMTT(60) DEF IInv, TypeOK, Counted
  <1>13. Blame'
    BY <1>1, <1>2, <1>3, <1>5, <1>7 DEF IInv, Blame
  <1> QED
    BY <1>4, <1>6, <1>8, <1>9, <1>10, <1>12, <1>13 DEF IInv
(* The controller's constructor and destructor: the queue is quiet. *)
LEMMA ConstructKeeps ==
    ASSUME IInv, NEW m \in Masters, Construct(m) \/ Destroy(m)
    PROVE  IInv'
  <1>1. /\ UNCHANGED <<queue, nIdle, nTotal, fAllOk, nTodo, vChecks, fOk, interrupted>>
        /\ \/ /\ pc[m] = "idle" /\ control = None /\ control' = m
              /\ pc' = [pc EXCEPT ![m] = "control"] /\ UNCHANGED <<fRet, nAdded, bad>>
           \/ /\ pc[m] = "waited" /\ control' = None /\ pc' = [pc EXCEPT ![m] = "idle"]
              /\ fRet' = None /\ nAdded' = 0 /\ bad' = {}
        /\ dtor' = FALSE
    BY DEF Construct, Destroy
  <1>2. m \in Threads /\ m # None
    BY ThreadsAssumption DEF Threads
  <1>3. pc[m] = "waited" => control = m
    BY <1>2 DEF IInv, ControlHeld
  <1>4. Settled /\ Outstanding = {} /\ nTodo = 0 /\ fAllOk
    BY <1>1, <1>3 DEF Settled, IInv, QuietAfterWait
  <1>5. queue = {} /\ \A t \in Threads : vChecks[t] = {}
    BY <1>4 DEF Outstanding
  <1>6. Outstanding' = Outstanding
    BY <1>1 DEF Outstanding
  <1>7. pc'[m] \in {"control", "idle"} /\ \A u \in Threads \ {m} : pc'[u] = pc[u]
    BY <1>1, <1>2 DEF IInv, TypeOK
  <1>15. nAdded' = 0 /\ bad' = {}
    <2>1. CASE control = None
      <3>1. nAdded = 0
        BY <2>1 DEF IInv, Blame
      <3>2. bad = {}
        BY <3>1, SMTT(60) DEF IInv, TypeOK
      <3> QED
        BY <3>1, <3>2, <1>1
    <2>2. CASE control # None
      BY <2>2, <1>1
    <2> QED
      BY <2>1, <2>2
  <1>8. TypeOK'
    <2>1. nAdded' \in 0 .. MaxChecks /\ bad' \subseteq 1 .. nAdded'
      BY <1>15, SizesAssumption, SMTT(60)
    <2>2. queue' \subseteq 1 .. nAdded'
      BY <1>1, <1>5
    <2>3. vChecks' \in [Threads -> SUBSET (1 .. nAdded')]
      BY <1>1, <1>5 DEF IInv, TypeOK
    <2>4. pc' \in [Threads -> {"lock", "work", "wait", "woken", "gone", "idle", "control",
                                "waited", "terminated"}]
      BY <1>1 DEF IInv, TypeOK
    <2> QED
      BY <1>1, <2>1, <2>2, <2>3, <2>4 DEF IInv, TypeOK
  <1>9. NoCheckLost'
    BY <1>1, <1>4, <1>5, <1>6, FS_EmptySet DEF NoCheckLost
  <1>10. ControlHeld'
    <2>1. \A n \in Masters \ {m} : control # n /\ pc[n] = "idle"
      BY <1>1, <1>3, ThreadsAssumption DEF IInv, ControlHeld
    <2>2. \A n \in Masters \ {m} : control' # n /\ pc'[n] = "idle"
      BY <1>1, <1>7, <2>1, ThreadsAssumption DEF Threads
    <2>3. control' = m <=> pc'[m] # "idle"
      BY <1>1, <1>2 DEF IInv, TypeOK
    <2>4. \A w \in Workers : pc'[w] = pc[w]
      BY <1>7, ThreadsAssumption DEF Threads
    <2> QED
      BY <2>2, <2>3, <2>4, <1>7 DEF IInv, ControlHeld
  <1>11. VerdictExact'
    <2>1. ASSUME NEW n \in Masters, pc'[n] = "waited" PROVE FALSE
      <3>1. n # m /\ pc[n] = "waited"
        BY <2>1, <1>7 DEF Threads
      <3> QED
        BY <3>1, <1>1, <1>3, ThreadsAssumption DEF IInv, ControlHeld
    <2> QED
      BY <2>1 DEF VerdictExact
  <1>12. QuietAfterWait'
    BY <1>1, <1>4, <1>6 DEF QuietAfterWait
  <1>13. Sleeping' = Sleeping /\ Looping' = Looping
    BY <1>1, <1>2, <1>7 DEF Sleeping, Looping
  <1>14. Counted'
    BY <1>1, <1>13 DEF IInv, Counted
  <1>16. Blame'
    <2>2. \A u \in Threads : fOk'[u]
      BY <1>1, <1>5 DEF IInv, Blame
    <2>3. \A u \in Threads : vChecks'[u] = {} /\ pc'[u] # "work"
      BY <1>1, <1>5, <1>7 DEF IInv, Blame
    <2> QED
      BY <2>2, <2>3, <1>1, <1>4, <1>15 DEF Blame
  <1> QED
    BY <1>8, <1>9, <1>10, <1>11, <1>12, <1>14, <1>16 DEF IInv

(* Pushing checks. *)
LEMMA AddKeeps ==
    ASSUME IInv, NEW m \in Masters, NEW n \in 1 .. MaxChecks - nAdded,
           NEW B \in SUBSET (nAdded + 1 .. nAdded + n), Add(m, n, B)
    PROVE  IInv'
  <1> DEFINE C == nAdded + 1 .. nAdded + n
  <1>1. /\ pc[m] = "control" /\ queue' = queue \cup C /\ nTodo' = nTodo + n
        /\ nAdded' = nAdded + n /\ bad' = bad \cup B
        /\ UNCHANGED <<nIdle, nTotal, fAllOk, vChecks, fOk, control, dtor, fRet, interrupted>>
    BY DEF Add
  <1>2. PICK W \in SUBSET Waiting(Workers) : pc' = Moved(W, m, "control")
    <2>1. \A W \in NotifyOne(Workers) : W \subseteq Waiting(Workers)
      BY DEF NotifyOne
    <2> QED
      BY <2>1 DEF Add
  <1>3. m \in Threads /\ nAdded \in Nat /\ n \in Nat /\ nAdded + n <= MaxChecks /\ nAdded + n \in Nat
    BY SizesAssumption, SMTT(60) DEF IInv, TypeOK, Threads
  <1>4. C \cap (1 .. nAdded) = {} /\ C \subseteq 1 .. nAdded' /\ 1 .. nAdded \subseteq 1 .. nAdded'
    BY <1>1, <1>3, SMTT(60)
  <1>5. IsFiniteSet(C) /\ Cardinality(C) = n
    BY <1>3, FS_Interval, SMTT(60)
  <1> HIDE DEF C
  <1>6. Outstanding' = Outstanding \cup C
    BY <1>1 DEF Outstanding
  <1>7. Outstanding \subseteq 1 .. nAdded /\ IsFiniteSet(Outstanding)
    BY Finite DEF IInv
  <1>8. Cardinality(Outstanding') = Cardinality(Outstanding) + n
    <2>1. Outstanding \cap C = {}
      BY <1>4, <1>7
    <2>2. Cardinality(Outstanding) \in Nat
      BY <1>7, FS_CardinalityType
    <2>3. Cardinality(Outstanding \cup C) = Cardinality(Outstanding) + Cardinality(C) - Cardinality({})
      BY <1>5, <1>7, <2>1, FS_Union
    <2> QED
      BY <1>3, <1>5, <1>6, <2>2, <2>3, FS_EmptySet, SMTT(60)
  <1>9. /\ pc' \in [Threads -> {"lock", "work", "wait", "woken", "gone", "idle", "control",
                                "waited", "terminated"}]
        /\ pc'[m] = "control"
        /\ \A u \in Threads \ {m} : pc'[u] = pc[u] \/ (u \in Workers /\ pc[u] = "wait" /\ pc'[u] = "woken")
    BY <1>1, <1>2, <1>3 DEF Moved, Waiting, IInv, TypeOK
  <1>10. TypeOK'
    <2>1. nAdded' \in 0 .. MaxChecks /\ nTodo' \in Nat
      BY <1>1, <1>3, SMTT(60) DEF IInv, TypeOK
    <2>2. queue' \subseteq 1 .. nAdded' /\ bad' \subseteq 1 .. nAdded'
      BY <1>1, <1>4 DEF IInv, TypeOK, C
    <2>3. vChecks' \in [Threads -> SUBSET (1 .. nAdded')]
      BY <1>1, <1>4 DEF IInv, TypeOK
    <2> QED
      BY <1>1, <1>9, <2>1, <2>2, <2>3 DEF IInv, TypeOK
  <1>11. NoCheckLost'
    <2>1. nTodo' = Cardinality(Outstanding')
      BY <1>1, <1>8 DEF IInv, NoCheckLost
    <2>2. \A u \in Threads : vChecks'[u] \cap queue' = {}
      BY <1>1, <1>4 DEF IInv, NoCheckLost, TypeOK
    <2>3. \A u \in Threads : vChecks'[u] # {} => pc'[u] \in {"work", "lock"}
      BY <1>1, <1>9 DEF IInv, NoCheckLost
    <2> QED
      BY <2>1, <2>2, <2>3, <1>1 DEF IInv, NoCheckLost
  <1>12. control = m
    BY <1>1 DEF IInv, ControlHeld
  <1>13. ControlHeld'
    BY <1>1, <1>9, <1>12, ThreadsAssumption DEF IInv, ControlHeld, Threads
  <1>14. ~Settled /\ ~Settled'
    BY <1>1, <1>9, <1>12, ThreadsAssumption DEF Settled
  <1>15. QuietAfterWait'
    BY <1>14 DEF QuietAfterWait, Settled
  <1>16. VerdictExact'
    <2>1. ASSUME NEW k \in Masters, pc'[k] = "waited" PROVE FALSE
      <3>1. k # m /\ pc[k] = "waited"
        BY <2>1, <1>9 DEF Threads
      <3> QED
        BY <3>1, <1>12 DEF IInv, ControlHeld
    <2> QED
      BY <2>1 DEF VerdictExact
  <1>17. Sleeping' = Sleeping /\ Looping' = Looping
    BY <1>1, <1>9 DEF Sleeping, Looping
  <1>18. Counted'
    BY <1>1, <1>17 DEF IInv, Counted
  <1>19. Blame'
    <2>1. fAllOk' => bad' \subseteq Outstanding'
      BY <1>1, <1>6, <1>14 DEF IInv, Blame, C
    <2>2. bad # {} => bad' # {}
      BY <1>1
    <2>3. \A u \in Threads : pc'[u] = "lock" /\ fOk'[u] => vChecks'[u] \cap bad' = {}
      <3>1. \A u \in Threads : vChecks[u] \cap B = {}
        BY <1>4 DEF IInv, TypeOK, C
      <3> QED
        BY <3>1, <1>1, <1>9 DEF IInv, Blame
    <2>4. \A u \in Threads : vChecks'[u] = {} => fOk'[u] /\ pc'[u] # "work"
      BY <1>1, <1>9 DEF IInv, Blame
    <2>5. control' # None
      BY <1>1, <1>12, ThreadsAssumption
    <2> QED
      BY <2>1, <2>2, <2>3, <2>4, <2>5, <1>1 DEF IInv, Blame
  <1> QED
    BY <1>10, <1>11, <1>13, <1>15, <1>16, <1>18, <1>19 DEF IInv
(* Every step keeps the invariant. *)
LEMMA NextKeeps ==
    ASSUME IInv, [Next]_vars
    PROVE  IInv'
  <1>1. CASE UNCHANGED vars
    BY <1>1, SMTT(60) DEF vars, IInv, TypeOK, NoCheckLost, VerdictExact, QuietAfterWait, ControlHeld,
                Blame, Counted, Settled, Outstanding, Sleeping, Looping
  <1>2. ASSUME NEW t \in Threads, Step(t) PROVE IInv'
    BY <1>2, EnterKeeps, CleanUpKeeps, ResumeKeeps, WorkKeeps DEF Step
  <1>3. ASSUME NEW t \in Threads, SpuriousWakeup(t) PROVE IInv'
    <2>1. /\ pc[t] = "wait" /\ pc' = [pc EXCEPT ![t] = "woken"]
          /\ UNCHANGED <<queue, nIdle, nTotal, fAllOk, nTodo, vChecks, fOk, control, fRet, nAdded, bad>>
          /\ dtor' = dtor /\ interrupted' = interrupted
      BY <1>3 DEF SpuriousWakeup, session
    <2>2. dtor' \in BOOLEAN /\ interrupted' \subseteq Threads
      BY <2>1 DEF IInv, TypeOK
    <2>3. Moves(t, "woken")
      BY <2>1, <2>2 DEF Moves
    <2> QED
      BY <2>3, MoveKeeps
  <1>4. ASSUME NEW t \in Threads, Interrupt(t) PROVE IInv'
    <2>1. /\ pc[t] \in {"wait", "woken"}
          /\ UNCHANGED <<queue, nIdle, nTotal, fAllOk, nTodo, vChecks, fOk, control, fRet, nAdded, bad>>
          /\ dtor' = (dtor \/ t \in Masters) /\ interrupted' = interrupted \cup {t}
      BY <1>4 DEF Interrupt
    <2>2. dtor' \in BOOLEAN /\ interrupted' \subseteq Threads
      BY <2>1 DEF IInv, TypeOK
    <2>3. CASE t \in Workers
      <3>1. pc' = [pc EXCEPT ![t] = "gone"]
        BY <1>4, <2>3, ThreadsAssumption DEF Interrupt
      <3>2. Moves(t, "gone")
        BY <2>1, <2>2, <2>3, <3>1 DEF Moves
      <3> QED
        BY <3>2, MoveKeeps
    <2>4. CASE t \in Masters
      <3>1. t \notin Workers /\ dtor \in BOOLEAN
        BY <2>4, ThreadsAssumption DEF IInv, TypeOK
      <3>2. CASE dtor
        <4>1. pc' = [pc EXCEPT ![t] = "terminated"]
          BY <1>4, <2>4, <3>1, <3>2 DEF Interrupt
        <4>2. Moves(t, "terminated")
          BY <2>1, <2>2, <2>4, <4>1 DEF Moves
        <4> QED
          BY <4>2, MoveKeeps
      <3>3. CASE ~dtor
        <4>1. pc' = [pc EXCEPT ![t] = "lock"]
          BY <1>4, <2>4, <3>1, <3>3 DEF Interrupt
        <4>2. Moves(t, "lock")
          BY <2>1, <2>2, <2>4, <4>1 DEF Moves
        <4> QED
          BY <4>2, MoveKeeps
      <3> QED
        BY <3>1, <3>2, <3>3
    <2> QED
      BY <2>3, <2>4 DEF Threads
  <1>5. ASSUME NEW m \in Masters, NEW early \in BOOLEAN, Wait(m, early) PROVE IInv'
    <2>1. /\ pc[m] = "control" /\ pc' = [pc EXCEPT ![m] = "lock"]
          /\ UNCHANGED <<queue, nIdle, nTotal, fAllOk, nTodo, vChecks, fOk, control, fRet, nAdded, bad>>
          /\ dtor' = early /\ interrupted' = interrupted
      BY <1>5 DEF Wait
    <2>2. dtor' \in BOOLEAN /\ interrupted' \subseteq Threads /\ m \in Threads
      BY <2>1 DEF IInv, TypeOK, Threads
    <2>3. Moves(m, "lock")
      BY <2>1, <2>2 DEF Moves
    <2> QED
      BY <2>3, MoveKeeps
  <1>6. ASSUME NEW m \in Masters, Construct(m) \/ Destroy(m) PROVE IInv'
    BY <1>6, ConstructKeeps
  <1>7. ASSUME NEW m \in Masters, NEW n \in 1 .. MaxChecks - nAdded,
               NEW B \in SUBSET (nAdded + 1 .. nAdded + n), Add(m, n, B)
        PROVE  IInv'
    BY <1>7, AddKeeps
  <1>8. ASSUME NEW m \in Masters, Finish(m) PROVE IInv'
    BY <1>5, <1>6, <1>8 DEF Finish
  <1> QED
    BY <1>1, <1>2, <1>3, <1>4, <1>6, <1>7, <1>8 DEF Next

(* The queue starts quiet. *)
LEMMA InitHolds == Init => IInv
  <1> SUFFICES ASSUME Init PROVE IInv
    OBVIOUS
  <1>1. Outstanding = {} /\ Sleeping = {} /\ Looping = {}
    BY DEF Init, Outstanding, Sleeping, Looping
  <1>2. TypeOK
    <2>1. nAdded \in 0 .. MaxChecks
      BY SizesAssumption, SMTT(60) DEF Init
    <2>2. pc \in [Threads -> {"lock", "work", "wait", "woken", "gone", "idle", "control",
                               "waited", "terminated"}]
      BY DEF Init
    <2>3. vChecks \in [Threads -> SUBSET (1 .. nAdded)] /\ fOk \in [Threads -> BOOLEAN]
      BY DEF Init
    <2> QED
      BY <2>1, <2>2, <2>3 DEF Init, TypeOK
  <1>3. NoCheckLost
    BY <1>1, FS_EmptySet DEF Init, NoCheckLost
  <1>4. VerdictExact /\ QuietAfterWait /\ ControlHeld
    BY <1>1, ThreadsAssumption DEF Init, VerdictExact, QuietAfterWait, ControlHeld, Threads
  <1>5. Blame /\ Counted
    BY <1>1, FS_EmptySet, SMTT(60) DEF Init, Blame, Counted, Settled
  <1> QED
    BY <1>2, <1>3, <1>4, <1>5 DEF IInv

(* No check of a block is lost, evaluated twice, or left with a worker:    *)
(* nTodo is exact in every state (Loop and Add).                           *)
THEOREM ChecksAccounted == Spec => []NoCheckLost
  <1>1. IInv => NoCheckLost
    BY DEF IInv
  <1> QED
    BY <1>1, InitHolds, NextKeeps, PTL DEF Spec

(* Wait answers the conjunction of the checks pushed (Loop(true)). *)
THEOREM VerdictsExact == Spec => []VerdictExact
  <1>1. IInv => VerdictExact
    BY DEF IInv
  <1> QED
    BY <1>1, InitHolds, NextKeeps, PTL DEF Spec

(* After Wait no thread holds a check and the queue is ready for the next  *)
(* block (~CCheckQueueControl, early returns and interruptions included).  *)
THEOREM QueueQuietBetweenBlocks == Spec => []QuietAfterWait
  <1>1. IInv => QuietAfterWait
    BY DEF IInv
  <1> QED
    BY <1>1, InitHolds, NextKeeps, PTL DEF Spec
=============================================================================
