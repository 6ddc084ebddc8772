---------------------------- MODULE CheckQueue ----------------------------
(***************************************************************************)
(* CCheckQueue and CCheckQueueControl of checkqueue.h: the script checks   *)
(* of a block, pushed by ConnectBlock (the master) and evaluated by the    *)
(* ThreadScriptCheck workers and by the master itself once it waits.       *)
(* `mutex` is held in each critical section, so a section is one step;     *)
(* cond.wait releases it, so a section ends there.  fQuit is never set:    *)
(* a worker leaves by boost thread interruption only.                      *)
(***************************************************************************)
EXTENDS Integers, FiniteSets

CONSTANTS
    Workers,        \* threads in CCheckQueue::Thread
    Masters,        \* threads that may call ConnectBlock
    Interruptible,  \* threads of the thread group Interrupt() interrupts
    MaxChecks,      \* bound: checks of one block
    nBatchSize,     \* the constructor's argument
    None            \* nobody holds ControlMutex; no result yet

VARIABLES
    queue,      \* the stack of checks not yet taken, numbered as they are pushed
    nIdle, nTotal, fAllOk, nTodo,
    pc,         \* where each thread is
    vChecks,    \* the batch a thread has taken and not yet accounted for
    fOk,        \* Loop's local result
    control,    \* the holder of ControlMutex
    dtor,       \* the holder is in ~CCheckQueueControl
    fRet,       \* what the holder's Wait returned
    nAdded,     \* checks pushed under this control
    bad,        \* those of them that evaluate to false
    interrupted \* threads whose interruption has been delivered

vars == <<queue, nIdle, nTotal, fAllOk, nTodo, pc, vChecks, fOk, control, dtor,
          fRet, nAdded, bad, interrupted>>
session == <<control, dtor, nAdded, bad>>

ASSUME ThreadsAssumption ==
    /\ IsFiniteSet(Workers) /\ IsFiniteSet(Masters)
    /\ Workers \cap Masters = {}
    /\ None \notin Workers \cup Masters \cup BOOLEAN
ASSUME SizesAssumption == MaxChecks \in Nat /\ nBatchSize \in Nat \ {0}

Threads == Workers \cup Masters

Init ==
    /\ queue = {} /\ bad = {} /\ interrupted = {}
    /\ nIdle = 0 /\ nTotal = 0 /\ nTodo = 0 /\ nAdded = 0
    /\ fAllOk = TRUE
    /\ pc = [t \in Threads |-> IF t \in Workers THEN "lock" ELSE "idle"]
    /\ vChecks = [t \in Threads |-> {}]
    /\ fOk = [t \in Threads |-> TRUE]
    /\ control = None
    /\ dtor = FALSE
    /\ fRet = None

(* std::terminate: an exception left a destructor. *)
Terminated == \E t \in Threads : pc[t] = "terminated"

Waiting(T) == {t \in T : pc[t] = "wait"}

(* The sets of threads notify_one may wake. *)
NotifyOne(T) == IF Waiting(T) = {} THEN {{}} ELSE {{t} : t \in Waiting(T)}

(* pc once the threads of W are notified and t has got to `where`. *)
Moved(W, t, where) ==
    [u \in Threads |-> IF u = t THEN where ELSE IF u \in W THEN "woken" ELSE pc[u]]

-----------------------------------------------------------------------------
(* nNow: how many checks a thread takes at once. *)
BatchLen(size, total, idle) ==
    LET share == size \div (total + idle + 1)
    IN  IF share > nBatchSize THEN nBatchSize
        ELSE IF share < 1 THEN 1
        ELSE share

(* Mutant: the batch is copied and not popped. *)
TakeBatchCopied(t, W, ok, total, idle) ==
    /\ queue # {}
    /\ \E S \in SUBSET queue :
         /\ Cardinality(S) = BatchLen(Cardinality(queue), total, idle)
         /\ \A c \in S, d \in queue \ S : c > d
         /\ vChecks' = [vChecks EXCEPT ![t] = S]
    /\ fOk' = [fOk EXCEPT ![t] = ok]
    /\ fAllOk' = ok /\ nTotal' = total /\ nIdle' = idle
    /\ pc' = Moved(W, t, "work")
    /\ UNCHANGED <<queue, fRet>>

(* "while (queue.empty())" is left: take a batch from the top of the stack, *)
(* where the checks pushed last are.                                        *)
TakeBatch(t, W, ok, total, idle) ==
    /\ queue # {}
    /\ \E S \in SUBSET queue :
         /\ Cardinality(S) = BatchLen(Cardinality(queue), total, idle)
         /\ \A c \in S, d \in queue \ S : c > d
         /\ queue' = queue \ S
         /\ vChecks' = [vChecks EXCEPT ![t] = S]
    /\ fOk' = [fOk EXCEPT ![t] = ok]
    /\ fAllOk' = ok /\ nTotal' = total /\ nIdle' = idle
    /\ pc' = Moved(W, t, "work")
    /\ UNCHANGED fRet

(* t's batch is done; fOk is assigned again before it is read. *)
NoBatch(t) ==
    /\ vChecks' = [vChecks EXCEPT ![t] = {}]
    /\ fOk' = [fOk EXCEPT ![t] = TRUE]

(* Mutant: fAllOk is not reset for the next block. *)
ReturnKeepsStatus(t, ok, todo, total, idle) ==
    /\ queue = {} /\ t \in Masters /\ todo = 0
    /\ fRet' = ok
    /\ fAllOk' = ok
    /\ nTotal' = total - 1 /\ nIdle' = idle
    /\ NoBatch(t)
    /\ pc' = Moved({}, t, "waited")
    /\ UNCHANGED queue

(* Mutant: the master leaves as soon as the queue is empty. *)
ReturnWhenEmpty(t, ok, todo, total, idle) ==
    /\ queue = {} /\ t \in Masters
    /\ fRet' = ok
    /\ fAllOk' = TRUE
    /\ nTotal' = total - 1 /\ nIdle' = idle
    /\ NoBatch(t)
    /\ pc' = Moved({}, t, "waited")
    /\ UNCHANGED queue

(* The master leaves once everything is accounted for. *)
Return(t, ok, todo, total, idle) ==
    /\ queue = {} /\ t \in Masters /\ todo = 0
    /\ fRet' = ok
    /\ fAllOk' = TRUE
    /\ nTotal' = total - 1 /\ nIdle' = idle
    /\ NoBatch(t)
    /\ pc' = Moved({}, t, "waited")
    /\ UNCHANGED queue

(* Nothing to take: sleep on condWorker or condMaster. *)
Sleep(t, W, ok, todo, total, idle) ==
    /\ queue = {} /\ ~(t \in Masters /\ todo = 0)
    /\ fAllOk' = ok /\ nTotal' = total
    /\ nIdle' = idle + 1
    /\ NoBatch(t)
    /\ pc' = Moved(W, t, "wait")
    /\ UNCHANGED <<queue, fRet>>

(* "logically, the do loop starts here", with the fields as the clean-up   *)
(* or the wake-up left them.                                               *)
LoopTop(t, W, ok, todo, total, idle) ==
    /\ nTodo' = todo
    /\ \/ TakeBatch(t, W, ok, total, idle)
       \/ Return(t, ok, todo, total, idle)
       \/ Sleep(t, W, ok, todo, total, idle)
    /\ UNCHANGED <<session, interrupted>>

(* The first iteration of Loop. *)
Enter(t) ==
    /\ pc[t] = "lock" /\ vChecks[t] = {}
    /\ LoopTop(t, {}, fAllOk, nTodo, nTotal + 1, nIdle)

(* Mutant: a worker that finishes the last check does not tell the master. *)
CleanUpSilent(t) ==
    /\ pc[t] = "lock" /\ vChecks[t] # {}
    /\ LoopTop(t, {}, fAllOk /\ fOk[t], nTodo - Cardinality(vChecks[t]), nTotal, nIdle)

(* A later iteration: account for the batch, tell the master when it was   *)
(* the last one.                                                           *)
CleanUp(t) ==
    /\ pc[t] = "lock" /\ vChecks[t] # {}
    /\ LET todo == nTodo - Cardinality(vChecks[t])
       IN  \E W \in IF todo = 0 /\ t \notin Masters THEN NotifyOne(Masters) ELSE {{}} :
             LoopTop(t, W, fAllOk /\ fOk[t], todo, nTotal, nIdle)

(* cond.wait returns. *)
Resume(t) ==
    /\ pc[t] = "woken"
    /\ LoopTop(t, {}, fAllOk, nTodo, nTotal, nIdle - 1)

(* The batch is evaluated outside the lock, until a check fails. *)
Work(t) ==
    /\ pc[t] = "work"
    /\ fOk' = [fOk EXCEPT ![t] = fOk[t] /\ vChecks[t] \cap bad = {}]
    /\ pc' = [pc EXCEPT ![t] = "lock"]
    /\ UNCHANGED <<queue, nIdle, nTotal, fAllOk, nTodo, vChecks, session, fRet, interrupted>>

(* cond.wait may return without a notification. *)
SpuriousWakeup(t) ==
    /\ pc[t] = "wait"
    /\ pc' = [pc EXCEPT ![t] = "woken"]
    /\ UNCHANGED <<queue, nIdle, nTotal, fAllOk, nTodo, vChecks, fOk, session, fRet, interrupted>>

(* cond.wait throws thread_interrupted, which leaves nIdle and nTotal as   *)
(* they are.  A worker ends; a master unwinds ConnectBlock, whose control  *)
(* waits again in its destructor.                                          *)
Interrupt(t) ==
    /\ t \in Interruptible \ interrupted
    /\ pc[t] \in {"wait", "woken"}
    /\ interrupted' = interrupted \cup {t}
    /\ pc' = [pc EXCEPT ![t] = CASE t \in Workers -> "gone"
                                 [] t \in Masters /\ ~dtor -> "lock"
                                 [] t \in Masters /\ dtor -> "terminated"]
    /\ dtor' = (dtor \/ t \in Masters)
    /\ UNCHANGED <<queue, nIdle, nTotal, fAllOk, nTodo, vChecks, fOk, control, fRet, nAdded, bad>>

-----------------------------------------------------------------------------
(* CCheckQueueControl's constructor locks ControlMutex. *)
Construct(m) ==
    /\ pc[m] = "idle" /\ control = None
    /\ control' = m
    /\ dtor' = FALSE
    /\ pc' = [pc EXCEPT ![m] = "control"]
    /\ UNCHANGED <<queue, nIdle, nTotal, fAllOk, nTodo, vChecks, fOk, fRet, nAdded, bad, interrupted>>

(* Add: push n checks, of which those in B will fail. *)
Add(m, n, B) ==
    /\ pc[m] = "control"
    /\ queue' = queue \cup (nAdded + 1 .. nAdded + n)
    /\ nTodo' = nTodo + n
    /\ nAdded' = nAdded + n
    /\ bad' = bad \cup B
    /\ \E W \in IF n = 1 THEN NotifyOne(Workers) ELSE {Waiting(Workers)} :
         pc' = Moved(W, m, "control")
    /\ UNCHANGED <<nIdle, nTotal, fAllOk, vChecks, fOk, control, dtor, fRet, interrupted>>

(* CCheckQueueControl::Wait at the end of ConnectBlock (early = FALSE), or *)
(* from the destructor when ConnectBlock returned an error before it.      *)
Wait(m, early) ==
    /\ pc[m] = "control"
    /\ dtor' = early
    /\ pc' = [pc EXCEPT ![m] = "lock"]
    /\ UNCHANGED <<queue, nIdle, nTotal, fAllOk, nTodo, vChecks, fOk, control, fRet, nAdded, bad, interrupted>>

(* The destructor unlocks ControlMutex. *)
Destroy(m) ==
    /\ pc[m] = "waited"
    /\ control' = None
    /\ dtor' = FALSE
    /\ fRet' = None
    /\ nAdded' = 0 /\ bad' = {}
    /\ pc' = [pc EXCEPT ![m] = "idle"]
    /\ UNCHANGED <<queue, nIdle, nTotal, fAllOk, nTodo, vChecks, fOk, interrupted>>

(* What a thread does by itself, once it is scheduled. *)
Step(t) ==
    \/ Enter(t)
    \/ CleanUp(t)
    \/ Resume(t)
    \/ Work(t)

Finish(m) ==
    \/ \E early \in BOOLEAN : Wait(m, early)
    \/ Destroy(m)

Next ==
    \/ /\ ~Terminated
       /\ \/ \E t \in Threads : Step(t) \/ SpuriousWakeup(t) \/ Interrupt(t)
          \/ \E m \in Masters : Construct(m) \/ Finish(m)
          \/ \E m \in Masters : \E n \in 1 .. MaxChecks - nAdded :
               \E B \in SUBSET (nAdded + 1 .. nAdded + n) : Add(m, n, B)
    \/ Terminated /\ UNCHANGED vars

(* Each thread that can run is eventually scheduled, and ConnectBlock      *)
(* comes to its end.  Nobody has to call it, to notify without cause or to *)
(* interrupt.                                                              *)
Fairness ==
    /\ \A t \in Threads : WF_vars(~Terminated /\ Step(t))
    /\ \A m \in Masters : WF_vars(~Terminated /\ Finish(m))

Spec == Init /\ [][Next]_vars /\ Fairness

-----------------------------------------------------------------------------
TypeOK ==
    /\ nAdded \in 0 .. MaxChecks
    /\ queue \subseteq 1 .. nAdded /\ bad \subseteq 1 .. nAdded
    /\ nIdle \in Nat /\ nTotal \in Nat /\ nTodo \in Nat
    /\ fAllOk \in BOOLEAN /\ dtor \in BOOLEAN
    /\ pc \in [Threads -> {"lock", "work", "wait", "woken", "gone", "idle", "control",
                           "waited", "terminated"}]
    /\ vChecks \in [Threads -> SUBSET (1 .. nAdded)]
    /\ fOk \in [Threads -> BOOLEAN]
    /\ control \in Masters \cup {None}
    /\ fRet \in BOOLEAN \cup {None}
    /\ interrupted \subseteq Threads

(* Checks pushed and not yet accounted for. *)
Outstanding == queue \cup UNION {vChecks[t] : t \in Threads}

(* nTodo counts exactly the checks in the queue and in the batches, no     *)
(* check is in two places, and an idle thread keeps none: whatever the     *)
(* interleaving, no check is lost or evaluated twice.                      *)
NoCheckLost ==
    /\ nTodo = Cardinality(Outstanding)
    /\ \A t \in Threads : vChecks[t] \cap queue = {}
    /\ \A t, u \in Threads : t # u => vChecks[t] \cap vChecks[u] = {}
    /\ \A t \in Threads : vChecks[t] # {} => pc[t] \in {"work", "lock"}

(* Wait returns the conjunction of all the checks pushed under this        *)
(* control: "Wait until execution finishes, and return whether all         *)
(* evaluations were successful", also after an earlier block failed.       *)
VerdictExact == \A m \in Masters : pc[m] = "waited" => fRet = (bad = {})

(* Once Wait has returned no thread holds a check of the block, and the    *)
(* queue is as new for the next one: the checks point into the block and   *)
(* the transactions ConnectBlock is about to release.                      *)
QuietAfterWait ==
    (control = None \/ pc[control] = "waited")
        => Outstanding = {} /\ nTodo = 0 /\ fAllOk

(* ConnectBlock gets its verdict: ControlMutex is always released again,   *)
(* although workers sleep, are interrupted, or are woken for nothing.      *)
ControlReleased == \A m \in Masters : control = m ~> control # m \/ Terminated
=============================================================================
