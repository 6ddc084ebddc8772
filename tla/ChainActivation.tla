-------------------------- MODULE ChainActivation --------------------------
(***************************************************************************)
(* The block index and the selection of the active chain: headers, blocks, *)
(* candidates and failure flags in validation.cpp, under invalidateblock,  *)
(* reconsiderblock and preciousblock.  cs_main is held for the length of   *)
(* each action; ActivateBestChain releases it between its steps, with its  *)
(* local pindexMostWork kept (`mostWork`), and any number of threads may   *)
(* be inside it.  No block is pruned: BLOCK_HAVE_DATA, nTx > 0 and         *)
(* BLOCK_VALID_TRANSACTIONS coincide.                                      *)
(***************************************************************************)
EXTENDS BlockTree, Integers, FiniteSets

CONSTANTS
    Threads,        \* threads that call into validation
    Work,           \* nChainWork
    Address,        \* the CBlockIndex pointer, the last tie breaker
    ContextFails,   \* blocks ContextualCheckBlock rejects
    ConnectFails,   \* blocks ConnectBlock finds invalid
    RpcBlocks,      \* blocks the operator names in RPC calls
    CarefulOperator,\* the operator keeps to what Careful says
    MaxPrecious,    \* bound on the preciousblock calls of a behaviour
    Idle            \* not inside ActivateBestChain

ASSUME WorkAssumption ==
    /\ Work \in [Blocks -> Nat]
    /\ \A b \in Blocks \ {Genesis} : Work[b] > Work[Parent[b]]
ASSUME RpcAssumption == RpcBlocks \subseteq Blocks \ {Genesis} /\ CarefulOperator \in BOOLEAN
ASSUME PointerAssumption ==
    /\ Address \in [Blocks -> Nat] /\ \A a, b \in Blocks : Address[a] = Address[b] => a = b
    /\ Idle \notin Blocks \cup {Null}
ASSUME GenesisConnects == Genesis \notin ContextFails \cup ConnectFails

VARIABLES
    known,          \* mapBlockIndex
    level,          \* nStatus & BLOCK_VALID_MASK
    failed,         \* nStatus & BLOCK_FAILED_MASK
    linked,         \* nChainTx # 0
    seq,            \* nSequenceId
    candidates,     \* setBlockIndexCandidates
    unlinked,       \* mapBlocksUnlinked; the key is the block's pprev
    stranded,       \* history: arrived on a parent that had failed and was not linked
    failedBlocks,   \* g_failed_blocks
    tip,            \* chainActive.Tip()
    mostWork,       \* thread -> Idle, or the local pindexMostWork
    nextSeq,        \* nBlockSequenceId
    reverseSeq,     \* nBlockReverseSequenceId
    lastPrecious,   \* nLastPreciousChainwork
    calls,          \* preciousblock calls so far
    aborted         \* an assert of validation.cpp failed

index == <<known, level, failed, linked, seq, unlinked, stranded, failedBlocks>>
precious == <<reverseSeq, lastPrecious, calls>>
vars == <<index, candidates, tip, mostWork, nextSeq, precious, aborted>>

TREE == 2
TRANSACTIONS == 3
SCRIPTS == 5
FAILED_VALID == "valid"
FAILED_CHILD == "child"

(* CBlockIndexWorkComparator: a sorts before b, that is, b is better. *)
Less(s, a, b) ==
    \/ Work[a] < Work[b]
    \/ /\ Work[a] = Work[b]
       /\ s[a] > s[b] \/ (s[a] = s[b] /\ Address[a] > Address[b])

Failed(b) == failed[b] # {}
IsValid(b, upTo) == ~Failed(b) /\ level[b] >= upTo

(* nStatus |= flag on a set of blocks *)
Marked(f, S, flag) == [b \in Blocks |-> IF b \in S THEN f[b] \cup {flag} ELSE f[b]]

(* RaiseValidity *)
Raised(f, l, S, upTo) ==
    [b \in Blocks |-> IF b \in S /\ f[b] = {} /\ l[b] < upTo THEN upTo ELSE l[b]]

(* Mutant: the tip itself is deleted too. *)
PrunedTip(cand, s, t) == {c \in cand : Less(s, t, c)}

(* PruneBlockIndexCandidates with tip t; it asserts that some are left. *)
Pruned(cand, s, t) == {c \in cand : ~Less(s, c, t)}

Init ==
    /\ known = {Genesis} /\ linked = {Genesis} /\ candidates = {Genesis}
    /\ level = [b \in Blocks |-> IF b = Genesis THEN SCRIPTS ELSE TREE]
    /\ failed = [b \in Blocks |-> {}]
    /\ seq = [b \in Blocks |-> IF b = Genesis THEN 1 ELSE 0]
    /\ unlinked = {} /\ stranded = {} /\ failedBlocks = {}
    /\ tip = Genesis
    /\ mostWork = [t \in Threads |-> Idle]
    /\ nextSeq = 2 /\ reverseSeq = -1 /\ lastPrecious = 0 /\ calls = 0
    /\ aborted = FALSE

-----------------------------------------------------------------------------
(* Headers and blocks *)

(* The failed ancestors AcceptBlockHeader finds by walking g_failed_blocks *)
(* for a header whose parent is not yet known to be fully valid.           *)
FailedAncestors(b) ==
    IF level[Parent[b]] >= SCRIPTS THEN {} ELSE failedBlocks \cap Chain[Parent[b]]

(* AcceptBlockHeader returns true: known and not failed, or new on an      *)
(* acceptable parent (AddToBlockIndex).                                    *)
HeaderAccepted(b) ==
    IF b \in known THEN ~Failed(b)
    ELSE Parent[b] \in known /\ ~Failed(Parent[b]) /\ FailedAncestors(b) = {}

ProcessNewBlockHeaders(b) ==
    /\ b \notin known /\ HeaderAccepted(b)
    /\ known' = known \cup {b}
    /\ UNCHANGED <<level, failed, linked, seq, unlinked, stranded, failedBlocks>>
    /\ UNCHANGED <<candidates, tip, mostWork, nextSeq, precious, aborted>>

(* AcceptBlockHeader meets a failed ancestor: it asserts FAILED_VALID,     *)
(* marks the blocks in between, and rejects the header.                    *)
RejectHeader(b) ==
    /\ b \notin known /\ Parent[b] \in known /\ ~Failed(Parent[b])
    /\ \E f \in FailedAncestors(b) :
        IF FAILED_VALID \in failed[f]
        THEN /\ failed' = Marked(failed, Chain[Parent[b]] \ Chain[f], FAILED_CHILD)
             /\ UNCHANGED aborted
        ELSE aborted' = TRUE /\ UNCHANGED failed
    /\ UNCHANGED <<known, level, linked, seq, unlinked, stranded, failedBlocks>>
    /\ UNCHANGED <<candidates, tip, mostWork, nextSeq, precious>>

(* Mutant: the blocks that waited for b are forgotten. *)
NewlyLinkedOne(b) == {b}

(* The blocks ReceivedBlockTransactions links when the data of b arrives   *)
(* and its parent is linked: b and, breadth first, what waited in          *)
(* mapBlocksUnlinked for it.                                               *)
NewlyLinked(b) ==
    {d \in unlinked \cup {b} : b \in Chain[d] /\ (Chain[d] \ Chain[b]) \subseteq unlinked}

(* Sequence ids in the order of the queue. *)
QueueOrders(S) ==
    {ord \in [S -> 0..(Cardinality(S) - 1)] :
        \A c, d \in S : (c # d => ord[c] # ord[d]) /\ (Height[c] < Height[d] => ord[c] < ord[d])}

(* Mutant: a block waits only for a parent that has its data. *)
WaitsForData(b) == IsValid(Parent[b], TRANSACTIONS)

(* Whether a block that cannot be linked is kept in mapBlocksUnlinked      *)
(* (otherwise nothing remembers that it waits: it is stranded), and what   *)
(* is left there once `new` is linked.                                     *)
Waits(b) == IsValid(Parent[b], TREE)
Waiting(new) == unlinked \ new

ReceivedBlockTransactions(b) ==
    IF Parent[b] \in linked
    THEN LET new == NewlyLinked(b)
         IN  \E ord \in QueueOrders(new) :
                LET s == [d \in Blocks |-> IF d \in new THEN nextSeq + ord[d] ELSE seq[d]]
                IN  /\ linked' = linked \cup new
                    /\ unlinked' = Waiting(new)
                    /\ seq' = s
                    /\ nextSeq' = nextSeq + Cardinality(new)
                    /\ candidates' = candidates \cup {d \in new : ~Less(s, d, tip)}
                    /\ UNCHANGED stranded
    ELSE /\ unlinked' = IF Waits(b) THEN unlinked \cup {b} ELSE unlinked
         /\ stranded' = IF Failed(Parent[b]) THEN stranded \cup {b} ELSE stranded
         /\ UNCHANGED <<linked, seq, nextSeq, candidates>>

(* AcceptBlock keeps the block: it is new and, unless it was requested,    *)
(* has more work than the tip.                                             *)
WantsBlock(b, fRequested) ==
    level[b] < TRANSACTIONS /\ (fRequested \/ Work[b] > Work[tip])

(* AddToBlockIndex *)
Indexed(b) == known \cup {b}

(* ProcessNewBlock, up to the call of ActivateBestChain.  A header that    *)
(* AcceptBlockHeader turns down is RejectHeader.                           *)
ProcessNewBlock(t, b, fRequested) ==
    /\ mostWork[t] = Idle /\ HeaderAccepted(b)
    /\ known' = Indexed(b)
    /\ IF ~WantsBlock(b, fRequested)
       THEN /\ mostWork' = [mostWork EXCEPT ![t] = Null]
            /\ UNCHANGED <<level, failed, linked, seq, unlinked, stranded, nextSeq, candidates>>
       ELSE IF b \in ContextFails
       THEN /\ failed' = Marked(failed, {b}, FAILED_VALID)
            /\ UNCHANGED <<level, linked, seq, unlinked, stranded, nextSeq, candidates, mostWork>>
       ELSE /\ ReceivedBlockTransactions(b)
            /\ level' = Raised(failed, level, {b}, TRANSACTIONS)
            /\ mostWork' = [mostWork EXCEPT ![t] = Null]
            /\ UNCHANGED failed
    /\ UNCHANGED <<failedBlocks, tip, precious, aborted>>

-----------------------------------------------------------------------------
(* Chain selection *)

Path(c) == Chain[c] \ Chain[tip]

FailedOnPath(c) == {b \in Path(c) : Failed(b)}

(* What FindMostWorkChain returns: the best candidate with no failed block *)
(* between it and the active chain.                                        *)
Usable == {c \in candidates : FailedOnPath(c) = {}}

(* Mutant: the worst usable candidate. *)
FindLeastWorkChain ==
    IF Usable = {} THEN Null
    ELSE CHOOSE c \in Usable : \A d \in Usable \ {c} : Less(seq, c, d)

FindMostWorkChain ==
    IF Usable = {} THEN Null
    ELSE CHOOSE c \in Usable : \A d \in Usable \ {c} : Less(seq, d, c)

(* The candidates it discards on the way, the blocks it erases and the     *)
(* descendants of a failed block it marks.                                 *)
Discarded ==
    {c \in candidates \ Usable :
        FindMostWorkChain = Null \/ Less(seq, FindMostWorkChain, c)}
AboveFailed(c) == {b \in Path(c) : \A f \in FailedOnPath(c) : Height[b] > Height[f]}
TopFailed(c) == {f \in FailedOnPath(c) : \A g \in FailedOnPath(c) : Height[g] <= Height[f]}
MarkedBySearch == UNION {AboveFailed(c) : c \in Discarded}
ErasedBySearch == UNION {AboveFailed(c) \cup TopFailed(c) : c \in Discarded}

Highest(S) == CHOOSE b \in S : \A c \in S : Height[c] <= Height[b]

(* The blocks after the fork that a step tries to connect: up to the first *)
(* that is invalid or makes the tip better than it was.                    *)
Tried(target) ==
    LET path == Path(target)
        stops == {b \in path : b \in ConnectFails \/ Work[b] > Work[tip]}
    IN  {b \in path : \A s \in stops : Height[b] <= Height[s]}

(* Mutant: the most-work block is kept although its chain was invalid. *)
KeptMostWork(invalid, newTip, target) == IF newTip = target THEN Idle ELSE target

(* pindexMostWork after a step; Idle when the loop is left. *)
NextMostWork(invalid, newTip, target) ==
    IF invalid # {} THEN Null ELSE IF newTip = target THEN Idle ELSE target

(* Disconnect down to the fork with `target`, then connect.  `cand` and    *)
(* `fail` are what FindMostWorkChain left.                                 *)
ActivateBestChainStep(t, target, cand, fail) ==
    \E invalid \in {Tried(target) \cap ConnectFails},
       connected \in {Tried(target) \ ConnectFails} :
    \E newTip \in {Highest(connected \cup {LastCommonAncestor(tip, target)})} :
    \E pruned \in {IF connected = {} THEN cand ELSE Pruned(cand, seq, newTip)} :
        /\ tip' = newTip
        /\ level' = Raised(fail, level, connected, SCRIPTS)
        /\ failed' = Marked(fail, invalid, FAILED_VALID)
        /\ failedBlocks' = failedBlocks \cup invalid
        /\ candidates' = pruned \ invalid
        /\ aborted' = (connected # {} /\ pruned = {})
        /\ mostWork' = [mostWork EXCEPT ![t] = NextMostWork(invalid, newTip, target)]

(* One turn of ActivateBestChain's loop under cs_main. *)
ActivateBestChain(t) ==
    /\ mostWork[t] # Idle
    /\ \E target \in {IF mostWork[t] = Null THEN FindMostWorkChain ELSE mostWork[t]} :
       \E cand \in {IF mostWork[t] = Null THEN candidates \ ErasedBySearch ELSE candidates},
          fail \in {IF mostWork[t] = Null THEN Marked(failed, MarkedBySearch, FAILED_CHILD)
                    ELSE failed} :
           IF target = Null \/ target = tip
           THEN /\ mostWork' = [mostWork EXCEPT ![t] = Idle]
                /\ candidates' = cand /\ failed' = fail
                /\ UNCHANGED <<tip, level, failedBlocks, aborted>>
           ELSE ActivateBestChainStep(t, target, cand, fail)
    /\ UNCHANGED <<known, linked, seq, unlinked, stranded, nextSeq, precious>>

-----------------------------------------------------------------------------
(* RPC.  The code takes any block of the index; a careful operator         *)
(* reconsiders blocks that descend from no failed one, and makes no tip    *)
(* precious: a reset nBlockReverseSequenceId may sort it lower than before.*)
Careful(b) == CarefulOperator => \A a \in Chain[Parent[b]] : ~Failed(a)

(* Mutant: only blocks better than the new tip are added. *)
ReaddedBetter(fail, newTip) ==
    {c \in known \cap linked :
        fail[c] = {} /\ level[c] >= TRANSACTIONS /\ Less(seq, newTip, c)}

(* The blocks InvalidateBlock adds to the candidates. *)
Readded(fail, newTip) ==
    {c \in known \cap linked :
        fail[c] = {} /\ level[c] >= TRANSACTIONS /\ ~Less(seq, c, newTip)}

(* invalidateblock: InvalidateBlock, then ActivateBestChain. *)
InvalidateBlock(t, b) ==
    LET inChain == b \in Chain[tip]
        newTip == IF inChain THEN Parent[b] ELSE tip
        children == IF inChain THEN Chain[tip] \ Chain[b] ELSE {}
        fail == Marked(Marked(failed, children, FAILED_CHILD), {b}, FAILED_VALID)
    IN  /\ mostWork[t] = Idle
        /\ b \in known
        /\ tip' = newTip
        /\ failed' = fail
        /\ candidates' = (candidates \ (children \cup {b})) \cup Readded(fail, newTip)
        /\ failedBlocks' = failedBlocks \cup {b}
        /\ mostWork' = [mostWork EXCEPT ![t] = Null]
        /\ UNCHANGED <<known, level, linked, seq, unlinked, stranded, nextSeq, precious, aborted>>

(* Mutants: only the block itself; g_failed_blocks keeps the blocks.       *)
ResetOne(b) == {b} \ {d \in known : IsValid(d, TRANSACTIONS)}
StillFailed(reset) == failedBlocks

(* The block and the descendants ResetBlockFailureFlags clears, and what   *)
(* it leaves in g_failed_blocks.                                           *)
Reset(b) == {d \in known : b \in Chain[d] /\ ~IsValid(d, TRANSACTIONS)}
FailedAfter(reset) == failedBlocks \ reset

(* reconsiderblock: ResetBlockFailureFlags, then ActivateBestChain.  The   *)
(* ancestors lose their flags as well.                                     *)
ReconsiderBlock(t, b) ==
    LET reset == Reset(b)
    IN  /\ mostWork[t] = Idle
        /\ b \in known /\ Careful(b)
        /\ failed' = [d \in Blocks |-> IF d \in reset \cup Chain[b] THEN {} ELSE failed[d]]
        /\ candidates' = candidates \cup
              {d \in reset \cap linked : level[d] >= TRANSACTIONS /\ Less(seq, tip, d)}
        /\ failedBlocks' = FailedAfter(reset)
        /\ mostWork' = [mostWork EXCEPT ![t] = Null]
        /\ UNCHANGED <<known, level, linked, seq, unlinked, stranded, tip, nextSeq, precious, aborted>>

(* preciousblock: PreciousBlock, then ActivateBestChain. *)
PreciousBlock(t, b) ==
    LET rev == IF Work[tip] > lastPrecious THEN -1 ELSE reverseSeq
        s == [seq EXCEPT ![b] = rev]
        cand == IF IsValid(b, TRANSACTIONS) /\ b \in linked
                THEN Pruned(candidates \cup {b}, s, tip)
                ELSE candidates \ {b}
    IN  /\ mostWork[t] = Idle
        /\ b \in known /\ Work[b] >= Work[tip]
        /\ CarefulOperator => b # tip
        /\ calls < MaxPrecious
        /\ calls' = calls + 1
        /\ lastPrecious' = Work[tip]
        /\ seq' = s
        /\ reverseSeq' = rev - 1
        /\ candidates' = cand
        /\ aborted' = (IsValid(b, TRANSACTIONS) /\ b \in linked /\ cand = {})
        /\ mostWork' = [mostWork EXCEPT ![t] = Null]
        /\ UNCHANGED <<known, level, failed, linked, unlinked, stranded, failedBlocks, tip, nextSeq>>

Next ==
    /\ ~aborted
    /\ \/ \E b \in Blocks \ {Genesis} : ProcessNewBlockHeaders(b) \/ RejectHeader(b)
       \/ \E t \in Threads, b \in Blocks \ {Genesis}, fRequested \in BOOLEAN :
            ProcessNewBlock(t, b, fRequested)
       \/ \E t \in Threads, b \in RpcBlocks :
            \/ InvalidateBlock(t, b)
            \/ ReconsiderBlock(t, b)
            \/ PreciousBlock(t, b)
       \/ \E t \in Threads : ActivateBestChain(t)

Spec == Init /\ [][Next]_vars /\ \A t \in Threads : WF_vars(ActivateBestChain(t))

-----------------------------------------------------------------------------
(* Index fields are well formed. *)
TypeOK ==
    /\ Genesis \in known /\ known \subseteq Blocks
    /\ linked \subseteq known /\ unlinked \subseteq known /\ candidates \subseteq known
    /\ stranded \subseteq known /\ failedBlocks \subseteq known /\ tip \in known
    /\ level \in [Blocks -> {TREE, TRANSACTIONS, SCRIPTS}]
    /\ failed \in [Blocks -> SUBSET {FAILED_VALID, FAILED_CHILD}]
    /\ seq \in [Blocks -> Int]
    /\ mostWork \in [Threads -> Blocks \cup {Null, Idle}]
    /\ nextSeq \in Nat /\ reverseSeq \in Int /\ lastPrecious \in Nat /\ calls \in Nat
    /\ aborted \in BOOLEAN

HasInvalidAncestor(b) == \E a \in Chain[b] : FAILED_VALID \in failed[a]
HasData(b) == level[b] >= TRANSACTIONS
Quiet == \A t \in Threads : mostWork[t] = Idle

(* No assert of AcceptBlockHeader or PruneBlockIndexCandidates fails. *)
NoAbort == ~aborted

(* nChainTx is set exactly when the block and all its ancestors have data, *)
(* in whatever order they arrived (CheckBlockIndex); the blocks at and     *)
(* above a stranded one are never linked, even when the missing data comes *)
(* after a reconsiderblock.                                                *)
LinkedExactly ==
    /\ TypeOK
    /\ \A b \in known :
        b \in linked <=> \A a \in Chain[b] : HasData(a) /\ a \notin stranded

(* Every usable block that sorts at least as good as the tip is a          *)
(* candidate whenever no activation is under way (a reorganisation that    *)
(* met an invalid block passes through a worse tip), and no candidate      *)
(* sorts worse than the tip or lacks data (CheckBlockIndex).               *)
CandidatesExact ==
    /\ Quiet => \A b \in linked :
         ~Less(seq, b, tip) /\ ~HasInvalidAncestor(b) => b \in candidates
    /\ \A c \in candidates : c \in linked /\ ~Less(seq, c, tip)

(* A failure flag always has a cause: a FAILED_VALID block among the       *)
(* ancestors (CheckBlockIndex).                                            *)
FailedHaveCause == \A b \in known : Failed(b) => HasInvalidAncestor(b)

(* mapBlocksUnlinked holds exactly the blocks with data that an ancestor's *)
(* data is to link, and no stranded or linked block (CheckBlockIndex).     *)
UnlinkedExact == unlinked = {b \in known : HasData(b)} \ (linked \cup stranded)

(* The active chain contains no failed block; and when no thread is inside *)
(* ActivateBestChain, the tip is the best usable candidate: "the result is *)
(* either failure or an activated best chain".                             *)
BestChainActive ==
    /\ \A b \in Chain[tip] : ~Failed(b)
    /\ Quiet => \A c \in linked : ~HasInvalidAncestor(c) => ~Less(seq, tip, c)

(* ActivateBestChain comes to an end. *)
Activates == \A t \in Threads : mostWork[t] # Idle ~> mostWork[t] = Idle
==========================================================================
