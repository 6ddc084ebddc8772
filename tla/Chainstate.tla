---------------------------- MODULE Chainstate ----------------------------
(***************************************************************************)
(* The chainstate on disk through flushes, crashes and restarts:           *)
(* FlushStateToDisk and ReplayBlocks of validation.cpp, the batches of     *)
(* CCoinsViewDB::BatchWrite of txdb.cpp, and the asset database that is    *)
(* dumped behind the coins.  A crash loses the memory and keeps what the   *)
(* databases hold.  What pcoinsTip answers is a plain map (`utxo`): that   *)
(* the caches implement one is shown in CoinsCache.                        *)
(***************************************************************************)
EXTENDS BlockTree, Sequences

CONSTANTS
    Vtx,         \* block -> sequence of [spends, adds], sets of outpoints
    Issues,      \* block -> the assets its transactions issue
    OutPoints,
    Spent,       \* no coin: Coin::IsSpent()
    NoUndo,      \* GetUndoPos().IsNull()
    MaxCrashes   \* bound on the crashes of a behaviour

(* The outpoints b creates, and those it spends. *)
Adds(b) == UNION {Vtx[b][i].adds : i \in DOMAIN Vtx[b]}
Spends(b) == UNION {Vtx[b][i].spends : i \in DOMAIN Vtx[b]}

(* The blocks are ones ConnectBlock accepts after their parents.  An       *)
(* outpoint is created once along a chain (the coinbase holds the height,  *)
(* ContextualCheckBlock, so that no two transactions have one hash) and    *)
(* spent once, after it was created (CheckTxInputs).  The genesis block    *)
(* touches no coin.                                                        *)
ASSUME BlocksAssumption ==
    /\ Vtx \in [Blocks -> Seq([spends : SUBSET OutPoints, adds : SUBSET OutPoints])]
    /\ Vtx[Genesis] = <<>>
    /\ \A b \in Blocks : \A i, j \in DOMAIN Vtx[b] :
            Vtx[b][i].adds \cap Vtx[b][j].spends # {} => i < j
    /\ \A b \in Blocks : \A c \in Chain[Parent[b]] :
            Adds(b) \cap Adds(c) = {} /\ Spends(b) \cap Spends(c) = {}
    /\ \A b \in Blocks : \A o \in Spends(b) : \E c \in Chain[b] : o \in Adds(c)

VARIABLES
    pc,          \* "run", "coins", "assets" (inside FlushStateToDisk), "replay", "down", "failed"
    coins,       \* DB_COIN: outpoint -> height of its coin, Spent if no record
    best,        \* DB_BEST_BLOCK
    heads,       \* DB_HEAD_BLOCKS: <<>> or <<new, old>>
    index,       \* block index database: blocks known and undo data located
    assetdb,     \* the assets of passetsdb
    tip,         \* chainActive.Tip(), or the block a replay is heading for
    utxo,        \* what the coins cache being flushed answers
    left,        \* outpoints whose entry BatchWrite has not written yet
    mem,         \* mapBlockIndex: as index, with undo data by block
    assets,      \* what passets over passetsdb answers
    crashes

vars == <<pc, coins, best, heads, index, assetdb, tip, utxo, left, mem, assets, crashes>>
disk == <<coins, best, heads, index, assetdb>>

CoinMap == [OutPoints -> {Spent} \cup {Height[b] : b \in Blocks}]
NoCoins == [o \in OutPoints |-> Spent]
EmptyIndex == [known |-> {Genesis}, undo |-> [b \in Blocks |-> NoUndo]]

-----------------------------------------------------------------------------
(* Blocks against a coin map *)

(* Apply the first i transactions of b: inputs spent, then outputs added.  *)
(* Used by ConnectBlock and, with every addition allowed to overwrite, by  *)
(* RollforwardBlock.                                                       *)
RollforwardBlock(b, u) ==
    LET after[i \in 0..Len(Vtx[b])] ==
            IF i = 0 THEN u
            ELSE [o \in OutPoints |->
                    IF o \in Vtx[b][i].adds THEN Height[b]
                    ELSE IF o \in Vtx[b][i].spends THEN Spent
                    ELSE after[i - 1][o]]
    IN  after[Len(Vtx[b])]

(* CBlockUndo: the coin each input had when it was spent. *)
BlockUndo(b, u) ==
    [o \in Spends(b) |-> IF o \in Adds(b) THEN Height[b] ELSE u[o]]

ASSUME ValuesAssumption ==
    /\ \A b \in Blocks, u \in CoinMap : NoUndo # BlockUndo(b, u)
    /\ MaxCrashes \in Nat

(* Mutant: the transactions are undone first to last. *)
DisconnectBlockForward(b, u, undo) ==
    LET after[i \in 0..Len(Vtx[b])] ==
            IF i = 0 THEN u
            ELSE [o \in OutPoints |->
                    IF o \in Vtx[b][i].spends THEN undo[o]
                    ELSE IF o \in Vtx[b][i].adds THEN Spent
                    ELSE after[i - 1][o]]
    IN  after[Len(Vtx[b])]

(* DisconnectBlock: transactions in reverse; outputs removed, then inputs  *)
(* restored from the undo data.  Missing or present coins are tolerated    *)
(* (DISCONNECT_UNCLEAN).                                                   *)
DisconnectBlock(b, u, undo) ==
    LET n == Len(Vtx[b])
        after[i \in 0..n] ==
            IF i = 0 THEN u
            ELSE LET tx == Vtx[b][n + 1 - i]
                 IN  [o \in OutPoints |->
                        IF o \in tx.spends THEN undo[o]
                        ELSE IF o \in tx.adds THEN Spent
                        ELSE after[i - 1][o]]
    IN  after[n]

(* ReplayBlocks: the blocks of the old branch above the fork, from the old *)
(* tip down, then those of the new branch up to the new tip.               *)
Rollback(old, fork, u, undo) ==
    LET at[b \in Chain[old] \cup {Null}] ==
            IF b = old THEN u
            ELSE LET child == CHOOSE c \in Chain[old] : Parent[c] = b
                 IN  IF child = Genesis THEN at[child] ELSE DisconnectBlock(child, at[child], undo[child])
    IN  at[fork]

Rollforward(new, fork, u) ==
    LET at[b \in Chain[new] \cup {Null}] ==
            IF b = fork \/ b = Null THEN u ELSE RollforwardBlock(b, at[Parent[b]])
    IN  at[new]

-----------------------------------------------------------------------------
Init ==
    /\ pc = "run"
    /\ coins = NoCoins /\ best = Null /\ heads = <<>>
    /\ index = EmptyIndex /\ mem = EmptyIndex
    /\ assetdb = {} /\ assets = {}
    /\ tip = Null /\ utxo = NoCoins /\ left = {}
    /\ crashes = 0

(* AcceptBlock: the block enters mapBlockIndex and is on disk in a block   *)
(* file; the index entry is not.                                           *)
AcceptBlock(b) ==
    /\ pc = "run"
    /\ b \notin mem.known /\ Parent[b] \in mem.known
    /\ mem' = [mem EXCEPT !.known = @ \cup {b}]
    /\ UNCHANGED <<pc, disk, tip, utxo, left, assets, crashes>>

(* ConnectTip: undo data is written unless the block already has some. *)
ConnectTip(b) ==
    /\ pc = "run"
    /\ b \in mem.known /\ Parent[b] = tip
    /\ tip' = b
    /\ utxo' = RollforwardBlock(b, utxo)
    /\ mem' = [mem EXCEPT !.undo[b] =
                 IF b = Genesis \/ @ # NoUndo THEN @ ELSE BlockUndo(b, utxo)]
    /\ assets' = assets \cup Issues[b]
    /\ UNCHANGED <<pc, disk, left, crashes>>

(* DisconnectTip: the coins go back through the undo data the connection   *)
(* of the block left.                                                      *)
DisconnectTip ==
    /\ pc = "run"
    /\ tip \notin {Null, Genesis}
    /\ mem.undo[tip] # NoUndo
    /\ utxo' = DisconnectBlock(tip, utxo, mem.undo[tip])
    /\ assets' = assets \ Issues[tip]
    /\ tip' = Parent[tip]
    /\ UNCHANGED <<pc, disk, left, mem, crashes>>

(* FlushStateToDisk, fPeriodicWrite: block files and block index only. *)
WriteBlockIndex ==
    /\ pc = "run"
    /\ index' = mem
    /\ UNCHANGED <<pc, coins, best, heads, assetdb, tip, utxo, left, mem, assets, crashes>>

(* Mutant: the coins are flushed without the block index. *)
FlushCoinsOnly ==
    /\ pc = "run" /\ tip # Null
    /\ left' = {o \in OutPoints : utxo[o] # coins[o]}
    /\ pc' = "coins"
    /\ UNCHANGED <<disk, tip, utxo, mem, assets, crashes>>

(* FlushStateToDisk, fDoFullFlush: the block index first, then the coins.  *)
FlushStateToDisk ==
    /\ pc = "run" /\ tip # Null
    /\ index' = mem
    /\ left' = {o \in OutPoints : utxo[o] # coins[o]}
    /\ pc' = "coins"
    /\ UNCHANGED <<coins, best, heads, assetdb, tip, utxo, mem, assets, crashes>>

(* The old tip BatchWrite records: of the interrupted flush, if there was  *)
(* one.                                                                    *)
OldTip == IF best = Null /\ heads # <<>> THEN heads[2] ELSE best

(* CCoinsViewDB::BatchWrite: a batch over batch_size is written early; the *)
(* first one carries the head blocks and erases the best block.            *)
WritePartialBatch(S) ==
    /\ pc \in {"coins", "replay"}
    /\ coins' = [o \in OutPoints |-> IF o \in S THEN utxo[o] ELSE coins[o]]
    /\ best' = Null
    /\ heads' = <<tip, OldTip>>
    /\ left' = left \ S
    /\ UNCHANGED <<pc, index, assetdb, tip, utxo, mem, assets, crashes>>

(* Mutant: what is left when the loop ends is not written. *)
WriteFullBatchesOnly ==
    /\ pc \in {"coins", "replay"} /\ left = {}
    /\ best' = tip
    /\ heads' = <<>>
    /\ pc' = IF pc = "coins" THEN "assets" ELSE "run"
    /\ UNCHANGED <<coins, index, assetdb, tip, utxo, left, mem, assets, crashes>>

(* The last batch makes the database consistent again.  A replay is over   *)
(* then: the node loads its tip.                                           *)
WriteFinalBatch ==
    /\ pc \in {"coins", "replay"}
    /\ coins' = [o \in OutPoints |-> IF o \in left THEN utxo[o] ELSE coins[o]]
    /\ best' = tip
    /\ heads' = <<>>
    /\ left' = {}
    /\ pc' = IF pc = "coins" THEN "assets" ELSE "run"
    /\ UNCHANGED <<index, assetdb, tip, utxo, mem, assets, crashes>>

(* DumpCacheToDatabase, after the coins: one database write at a time. *)
DumpAsset(a) ==
    /\ pc = "assets"
    /\ (a \in assets) # (a \in assetdb)
    /\ assetdb' = IF a \in assets THEN assetdb \cup {a} ELSE assetdb \ {a}
    /\ UNCHANGED <<pc, coins, best, heads, index, tip, utxo, left, mem, assets, crashes>>

DumpDone ==
    /\ pc = "assets"
    /\ assetdb = assets
    /\ pc' = "run"
    /\ UNCHANGED <<disk, tip, utxo, left, mem, assets, crashes>>

(* The process is killed, or -dbcrashratio ends it, at any point. *)
Crash ==
    /\ pc \notin {"down", "failed"} /\ crashes < MaxCrashes
    /\ crashes' = crashes + 1
    /\ pc' = "down"
    /\ tip' = Null /\ utxo' = NoCoins /\ left' = {}
    /\ mem' = EmptyIndex /\ assets' = {}
    /\ UNCHANGED disk

(* Start-up with a consistent coin database: ReplayBlocks returns at once, *)
(* LoadChainTip looks the best block up in the block index.                *)
LoadChainTip ==
    /\ pc = "down" /\ heads = <<>>
    /\ mem' = index /\ assets' = assetdb
    /\ tip' = best /\ utxo' = coins
    /\ pc' = IF best \in index.known \cup {Null} THEN "run" ELSE "failed"
    /\ UNCHANGED <<disk, left, crashes>>

(* Mutant: the interrupted flush is rolled back to the old tip. *)
ReplayTargetOld == IF heads[2] = Null THEN heads[1] ELSE heads[2]

(* The block a replay heads for, and whether both heads are in the index   *)
(* (the old tip of a first flush is null).                                 *)
ReplayTarget == heads[1]
HeadsKnown == {heads[1], heads[2]} \subseteq index.known \cup {Null}

(* Start-up after an interrupted flush.  RollforwardBlock gets no asset    *)
(* cache, DisconnectBlock does.                                            *)
ReplayBlocks ==
    /\ pc = "down" /\ heads # <<>>
    /\ mem' = index
    /\ UNCHANGED <<disk, crashes>>
    /\ LET new == ReplayTarget
           old == heads[2]
           fork == LastCommonAncestor(old, new)
           undone == Chain[old] \ Chain[fork]
           replayed == Rollforward(new, fork, Rollback(old, fork, coins, index.undo))
       IN  IF HeadsKnown /\ \A b \in undone \ {Genesis} : index.undo[b] # NoUndo
           THEN /\ pc' = "replay"
                /\ tip' = new
                /\ utxo' = replayed
                /\ left' = {o \in OutPoints : replayed[o] # coins[o]}
                /\ assets' = assetdb \ UNION {Issues[b] : b \in undone}
           ELSE /\ pc' = "failed"
                /\ tip' = Null /\ utxo' = NoCoins /\ left' = {} /\ assets' = {}

Next ==
    \/ \E b \in Blocks : AcceptBlock(b) \/ ConnectTip(b)
    \/ DisconnectTip
    \/ WriteBlockIndex
    \/ FlushStateToDisk
    \/ \E S \in SUBSET left : WritePartialBatch(S)
    \/ WriteFinalBatch
    \/ \E a \in UNION {Issues[b] : b \in Blocks} : DumpAsset(a)
    \/ DumpDone
    \/ Crash
    \/ LoadChainTip
    \/ ReplayBlocks

(* A started flush and a start-up run to their end; only a crash stops     *)
(* them.                                                                   *)
Fairness ==
    /\ WF_vars(WriteFinalBatch)
    /\ WF_vars(DumpDone)
    /\ WF_vars(\E a \in UNION {Issues[b] : b \in Blocks} : DumpAsset(a))
    /\ WF_vars(LoadChainTip)
    /\ WF_vars(ReplayBlocks)

Spec == Init /\ [][Next]_vars /\ Fairness

-----------------------------------------------------------------------------
(* The UTXO set and the assets of a chain, read off its blocks: no block   *)
(* is applied or undone here.                                              *)
UtxoAt(b) ==
    [o \in OutPoints |->
        IF \E c \in Chain[b] : o \in Adds(c) /\ \A d \in Chain[b] : o \notin Spends(d)
        THEN Height[CHOOSE c \in Chain[b] : o \in Adds(c)]
        ELSE Spent]

IssuedAt(b) == UNION {Issues[c] : c \in Chain[b]}

(* Databases and memory are well formed. *)
TypeOK ==
    /\ pc \in {"run", "coins", "assets", "replay", "down", "failed"}
    /\ coins \in CoinMap /\ utxo \in CoinMap
    /\ {best, tip} \subseteq Blocks \cup {Null}
    /\ heads = <<>> \/ heads \in Blocks \X (Blocks \cup {Null})
    /\ left \subseteq OutPoints
    /\ index.known \subseteq Blocks /\ mem.known \subseteq Blocks
    /\ crashes \in 0..MaxCrashes

(* Whenever the coin database names a best block it holds exactly the      *)
(* UTXO set of that block, after any sequence of interrupted flushes,      *)
(* reorganisations and replays ("mark the database as consistent with      *)
(* hashBlock again", txdb.cpp), and a running node's coin view is the UTXO *)
(* set of its tip: rolling back and forward over a half-written database   *)
(* repairs it.                                                             *)
CoinsMatchTip ==
    /\ TypeOK
    /\ heads = <<>> => coins = UtxoAt(best)
    /\ pc \in {"run", "coins", "replay"} => utxo = UtxoAt(tip)

(* Start-up never ends in an error: what the coin database names (best     *)
(* block, head blocks, the undo data between them) was put in the block    *)
(* index before, and nobody flushes towards a different block while an     *)
(* interrupted flush is on disk (BatchWrite's                              *)
(* assert(old_heads[0] == hashBlock)).                                     *)
StartupSucceeds ==
    /\ pc # "failed"
    /\ pc \in {"coins", "replay"} /\ best = Null /\ heads # <<>> => heads[1] = tip

(* An interrupted flush is completed, never abandoned: the head blocks     *)
(* disappear only when their new tip becomes the best block.               *)
FlushCompleted ==
    [][heads # <<>> /\ heads' = <<>> => best' = heads[1]]_vars

(* After a crash the node runs again. *)
Recovers == pc = "down" ~> pc = "run"

(* The asset state of a running node belongs to the same tip as its coins: *)
(* ReplayBlocks takes empty head blocks to mean "We're already in a        *)
(* consistent state".                                                      *)
AssetsMatchTip == pc = "run" => assets = IssuedAt(tip)
==========================================================================
