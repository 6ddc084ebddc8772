------------------------------ MODULE Mempool ------------------------------
(***************************************************************************)
(* The memory pool in use: AcceptToMemoryPool, the blocks that connect and *)
(* disconnect, the transactions a reorganisation gives back, the RPCs that *)
(* change the pool, and restarts.  cs_main is held in every step but       *)
(* clearmempool; a reorganisation is several steps, between which only     *)
(* that RPC and readers of the pool run.                                   *)
(***************************************************************************)
EXTENDS TxPool

CONSTANTS
    Worlds,             \* the sets of transactions to choose from
    MaxHeight,          \* bound: height of the chain
    MaxBlockTxs,        \* bound: transactions of a block besides the coinbase
    MaxPoolTxs,         \* -maxmempool, in transactions
    MaxDisconnected,    \* MAX_DISCONNECTED_TX_POOL_SIZE, in transactions
    LimitAncestors,     \* -limitancestorcount
    LimitDescendants,   \* -limitdescendantcount
    MinRelayFee, IncrementalFee,
    CoinbaseMaturity,   \* COINBASE_MATURITY
    MaxDelta,           \* bound: the sum of all fee deltas
    Favourites,         \* bound: the transactions somebody prioritises
    MaxExpired          \* bound: entries past their age at one time

ASSUME LimitsAssumption ==
    /\ {MaxHeight, MaxBlockTxs, MaxDelta, MaxExpired, MinRelayFee, CoinbaseMaturity} \subseteq Nat
    /\ {MaxPoolTxs, MaxDisconnected, LimitAncestors, LimitDescendants, IncrementalFee} \subseteq Nat \ {0}

VARIABLES
    pool,
    chain,          \* the active chain: blocks, each a sequence that starts with its coinbase
    disconnectpool, \* queuedTx in insertion order
    vHashUpdate,    \* the transactions UpdateMempoolForReorg has given back
    phase,          \* where ActivateBestChainStep is
    evicted,        \* the best fee rate evicted for size since the floor last fell
    lost            \* transactions that left by clearmempool or were not loaded again

vars == <<txs, pool, chain, disconnectpool, vHashUpdate, phase, evicted, lost>>
reorg == <<disconnectpool, vHashUpdate, phase>>

Confirmed == FlattenSeq(chain)
Height == Len(chain) - 1

Init ==
    /\ txs \in Worlds
    /\ chain = << <<"base">> >>
    /\ pool = NewPool
    /\ disconnectpool = <<>>
    /\ vHashUpdate = <<>>
    /\ phase = "none"
    /\ evicted = 0
    /\ lost = {}

-----------------------------------------------------------------------------
(* The UTXO set after the transactions of s. *)
Unspent(s, o) == o[1] \in ToSet(s) /\ \A u \in ToSet(s) : o \notin Inputs(u)

HeightOf(t) == (CHOOSE i \in DOMAIN chain : t \in ToSet(chain[i])) - 1
Mature(o, height) == txs[o[1]].coinbase => height - HeightOf(o[1]) >= CoinbaseMaturity

CheckFinalTx(t, height) == txs[t].nLockTime < height

(* A flag as the active chain left it, and an asset after the              *)
(* transactions of s: the asset cache, when it answers exactly.            *)
IsSet(f) ==
    LET at == {i \in DOMAIN Confirmed : txs[Confirmed[i]].cmd \in {<<f, TRUE>>, <<f, FALSE>>}}
    IN  at # {} /\ txs[Confirmed[Max(at)]].cmd[2]

AssetExists(s, a) == \E u \in ToSet(s) : txs[u].issue = a

(* A command must change its flag; a transfer must not be frozen.  Flags   *)
(* are looked up as they were before the block.                            *)
FlagsAllow(t) ==
    /\ txs[t].cmd # None => IsSet(txs[t].cmd[1]) # txs[t].cmd[2]
    /\ \A f \in txs[t].frozenBy : ~IsSet(f)

(* The assets alone, as the chain defines them. *)
AssetRules(s, t) ==
    /\ txs[t].issue # None => ~AssetExists(s, txs[t].issue)
    /\ txs[t].reissue # None => AssetExists(s, txs[t].reissue)
    /\ FlagsAllow(t)

(* Mutant: a reissue does not look for another one in the pool. *)
CheckTxAssetsUnlocked(P, s, t) == AssetRules(s, t)

(* CheckTxAssets: mapReissuedAssets is consulted for blocks as well.       *)
CheckTxAssets(P, s, t) ==
    /\ AssetRules(s, t)
    /\ txs[t].reissue \in DOMAIN P.mapReissuedAssets => P.mapReissuedAssets[txs[t].reissue] = t

(* What ConnectBlock asks of the coins of a block on top of the chain. *)
CoinsAllow(block, i) ==
    LET s == Confirmed \o SubSeq(block, 2, i - 1)
    IN  /\ \A o \in Inputs(block[i]) :
             Unspent(s, o) /\ (o[1] \in ToSet(Confirmed) => Mature(o, Height + 1))
        /\ CheckFinalTx(block[i], Height + 1)

ConnectBlock(P, block) ==
    \A i \in 2 .. Len(block) :
        /\ CoinsAllow(block, i)
        /\ CheckTxAssets(P, Confirmed \o SubSeq(block, 2, i - 1), block[i])

-----------------------------------------------------------------------------
(* Inputs of t that the pool spends already. *)
Conflicts(P, t) == {P.mapNextTx[o] : o \in Inputs(t) \cap DOMAIN P.mapNextTx}

(* GetMinFee in fee units, without the decay. *)
GetMinFee(P) ==
    IF ~P.blockSince \/ P.rate = 0 THEN P.rate ELSE Max({P.rate, 12 * IncrementalFee})

(* CFeeRate::GetFee of size 1. *)
FeeAt(rate) == IF rate > 0 /\ rate < 12 THEN 1 ELSE rate \div 12

(* The rules for replacing what conflicts with t. *)
MayReplace(P, t, fee) ==
    LET direct == Conflicts(P, t)
        all == CalculateDescendants(P, direct)
    IN  /\ \A c \in direct : txs[c].replaceable /\ fee > ModifiedFee(P, c)
        /\ direct # {} =>
             \A o \in Inputs(t) : \/ o[1] \notin P.mapTx
                                  \/ \E c \in direct : \E i \in Inputs(c) : i[1] = o[1]
        /\ fee >= TotalFee(P, all) + (IF direct = {} THEN 0 ELSE IncrementalFee)

(* The fee floors and the package limits. *)
WithinLimits(P, t, fee, bypass_limits) ==
    LET anc == CalculateMemPoolAncestors(P, t)
    IN  /\ bypass_limits \/ (fee >= FeeAt(GetMinFee(P)) /\ fee >= MinRelayFee)
        /\ Cardinality(anc) + 1 <= LimitAncestors
        /\ \A a \in anc : P.withDescendants[a].n + 1 <= LimitDescendants
        /\ anc \cap Conflicts(P, t) = {}

(* The checks of AcceptToMemoryPoolWorker. *)
Acceptable(P, t, bypass_limits) ==
    LET fee == txs[t].fee + P.mapDeltas[t]
    IN  /\ ~txs[t].coinbase
        /\ CheckFinalTx(t, Height + 1)
        /\ t \notin P.mapTx
        /\ \A o \in Inputs(t) :
             o[1] \in P.mapTx \/ (Unspent(Confirmed, o) /\ Mature(o, Height + 1))
        /\ CheckTxAssets(P, Confirmed, t)
        /\ txs[t].issue # None => txs[t].issue \notin DOMAIN P.mapAssetToHash
        /\ WithinLimits(P, t, fee, bypass_limits)
        /\ MayReplace(P, t, fee)

(* Evict what is replaced, add t. *)
Added(P, t) ==
    AddUnchecked(RemoveStaged(P, CalculateDescendants(P, Conflicts(P, t)), FALSE), t,
                 CalculateMemPoolAncestors(P, t))

(* The asset maps of a transaction that was added.  A command that another *)
(* one has claimed is refused here, with the transaction in the pool.      *)
ClaimTaken(P, t) ==
    txs[t].cmd # None /\ Kind[txs[t].cmd[1]] # "address" /\ txs[t].cmd \in DOMAIN P.claims

Recorded(P, t) ==
    LET x == txs[t]
        Q == [P EXCEPT
                !.mapReissuedAssets = IF x.reissue = None THEN @ ELSE @ @@ (x.reissue :> t),
                !.mapReissuedTx = IF x.reissue = None THEN @ ELSE @ @@ (t :> x.reissue),
                !.mapAssetToHash = IF x.issue = None THEN @ ELSE (x.issue :> t) @@ @,
                !.mapHashToAsset = IF x.issue = None THEN @ ELSE (t :> x.issue) @@ @]
        R == IF x.cmd = None \/ Kind[x.cmd[1]] = "address" THEN Q
             ELSE [Q EXCEPT !.claims = (x.cmd :> {t}) @@ @, !.hashClaims = (t :> x.cmd) @@ @]
        onTip == Unspent(Confirmed, x.vin[1])   \* the restricted coin comes first
    IN  IF ClaimTaken(P, t) THEN Q
        ELSE [R EXCEPT !.marks = @ \cup {<<f, t>> : f \in IF onTip THEN x.frozenBy ELSE {}}]

(* AcceptToMemoryPool without the size limit. *)
Accepted(P, t, bypass_limits) ==
    IF Acceptable(P, t, bypass_limits) THEN Recorded(Added(P, t), t) ELSE P
IsAccepted(P, t, bypass_limits) == Acceptable(P, t, bypass_limits) /\ ~ClaimTaken(P, t)

-----------------------------------------------------------------------------
(* Mutant: the floor is the fee rate of the package itself. *)
TrackPackageRemovedEqual(P, rate) ==
    IF rate > P.rate THEN [P EXCEPT !.rate = rate, !.blockSince = FALSE] ELSE P

(* trackPackageRemoved, with the increment TrimToSize adds. *)
TrackPackageRemoved(P, rate) ==
    IF rate + 12 * IncrementalFee > P.rate
    THEN [P EXCEPT !.rate = rate + 12 * IncrementalFee, !.blockSince = FALSE]
    ELSE P

(* TrimToSize: the pools it may end with, and the best rate it evicted. *)
TrimToSize(P, best) ==
    LET RECURSIVE Trim(_, _)
        Trim(Q, b) ==
            IF Cardinality(Q.mapTx) <= MaxPoolTxs THEN {[pool |-> Q, best |-> b]}
            ELSE LET worst == {t \in Q.mapTx : \A u \in Q.mapTx : Score(Q, t) <= Score(Q, u)}
                     rate(t) == FeeRate(Q.withDescendants[t])
                 IN  UNION {Trim(RemoveStaged(TrackPackageRemoved(Q, rate(t)),
                                              CalculateDescendants(Q, {t}), FALSE),
                                 Max({b, rate(t)})) : t \in worst}
    IN  Trim(P, best)

(* What may have expired. *)
Old(entries) == UNION {kSubset(k, entries) : k \in 0 .. MaxExpired}

(* LimitMempoolSize, when the entries of `old` have expired. *)
LimitMempoolSize(P, old) == TrimToSize(Expire(P, old), evicted)

(* A transaction from the network or a wallet. *)
AcceptToMemoryPool(t) ==
    /\ phase = "none"
    /\ Acceptable(pool, t, FALSE)
    /\ \E P \in {Added(pool, t)} :
         \E old \in Old(P.mapTx \ {t}) : \E r \in LimitMempoolSize(P, old) :
           /\ pool' = IF t \in r.pool.mapTx THEN Recorded(r.pool, t) ELSE r.pool
           /\ evicted' = r.best
    /\ lost' = lost \ {t}
    /\ UNCHANGED <<txs, chain, reorg>>

(* prioritisetransaction *)
PrioritiseTransaction(t) ==
    /\ phase = "none"
    /\ t \in Favourites
    /\ MapThenSumSet(LAMBDA u : pool.mapDeltas[u], DOMAIN txs) < MaxDelta
    /\ pool' = Prioritised(pool, t, 1)
    /\ UNCHANGED <<txs, chain, reorg, evicted, lost>>

(* GetMinFee a half-life after the last update: the floor decays. *)
DecayMinFee ==
    LET half == pool.rate \div 2
    IN  /\ pool.blockSince /\ pool.rate > 0
        /\ pool' = [pool EXCEPT !.rate = IF 2 * half < 12 * IncrementalFee THEN 0 ELSE half]
        /\ evicted' = 0
        /\ UNCHANGED <<txs, chain, reorg, lost>>

(* clearmempool takes only mempool.cs. *)
ClearMempool ==
    /\ pool.mapTx # {}
    /\ pool' = Cleared(pool)
    /\ lost' = lost \cup pool.mapTx
    /\ evicted' = 0
    /\ UNCHANGED <<txs, chain, reorg>>

(* CreateNewBlock puts the ancestors of a transaction before it; when its  *)
(* TestBlockValidity names a transaction, that one is removed.             *)
RemoveFailed(t) ==
    /\ phase = "none"
    /\ t \in pool.mapTx
    /\ ~CheckTxAssets(pool, Confirmed \o SetToSeq(AncestorsOf(pool, t)), t)
    /\ pool' = RemoveRecursive(pool, t)
    /\ UNCHANGED <<txs, chain, reorg, evicted, lost>>

-----------------------------------------------------------------------------
(* The entries of removeForBlock's `trans`: what claims a name or a freeze *)
(* of the block, and what spends from an address it freezes.  The checks   *)
(* for verifiers, qualifiers and frozen assets call CheckTransaction,      *)
(* which does not look at the assets, and remove nothing.                  *)
Displaced(P, vtx) ==
    LET blockTxs == ToSet(vtx)
        names == {txs[t].issue : t \in blockTxs} \cap DOMAIN P.mapAssetToHash
        cmds == {txs[t].cmd : t \in blockTxs} \ {None}
    IN  {P.mapAssetToHash[a] : a \in names}
          \cup UNION {P.claims[c] : c \in {c \in cmds \cap DOMAIN P.claims : Kind[c[1]] = "asset"}}
          \cup {m[2] : m \in {m \in P.marks : <<m[1], TRUE>> \in cmds /\ Kind[m[1]] = "address"}}

(* removeForBlock *)
RemoveForBlock(P, vtx) ==
    LET trans == SetToSeq(Displaced(P, vtx) \cap P.mapTx)
    IN  [FoldLeft(RemoveOne, P, vtx \o trans) EXCEPT !.blockSince = TRUE]

(* ConnectTip's own loop over mapReissuedTx. *)
FreeReissued(P, vtx) ==
    LET freed == ToSet(vtx) \cap DOMAIN P.mapReissuedTx
    IN  [P EXCEPT !.mapReissuedAssets = Restricted(@, {P.mapReissuedTx[t] : t \in freed}),
                  !.mapReissuedTx = Restricted(@, freed)]

ConnectTip(block) ==
    /\ phase \in {"none", "disconnecting", "connecting"}
    /\ Height < MaxHeight
    /\ ConnectBlock(pool, block)
    /\ chain' = Append(chain, block)
    /\ pool' = RemoveForBlock(FreeReissued(pool, block), block)
    /\ disconnectpool' = SelectSeq(disconnectpool, LAMBDA t : t \notin ToSet(block))
    /\ phase' = IF phase = "none" THEN "none" ELSE "connecting"
    /\ evicted' = 0
    /\ lost' = lost \ ToSet(block)
    /\ UNCHANGED <<txs, vHashUpdate>>

(* DisconnectTip: the transactions are queued, last one first; when the    *)
(* queue is too large the oldest go, with their children in the pool.      *)
DisconnectTip ==
    LET queued == disconnectpool \o Reverse(Last(chain))
        drop == Max({0, Len(queued) - MaxDisconnected})
    IN  /\ phase \in {"none", "disconnecting"}
        /\ Height > 0
        /\ chain' = Front(chain)
        /\ pool' = FoldLeft(RemoveRecursive, pool, SubSeq(queued, 1, drop))
        /\ disconnectpool' = SubSeq(queued, drop + 1, Len(queued))
        /\ phase' = "disconnecting"
        /\ UNCHANGED <<txs, vHashUpdate, evicted, lost>>

(* One transaction of UpdateMempoolForReorg's loop, the earliest first.    *)
(* mempool.cs is free between two of them.                                 *)
GiveBack(fAddToMempool) ==
    LET t == Last(disconnectpool)
        tried == IF fAddToMempool THEN Accepted(pool, t, TRUE) ELSE pool
        accepted == fAddToMempool /\ IsAccepted(pool, t, TRUE)
    IN  /\ phase \in {"disconnecting", "connecting", IF fAddToMempool THEN "adding" ELSE "dropping"}
        /\ disconnectpool # <<>>
        /\ pool' = IF accepted THEN tried ELSE RemoveRecursive(tried, t)
        /\ vHashUpdate' = IF accepted THEN Append(vHashUpdate, t) ELSE vHashUpdate
        /\ disconnectpool' = Front(disconnectpool)
        /\ phase' = IF fAddToMempool THEN "adding" ELSE "dropping"
        /\ lost' = lost \ (IF accepted THEN {t} ELSE {})
        /\ UNCHANGED <<txs, chain, evicted>>

(* Mutant: only the coinbases that are gone count, not the immature ones. *)
RemoveForReorgSpent(P) ==
    LET gone(t) == \/ ~CheckFinalTx(t, Height + 1)
                   \/ \E o \in Inputs(t) : o[1] \notin P.mapTx /\ ~Unspent(Confirmed, o)
    IN  RemoveStaged(P, CalculateDescendants(P, {t \in P.mapTx : gone(t)}), FALSE)

(* removeForReorg *)
RemoveForReorg(P) ==
    LET spendsCoinbase(t) == \E o \in Inputs(t) : txs[o[1]].coinbase
        gone(t) == \/ ~CheckFinalTx(t, Height + 1)
                   \/ /\ spendsCoinbase(t)
                      /\ \E o \in Inputs(t) :
                           /\ o[1] \notin P.mapTx
                           /\ ~(Unspent(Confirmed, o) /\ Mature(o, Height + 1))
    IN  RemoveStaged(P, CalculateDescendants(P, {t \in P.mapTx : gone(t)}), FALSE)

(* The rest of UpdateMempoolForReorg. *)
UpdateMempoolForReorg ==
    /\ phase # "none"
    /\ disconnectpool = <<>>
    /\ \E P \in {RemoveForReorg(UpdateTransactionsFromBlock(pool, vHashUpdate))} :
         \E old \in Old(P.mapTx) : \E r \in LimitMempoolSize(P, old) :
           /\ pool' = r.pool
           /\ evicted' = r.best
    /\ vHashUpdate' = <<>>
    /\ phase' = "none"
    /\ UNCHANGED <<txs, chain, disconnectpool, lost>>

(* A clean restart: the reissue locks come back from the asset database,   *)
(* and, if mempool.dat was written, the fee deltas and the transactions    *)
(* that are not past their age (kept), ancestors first.                    *)
Restart(dumped, kept) ==
    LET order == SetToSortSeq(kept, LAMBDA t, u : pool.withAncestors[t].n < pool.withAncestors[u].n)
        empty == [Cleared(pool) EXCEPT !.mapDeltas =
                    IF dumped THEN pool.mapDeltas ELSE [t \in DOMAIN txs |-> 0]]
        loaded == FoldLeft(LAMBDA P, t : Accepted(P, t, FALSE), empty, order)
    IN  /\ phase = "none"
        /\ ~dumped => kept = {}
        /\ pool' = loaded
        /\ evicted' = 0
        /\ lost' = lost \cup (pool.mapTx \ loaded.mapTx)
        /\ UNCHANGED <<txs, chain, reorg>>

-----------------------------------------------------------------------------
Loose == {t \in DOMAIN txs : ~txs[t].coinbase /\ t # "base"}

(* The blocks a miner may offer; a coinbase names its height. *)
Blocks ==
    LET free == DOMAIN txs \ ToSet(Confirmed)
    IN  {<<c>> \o s : c \in {t \in free : txs[t].coinbase /\ txs[t].nLockTime = Height + 1},
                      s \in {s \in BoundedSeq(free \cap Loose, MaxBlockTxs) : IsInjective(s)}}

Next ==
    \/ \E t \in Loose : AcceptToMemoryPool(t) \/ PrioritiseTransaction(t) \/ RemoveFailed(t)
    \/ DecayMinFee
    \/ ClearMempool
    \/ \E block \in Blocks : ConnectTip(block)
    \/ DisconnectTip
    \/ \E fAddToMempool \in BOOLEAN : GiveBack(fAddToMempool)
    \/ UpdateMempoolForReorg
    \/ \E dumped \in BOOLEAN, kept \in SUBSET pool.mapTx : Restart(dumped, kept)

Spec == Init /\ [][Next]_vars

-----------------------------------------------------------------------------
(* Every entry has its links, its statistics and its fee delta. *)
TypeOK ==
    /\ pool.mapTx \subseteq Loose
    /\ Cardinality(pool.mapTx) <= MaxPoolTxs \/ phase # "none"
    /\ {DOMAIN pool.feeDelta, DOMAIN pool.parents, DOMAIN pool.children,
        DOMAIN pool.withAncestors, DOMAIN pool.withDescendants} = {pool.mapTx}
    /\ \A t \in pool.mapTx : pool.feeDelta[t] = pool.mapDeltas[t]
    /\ phase = "none" => disconnectpool = <<>> /\ vHashUpdate = <<>>
    /\ ToSet(disconnectpool) \cap ToSet(Confirmed) = {}

(* What check() asserts of the coins and the links whenever no             *)
(* reorganisation is under way: no entry is confirmed, the inputs of an    *)
(* entry are unspent outputs of the chain or outputs of the pool, no two   *)
(* entries spend one output, and mapNextTx and mapLinks say what the       *)
(* inputs say.                                                             *)
PoolConsistent ==
    /\ TypeOK
    /\ phase = "none" =>
      /\ pool.mapTx \cap ToSet(Confirmed) = {}
      /\ \A t \in pool.mapTx :
           /\ \A o \in Inputs(t) : o[1] \in pool.mapTx \/ Unspent(Confirmed, o)
           /\ \A o \in Inputs(t) : o \in DOMAIN pool.mapNextTx /\ pool.mapNextTx[o] = t
           /\ pool.parents[t] = ParentsIn(pool, t)
           /\ pool.children[t] = {c \in pool.mapTx : t \in ParentsIn(pool, c)}
      /\ DOMAIN pool.mapNextTx = UNION {Inputs(t) : t \in pool.mapTx}

(* Every entry can be mined in the next block: it is final, and the        *)
(* coinbases it spends are mature, after every reorganisation.             *)
Minable ==
    phase = "none" =>
      \A t \in pool.mapTx :
        /\ CheckFinalTx(t, Height + 1)
        /\ \A o \in Inputs(t) : o[1] \notin pool.mapTx => Mature(o, Height + 1)

(* The statistics of an entry are those of the ancestors and descendants   *)
(* its links lead to, in the middle of a reorganisation too ("the set of   *)
(* ancestors reachable via mapLinks will be the same as the set of         *)
(* ancestors whose packages include this transaction"), and the asserts of *)
(* UpdateAncestorState and UpdateDescendantState hold during every         *)
(* removal.                                                                *)
StatsExact ==
    /\ pool.asserts
    /\ \A t \in pool.mapTx :
         /\ pool.withAncestors[t] = Package(pool, AncestorsOf(pool, t) \cup {t})
         /\ pool.withDescendants[t] = Package(pool, CalculateDescendants(pool, {t}))

(* An asset is blocked exactly by what is in the pool.  A name is refused  *)
(* if, and only if, an entry issues it; the entry that reissues an asset   *)
(* holds its lock, so there is one, and a lock whose transaction is not in *)
(* the pool was left by clearmempool or a restart; a command is refused as *)
(* already in the pool only while an entry with this command is there.     *)
AssetMapsExact ==
    /\ DOMAIN pool.mapAssetToHash = {txs[t].issue : t \in pool.mapTx} \ {None}
    /\ \A a \in DOMAIN pool.mapAssetToHash :
         pool.mapAssetToHash[a] \in pool.mapTx /\ txs[pool.mapAssetToHash[a]].issue = a
    /\ \A t \in pool.mapTx : txs[t].reissue # None =>
         /\ txs[t].reissue \in DOMAIN pool.mapReissuedAssets
         /\ pool.mapReissuedAssets[txs[t].reissue] = t
    /\ Range(pool.mapReissuedAssets) \subseteq pool.mapTx \cup lost
    /\ DOMAIN pool.mapReissuedTx = Range(pool.mapReissuedAssets)
    /\ \A c \in DOMAIN pool.claims :
         pool.claims[c] # {} /\ \A t \in pool.claims[c] : t \in pool.mapTx /\ txs[t].cmd = c

(* No transaction enters with a fee rate that was evicted for size since   *)
(* the floor last fell ("we don't allow txn to enter mempool with feerate  *)
(* equal to txn which were removed with no block in between").             *)
FeeFloor ==
    [][phase = "none" => \A t \in pool'.mapTx \ pool.mapTx :
         12 * (txs[t].fee + pool.mapDeltas[t]) > evicted \/ evicted = 0]_vars

(* A block the chain allows is connected whatever the pool holds.          *)
BlocksJudgedByChain ==
    \A block \in Blocks :
      (\A i \in 2 .. Len(block) :
          CoinsAllow(block, i) /\ AssetRules(Confirmed \o SubSeq(block, 2, i - 1), block[i]))
        => ConnectBlock(pool, block)
=============================================================================
