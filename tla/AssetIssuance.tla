--------------------------- MODULE AssetIssuance ----------------------------
(***************************************************************************)
(* What an asset is: its amount, units, IPFS hash, whether it may be       *)
(* reissued, and, for a restricted asset, its verifier string.  Issue and  *)
(* reissue transactions change it in the CAssetsCache of the block being   *)
(* connected; Flush moves the changes to passets, DumpCacheToDatabase to   *)
(* the database; disconnecting a block reverses them, a reissue with the   *)
(* help of the undo data that connecting the block wrote.                  *)
(*                                                                         *)
(* Amounts are whole, so CheckAmountWithUnits holds.  Every connection of  *)
(* a block writes its undo data.                                           *)
(***************************************************************************)
EXTENDS Integers, Sequences, Functions

CONSTANTS
    Names,      \* asset names ...
    Restricted, \* ... and the ones of restricted assets
    Txs,        \* the transactions there may be
    Blocks,     \* the blocks there may be: sequences of transactions
    MaxMoney,   \* MAX_MONEY
    MaxHeight,  \* bound on the length of the chain
    None,       \* absent
    Gone        \* a verifier string that was removed with its asset

(* What is known of an asset. *)
Assets == [amount : 0 .. MaxMoney, units : Nat, ipfs : STRING, reissuable : BOOLEAN]

(* What the checks that need no context leave of transactions: an issue    *)
(* has units, a verifier string comes with the issue or a reissue of a     *)
(* restricted asset, and its issue has one.                                *)
ASSUME IssuanceAssumption ==
    /\ Restricted \subseteq Names
    /\ \A t \in Txs :
        /\ t.name \in Names /\ t.kind \in {"issue", "reissue", "transfer"}
        /\ t.amount \in 0 .. MaxMoney /\ t.units \in Nat \cup {-1} /\ t.ipfs \in STRING
        /\ t.reissuable \in BOOLEAN /\ t.verifier \in STRING
        /\ t.kind = "issue" => t.units \in Nat
        /\ t.verifier # "" => t.name \in Restricted
        /\ t.kind = "issue" /\ t.name \in Restricted => t.verifier # ""
    /\ Blocks \subseteq Seq(Txs)
    /\ {MaxMoney, MaxHeight} \subseteq Nat

ASSUME AbsentAssumption ==
    /\ None \notin Assets \cup Nat \cup STRING
    /\ Gone \notin STRING \cup {None}

VARIABLES
    db,      \* passetsdb and the verifier strings of prestricteddb
    lru,     \* passetsCache and passetsVerifierCache
    passets, \* the global CAssetsCache
    chain,   \* the active chain: blocks, their undo data, the ledger before each
    ledger   \* the assets as the blocks of the active chain, read in order, define them

vars == <<db, lru, passets, chain, ledger>>

Absent == [n \in Names |-> None]

Nothing == [asset |-> Absent, verifier |-> Absent]

(* setNewAssetsToAdd and ...ToRemove, mapReissuedAssetData, setNewReissueToAdd *)
(* and ...ToRemove, setNewRestrictedVerifierToAdd and ...ToRemove.          *)
Empty ==
    [add |-> Absent, remove |-> {}, reissued |-> Absent, reAdd |-> {}, reUndo |-> {},
     verAdd |-> Absent, verUndo |-> Absent]

Init ==
    /\ db = Nothing
    /\ lru = Nothing
    /\ passets = Empty
    /\ chain = <<>>
    /\ ledger = Nothing

-----------------------------------------------------------------------------
(* Look-ups.  A work record w is the state in the middle of a block: the   *)
(* block's cache, the look-up caches, the undo data, and whether every     *)
(* transaction so far was accepted.                                        *)

Start == [cache |-> Empty, lru |-> lru, undo |-> <<>>, ok |-> TRUE]

(* What is found first, and if there is nothing, what is found next. *)
Or(first, next) == IF first # None THEN first ELSE next

Removed(w, n) == n \in w.cache.remove \cup passets.remove

CachedAsset(w, n) == Or(w.cache.add[n], Or(passets.add[n], w.lru.asset[n]))

CheckIfAssetExists(w, n) ==
    ~Removed(w, n) /\ Or(CachedAsset(w, n), db.asset[n]) # None

ReissuedAsset(w, n) == Or(w.cache.reissued[n], passets.reissued[n])

(* The reissued data comes first, and removing an asset does not erase it. *)
GetAssetMetaDataIfExists(w, n) ==
    Or(ReissuedAsset(w, n), IF Removed(w, n) THEN None ELSE Or(CachedAsset(w, n), db.asset[n]))

CachedVerifier(w, n, fSkipTempCache) ==
    Or(IF fSkipTempCache THEN None ELSE w.cache.verUndo[n],
       Or(passets.verUndo[n],
          Or(IF fSkipTempCache THEN None ELSE w.cache.verAdd[n],
             Or(passets.verAdd[n], w.lru.verifier[n]))))

Known(verifier) == IF verifier = Gone THEN None ELSE verifier

GetAssetVerifierStringIfExists(w, n, fSkipTempCache) ==
    Known(Or(CachedVerifier(w, n, fSkipTempCache), db.verifier[n]))

(* A look-up that ends in the database leaves what it read in the look-up  *)
(* cache.                                                                  *)
AfterExists(w, n) ==
    IF ~Removed(w, n) /\ CachedAsset(w, n) = None
      THEN [w EXCEPT !.lru.asset[n] = db.asset[n]] ELSE w

AfterMetaData(w, n) == IF ReissuedAsset(w, n) = None THEN AfterExists(w, n) ELSE w

AfterVerifier(w, n, fSkipTempCache) ==
    IF n \in Restricted /\ CachedVerifier(w, n, fSkipTempCache) = None
      THEN [w EXCEPT !.lru.verifier[n] = db.verifier[n]] ELSE w

-----------------------------------------------------------------------------
(* Connecting a block.                                                     *)

(* What a reissue makes of an asset: -1 units and an empty hash change     *)
(* nothing.                                                                *)
Reissued(asset, t) ==
    [amount |-> asset.amount + t.amount,
     units |-> IF t.units # -1 THEN t.units ELSE asset.units,
     ipfs |-> IF t.ipfs # "" THEN t.ipfs ELSE asset.ipfs,
     reissuable |-> t.reissuable]

Issued(t) ==
    [amount |-> t.amount, units |-> t.units, ipfs |-> t.ipfs, reissuable |-> t.reissuable]

ContextualCheckReissueAnyway(w, t) ==
    LET asset == GetAssetMetaDataIfExists(w, t.name)
    IN  asset # None /\ asset.amount + t.amount <= MaxMoney

ContextualCheckReissueAsset(w, t) ==
    LET asset == GetAssetMetaDataIfExists(w, t.name)
    IN  /\ asset # None
        /\ asset.reissuable
        /\ asset.amount + t.amount <= MaxMoney
        /\ t.units # -1 => t.units >= asset.units
        /\ (t.name \in Restricted /\ t.amount > 0 /\ t.verifier = "")
             => GetAssetVerifierStringIfExists(w, t.name, FALSE) # None

CheckTxAssets(w, t) ==
    CASE t.kind = "issue" -> ~CheckIfAssetExists(w, t.name)
      [] t.kind = "reissue" -> ContextualCheckReissueAsset(w, t)
      [] t.kind = "transfer" ->
            /\ GetAssetMetaDataIfExists(w, t.name) # None
            /\ t.name \in Restricted => GetAssetVerifierStringIfExists(w, t.name, TRUE) # None

(* Inserting into a set whose elements compare by name keeps the old one. *)
Insert(map, n, value) == IF map[n] = None THEN [map EXCEPT ![n] = value] ELSE map

AddRestrictedVerifier(c, n, verifier) ==
    [c EXCEPT !.verUndo[n] = None, !.verAdd = Insert(@, n, verifier)]

AddNewAsset(c, t) ==
    LET added == [c EXCEPT !.remove = @ \ {t.name}, !.add = Insert(@, t.name, Issued(t))]
    IN  IF t.name \in Restricted THEN AddRestrictedVerifier(added, t.name, t.verifier) ELSE added

AddReissueAsset(w, t) ==
    LET c == [w.cache EXCEPT
                !.reissued[t.name] = Reissued(GetAssetMetaDataIfExists(w, t.name), t),
                !.reUndo = @ \ {t}, !.reAdd = @ \cup {t}]
    IN  IF t.verifier # "" THEN AddRestrictedVerifier(c, t.name, t.verifier) ELSE c

(* The CBlockAssetUndo of a reissue, if it changes more than the amount. *)
UndoDataKeepingUnits(w, t) ==
    IF t.ipfs = "" /\ t.verifier = "" THEN <<>>
    ELSE LET asset == GetAssetMetaDataIfExists(w, t.name)
         IN  <<[name |-> t.name, ipfs |-> IF t.ipfs # "" THEN asset.ipfs ELSE None,
                units |-> None,
                verifier |-> IF t.verifier # ""
                               THEN GetAssetVerifierStringIfExists(w, t.name, FALSE)
                               ELSE None]>>

UndoData(w, t) ==
    IF t.ipfs = "" /\ t.units = -1 /\ t.verifier = "" THEN <<>>
    ELSE LET asset == GetAssetMetaDataIfExists(w, t.name)
         IN  <<[name |-> t.name, ipfs |-> IF t.ipfs # "" THEN asset.ipfs ELSE None,
                units |-> IF t.units # -1 THEN asset.units ELSE None,
                verifier |-> IF t.verifier # ""
                               THEN GetAssetVerifierStringIfExists(w, t.name, FALSE)
                               ELSE None]>>

(* The look-ups of a transaction of the block. *)
Looked(w, t) ==
    CASE t.kind = "issue" -> AfterExists(w, t.name)
      [] t.kind = "reissue" ->
            LET m == AfterMetaData(w, t.name)
            IN  IF t.amount > 0 \/ t.verifier # "" THEN AfterVerifier(m, t.name, FALSE) ELSE m
      [] t.kind = "transfer" -> AfterMetaData(AfterVerifier(w, t.name, TRUE), t.name)

(* A transaction in ConnectBlock: CheckTxAssets, then AddCoins. *)
ConnectTx(w, t) ==
    IF ~w.ok \/ ~CheckTxAssets(w, t) THEN [w EXCEPT !.ok = FALSE]
    ELSE CASE t.kind = "issue" -> [Looked(w, t) EXCEPT !.cache = AddNewAsset(@, t)]
           [] t.kind = "reissue" -> [Looked(w, t) EXCEPT !.cache = AddReissueAsset(w, t),
                                                         !.undo = @ \o UndoData(w, t)]
           [] t.kind = "transfer" -> Looked(w, t)

(* The work after the first k transactions of the block. *)
ConnectTxs(b, k) ==
    LET work[i \in 0..Len(b)] == IF i = 0 THEN Start ELSE ConnectTx(work[i - 1], b[i])
    IN  work[k]

ConnectBlock(b) == ConnectTxs(b, Len(b))

Accepts(b) == ConnectBlock(b).ok

-----------------------------------------------------------------------------
(* Disconnecting a block.                                                  *)

RemoveRestrictedVerifierGone(c, n, verifier) ==
    [c EXCEPT !.verAdd[n] = None, !.verUndo = Insert(@, n, Gone)]

RemoveRestrictedVerifier(c, n, verifier) ==
    [c EXCEPT !.verAdd[n] = None, !.verUndo = Insert(@, n, verifier)]

RemoveNewAsset(w, t) ==
    LET c == IF CheckIfAssetExists(w, t.name)
               THEN [w.cache EXCEPT !.add[t.name] = None, !.remove = @ \cup {t.name}]
               ELSE w.cache
    IN  IF t.name \in Restricted THEN RemoveRestrictedVerifier(c, t.name, Gone) ELSE c

(* The first undo item of the asset's name is the one that is used. *)
UndoItem(undo, n) ==
    LET items == {i \in DOMAIN undo : undo[i].name = n}
    IN  IF items = {} THEN [ipfs |-> None, units |-> None, verifier |-> None]
        ELSE undo[CHOOSE i \in items : \A j \in items : i <= j]

RemoveReissueAsset(w, t) ==
    LET asset == GetAssetMetaDataIfExists(w, t.name)
        item == UndoItem(w.undo, t.name)
        c == [w.cache EXCEPT
                !.reissued[t.name] =
                    [amount |-> asset.amount - t.amount,
                     units |-> IF item.units # None THEN item.units ELSE asset.units,
                     ipfs |-> IF item.ipfs # None THEN item.ipfs ELSE asset.ipfs,
                     reissuable |-> TRUE],
                !.reAdd = @ \ {t}, !.reUndo = @ \cup {t}]
    IN  IF item.verifier # None THEN RemoveRestrictedVerifier(c, t.name, item.verifier) ELSE c

DisconnectTx(w, t) ==
    CASE t.kind = "issue" -> [AfterExists(w, t.name) EXCEPT !.cache = RemoveNewAsset(w, t)]
      [] t.kind = "reissue" /\ CheckIfAssetExists(w, t.name) ->
            [AfterExists(w, t.name) EXCEPT !.cache = RemoveReissueAsset(w, t)]
      [] OTHER -> w

(* The work after k transactions, which are undone from the last to the    *)
(* first.                                                                  *)
DisconnectTxs(b, undo, k) ==
    LET work[i \in 0..Len(b)] == IF i = 0 THEN [Start EXCEPT !.undo = undo]
                                 ELSE DisconnectTx(work[i - 1], b[Len(b) - i + 1])
    IN  work[k]

DisconnectBlock(b, undo) == DisconnectTxs(b, undo, Len(b))

-----------------------------------------------------------------------------
(* Flush and DumpCacheToDatabase.                                          *)

Overwrite(new, old) == [n \in Names |-> IF new[n] # None THEN new[n] ELSE old[n]]

Without(map, ns) == [n \in Names |-> IF n \in ns THEN None ELSE map[n]]

Keys(map) == {n \in Names : map[n] # None}

Flush(c) ==
    [add |-> Without(Overwrite(passets.add, c.add), c.remove),
     remove |-> (passets.remove \ Keys(c.add)) \cup c.remove,
     reissued |-> Overwrite(c.reissued, passets.reissued),
     reAdd |-> (passets.reAdd \cup c.reAdd) \ c.reUndo,
     reUndo |-> (passets.reUndo \ c.reAdd) \cup c.reUndo,
     verAdd |-> Without(Overwrite(c.verAdd, passets.verAdd), Keys(c.verUndo)),
     verUndo |-> Overwrite(c.verUndo, Without(passets.verUndo, Keys(c.verAdd)))]

(* The names whose data the loops over setNewReissueToAdd and ...ToRemove  *)
(* write; the second one skips the assets that are being removed.          *)
NamesOf(txs) == {t.name : t \in txs}

RewrittenAlways == NamesOf(passets.reAdd) \cup NamesOf(passets.reUndo)

Rewritten == NamesOf(passets.reAdd) \cup (NamesOf(passets.reUndo) \ passets.remove)

Dumped ==
    [asset |-> [n \in Names |->
                  Or(IF n \in Rewritten THEN passets.reissued[n] ELSE None,
                     Or(passets.add[n], IF n \in passets.remove THEN None ELSE db.asset[n]))],
     verifier |-> [n \in Names |->
                     Known(Or(passets.verUndo[n], Or(passets.verAdd[n],
                              IF n \in passets.remove THEN None ELSE db.verifier[n])))]]

LookupsKeepingReissued ==
    [asset |-> Overwrite(passets.add, Without(lru.asset, passets.remove)),
     verifier |-> Without(lru.verifier, Keys(passets.verAdd) \cup Keys(passets.verUndo))]

LookupsAfterDump ==
    [asset |-> Without(Overwrite(passets.add, Without(lru.asset, passets.remove)), Rewritten),
     verifier |-> Without(lru.verifier, Keys(passets.verAdd) \cup Keys(passets.verUndo))]

DumpCacheToDatabase ==
    /\ db' = Dumped
    /\ lru' = LookupsAfterDump
    /\ passets' = Empty
    /\ UNCHANGED <<chain, ledger>>

-----------------------------------------------------------------------------
(* The rules themselves, on the assets alone.                              *)

LedgerAccepts(l, before, t) ==
    LET asset == l.asset[t.name]
    IN  CASE t.kind = "issue" -> asset = None
          [] t.kind = "reissue" -> /\ asset.reissuable
                                   /\ asset.amount + t.amount <= MaxMoney
                                   /\ t.units # -1 => t.units >= asset.units
          [] t.kind = "transfer" -> t.name \in Restricted => before.asset[t.name] # None

LedgerApply(l, t) ==
    CASE t.kind = "issue" ->
            [asset |-> [l.asset EXCEPT ![t.name] = Issued(t)],
             verifier |-> IF t.verifier # "" THEN [l.verifier EXCEPT ![t.name] = t.verifier]
                          ELSE l.verifier]
      [] t.kind = "reissue" ->
            [asset |-> [l.asset EXCEPT ![t.name] = Reissued(l.asset[t.name], t)],
             verifier |-> IF t.verifier # "" THEN [l.verifier EXCEPT ![t.name] = t.verifier]
                          ELSE l.verifier]
      [] t.kind = "transfer" -> l

(* The ledger after the first k transactions of b, starting from l. *)
LedgerFrom(l, b, k) ==
    LET after[i \in 0..Len(b)] == IF i = 0 THEN l ELSE LedgerApply(after[i - 1], b[i])
    IN  after[k]

LedgerAfter(b, k) == LedgerFrom(ledger, b, k)

(* The coins a block spends exist: owner tokens and asset coins come from  *)
(* an issue on this chain, and no transaction is on it twice.              *)
CoinsExist(b) ==
    \A k \in DOMAIN b :
        /\ b[k].kind # "issue" => LedgerAfter(b, k - 1).asset[b[k].name] # None
        /\ \A i \in DOMAIN chain : b[k] \notin Range(chain[i].block)
        /\ \A i \in 1..(k - 1) : b[i] # b[k]

LedgerValid(b) == \A k \in DOMAIN b : LedgerAccepts(LedgerAfter(b, k - 1), ledger, b[k])

-----------------------------------------------------------------------------

ConnectTip(b) ==
    /\ Len(chain) < MaxHeight
    /\ CoinsExist(b)
    /\ \E w \in {ConnectBlock(b)} :
          /\ w.ok
          /\ passets' = Flush(w.cache)
          /\ lru' = w.lru
          /\ chain' = Append(chain, [block |-> b, undo |-> w.undo, before |-> ledger])
    /\ ledger' = LedgerAfter(b, Len(b))
    /\ db' = db

DisconnectTip ==
    /\ chain # <<>>
    /\ \E tip \in {chain[Len(chain)]} : \E w \in {DisconnectBlock(tip.block, tip.undo)} :
          /\ passets' = Flush(w.cache)
          /\ lru' = w.lru
          /\ ledger' = tip.before
    /\ chain' = SubSeq(chain, 1, Len(chain) - 1)
    /\ db' = db

(* getassetdata and the other look-ups on passets. *)
GetAssetData(n) ==
    /\ lru' = AfterVerifier(AfterMetaData(Start, n), n, TRUE).lru
    /\ UNCHANGED <<db, passets, chain, ledger>>

Next ==
    \/ \E b \in Blocks : ConnectTip(b)
    \/ DisconnectTip
    \/ DumpCacheToDatabase
    \/ \E n \in Names : GetAssetData(n)

Spec == Init /\ [][Next]_vars

-----------------------------------------------------------------------------
(* When the caches can tell the chain's assets: data that a reissue left   *)
(* behind belongs to the only issue there is of the name ...               *)
OneIssue ==
    \A t, u \in Txs : t.kind = "issue" /\ u.kind = "issue" /\ t.name = u.name => t = u

(* ... and a block changes an asset once after its issue, and the verifier *)
(* string once: undo items are found by name, and AddRestrictedVerifier    *)
(* keeps the first string of a block.                                      *)
PlainBlocks ==
    \A b \in Blocks : \A i, j \in DOMAIN b :
        i # j /\ b[i].kind = "reissue" /\ b[j].kind # "transfer" /\ b[i].name = b[j].name
            => b[j].kind = "issue" /\ b[i].verifier = ""

(* Stored assets are assets, with an amount MAX_MONEY bounds. *)
TypeOK ==
    /\ \A n \in Names : \A a \in {db.asset[n], lru.asset[n], ledger.asset[n], passets.add[n],
                                   passets.reissued[n]} : a = None \/ a \in Assets
    /\ passets.remove \subseteq Names
    /\ passets.reAdd \cup passets.reUndo \subseteq Txs

(* An asset exists for the node exactly if the active chain issued it, and *)
(* has the data the transactions of the active chain gave it, whatever was *)
(* disconnected and dumped on the way.                                     *)
AssetsExact ==
    /\ TypeOK
    /\ \A n \in Names : /\ CheckIfAssetExists(Start, n) <=> ledger.asset[n] # None
                        /\ ledger.asset[n] # None =>
                             GetAssetMetaDataIfExists(Start, n) = ledger.asset[n]

(* What a dump would write is the assets of the active chain and no other. *)
DumpExact == Dumped.asset = ledger.asset

(* The look-up caches agree with the database. *)
LookupsFresh ==
    \A n \in Names : /\ lru.asset[n] \in {None, db.asset[n]}
                     /\ lru.verifier[n] \in {None, db.verifier[n]}

(* A restricted asset of the active chain has the verifier string that was *)
(* last set, before and after a dump.                                      *)
VerifierExact ==
    \A n \in Restricted : ledger.asset[n] # None =>
        /\ GetAssetVerifierStringIfExists(Start, n, TRUE) = ledger.verifier[n]
        /\ Dumped.verifier[n] = ledger.verifier[n]

(* A block is accepted only if the rules allow it: no name is issued twice. *)
OnlyValidBlocksAccepted == \A b \in Blocks : CoinsExist(b) /\ Accepts(b) => LedgerValid(b)
=============================================================================
