---------------------------- MODULE CoinsCache ----------------------------
(***************************************************************************)
(* The stack of CCoinsViewCache objects of coins.cpp as validation.cpp     *)
(* builds it: a per-block cache `view` over the global cache pcoinsTip     *)
(* (`tip`) over the chainstate database (`db`).  A cache entry carries the *)
(* DIRTY and FRESH flags of CCoinsCacheEntry; everything below happens     *)
(* under cs_main, so each call is one step.                                *)
(***************************************************************************)
CONSTANTS
    OutPoints,  \* COutPoint
    Coins,      \* unspent Coin values (what AddCoin may store)
    Spent,      \* the pruned coin: Coin::IsSpent()
    Absent      \* no entry in cacheCoins

VARIABLES
    db,         \* CCoinsViewDB: outpoint -> coin on disk, Spent if no record
    tip,        \* pcoinsTip->cacheCoins
    view,       \* cacheCoins of the CCoinsViewCache of ConnectTip/DisconnectTip
    thrown      \* a std::logic_error left AddCoin or BatchWrite

vars == <<db, tip, view, thrown>>

AnyCoin == Coins \cup {Spent}
Entry == [coin : AnyCoin, dirty : BOOLEAN, fresh : BOOLEAN]
Cache == [OutPoints -> Entry \cup {Absent}]

ASSUME SpentAssumption == Spent \notin Coins
ASSUME AbsentAssumption == Absent \notin Entry

NoEntries == [o \in OutPoints |-> Absent]

(* What CCoinsViewCache::GetCoin of each level answers. *)
Lookup(cache, base) ==
    [o \in OutPoints |-> IF cache[o] = Absent THEN base[o] ELSE cache[o].coin]

TipCoins == Lookup(tip, db)
ViewCoins == Lookup(view, TipCoins)

(* FetchCoin: a miss copies the base's coin into the cache; GetCoin of the *)
(* base returns true for an unspent coin only.                             *)
Fetched(cache, base, o) ==
    IF cache[o] = Absent /\ base[o] # Spent
    THEN [cache EXCEPT ![o] = [coin |-> base[o], dirty |-> FALSE, fresh |-> FALSE]]
    ELSE cache

(* A miss in the view asks pcoinsTip, which fetches in its turn. *)
TipAfterFetch(o) == IF view[o] = Absent THEN Fetched(tip, db, o) ELSE tip
ViewAfterFetch(o) == Fetched(view, TipCoins, o)

Init ==
    /\ db \in [OutPoints -> AnyCoin]
    /\ tip = NoEntries
    /\ view = NoEntries
    /\ thrown = FALSE

(* AccessCoin, HaveCoin, GetCoin of the per-block view. *)
AccessCoin(o) ==
    /\ view' = ViewAfterFetch(o)
    /\ tip' = TipAfterFetch(o)
    /\ UNCHANGED <<db, thrown>>

(* AccessCoin, HaveCoin, GetCoin of pcoinsTip itself (mempool, RPC). *)
AccessTipCoin(o) ==
    /\ tip' = Fetched(tip, db, o)
    /\ UNCHANGED <<db, view, thrown>>

(* Mutant: FRESH although the pruned version is not flushed yet. *)
AddedEntryAlwaysFresh(old, c, possible_overwrite) ==
    [coin |-> c, dirty |-> TRUE,
     fresh |-> (old # Absent /\ old.fresh) \/ ~possible_overwrite]

(* The entry AddCoin leaves behind; emplace creates a pruned, unflagged    *)
(* entry on a miss.                                                        *)
AddedEntry(old, c, possible_overwrite) ==
    LET e == IF old = Absent THEN [coin |-> Spent, dirty |-> FALSE, fresh |-> FALSE] ELSE old
    IN  [coin  |-> c,
         dirty |-> TRUE,
         fresh |-> e.fresh \/ (~possible_overwrite /\ ~e.dirty)]

(* CCoinsViewCache::AddCoin throws when a coin declared new is there. *)
AddThrows(cache, o, possible_overwrite) ==
    ~possible_overwrite /\ cache[o] # Absent /\ cache[o].coin # Spent

AddTo(cache, o, c, possible_overwrite) ==
    IF AddThrows(cache, o, possible_overwrite)
    THEN cache
    ELSE [cache EXCEPT ![o] = AddedEntry(cache[o], c, possible_overwrite)]

(* AddCoins with check = false (ConnectBlock): only a coinbase may         *)
(* overwrite.  The outputs of any other transaction are new because its    *)
(* txid is.                                                                *)
AddCoins(o, c, fCoinbase) ==
    /\ ~fCoinbase => ViewCoins[o] = Spent
    /\ view' = AddTo(view, o, c, fCoinbase)
    /\ thrown' = AddThrows(view, o, fCoinbase)
    /\ UNCHANGED <<db, tip>>

(* ApplyTxInUndo, and AddCoins with check = true (RollforwardBlock): ask   *)
(* HaveCoin first and declare an overwrite exactly when it says yes.       *)
RestoreCoin(o, c) ==
    LET v == ViewAfterFetch(o)
        HaveCoin == v[o] # Absent /\ v[o].coin # Spent
    IN  /\ view' = AddTo(v, o, c, HaveCoin)
        /\ thrown' = AddThrows(v, o, HaveCoin)
        /\ tip' = TipAfterFetch(o)
        /\ UNCHANGED db

(* Mutant: an entry is dropped when it is merely clean. *)
SpentEntryForgotten(e) ==
    IF e = Absent \/ e.fresh \/ ~e.dirty
    THEN Absent
    ELSE [coin |-> Spent, dirty |-> TRUE, fresh |-> e.fresh]

(* SpendCoin: a FRESH entry is dropped, any other is pruned and DIRTY. *)
SpentEntry(e) ==
    IF e = Absent \/ e.fresh
    THEN Absent
    ELSE [coin |-> Spent, dirty |-> TRUE, fresh |-> e.fresh]

SpendCoin(o) ==
    LET v == ViewAfterFetch(o)
    IN  /\ view' = [v EXCEPT ![o] = SpentEntry(v[o])]
        /\ tip' = TipAfterFetch(o)
        /\ UNCHANGED <<db, thrown>>

(* Uncache of pcoinsTip (a rejected mempool transaction): unflagged        *)
(* entries only.                                                           *)
Uncache(o) ==
    /\ tip[o] # Absent
    /\ ~tip[o].dirty /\ ~tip[o].fresh
    /\ tip' = [tip EXCEPT ![o] = Absent]
    /\ UNCHANGED <<db, view, thrown>>

(* Mutant: the parent's entry is erased whenever the child's is pruned. *)
MergedErased(us, child) ==
    IF child = Absent \/ ~child.dirty
    THEN us
    ELSE IF us # Absent /\ child.coin = Spent
    THEN Absent
    ELSE [coin |-> child.coin, dirty |-> TRUE, fresh |-> child.fresh]

(* CCoinsViewCache::BatchWrite, one entry: `child` comes from the view,    *)
(* `us` is what the parent cache holds.                                    *)
Merged(us, child) ==
    IF child = Absent \/ ~child.dirty
    THEN us
    ELSE IF us = Absent
    THEN IF child.fresh /\ child.coin = Spent
         THEN Absent
         ELSE [coin |-> child.coin, dirty |-> TRUE, fresh |-> child.fresh]
    ELSE IF us.fresh /\ child.coin = Spent
    THEN Absent
    ELSE [coin |-> child.coin, dirty |-> TRUE, fresh |-> us.fresh]

(* "FRESH flag misapplied to cache entry for base transaction with         *)
(* spendable outputs"                                                      *)
MergeThrows(us, child) ==
    /\ child # Absent /\ child.dirty /\ child.fresh
    /\ us # Absent /\ us.coin # Spent

(* view.Flush() at the end of ConnectTip and DisconnectTip; the view goes  *)
(* out of scope right after.                                               *)
FlushView ==
    /\ IF \E o \in OutPoints : MergeThrows(tip[o], view[o])
       THEN thrown' = TRUE /\ UNCHANGED <<tip, view>>
       ELSE /\ tip' = [o \in OutPoints |-> Merged(tip[o], view[o])]
            /\ view' = NoEntries
            /\ UNCHANGED thrown
    /\ UNCHANGED db

(* ConnectBlock failed: the view goes out of scope without Flush. *)
DropView ==
    /\ view' = NoEntries
    /\ UNCHANGED <<db, tip, thrown>>

(* CCoinsViewDB::BatchWrite: DIRTY entries are erased or written. *)
Written(on_disk, e) == IF e = Absent \/ ~e.dirty THEN on_disk ELSE e.coin

(* pcoinsTip->Flush() in FlushStateToDisk; no per-block view exists then. *)
FlushTip ==
    /\ view = NoEntries
    /\ db' = [o \in OutPoints |-> Written(db[o], tip[o])]
    /\ tip' = NoEntries
    /\ UNCHANGED <<view, thrown>>

(* A logic_error is not caught: nothing runs after it. *)
Next ==
    /\ ~thrown
    /\ \/ \E o \in OutPoints :
            \/ AccessCoin(o)
            \/ AccessTipCoin(o)
            \/ SpendCoin(o)
            \/ Uncache(o)
            \/ \E c \in Coins :
                \/ \E fCoinbase \in BOOLEAN : AddCoins(o, c, fCoinbase)
                \/ RestoreCoin(o, c)
       \/ FlushView
       \/ DropView
       \/ FlushTip

Spec == Init /\ [][Next]_vars

-----------------------------------------------------------------------------
(* Every entry is a well-formed CCoinsCacheEntry. *)
TypeOK ==
    /\ db \in [OutPoints -> AnyCoin]
    /\ tip \in Cache
    /\ view \in Cache
    /\ thrown \in BOOLEAN

(* The two promises of coins.h: an entry without DIRTY equals the parent's *)
(* version, and FRESH means the parent has no unspent version; AddCoin and *)
(* SpendCoin keep FRESH to DIRTY, unspent entries.                         *)
SoundEntry(e, base) ==
    e # Absent =>
        /\ ~e.dirty => e.coin = base
        /\ e.fresh => (base = Spent /\ e.dirty /\ e.coin # Spent)

Sound(cache, base) == \A o \in OutPoints : SoundEntry(cache[o], base[o])

(* Both caches keep the flags' promises towards the level below, whatever  *)
(* was fetched, spent, added again, flushed or uncached in between.        *)
FlagsSound == Sound(tip, db) /\ Sound(view, TipCoins)

(* Neither logic_error of coins.cpp (AddCoin's and BatchWrite's) is ever   *)
(* thrown by the calls validation.cpp makes.                               *)
NoLogicError == ~thrown

(* SpendCoin, AddCoins and ApplyTxInUndo change the answer for their own   *)
(* outpoint, as they say, and for no other: dropping a FRESH entry never   *)
(* uncovers an older coin below it.                                        *)
EffectsExact ==
    [][\A o \in OutPoints :
        /\ SpendCoin(o) => ViewCoins' = [ViewCoins EXCEPT ![o] = Spent]
        /\ \A c \in Coins :
            (RestoreCoin(o, c) \/ \E fCoinbase \in BOOLEAN : AddCoins(o, c, fCoinbase))
                => ViewCoins' = [ViewCoins EXCEPT ![o] = c]]_vars

AbstractView == INSTANCE CoinsView WITH db <- db, tip <- TipCoins, view <- ViewCoins

(* The caches implement the plain maps of CoinsView: fetching, uncaching   *)
(* and flag bookkeeping are invisible, Flush moves exactly the changes.    *)
ImplementsCoinsView == AbstractView!Spec
==========================================================================
