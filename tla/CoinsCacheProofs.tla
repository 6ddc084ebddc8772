------------------------- MODULE CoinsCacheProofs -------------------------
(***************************************************************************)
(* Proofs about CoinsCache for any sets of outpoints and coins: the        *)
(* DIRTY/FRESH promises are inductive, no logic_error is thrown, and the   *)
(* caches implement the plain maps of CoinsView.                           *)
(***************************************************************************)
EXTENDS CoinsCache, TLAPS

(* The inductive invariant: the flags' promises are what makes Flush       *)
(* correct and what keeps AddCoin and BatchWrite from throwing.            *)
IInv == TypeOK /\ FlagsSound /\ NoLogicError

-----------------------------------------------------------------------------
(* What the levels answer, outpoint by outpoint. *)
LEMMA LookupValue ==
    ASSUME NEW cache \in Cache, NEW base \in [OutPoints -> AnyCoin]
    PROVE  /\ Lookup(cache, base) \in [OutPoints -> AnyCoin]
           /\ \A o \in OutPoints :
                Lookup(cache, base)[o] = IF cache[o] = Absent THEN base[o] ELSE cache[o].coin
  BY DEF Lookup, Cache, Entry

(* One entry replaced, and the answer an entry gives. *)
Put(f, o, x) == [f EXCEPT ![o] = x]
Answer(e, base) == IF e = Absent THEN base ELSE e.coin

(* Replacing one entry by a sound one keeps the cache sound and changes    *)
(* the answer for that outpoint alone.                                     *)
LEMMA PutEntry ==
    ASSUME NEW cache \in Cache, NEW base \in [OutPoints -> AnyCoin], NEW o \in OutPoints,
           NEW e \in Entry \cup {Absent},
           Sound(cache, base),
           SoundEntry(e, base[o])
    PROVE  /\ Put(cache, o, e) \in Cache
           /\ Sound(Put(cache, o, e), base)
           /\ Lookup(Put(cache, o, e), base) = Put(Lookup(cache, base), o, Answer(e, base[o]))
  <1> DEFINE f == Put(cache, o, e)
             g == Put(Lookup(cache, base), o, Answer(e, base[o]))
  <1>1. f \in Cache /\ f[o] = e /\ \A p \in OutPoints \ {o} : f[p] = cache[p]
    BY DEF Cache, Put
  <1> HIDE DEF f
  <1>2. Sound(f, base)
    BY <1>1 DEF Sound
  <1>3. \A p \in OutPoints : Lookup(f, base)[p] = g[p]
    <2>1. ASSUME NEW p \in OutPoints, p # o
          PROVE  Lookup(f, base)[p] = Lookup(cache, base)[p] /\ g[p] = Lookup(cache, base)[p]
      BY <1>1, <2>1 DEF Lookup, Put
    <2>2. Lookup(f, base)[o] = g[o]
      BY <1>1 DEF Lookup, Put, Answer
    <2> QED
      BY <2>1, <2>2
  <1>4. Lookup(f, base) = g
    BY <1>3 DEF Lookup, Put
  <1> QED
    BY <1>1, <1>2, <1>4 DEF f

(* Fetching keeps a cache well typed and sound, and does not change what   *)
(* it answers (FetchCoin is const for the caller).                         *)
LEMMA FetchedSound ==
    ASSUME NEW cache \in Cache, NEW base \in [OutPoints -> AnyCoin], NEW o \in OutPoints,
           Sound(cache, base)
    PROVE  /\ Fetched(cache, base, o) \in Cache
           /\ Sound(Fetched(cache, base, o), base)
           /\ Lookup(Fetched(cache, base, o), base) = Lookup(cache, base)
           /\ Fetched(cache, base, o)[o] = Absent => base[o] = Spent
  <1> DEFINE e == [coin |-> base[o], dirty |-> FALSE, fresh |-> FALSE]
             f == Put(cache, o, e)
  <1>1. e \in Entry /\ e # Absent /\ SoundEntry(e, base[o])
    <2>1. e \in Entry
      BY DEF Entry
    <2>2. e # Absent
      BY <2>1, AbsentAssumption
    <2>3. SoundEntry(e, base[o])
      BY DEF SoundEntry
    <2> QED
      BY <2>1, <2>2, <2>3
  <1>2. CASE cache[o] = Absent /\ base[o] # Spent
    <2>1. Fetched(cache, base, o) = f
      BY <1>2 DEF Fetched, Put
    <2>2. /\ f \in Cache
          /\ Sound(f, base)
          /\ Lookup(f, base) = Put(Lookup(cache, base), o, base[o])
      <3>1. Answer(e, base[o]) = base[o]
        BY DEF Answer
      <3> HIDE DEF e
      <3> QED
        BY <1>1, <3>1, PutEntry
    <2>3. Put(Lookup(cache, base), o, base[o]) = Lookup(cache, base)
      BY <1>2 DEF Lookup, Put
    <2>4. f[o] # Absent
      BY <1>1 DEF Cache, Put
    <2> QED
      BY <2>1, <2>2, <2>3, <2>4
  <1>3. CASE ~(cache[o] = Absent /\ base[o] # Spent)
    BY <1>3 DEF Fetched
  <1> QED
    BY <1>2, <1>3

(* A read through the view: both caches may fetch, no level changes its    *)
(* answers.                                                                *)
LEMMA ReadThrough ==
    ASSUME IInv, NEW o \in OutPoints
    PROVE  /\ TipAfterFetch(o) \in Cache
           /\ ViewAfterFetch(o) \in Cache
           /\ Sound(TipAfterFetch(o), db)
           /\ Sound(ViewAfterFetch(o), TipCoins)
           /\ Lookup(TipAfterFetch(o), db) = TipCoins
           /\ Lookup(ViewAfterFetch(o), TipCoins) = ViewCoins
           /\ TipCoins \in [OutPoints -> AnyCoin]
           /\ ViewCoins \in [OutPoints -> AnyCoin]
           /\ ViewAfterFetch(o)[o] = Absent => TipCoins[o] = Spent
  <1>1. TipCoins \in [OutPoints -> AnyCoin]
    BY LookupValue DEF IInv, TypeOK, TipCoins
  <1>2. ViewCoins \in [OutPoints -> AnyCoin]
    BY <1>1, LookupValue DEF IInv, TypeOK, ViewCoins
  <1>3. /\ TipAfterFetch(o) \in Cache
        /\ Sound(TipAfterFetch(o), db)
        /\ Lookup(TipAfterFetch(o), db) = TipCoins
    BY FetchedSound DEF IInv, TypeOK, FlagsSound, TipAfterFetch, TipCoins
  <1>4. /\ ViewAfterFetch(o) \in Cache
        /\ Sound(ViewAfterFetch(o), TipCoins)
        /\ Lookup(ViewAfterFetch(o), TipCoins) = ViewCoins
        /\ ViewAfterFetch(o)[o] = Absent => TipCoins[o] = Spent
    BY <1>1, FetchedSound DEF IInv, TypeOK, FlagsSound, ViewAfterFetch, ViewCoins
  <1> QED
    BY <1>1, <1>2, <1>3, <1>4

(* Adding a coin: without the overwrite flag it must not be there; then    *)
(* nothing is thrown and the entry's flags are sound.                      *)
LEMMA AddToSound ==
    ASSUME NEW cache \in Cache, NEW base \in [OutPoints -> AnyCoin], NEW o \in OutPoints,
           NEW c \in Coins, NEW po \in BOOLEAN,
           Sound(cache, base),
           ~po => Lookup(cache, base)[o] = Spent
    PROVE  /\ ~AddThrows(cache, o, po)
           /\ AddTo(cache, o, c, po) \in Cache
           /\ Sound(AddTo(cache, o, c, po), base)
           /\ Lookup(AddTo(cache, o, c, po), base) = [Lookup(cache, base) EXCEPT ![o] = c]
  <1> DEFINE e == AddedEntry(cache[o], c, po)
  <1>1. ~AddThrows(cache, o, po)
    BY LookupValue DEF AddThrows
  <1>2. e \in Entry /\ e # Absent /\ e.coin = c
    <2>1. c \in AnyCoin /\ cache[o] \in Entry \cup {Absent}
      BY DEF AnyCoin, Cache
    <2>2. e \in Entry
      BY <2>1 DEF AddedEntry, Entry
    <2>3. e # Absent
      BY <2>2, AbsentAssumption
    <2>4. e.coin = c
      BY DEF AddedEntry
    <2> QED
      BY <2>2, <2>3, <2>4
  <1>3. SoundEntry(e, base[o])
    <2>1. CASE cache[o] = Absent
      BY <2>1, SpentAssumption, LookupValue DEF SoundEntry, AddedEntry
    <2>2. CASE cache[o] # Absent
      <3>1. cache[o] \in Entry /\ SoundEntry(cache[o], base[o])
        BY <2>2 DEF Cache, Sound
      <3>2. ~po => cache[o].coin = Spent
        BY <2>2, LookupValue
      <3> QED
        BY <2>2, <3>1, <3>2, SpentAssumption DEF SoundEntry, AddedEntry, Entry
    <2> QED
      BY <2>1, <2>2
  <1>4. AddTo(cache, o, c, po) = Put(cache, o, e)
    BY <1>1 DEF AddTo, Put
  <1>5. Answer(e, base[o]) = c
    BY <1>2 DEF Answer
  <1> HIDE DEF e
  <1>6. /\ Put(cache, o, e) \in Cache
        /\ Sound(Put(cache, o, e), base)
        /\ Lookup(Put(cache, o, e), base) = Put(Lookup(cache, base), o, c)
    BY <1>2, <1>3, <1>5, PutEntry
  <1> QED
    BY <1>1, <1>4, <1>6 DEF Put

(* BatchWrite of one entry into the parent: nothing is thrown, the merged  *)
(* entry is sound towards the grandparent, and the parent now answers what *)
(* the child answered.                                                     *)
LEMMA MergedSound ==
    ASSUME NEW us \in Entry \cup {Absent}, NEW child \in Entry \cup {Absent},
           NEW base \in AnyCoin, NEW old \in AnyCoin,
           us = Absent => old = base,
           us # Absent => old = us.coin,
           SoundEntry(us, base),
           SoundEntry(child, old)
    PROVE  /\ ~MergeThrows(us, child)
           /\ Merged(us, child) \in Entry \cup {Absent}
           /\ SoundEntry(Merged(us, child), base)
           /\ (IF Merged(us, child) = Absent THEN base ELSE Merged(us, child).coin)
              = (IF child = Absent THEN old ELSE child.coin)
  <1>1. CASE child = Absent \/ ~child.dirty
    BY <1>1 DEF Merged, MergeThrows, SoundEntry
  <1>2. CASE child # Absent /\ child.dirty /\ us = Absent
    <2> DEFINE m == [coin |-> child.coin, dirty |-> TRUE, fresh |-> child.fresh]
    <2>1. child \in Entry /\ m \in Entry /\ m # Absent
      BY <1>2, AbsentAssumption DEF Entry
    <2>2. ~(child.fresh /\ child.coin = Spent)
      BY <1>2 DEF SoundEntry
    <2>3. Merged(us, child) = m
      BY <1>2, <2>2 DEF Merged
    <2> QED
      BY <1>2, <2>1, <2>3 DEF MergeThrows, SoundEntry
  <1>3. CASE child # Absent /\ child.dirty /\ us # Absent
    <2> DEFINE m == [coin |-> child.coin, dirty |-> TRUE, fresh |-> us.fresh]
    <2>1. child \in Entry /\ us \in Entry /\ m \in Entry /\ m # Absent
      <3>1. child \in Entry /\ us \in Entry
        BY <1>3
      <3>2. m \in Entry
        BY <3>1 DEF Entry
      <3> QED
        BY <3>1, <3>2, AbsentAssumption
    <2>2. ~MergeThrows(us, child)
      BY <1>3 DEF MergeThrows, SoundEntry
    <2>3. CASE us.fresh /\ child.coin = Spent
      BY <1>3, <2>1, <2>2, <2>3 DEF Merged, SoundEntry
    <2>4. CASE ~(us.fresh /\ child.coin = Spent)
      <3>1. Merged(us, child) = m
        BY <1>3, <2>4 DEF Merged
      <3> QED
        BY <1>3, <2>1, <2>2, <2>4, <3>1 DEF SoundEntry
    <2> QED
      BY <2>3, <2>4
  <1> QED
    BY <1>1, <1>2, <1>3

-----------------------------------------------------------------------------
(* What a step does to the maps the caches stand for. *)
Silent == UNCHANGED <<db, TipCoins, ViewCoins>>
Wrote(o, c) == db' = db /\ TipCoins' = TipCoins /\ ViewCoins' = [ViewCoins EXCEPT ![o] = c]

(* The initial caches are empty, so every level answers from the database. *)
LEMMA InitSound ==
    ASSUME Init
    PROVE  IInv /\ TipCoins = db /\ ViewCoins = db
  <1>1. TypeOK
    BY DEF Init, TypeOK, Cache, NoEntries
  <1>2. \A o \in OutPoints : tip[o] = Absent /\ view[o] = Absent
    BY DEF Init, NoEntries
  <1>3. TipCoins = db
    BY <1>2 DEF Init, TipCoins, Lookup
  <1>4. ViewCoins = db
    BY <1>2, <1>3 DEF Init, ViewCoins, Lookup
  <1>5. FlagsSound
    BY <1>2 DEF FlagsSound, Sound, SoundEntry
  <1> QED
    BY <1>1, <1>3, <1>4, <1>5 DEF IInv, Init, NoLogicError

(* A read (AccessCoin, HaveCoin) keeps the invariant and changes no        *)
(* answer, whatever it copies into the caches.                             *)
LEMMA ReadStep ==
    ASSUME IInv, NEW o \in OutPoints,
           \/ AccessCoin(o)
           \/ AccessTipCoin(o)
    PROVE  IInv' /\ Silent
  <1>1. /\ TipCoins \in [OutPoints -> AnyCoin]
        /\ Fetched(tip, db, o) \in Cache
        /\ Sound(Fetched(tip, db, o), db)
        /\ Lookup(Fetched(tip, db, o), db) = TipCoins
    BY ReadThrough, FetchedSound DEF IInv, TypeOK, FlagsSound, TipCoins
  <1>2. tip' \in Cache /\ view' \in Cache /\ db' = db /\ thrown' = thrown
    BY <1>1, ReadThrough DEF IInv, TypeOK, AccessCoin, AccessTipCoin
  <1>3. Sound(tip', db)
    BY <1>1, ReadThrough DEF AccessCoin, AccessTipCoin
  <1>4. Sound(view', TipCoins)
    BY <1>1, ReadThrough DEF AccessCoin, AccessTipCoin, IInv, FlagsSound
  <1>5. TipCoins' = TipCoins
    BY <1>1, <1>2, ReadThrough DEF AccessCoin, AccessTipCoin, TipCoins
  <1>6. ViewCoins' = ViewCoins
    BY <1>5, ReadThrough DEF AccessCoin, AccessTipCoin, ViewCoins
  <1> QED
    BY <1>2, <1>3, <1>4, <1>5, <1>6 DEF IInv, TypeOK, FlagsSound, NoLogicError, Silent

(* AddCoins puts exactly the coin it is given into the view.               *)
LEMMA AddCoinsStep ==
    ASSUME IInv, NEW o \in OutPoints, NEW c \in Coins, NEW fCoinbase \in BOOLEAN,
           AddCoins(o, c, fCoinbase)
    PROVE  IInv' /\ Wrote(o, c)
  <1>1. /\ ~AddThrows(view, o, fCoinbase)
        /\ view' \in Cache
        /\ Sound(view', TipCoins)
        /\ Lookup(view', TipCoins) = [ViewCoins EXCEPT ![o] = c]
    <2>1. ~fCoinbase => Lookup(view, TipCoins)[o] = Spent
      BY DEF AddCoins, ViewCoins
    <2> QED
      BY <2>1, ReadThrough, AddToSound DEF AddCoins, IInv, TypeOK, FlagsSound, ViewCoins
  <1>2. db' = db /\ tip' = tip /\ TipCoins' = TipCoins
    BY DEF AddCoins, TipCoins
  <1>3. thrown' = FALSE
    BY <1>1 DEF AddCoins, AddThrows
  <1> QED
    BY <1>1, <1>2, <1>3 DEF IInv, TypeOK, FlagsSound, NoLogicError, Wrote, ViewCoins

(* ApplyTxInUndo puts the undone coin back, over an unspent one or not.    *)
LEMMA RestoreCoinStep ==
    ASSUME IInv, NEW o \in OutPoints, NEW c \in Coins, RestoreCoin(o, c)
    PROVE  IInv' /\ Wrote(o, c)
  <1> DEFINE v == ViewAfterFetch(o)
             have == v[o] # Absent /\ v[o].coin # Spent
  <1>1. /\ v \in Cache
        /\ Sound(v, TipCoins)
        /\ Lookup(v, TipCoins) = ViewCoins
        /\ TipCoins \in [OutPoints -> AnyCoin]
    BY ReadThrough
  <1>2. have \in BOOLEAN
    OBVIOUS
  <1>3. view' = AddTo(v, o, c, have) /\ thrown' = AddThrows(v, o, have) /\ tip' = TipAfterFetch(o) /\ db' = db
    BY DEF RestoreCoin
  <1>4. ~have => Lookup(v, TipCoins)[o] = Spent
    BY <1>1, ReadThrough, LookupValue
  <1> HIDE DEF v, have
  <1>5. /\ ~AddThrows(v, o, have)
        /\ view' \in Cache
        /\ Sound(view', TipCoins)
        /\ Lookup(view', TipCoins) = [ViewCoins EXCEPT ![o] = c]
    BY <1>1, <1>2, <1>3, <1>4, AddToSound
  <1>6. /\ tip' \in Cache
        /\ Sound(tip', db')
        /\ TipCoins' = TipCoins
    BY <1>3, ReadThrough DEF TipCoins
  <1>7. thrown' = FALSE
    BY <1>3, <1>5 DEF AddThrows
  <1> QED
    BY <1>3, <1>5, <1>6, <1>7 DEF IInv, TypeOK, FlagsSound, NoLogicError, Wrote, ViewCoins

(* SpendCoin makes exactly its outpoint spent, dropped entry or not.       *)
LEMMA SpendCoinStep ==
    ASSUME IInv, NEW o \in OutPoints, SpendCoin(o)
    PROVE  IInv' /\ Wrote(o, Spent)
  <1> DEFINE v == ViewAfterFetch(o)
             e == SpentEntry(v[o])
  <1>1. /\ v \in Cache
        /\ Sound(v, TipCoins)
        /\ Lookup(v, TipCoins) = ViewCoins
        /\ TipCoins \in [OutPoints -> AnyCoin]
    BY ReadThrough
  <1>2. view' = Put(v, o, e) /\ tip' = TipAfterFetch(o) /\ db' = db /\ thrown' = thrown
    BY DEF SpendCoin, Put
  <1>3. v[o] \in Entry \cup {Absent} /\ SoundEntry(v[o], TipCoins[o])
    BY <1>1 DEF Cache, Sound
  <1>4. /\ e \in Entry \cup {Absent}
        /\ SoundEntry(e, TipCoins[o])
        /\ Answer(e, TipCoins[o]) = Spent
    <2>1. CASE v[o] = Absent
      <3>1. TipCoins[o] = Spent
        BY <2>1, ReadThrough
      <3> QED
        BY <2>1, <3>1 DEF SpentEntry, SoundEntry, Answer
    <2>2. CASE v[o] # Absent /\ v[o].fresh
      BY <1>3, <2>2 DEF SpentEntry, SoundEntry, Answer
    <2>3. CASE v[o] # Absent /\ ~v[o].fresh
      <3> DEFINE s == [coin |-> Spent, dirty |-> TRUE, fresh |-> v[o].fresh]
      <3>1. e = s /\ s.coin = Spent /\ s.dirty /\ ~s.fresh
        BY <2>3 DEF SpentEntry
      <3>2. v[o] \in Entry
        BY <1>3, <2>3
      <3>3. s \in Entry
        BY <3>2 DEF Entry, AnyCoin
      <3>4. s # Absent
        BY <3>3, AbsentAssumption
      <3> HIDE DEF s, e
      <3> QED
        BY <3>1, <3>3, <3>4 DEF SoundEntry, Answer
    <2> QED
      BY <2>1, <2>2, <2>3
  <1> HIDE DEF v, e
  <1>5. /\ view' \in Cache
        /\ Sound(view', TipCoins)
        /\ Lookup(view', TipCoins) = [ViewCoins EXCEPT ![o] = Spent]
    <2>1. view' \in Cache /\ Sound(view', TipCoins) /\ Lookup(view', TipCoins) = Put(ViewCoins, o, Spent)
      BY <1>1, <1>2, <1>4, PutEntry
    <2> QED
      BY <2>1 DEF Put
  <1>6. /\ tip' \in Cache
        /\ Sound(tip', db')
        /\ TipCoins' = TipCoins
    BY <1>2, ReadThrough DEF TipCoins
  <1> QED
    BY <1>2, <1>5, <1>6 DEF IInv, TypeOK, FlagsSound, NoLogicError, Wrote, ViewCoins

(* Uncache forgets an unflagged entry of pcoinsTip; no answer changes.     *)
LEMMA UncacheStep ==
    ASSUME IInv, NEW o \in OutPoints, Uncache(o)
    PROVE  IInv' /\ Silent
  <1>1. tip[o] \in Entry /\ tip[o].coin = db[o]
    BY DEF Uncache, IInv, TypeOK, Cache, FlagsSound, Sound, SoundEntry
  <1>2. SoundEntry(Absent, db[o])
    BY DEF SoundEntry
  <1>3. /\ tip' \in Cache
        /\ Sound(tip', db)
        /\ Lookup(tip', db) = [TipCoins EXCEPT ![o] = db[o]]
    <2>1. tip \in Cache /\ db \in [OutPoints -> AnyCoin] /\ db[o] \in AnyCoin
      BY DEF IInv, TypeOK
    <2>2. Sound(tip, db)
      BY DEF IInv, FlagsSound
    <2>3. tip' = Put(tip, o, Absent) /\ Answer(Absent, db[o]) = db[o]
      BY DEF Uncache, Put, Answer
    <2>4. tip' \in Cache /\ Sound(tip', db) /\ Lookup(tip', db) = Put(Lookup(tip, db), o, db[o])
      BY <1>2, <2>1, <2>2, <2>3, PutEntry
    <2> QED
      BY <2>4 DEF TipCoins, Put
  <1>4. TipCoins[o] = db[o] /\ TipCoins \in [OutPoints -> AnyCoin]
    BY <1>1, LookupValue DEF IInv, TypeOK, TipCoins
  <1>5. db' = db /\ view' = view /\ thrown' = thrown
    BY DEF Uncache
  <1>6. TipCoins' = TipCoins
    BY <1>3, <1>4, <1>5 DEF TipCoins
  <1> QED
    BY <1>3, <1>5, <1>6 DEF IInv, TypeOK, FlagsSound, NoLogicError, Silent, ViewCoins

(* Flush of a block's view: pcoinsTip then answers what the view did.     *)
LEMMA FlushViewStep ==
    ASSUME IInv, FlushView
    PROVE  IInv' /\ db' = db /\ TipCoins' = ViewCoins /\ ViewCoins' = ViewCoins
  <1>1. /\ TipCoins \in [OutPoints -> AnyCoin]
        /\ ViewCoins \in [OutPoints -> AnyCoin]
        /\ \A o \in OutPoints : TipCoins[o] = IF tip[o] = Absent THEN db[o] ELSE tip[o].coin
        /\ \A o \in OutPoints : ViewCoins[o] = IF view[o] = Absent THEN TipCoins[o] ELSE view[o].coin
    BY LookupValue DEF IInv, TypeOK, TipCoins, ViewCoins
  <1>2. ASSUME NEW o \in OutPoints
        PROVE  /\ ~MergeThrows(tip[o], view[o])
               /\ Merged(tip[o], view[o]) \in Entry \cup {Absent}
               /\ SoundEntry(Merged(tip[o], view[o]), db[o])
               /\ (IF Merged(tip[o], view[o]) = Absent THEN db[o] ELSE Merged(tip[o], view[o]).coin) = ViewCoins[o]
    <2>1. /\ tip[o] \in Entry \cup {Absent} /\ view[o] \in Entry \cup {Absent} /\ db[o] \in AnyCoin
          /\ SoundEntry(tip[o], db[o])
          /\ TipCoins[o] \in AnyCoin
          /\ tip[o] = Absent => TipCoins[o] = db[o]
          /\ tip[o] # Absent => TipCoins[o] = tip[o].coin
          /\ SoundEntry(view[o], TipCoins[o])
      BY <1>1 DEF IInv, TypeOK, Cache, FlagsSound, Sound
    <2> QED
      BY <1>1, <2>1, MergedSound
  <1>3. /\ tip' = [o \in OutPoints |-> Merged(tip[o], view[o])]
        /\ view' = NoEntries /\ thrown' = thrown /\ db' = db
    BY <1>2 DEF FlushView
  <1>4. tip' \in Cache /\ view' \in Cache
    BY <1>2, <1>3 DEF Cache, NoEntries
  <1>5. Sound(tip', db') /\ Sound(view', TipCoins')
    BY <1>2, <1>3 DEF Sound, SoundEntry, NoEntries
  <1>6. TipCoins' = ViewCoins
    <2>1. \A o \in OutPoints : TipCoins'[o] = ViewCoins[o]
      BY <1>2, <1>3 DEF TipCoins, Lookup
    <2> QED
      BY <2>1, <1>1 DEF TipCoins, Lookup
  <1>7. ViewCoins' = TipCoins'
    BY <1>1, <1>3, <1>6 DEF ViewCoins, Lookup, NoEntries
  <1> QED
    BY <1>3, <1>4, <1>5, <1>6, <1>7 DEF IInv, TypeOK, FlagsSound, NoLogicError

(* Dropping the view of a block that failed leaves pcoinsTip's answers.    *)
LEMMA DropViewStep ==
    ASSUME IInv, DropView
    PROVE  IInv' /\ db' = db /\ TipCoins' = TipCoins /\ ViewCoins' = TipCoins
  <1>1. view' = NoEntries /\ db' = db /\ tip' = tip /\ thrown' = thrown /\ TipCoins' = TipCoins
    BY DEF DropView, TipCoins
  <1>2. TipCoins \in [OutPoints -> AnyCoin]
    BY LookupValue DEF IInv, TypeOK, TipCoins
  <1>3. view' \in Cache /\ Sound(view', TipCoins')
    BY <1>1 DEF Cache, NoEntries, Sound, SoundEntry
  <1>4. ViewCoins' = TipCoins
    BY <1>1, <1>2 DEF ViewCoins, Lookup, NoEntries
  <1> QED
    BY <1>1, <1>3, <1>4 DEF IInv, TypeOK, FlagsSound, NoLogicError

(* Flush of pcoinsTip: the database then holds what pcoinsTip answered.    *)
LEMMA FlushTipStep ==
    ASSUME IInv, FlushTip
    PROVE  IInv' /\ db' = TipCoins /\ TipCoins' = TipCoins /\ ViewCoins' = TipCoins /\ ViewCoins = TipCoins
  <1>1. /\ TipCoins \in [OutPoints -> AnyCoin]
        /\ \A o \in OutPoints : TipCoins[o] = IF tip[o] = Absent THEN db[o] ELSE tip[o].coin
    BY LookupValue DEF IInv, TypeOK, TipCoins
  <1>2. view = NoEntries /\ view' = NoEntries /\ tip' = NoEntries /\ thrown' = thrown
    BY DEF FlushTip
  <1>3. \A o \in OutPoints : Written(db[o], tip[o]) = TipCoins[o]
    BY <1>1 DEF Written, IInv, FlagsSound, Sound, SoundEntry
  <1>4. db' = TipCoins
    BY <1>1, <1>3 DEF FlushTip
  <1>5. TipCoins' = TipCoins
    BY <1>1, <1>2, <1>4 DEF TipCoins, Lookup, NoEntries
  <1>6. ViewCoins = TipCoins /\ ViewCoins' = TipCoins
    BY <1>1, <1>2, <1>5 DEF ViewCoins, Lookup, NoEntries
  <1>7. NoEntries \in Cache /\ Sound(NoEntries, db') /\ Sound(NoEntries, TipCoins')
    BY DEF Cache, NoEntries, Sound, SoundEntry
  <1> QED
    BY <1>1, <1>2, <1>4, <1>5, <1>6, <1>7 DEF IInv, TypeOK, FlagsSound, NoLogicError

-----------------------------------------------------------------------------
(* Every step keeps the invariant and is a step of CoinsView or a stutter. *)
LEMMA StepSound ==
    ASSUME IInv, [Next]_vars
    PROVE  IInv' /\ [AbstractView!Next]_(AbstractView!vars)
  <1> USE DEF AbstractView!vars, AbstractView!Next
  <1>1. ASSUME NEW o \in OutPoints, AccessCoin(o) \/ AccessTipCoin(o)
        PROVE  IInv' /\ [AbstractView!Next]_(AbstractView!vars)
    BY <1>1, ReadStep DEF Silent
  <1>2. ASSUME NEW o \in OutPoints, SpendCoin(o)
        PROVE  IInv' /\ AbstractView!Next
    BY <1>2, SpendCoinStep DEF Wrote, AbstractView!Write
  <1>3. ASSUME NEW o \in OutPoints, Uncache(o)
        PROVE  IInv' /\ [AbstractView!Next]_(AbstractView!vars)
    BY <1>3, UncacheStep DEF Silent
  <1>4. ASSUME NEW o \in OutPoints, NEW c \in Coins, NEW fCoinbase \in BOOLEAN, AddCoins(o, c, fCoinbase)
        PROVE  IInv' /\ AbstractView!Next
    BY <1>4, AddCoinsStep DEF Wrote, AbstractView!Write
  <1>5. ASSUME NEW o \in OutPoints, NEW c \in Coins, RestoreCoin(o, c)
        PROVE  IInv' /\ AbstractView!Next
    BY <1>5, RestoreCoinStep DEF Wrote, AbstractView!Write
  <1>6. CASE FlushView
    BY <1>6, FlushViewStep DEF AbstractView!CommitView
  <1>7. CASE DropView
    BY <1>7, DropViewStep DEF AbstractView!DiscardView
  <1>8. CASE FlushTip
    BY <1>8, FlushTipStep DEF AbstractView!CommitTip
  <1>9. CASE UNCHANGED vars
    BY <1>9 DEF vars, IInv, TypeOK, FlagsSound, Sound, NoLogicError, TipCoins, ViewCoins, Lookup
  <1> QED
    BY <1>1, <1>2, <1>3, <1>4, <1>5, <1>6, <1>7, <1>8, <1>9 DEF Next

(* For any outpoints and coins, cache entries keep the promises coins.h    *)
(* makes for DIRTY and FRESH, through every order of fetch, add, spend,    *)
(* restore, uncache and flush.                                             *)
THEOREM FlagsAlwaysSound == Spec => [](TypeOK /\ FlagsSound)
  <1>1. Init => IInv
    BY InitSound
  <1>2. IInv /\ [Next]_vars => IInv'
    BY StepSound
  <1>3. IInv => TypeOK /\ FlagsSound
    BY DEF IInv
  <1> QED
    BY <1>1, <1>2, <1>3, PTL DEF Spec

(* AddCoin's "replaces non-pruned entry" and BatchWrite's "FRESH flag      *)
(* misapplied" are never thrown.                                           *)
THEOREM NeverThrows == Spec => []NoLogicError
  <1>1. Init => IInv
    BY InitSound
  <1>2. IInv /\ [Next]_vars => IInv'
    BY StepSound
  <1>3. IInv => NoLogicError
    BY DEF IInv
  <1> QED
    BY <1>1, <1>2, <1>3, PTL DEF Spec

(* Every spend, addition and undo changes the answer for its own outpoint  *)
(* and no other, whatever is cached where.                                 *)
THEOREM OperationsTakeEffect == Spec => EffectsExact
  <1> DEFINE Effects == \A o \in OutPoints :
        /\ SpendCoin(o) => ViewCoins' = [ViewCoins EXCEPT ![o] = Spent]
        /\ \A c \in Coins :
            (RestoreCoin(o, c) \/ \E fCoinbase \in BOOLEAN : AddCoins(o, c, fCoinbase))
                => ViewCoins' = [ViewCoins EXCEPT ![o] = c]
  <1>1. Init => IInv
    BY InitSound
  <1>2. IInv /\ [Next]_vars => IInv'
    BY StepSound
  <1>3. IInv => Effects
    BY SpendCoinStep, RestoreCoinStep, AddCoinsStep DEF Wrote
  <1>4. IInv /\ [Next]_vars => [Effects]_vars
    BY <1>3
  <1> QED
    BY <1>1, <1>2, <1>4, PTL DEF Spec, EffectsExact

(* The caching of coins.cpp is invisible: the stack of caches implements   *)
(* the stack of plain maps.                                                *)
THEOREM CachesImplementMaps == Spec => ImplementsCoinsView
  <1>1. Init => IInv /\ AbstractView!Init
    BY InitSound DEF AbstractView!Init, AbstractView!Maps, Init, AnyCoin
  <1>2. IInv /\ [Next]_vars => IInv' /\ [AbstractView!Next]_(AbstractView!vars)
    BY StepSound
  <1> QED
    BY <1>1, <1>2, PTL DEF Spec, ImplementsCoinsView, AbstractView!Spec
==========================================================================
