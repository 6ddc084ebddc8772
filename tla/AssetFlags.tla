----------------------------- MODULE AssetFlags -----------------------------
(***************************************************************************)
(* The flags a restricted-asset transaction sets or clears: a qualifier on *)
(* an address, a frozen address, a globally frozen asset.  Three layers    *)
(* hold them: the CAssetsCache of the block being (dis)connected, the      *)
(* global cache passets, and the database with its look-up cache.          *)
(*                                                                         *)
(* All the changes of one block are checked against the state before the   *)
(* block (fSkipTempCache), so two changes of one flag in one block go the  *)
(* same way, and a block is a function from flags to a change.             *)
(***************************************************************************)
EXTENDS Integers, Sequences

CONSTANTS
    Flags,      \* (qualifier, address), (restricted asset, address), restricted asset
    Qualifiers, \* the first kind
    Subs,       \* the qualifiers #TAG/#SUB ...
    Root,       \* ... and the qualifier #TAG, at the same address, each one is below
    MaxHeight   \* bound on the length of the chain

ASSUME FlagsAssumption ==
    /\ Qualifiers \subseteq Flags
    /\ Subs \subseteq Qualifiers
    /\ Root \in [Subs -> Qualifiers \ Subs]

ASSUME MaxHeightAssumption == MaxHeight \in Nat

VARIABLES
    db,       \* prestricteddb: the flags that are set on disk
    lru,      \* passetsQualifierCache, passetsRestrictionCache, passetsGlobalRestrictionCache
    passets,  \* the global cache
    chain,    \* the blocks of the active chain, with the flags before each
    assigned  \* what the blocks of the active chain, read in order, have set

vars == <<db, lru, passets, chain, assigned>>

Change == {"none", "set", "clear"}

Block == [Flags -> Change]

NoChange == [f \in Flags |-> "none"]

(* A CAssetsCache: setNew...ToAdd and setNew...ToRemove (here undo, for it *)
(* holds commands to be reversed), and the two maps of sub-qualifiers.     *)
Cache == [add : Block, undo : Block, rootAdd : SUBSET Subs, rootRemove : SUBSET Subs]

Empty == [add |-> NoChange, undo |-> NoChange, rootAdd |-> {}, rootRemove |-> {}]

SubsOf(f) == {s \in Subs : Root[s] = f}

Init ==
    /\ db = {}
    /\ lru = {}
    /\ passets = Empty
    /\ chain = <<>>
    /\ assigned = {}

-----------------------------------------------------------------------------
(* Look-ups: fSkipTempCache is true, passets and the database decide.      *)

Dirty(f) == passets.undo[f] # "none" \/ passets.add[f] # "none"

CheckForRestriction(f) ==
    \/ passets.undo[f] = "clear"
    \/ passets.undo[f] = "none" /\ passets.add[f] = "set"
    \/ ~Dirty(f) /\ f \in lru \cup db

SubAdded(f) == passets.rootAdd \cap SubsOf(f) # {}

CheckForAddressQualifier(f) ==
    \/ CheckForRestriction(f)
    \/ passets.undo[f] = "none" /\ SubAdded(f)
    \/ ~Dirty(f) /\ db \cap SubsOf(f) # {}

Has(f) == IF f \in Qualifiers THEN CheckForAddressQualifier(f) ELSE CheckForRestriction(f)

(* A look-up that ends in the database leaves the flag in the look-up cache. *)
Reads(f) ==
    /\ ~Dirty(f)
    /\ f \in Qualifiers => ~SubAdded(f)
    /\ f \in db

CheckFlag(f) ==
    /\ lru' = IF Reads(f) THEN lru \cup {f} ELSE lru
    /\ UNCHANGED <<db, passets, chain, assigned>>

(* A full look-up cache drops its oldest entry when another one is put. *)
Evict(f) ==
    /\ lru' = lru \ {f}
    /\ UNCHANGED <<db, passets, chain, assigned>>

-----------------------------------------------------------------------------
(* Connecting and disconnecting.                                           *)

SubsWith(b, change) == {s \in Subs : b[s] = change}

(* AddQualifierAddress, AddRestrictedAddress, AddGlobalRestricted, for each *)
(* change of the block.                                                    *)
Connecting(b) ==
    [add |-> b, undo |-> NoChange,
     rootAdd |-> SubsWith(b, "set"), rootRemove |-> SubsWith(b, "clear")]

(* RemoveQualifierAddress, RemoveRestrictedAddress, RemoveGlobalRestricted. *)
Disconnecting(b) ==
    [add |-> NoChange, undo |-> b,
     rootAdd |-> SubsWith(b, "clear"), rootRemove |-> SubsWith(b, "set")]

Over(new, hidden, old) ==
    [f \in Flags |-> IF new[f] # "none" THEN new[f]
                     ELSE IF hidden[f] # "none" THEN "none" ELSE old[f]]

FlushedKeepingUndo(c) ==
    [add |-> Over(c.add, c.undo, passets.add),
     undo |-> Over(c.undo, NoChange, passets.undo),
     rootAdd |-> passets.rootAdd \cup c.rootAdd \cup c.rootRemove,
     rootRemove |-> passets.rootRemove]

(* The removed sub-qualifiers are inserted into the map of the added ones, *)
(* and nothing is ever erased from it.                                     *)
Flushed(c) ==
    [add |-> Over(c.add, c.undo, passets.add),
     undo |-> Over(c.undo, c.add, passets.undo),
     rootAdd |-> passets.rootAdd \cup c.rootAdd \cup c.rootRemove,
     rootRemove |-> passets.rootRemove]

VerifyChangeUnchecked(b) == TRUE

(* VerifyQualifierChange, VerifyRestrictedAddressChange and                *)
(* VerifyGlobalRestrictedChange: a change must change the current answer.  *)
VerifyChange(b) ==
    \A f \in Flags : /\ b[f] = "set" => ~Has(f)
                     /\ b[f] = "clear" => Has(f)

Applied(b, flags) == {f \in Flags : b[f] = "set" \/ (b[f] = "none" /\ f \in flags)}

ConnectTip(b) ==
    /\ Len(chain) < MaxHeight
    /\ VerifyChange(b)
    /\ lru' = lru \cup {f \in Flags : b[f] # "none" /\ Reads(f)}
    /\ passets' = Flushed(Connecting(b))
    /\ chain' = Append(chain, [block |-> b, before |-> assigned])
    /\ assigned' = Applied(b, assigned)
    /\ db' = db

DisconnectTip ==
    /\ chain # <<>>
    /\ passets' = Flushed(Disconnecting(chain[Len(chain)].block))
    /\ chain' = SubSeq(chain, 1, Len(chain) - 1)
    /\ assigned' = chain[Len(chain)].before
    /\ UNCHANGED <<db, lru>>

-----------------------------------------------------------------------------
(* DumpCacheToDatabase.                                                    *)

Written == {f \in Flags : passets.add[f] = "set" \/ passets.undo[f] = "clear"}

ErasedCommandsOnly == {f \in Flags : passets.add[f] = "clear"}

Erased == {f \in Flags : passets.add[f] = "clear" \/ passets.undo[f] = "set"}

DumpCacheToDatabase ==
    /\ db' = (db \ Erased) \cup Written
    /\ lru' = (lru \ Erased) \cup Written
    /\ passets' = Empty
    /\ UNCHANGED <<chain, assigned>>

Next ==
    \/ \E b \in Block \ {NoChange} : ConnectTip(b)
    \/ DisconnectTip
    \/ DumpCacheToDatabase
    \/ \E f \in Flags : CheckFlag(f) \/ Evict(f)

Spec == Init /\ [][Next]_vars

-----------------------------------------------------------------------------

(* Every layer holds what it can hold: flags, and caches of changes. *)
TypeOK ==
    /\ db \subseteq Flags
    /\ lru \subseteq Flags
    /\ passets \in Cache
    /\ chain \in Seq([block : Block, before : SUBSET Flags])
    /\ assigned \subseteq Flags

Roots == {Root[s] : s \in Subs}

(* Every flag but a qualifier with sub-qualifiers is answered as the blocks *)
(* of the active chain left it, whatever was disconnected, dumped, looked  *)
(* up and evicted on the way: consensus does not depend on the caches.     *)
FlagsExact == \A f \in Flags \ Roots : Has(f) <=> f \in assigned

(* The look-up caches hold no flag the database does not hold: an answer   *)
(* taken from them needs no second look.                                   *)
LookupsOnDisk == lru \subseteq db

(* What a dump would leave on disk is what the active chain set, but for   *)
(* qualifiers with sub-qualifiers.                                         *)
DumpExact == \A f \in Flags \ Roots : f \in (db \ Erased) \cup Written <=> f \in assigned

(* A command is in force or being reversed, never both. *)
OneCommand == \A f \in Flags : passets.add[f] = "none" \/ passets.undo[f] = "none"

(* The flags after block i of the chain are the ones before it with its    *)
(* changes applied, and each of its changes was one (roots aside): this is *)
(* what makes reversing a command the same as restoring the old state.     *)
HistoryExact ==
    \A i \in 1 .. Len(chain) :
        /\ (IF i = Len(chain) THEN assigned ELSE chain[i + 1].before)
             = Applied(chain[i].block, chain[i].before)
        /\ \A f \in Flags \ Roots : /\ chain[i].block[f] = "set" => f \notin chain[i].before
                                    /\ chain[i].block[f] = "clear" => f \in chain[i].before
=============================================================================
