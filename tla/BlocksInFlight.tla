-------------------------- MODULE BlocksInFlight --------------------------
(***************************************************************************)
(* The books net_processing.cpp keeps of the blocks it has asked for:      *)
(* mapBlocksInFlight, and in each CNodeState the list vBlocksInFlight with *)
(* its counters.  The three functions that write them are operators on the *)
(* record `d` of all of it.  Every caller passes the block's index entry,  *)
(* so fValidatedHeaders is always true.  A stored moment is kept as a      *)
(* clock that runs or does not; nDownloadingSince runs while the list is   *)
(* not empty.                                                              *)
(***************************************************************************)
EXTENDS BlockTree, Integers, Sequences, FiniteSets, Functions

CONSTANTS
    Peers,      \* NodeIds
    NoPeer      \* not in flight

ASSUME PeersAssumption == IsFiniteSet(Peers) /\ NoPeer \notin Peers

NothingInFlight ==
    [mapBlocksInFlight |-> [b \in Blocks |-> NoPeer],
     partialBlock |-> {},
     vBlocksInFlight |-> [p \in Peers |-> <<>>],
     nBlocksInFlight |-> [p \in Peers |-> 0],
     nBlocksInFlightValidHeaders |-> [p \in Peers |-> 0],
     nStallingSince |-> [p \in Peers |-> FALSE],
     nPeersWithValidatedDownloads |-> 0]

InFlight(d, b) == d.mapBlocksInFlight[b] # NoPeer

Position(s, b) == CHOOSE i \in DOMAIN s : s[i] = b

(* std::list::erase *)
Erase(s, i) == SubSeq(s, 1, i - 1) \o SubSeq(s, i + 1, Len(s))

(* MarkBlockAsReceived once the block is found in flight from p. *)
TakeOffQueue(d, p, b) ==
    LET i == Position(d.vBlocksInFlight[p], b) IN
    [mapBlocksInFlight |-> [d.mapBlocksInFlight EXCEPT ![b] = NoPeer],
     partialBlock |-> d.partialBlock \ {b},
     vBlocksInFlight |-> [d.vBlocksInFlight EXCEPT ![p] = Erase(@, i)],
     nBlocksInFlight |-> [d.nBlocksInFlight EXCEPT ![p] = @ - 1],
     nBlocksInFlightValidHeaders |-> [d.nBlocksInFlightValidHeaders EXCEPT ![p] = @ - 1],
     nStallingSince |-> [d.nStallingSince EXCEPT ![p] = FALSE],
     nPeersWithValidatedDownloads |->
        IF d.nBlocksInFlightValidHeaders[p] = 1
        THEN d.nPeersWithValidatedDownloads - 1 ELSE d.nPeersWithValidatedDownloads]

(* Mutant: the stalling clock runs on. *)
MarkBlockAsReceivedStalling(d, b) ==
    IF InFlight(d, b)
    THEN [TakeOffQueue(d, d.mapBlocksInFlight[b], b) EXCEPT !.nStallingSince = d.nStallingSince]
    ELSE d

MarkBlockAsReceived(d, b) ==
    IF InFlight(d, b) THEN TakeOffQueue(d, d.mapBlocksInFlight[b], b) ELSE d

(* The part of MarkBlockAsInFlight after the block is off every queue. *)
PutOnQueue(d, p, b, compact) ==
    [mapBlocksInFlight |-> [d.mapBlocksInFlight EXCEPT ![b] = p],
     partialBlock |-> IF compact THEN d.partialBlock \cup {b} ELSE d.partialBlock,
     vBlocksInFlight |-> [d.vBlocksInFlight EXCEPT ![p] = Append(@, b)],
     nBlocksInFlight |-> [d.nBlocksInFlight EXCEPT ![p] = @ + 1],
     nBlocksInFlightValidHeaders |-> [d.nBlocksInFlightValidHeaders EXCEPT ![p] = @ + 1],
     nStallingSince |-> d.nStallingSince,
     nPeersWithValidatedDownloads |->
        IF d.nBlocksInFlightValidHeaders[p] = 0
        THEN d.nPeersWithValidatedDownloads + 1 ELSE d.nPeersWithValidatedDownloads]

(* compact: the caller passed pit, so the entry carries a partialBlock. *)
MarkBlockAsInFlight(d, p, b, compact) ==
    IF d.mapBlocksInFlight[b] = p THEN d
    ELSE PutOnQueue(MarkBlockAsReceived(d, b), p, b, compact)

(* Mutant: the peer's blocks stay in the map. *)
FinalizeQueueLeaving(d, p) ==
    [d EXCEPT !.vBlocksInFlight[p] = <<>>, !.nBlocksInFlight[p] = 0,
              !.nBlocksInFlightValidHeaders[p] = 0, !.nStallingSince[p] = FALSE]

(* FinalizeNode's share: the peer's queue leaves the map, its CNodeState goes. *)
FinalizeQueue(d, p) ==
    LET mine == Range(d.vBlocksInFlight[p]) IN
    [mapBlocksInFlight |->
        [b \in Blocks |-> IF b \in mine THEN NoPeer ELSE d.mapBlocksInFlight[b]],
     partialBlock |-> d.partialBlock \ mine,
     vBlocksInFlight |-> [d.vBlocksInFlight EXCEPT ![p] = <<>>],
     nBlocksInFlight |-> [d.nBlocksInFlight EXCEPT ![p] = 0],
     nBlocksInFlightValidHeaders |-> [d.nBlocksInFlightValidHeaders EXCEPT ![p] = 0],
     nStallingSince |-> [d.nStallingSince EXCEPT ![p] = FALSE],
     nPeersWithValidatedDownloads |->
        IF d.nBlocksInFlightValidHeaders[p] # 0
        THEN d.nPeersWithValidatedDownloads - 1 ELSE d.nPeersWithValidatedDownloads]
=============================================================================
