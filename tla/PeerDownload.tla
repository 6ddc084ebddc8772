--------------------------- MODULE PeerDownload ---------------------------
(***************************************************************************)
(* How net_processing.cpp fetches headers and blocks from its peers.       *)
(* The message handler takes the peers in turn, for each reading at most   *)
(* one message and then running SendMessages; the socket thread opens      *)
(* connections and deletes the closed ones.  The order of the turns is     *)
(* left open.  cs_main is held in each step; it is free while a received   *)
(* block is on its way into ProcessNewBlock.  Validation is what           *)
(* ChainActivation describes, folded into one step.                        *)
(***************************************************************************)
EXTENDS BlocksInFlight

CONSTANTS
    Invalid,      \* blocks that ConnectBlock rejects
    KindsOf,      \* per peer, how the connection may have come about
    Serves,       \* per peer, the blocks it may announce and send
    Responsive,   \* peers that answer every request before its timeout
    PeerTip,      \* the tip of the chain a responsive peer is on
    RecentHeight, \* from this height on, block times are within the last 24 hours
    DirectHeight, \* from this height on, within 20 block intervals
    MinimumWork,  \* nMinimumChainWork
    MAX_BLOCKS_IN_TRANSIT_PER_PEER, BLOCK_DOWNLOAD_WINDOW,
    MAX_HEADERS_RESULTS, MAX_BLOCKS_TO_ANNOUNCE, MIN_BLOCKS_TO_KEEP,
    MAX_OUTBOUND_PEERS_TO_PROTECT

VARIABLES
    chain,      \* the block index and chainActive
    node,       \* per peer, its CNode and CNodeState
    download,   \* the blocks in flight (BlocksInFlight)
    nSyncStarted, nPreferredDownload, nProtected,
    requests,   \* messages on their way to the responsive peers
    turn,       \* the peer the handler is at
    phase,      \* what it does for that peer
    hand,       \* the block it passes to ProcessNewBlock
    toRequest   \* the blocks it is about to ask `turn` for, cs_main held

counters == <<nSyncStarted, nPreferredDownload, nProtected>>
handler == <<turn, phase, hand, toRequest>>
vars == <<chain, node, download, counters, requests, handler>>

Kinds == {"outbound", "manual", "inbound", "whitelisted"}

ASSUME DownloadAssumption ==
    /\ Peers \subseteq Nat /\ Null \notin Peers
    /\ Invalid \subseteq Blocks \ {Genesis}
    /\ Serves \in [Peers -> SUBSET (Blocks \ {Genesis})]
    /\ KindsOf \in [Peers -> SUBSET Kinds]
    /\ Responsive \subseteq Peers
    /\ \A p \in Responsive : KindsOf[p] \subseteq Kinds \ {"inbound"}
    /\ PeerTip \in [Responsive -> Blocks]
    /\ \A p \in Responsive : Chain[PeerTip[p]] \subseteq Serves[p] \cup {Genesis}
    /\ MAX_HEADERS_RESULTS \in Nat \ {0}
    /\ MAX_BLOCKS_IN_TRANSIT_PER_PEER \in Nat \ {0}
    /\ BLOCK_DOWNLOAD_WINDOW \in Nat \ {0}

(***************************************************************************)
(* The chain.                                                              *)
(***************************************************************************)
tip == chain.tip
Work(b) == Height[b]
Active == Chain[tip]

(* std::min *)
Lesser(x, y) == IF x <= y THEN x ELSE y

GetAncestor(b, h) == CHOOSE a \in Chain[b] : Height[a] = h

(* The blocks after a, an ancestor of b, up to b. *)
Path(a, b) == [i \in 1..(Height[b] - Height[a]) |-> GetAncestor(b, Height[a] + i)]

IsInitialBlockDownload == Work(tip) < MinimumWork \/ Height[tip] < RecentHeight
CanDirectFetch == Height[tip] >= DirectHeight

(* AcceptBlockHeader refuses the header of b, the headers in `known` being *)
(* in the index by then.                                                   *)
HeaderRefused(b, known) ==
    IF b \in chain.index THEN b \in chain.failed
    ELSE Parent[b] \notin known \/ Chain[Parent[b]] \cap chain.failed # {}

(* ProcessNewBlockHeaders: headers are taken up to the first refused one;  *)
(* refusing a new header marks the path to the block known to be invalid.  *)
RefusedHeaders(headers) ==
    {b \in Range(headers) : HeaderRefused(b, chain.index \cup Range(headers))}
ProcessNewBlockHeaders(headers) ==
    LET refused == RefusedHeaders(headers)
        taken == {b \in Range(headers) : Chain[b] \cap refused = {}}
        stop == {b \in refused \ chain.index : Chain[b] \cap refused = {b}}
        marked == {b \in chain.index : /\ Chain[b] \cap Invalid \cap chain.failed # {}
                                       /\ \E r \in stop : b \in Chain[r]}
        better == {b \in taken : Work(b) > Work(chain.pindexBestHeader)}
    IN  [chain EXCEPT !.index = @ \cup taken,
                      !.failed = @ \cup marked,
                      !.pindexBestHeader =
                        IF better = {} THEN @
                        ELSE CHOOSE b \in better : \A c \in better : Work(c) <= Work(b)]

(* The index once new is the tip and the blocks in `tried` were connected  *)
(* as far as they are valid; `linked` are the ones with all their data.    *)
Activated(c, linked, new, tried) ==
    LET walked == {b \in linked : \E t \in tried : b \in Chain[t]}
        good == {b \in walked : Chain[b] \cap Invalid = {}}
    IN  [c EXCEPT !.tip = new,
                  !.scripts = @ \cup Chain[new] \cup good,
                  !.failed = @ \cup (walked \ good)]

(* ActivateBestChain: every block of more work than the chain we end on is *)
(* tried first, and fails at its first invalid block; an invalid chain of  *)
(* equal work may have been tried too.                                     *)
ActivateBestChain(c) ==
    LET linked == {b \in c.data : Chain[b] \subseteq c.data /\ Chain[b] \cap c.failed = {}}
        good == {b \in linked : Chain[b] \cap Invalid = {}}
        best == IF \A b \in good : Work(b) <= Work(c.tip) THEN {c.tip}
                ELSE {b \in good : \A g \in good : Work(g) <= Work(b)}
        more(new) == {b \in linked : Work(b) > Work(new)}
        equal(new) == {b \in linked \ good : Work(b) = Work(new) /\ Work(b) > Work(c.tip)}
    IN  UNION {{Activated(c, linked, new, more(new) \cup tied) : tied \in SUBSET equal(new)} :
                new \in best}

(* ProcessNewBlock: AcceptBlockHeader, AcceptBlock, ActivateBestChain. *)
ProcessNewBlock(b, fForceProcessing) ==
    LET c == ProcessNewBlockHeaders(<<b>>)
        wanted == \/ fForceProcessing
                  \/ /\ Work(b) > Work(tip)
                     /\ Height[b] <= Height[tip] + MIN_BLOCKS_TO_KEEP
                     /\ Work(b) >= MinimumWork
    IN  IF RefusedHeaders(<<b>>) # {} THEN {c}
        ELSE ActivateBestChain([c EXCEPT !.data = IF wanted THEN @ \cup {b} ELSE @])

(***************************************************************************)
(* The peers.                                                              *)
(***************************************************************************)
NewNode(kind) ==
    [status |-> "open", kind |-> kind,
     fSuccessfullyConnected |-> FALSE, fDisconnect |-> FALSE,
     pindexBestKnownBlock |-> Null, hashLastUnknownBlock |-> Null,
     pindexLastCommonBlock |-> Null,
     fPreferredDownload |-> FALSE,
     fSyncStarted |-> FALSE, nHeadersSyncTimeout |-> FALSE,
     m_timeout |-> FALSE, m_protect |-> FALSE]
NoNode(status) == [NewNode("outbound") EXCEPT !.status = status]

IsOutboundDisconnectionCandidate(n) == n.kind = "outbound"

(* Once fDisconnect is set, only the fields FinalizeNode reads are read    *)
(* again; the others are dropped here.                                     *)
Closing(n) ==
    [n EXCEPT !.fDisconnect = TRUE,
              !.pindexBestKnownBlock = Null, !.hashLastUnknownBlock = Null,
              !.pindexLastCommonBlock = Null,
              !.nHeadersSyncTimeout = FALSE, !.m_timeout = FALSE]
ClosingIf(n, leave) == IF leave THEN Closing(n) ELSE n

(* Misbehaving with the full score: whitelisted and manual peers stay. *)
Punish(n) == ClosingIf(n, n.kind \notin {"whitelisted", "manual"})

Open(p) == node[p].status = "open"

NoRequest == [blocks |-> {}, compact |-> FALSE]

Init ==
    /\ chain = [index |-> {Genesis}, data |-> {Genesis}, failed |-> {},
                scripts |-> {Genesis}, tip |-> Genesis, pindexBestHeader |-> Genesis]
    /\ node = [p \in Peers |-> NoNode("new")]
    /\ download = NothingInFlight
    /\ nSyncStarted = 0 /\ nPreferredDownload = 0 /\ nProtected = 0
    /\ requests = [p \in Responsive |-> {}]
    /\ turn = NoPeer /\ phase = "idle"
    /\ hand = Null /\ toRequest = NoRequest

(* PushMessage of a getheaders or of a getdata; only the responsive peers' *)
(* outstanding requests matter.                                            *)
Pushed(r, p, messages) ==
    IF p \in Responsive THEN [r EXCEPT ![p] = @ \cup messages] ELSE r
(* A getheaders with the locator of b matters by where b's chain leaves the peer's. *)
GetHeaders(p, b) ==
    [type |-> "getheaders",
     block |-> IF p \in Responsive THEN LastCommonAncestor(b, PeerTip[p]) ELSE b]
GetBlock(b) == [type |-> "block", block |-> b]
GetCompact(b) == [type |-> "cmpct", block |-> b]
GetBlockTxn(b) == [type |-> "txn", block |-> b]

BetterKnown(n, b) ==
    IF n.pindexBestKnownBlock = Null \/ Work(b) >= Work(n.pindexBestKnownBlock)
    THEN b ELSE n.pindexBestKnownBlock

ProcessBlockAvailability(n, index) ==
    IF n.hashLastUnknownBlock \in index
    THEN [n EXCEPT !.pindexBestKnownBlock = BetterKnown(n, n.hashLastUnknownBlock),
                   !.hashLastUnknownBlock = Null]
    ELSE n

UpdateBlockAvailability(n0, b, index) ==
    LET n == ProcessBlockAvailability(n0, index) IN
    IF b \in index THEN [n EXCEPT !.pindexBestKnownBlock = BetterKnown(n, b)]
    ELSE [n EXCEPT !.hashLastUnknownBlock = b]

(***************************************************************************)
(* The socket thread.                                                      *)
(***************************************************************************)
(* cs_main is free: the handler is not in the middle of a batch of requests. *)
Unlocked == toRequest.blocks = {}

(* A connection; no thread looks at it before the handler's next pass. *)
InitializeNode(p, kind) ==
    /\ turn = NoPeer
    /\ node[p].status = "new"
    /\ node' = [node EXCEPT ![p] = NewNode(kind)]
    /\ UNCHANGED <<chain, download, counters, requests, handler>>

(* The peer closes the connection, or the socket fails.  In the middle of  *)
(* a pass this would only make the handler skip the peer's messages.       *)
CloseSocketDisconnect(p) ==
    /\ turn = NoPeer
    /\ Open(p) /\ ~node[p].fDisconnect
    /\ p \notin Responsive
    /\ node' = [node EXCEPT ![p] = Closing(@)]
    /\ UNCHANGED <<chain, download, counters, requests, handler>>

(* The socket thread has taken the node out of vNodes; it deletes it while *)
(* the handler does not refer to it.                                       *)
FinalizeNode(p) ==
    /\ Unlocked
    /\ Open(p) /\ node[p].fDisconnect
    /\ p # turn
    /\ nSyncStarted' = nSyncStarted - (IF node[p].fSyncStarted THEN 1 ELSE 0)
    /\ nPreferredDownload' = nPreferredDownload - (IF node[p].fPreferredDownload THEN 1 ELSE 0)
    /\ nProtected' = nProtected - (IF node[p].m_protect THEN 1 ELSE 0)
    /\ download' = FinalizeQueue(download, p)
    /\ node' = [node EXCEPT ![p] = NoNode("gone")]
    /\ requests' = IF p \in Responsive THEN [requests EXCEPT ![p] = {}] ELSE requests
    /\ UNCHANGED <<chain, handler>>

(***************************************************************************)
(* The message handler's turns.                                            *)
(***************************************************************************)
(* A turn may begin with this peer. *)
Ready(p) == turn = NoPeer /\ Open(p) /\ ~node[p].fDisconnect
At(p, ph) == turn = p /\ phase = ph /\ Unlocked

(* ProcessMessages is done with this peer and SendMessages is next. *)
Received(p) == phase' = "send" /\ hand' = Null /\ turn' = p

EndOfTurn == phase' = "idle" /\ hand' = Null /\ turn' = NoPeer

(* The version handshake. *)
ReceiveVersion(p) ==
    /\ Ready(p)
    /\ ~node[p].fSuccessfullyConnected
    /\ LET preferred == node[p].kind # "inbound" IN
        /\ node' = [node EXCEPT ![p].fSuccessfullyConnected = TRUE,
                                ![p].fPreferredDownload = preferred]
        /\ nPreferredDownload' = nPreferredDownload + (IF preferred THEN 1 ELSE 0)
    /\ Received(p)
    /\ UNCHANGED <<chain, download, nSyncStarted, nProtected, requests, toRequest>>

(* A message comes from a peer past its handshake. *)
Talks(p) == Ready(p) /\ node[p].fSuccessfullyConnected

(* What the responsive peers still owe once p has answered a request. *)
Answered(p, answered) ==
    IF p \in Responsive THEN [requests EXCEPT ![p] = @ \ answered] ELSE requests

(***************************************************************************)
(* Headers and announcements.                                              *)
(***************************************************************************)
Lowest(S, k) == {b \in S : Cardinality({c \in S : Height[c] < Height[b]}) < k}
Room(p) == MAX_BLOCKS_IN_TRANSIT_PER_PEER - download.nBlocksInFlight[p]
(* Mutant: blocks on disk are not left out. *)
MissingOrHere(b) == ~InFlight(download, b)

Missing(b) == b \notin chain.data /\ ~InFlight(download, b)

(* Near the tip, headers lead to requests at once; a walk that has met more *)
(* than MAX_BLOCKS_IN_TRANSIT_PER_PEER missing blocks stops short of the    *)
(* active chain and asks for none.                                          *)
DirectFetch(c, p, last) ==
    LET off == {b \in Blocks \ Active : b \in Chain[last]}
        missing == {b \in off : Missing(b)}
        largeReorg == \E b \in off :
            Cardinality({m \in missing : Height[m] > Height[b]})
                > MAX_BLOCKS_IN_TRANSIT_PER_PEER
        fetch == IF /\ CanDirectFetch /\ last \notin c.failed
                    /\ Work(tip) <= Work(last) /\ ~largeReorg
                 THEN Lowest(missing, Room(p)) ELSE {}
    IN  [blocks |-> fetch,
         compact |-> /\ Cardinality(fetch) = 1
                     /\ \A b \in Blocks : ~InFlight(download, b)
                     /\ Parent[last] \in c.scripts \ c.failed]

(* r: the requests outstanding before this message's own. *)
UnconnectingHeaders(p, headers, r) ==
    /\ Parent[headers[1]] \notin chain.index /\ Len(headers) < MAX_BLOCKS_TO_ANNOUNCE
    /\ node' = [node EXCEPT ![p] = UpdateBlockAvailability(@, headers[Len(headers)], chain.index)]
    /\ requests' = Pushed(r, p, {GetHeaders(p, chain.pindexBestHeader)})
    /\ UNCHANGED <<chain, nProtected, toRequest>>

RefuseHeaders(p, headers, punish, r) ==
    /\ Parent[headers[1]] \in chain.index \/ Len(headers) >= MAX_BLOCKS_TO_ANNOUNCE
    /\ RefusedHeaders(headers) # {}
    /\ chain' = ProcessNewBlockHeaders(headers)
    /\ LET first == CHOOSE b \in RefusedHeaders(headers) :
                        \A c \in RefusedHeaders(headers) : Height[b] <= Height[c]
       IN  node' = [node EXCEPT ![p] = ClosingIf(@, punish /\ first \in chain.index)]
    /\ requests' = r
    /\ UNCHANGED <<nProtected, toRequest>>

AcceptHeaders(p, headers, r) ==
    /\ Parent[headers[1]] \in chain.index
    /\ RefusedHeaders(headers) = {}
    /\ LET c == ProcessNewBlockHeaders(headers)
           last == headers[Len(headers)]
           full == Len(headers) = MAX_HEADERS_RESULTS
           n == UpdateBlockAvailability(node[p], last, c.index)
           leave == /\ IsInitialBlockDownload /\ ~full
                    /\ Work(n.pindexBestKnownBlock) < MinimumWork
                    /\ IsOutboundDisconnectionCandidate(n)
           protect == /\ ~leave /\ IsOutboundDisconnectionCandidate(n)
                      /\ nProtected < MAX_OUTBOUND_PEERS_TO_PROTECT
                      /\ Work(n.pindexBestKnownBlock) >= Work(tip)
                      /\ ~n.m_protect
       IN  /\ chain' = c
           /\ node' = [node EXCEPT ![p] = ClosingIf([n EXCEPT !.m_protect = @ \/ protect], leave)]
           /\ nProtected' = nProtected + (IF protect THEN 1 ELSE 0)
           /\ requests' = IF full THEN Pushed(r, p, {GetHeaders(p, last)}) ELSE r
           /\ toRequest' = DirectFetch(c, p, last)

ProcessHeadersMessage(p, headers, punish, r) ==
    \/ UnconnectingHeaders(p, headers, r)
    \/ RefuseHeaders(p, headers, punish, r)
    \/ AcceptHeaders(p, headers, r)

(* What a peer on the chain of peerTip answers to a getheaders. *)
HeadersAfter(fork, peerTip) ==
    LET path == Path(fork, peerTip)
    IN  SubSeq(path, 1, Lesser(Len(path), MAX_HEADERS_RESULTS))

(* The header messages p may send: the answers it owes, or a stretch of a  *)
(* chain it serves.                                                        *)
HeadersFrom(p) ==
    IF p \in Responsive
    THEN {HeadersAfter(r.block, PeerTip[p]) : r \in {q \in requests[p] : q.type = "getheaders"}}
    ELSE {h \in {Path(Parent[a], b) : a \in Serves[p], b \in Serves[p]} :
            /\ Len(h) \in 1..MAX_HEADERS_RESULTS
            /\ Range(h) \subseteq Serves[p]}

AskedFor(p, headers) ==
    {GetHeaders(p, b) : b \in {b \in Chain[PeerTip[p]] : HeadersAfter(b, PeerTip[p]) = headers}}

(* should_punish of the HEADERS handler. *)
Punished(p) == node[p].kind = "outbound"

ReceiveHeaders(p, headers) ==
    /\ Talks(p)
    /\ LET r == Answered(p, AskedFor(p, headers)) IN
        \/ /\ headers = <<>>
           /\ requests' = r
           /\ UNCHANGED <<chain, node, nProtected, toRequest>>
        \/ /\ headers # <<>>
           /\ ProcessHeadersMessage(p, headers, Punished(p), r)
    /\ Received(p)
    /\ UNCHANGED <<download, nSyncStarted, nPreferredDownload>>

ReceiveInv(p, b) ==
    /\ Talks(p)
    /\ node' = [node EXCEPT ![p] = UpdateBlockAvailability(@, b, chain.index)]
    /\ requests' = IF b \notin chain.index /\ ~InFlight(download, b)
                   THEN Pushed(requests, p, {GetHeaders(p, chain.pindexBestHeader)}) ELSE requests
    /\ Received(p)
    /\ UNCHANGED <<chain, download, counters, toRequest>>

(***************************************************************************)
(* Blocks.                                                                 *)
(***************************************************************************)
(* The block leaves the books, cs_main is released, ProcessNewBlock is next. *)
Process(p, b, force, clear) ==
    /\ phase' = "process"
    /\ hand' = [block |-> b, force |-> force, clear |-> clear]
    /\ turn' = p

ReceiveBlock(p, b) ==
    /\ Talks(p)
    /\ requests' = Answered(p, {GetBlock(b)})
    /\ download' = MarkBlockAsReceived(download, b)
    /\ Process(p, b, InFlight(download, b), FALSE)
    /\ UNCHANGED <<chain, node, counters, toRequest>>

(* A partially downloaded block is completed, or cannot be. *)
FillBlock(p, b, d, status, r) ==
    \/ /\ status = "filled"
       /\ download' = MarkBlockAsReceived(d, b)
       /\ requests' = r
       /\ Process(p, b, TRUE, FALSE)
    \/ /\ status = "failed"
       /\ download' = d
       /\ requests' = Pushed(r, p, {GetBlock(b)})
       /\ Received(p)
    \/ /\ status = "invalid"
       /\ download' = MarkBlockAsReceived(d, b)
       /\ requests' = r
       /\ Received(p)

Ignored(p, r) == requests' = r /\ Received(p) /\ UNCHANGED download

(* If the block was asked for, it is asked for whole. *)
AskWhole(p, b, r) ==
    /\ requests' = IF InFlight(download, b) THEN Pushed(r, p, {GetBlock(b)}) ELSE r
    /\ Received(p)
    /\ UNCHANGED download

(* The block is, or is put, in flight from p as a partial block. *)
StartPartial(p, b, status, r) ==
    IF b \in download.partialBlock
    THEN Ignored(p, r)
    ELSE LET d == [MarkBlockAsInFlight(download, p, b, TRUE)
                    EXCEPT !.partialBlock = @ \cup {b}]
         IN  \/ FillBlock(p, b, d, status, r)
             \/ /\ status = "some"
                /\ download' = d
                /\ requests' = Pushed(r, p, {GetBlockTxn(b)})
                /\ Received(p)

(* In flight from another peer, or p has no room: reconstructed all the same. *)
Optimistic(p, b, status, r) ==
    /\ requests' = r
    /\ IF status = "filled" THEN Process(p, b, TRUE, TRUE) ELSE Received(p)
    /\ UNCHANGED download

Useful(b) == b \notin chain.data /\ Work(b) > Work(tip) /\ (InFlight(download, b) \/ CanDirectFetch)
Near(b) == Height[b] <= Height[tip] + 2
Mine(p, b) ==
    \/ ~InFlight(download, b) /\ Room(p) > 0
    \/ download.mapBlocksInFlight[b] = p

CompactBlockKnown(p, b, status, r) ==
    \/ b \in chain.data /\ Ignored(p, r)
    \/ b \notin chain.data /\ Work(b) <= Work(tip) /\ AskWhole(p, b, r)
    \/ b \notin chain.data /\ Work(b) > Work(tip) /\ ~Useful(b) /\ Ignored(p, r)
    \/ Useful(b) /\ Near(b) /\ Mine(p, b) /\ StartPartial(p, b, status, r)
    \/ Useful(b) /\ Near(b) /\ ~Mine(p, b) /\ Optimistic(p, b, status, r)
    \/ Useful(b) /\ ~Near(b) /\ InFlight(download, b) /\ AskWhole(p, b, r)

ReceiveCompactBlock(p, b, status) ==
    /\ Talks(p)
    /\ UNCHANGED <<nSyncStarted, nPreferredDownload>>
    /\ LET r == Answered(p, {GetCompact(b)}) IN
        \/ /\ Parent[b] \notin chain.index
           /\ requests' = IF IsInitialBlockDownload THEN r
                          ELSE Pushed(r, p, {GetHeaders(p, chain.pindexBestHeader)})
           /\ Received(p)
           /\ UNCHANGED <<chain, node, download, nProtected, toRequest>>
        \/ /\ Parent[b] \in chain.index
           /\ RefusedHeaders(<<b>>) # {}
           /\ chain' = ProcessNewBlockHeaders(<<b>>)
           /\ requests' = r
           /\ Received(p)
           /\ UNCHANGED <<node, download, nProtected, toRequest>>
        \/ /\ Parent[b] \in chain.index
           /\ RefusedHeaders(<<b>>) = {}
           /\ IF Useful(b) /\ ~Near(b) /\ ~InFlight(download, b)
              THEN AcceptHeaders(p, <<b>>, r) /\ Received(p) /\ UNCHANGED download
              ELSE /\ chain' = ProcessNewBlockHeaders(<<b>>)
                   /\ LET n == UpdateBlockAvailability(node[p], b, chain'.index)
                          wrong == /\ status = "invalid" /\ b \notin download.partialBlock
                                   /\ Useful(b) /\ Near(b) /\ Mine(p, b)
                      IN  node' = [node EXCEPT ![p] = IF wrong THEN Punish(n) ELSE n]
                   /\ CompactBlockKnown(p, b, status, r)
                   /\ UNCHANGED <<nProtected, toRequest>>

Expected(p, b) == b \in download.partialBlock /\ download.mapBlocksInFlight[b] = p
ReceiveBlockTxn(p, b, status) ==
    /\ Talks(p)
    /\ LET r == Answered(p, {GetBlockTxn(b)}) IN
        IF Expected(p, b) THEN FillBlock(p, b, download, status, r) ELSE Ignored(p, r)
    /\ node' = IF Expected(p, b) /\ status = "invalid"
               THEN [node EXCEPT ![p] = Punish(@)] ELSE node
    /\ UNCHANGED <<chain, counters, toRequest>>

(* ProcessNewBlock, and what the handlers do after it. *)
ProcessBlock(p) ==
    /\ At(p, "process")
    /\ chain' \in ProcessNewBlock(hand.block, hand.force)
    /\ download' = IF hand.clear /\ hand.block \in chain'.data \ chain'.failed
                   THEN MarkBlockAsReceived(download, hand.block) ELSE download
    /\ Received(p)
    /\ UNCHANGED <<node, counters, requests, toRequest>>

(***************************************************************************)
(* SendMessages.                                                           *)
(***************************************************************************)
NothingToDownload(n) ==
    [blocks |-> {}, common |-> n.pindexLastCommonBlock, staller |-> NoPeer]

(* Mutant: only the block itself. *)
HaveBlock(b) == b \in chain.data

(* nChainTx: the block and all its ancestors are on disk. *)
HaveChain(b) == Chain[b] \subseteq chain.data

(* Mutant: towards the best header any peer has sent. *)
AnyBest(n) == IF n.pindexBestKnownBlock = Null THEN Null ELSE chain.pindexBestHeader

BestKnown(n) == n.pindexBestKnownBlock

(* The first block on the walk that is not here, if it is in flight. *)
WaitingFor(walk) ==
    LET flying == {b \in walk : InFlight(download, b) /\ b \notin chain.data}
    IN  IF flying = {} THEN NoPeer
        ELSE download.mapBlocksInFlight[CHOOSE b \in flying :
                \A c \in flying : Height[b] <= Height[c]]

(* FindNextBlocksToDownload for a node n with room for `count` blocks: the *)
(* blocks to ask for, the new pindexLastCommonBlock, and the peer the      *)
(* window waits for.                                                       *)
FindNextBlocksToDownload(p, n, count) ==
    LET best == BestKnown(n)
        guess == IF n.pindexLastCommonBlock # Null THEN n.pindexLastCommonBlock
                 ELSE GetAncestor(tip, Lesser(Height[best], Height[tip]))
        fork == LastCommonAncestor(guess, best)
        nWindowEnd == Height[fork] + BLOCK_DOWNLOAD_WINDOW
        walk == {b \in Blocks :
                    /\ b \in Chain[best] \ Chain[fork]
                    /\ Height[b] <= nWindowEnd + 1
                    /\ Chain[b] \cap chain.failed \subseteq Chain[fork]}
        linked == {b \in walk : HaveChain(b)} \cup {fork}
        vBlocks == Lowest({b \in walk : Missing(b) /\ Height[b] <= nWindowEnd}, count)
        beyond == \E b \in walk : Missing(b) /\ Height[b] > nWindowEnd
        waitingfor == WaitingFor(walk)
    IN  IF \/ best = Null \/ count = 0
           \/ Work(best) < Work(tip) \/ Work(best) < MinimumWork
        THEN NothingToDownload(n)
        ELSE [blocks |-> vBlocks,
              common |-> CHOOSE b \in linked : \A c \in linked : Height[c] <= Height[b],
              staller |-> IF beyond /\ vBlocks = {} /\ waitingfor # p
                          THEN waitingfor ELSE NoPeer]

(* Start block sync. *)
Fetches(n) == n.fPreferredDownload \/ nPreferredDownload = 0
HeadersRecent == Height[chain.pindexBestHeader] >= RecentHeight
(* Mutant: one sync peer at a time even when the headers are recent. *)
StartsSyncAlone(p) == ~node[p].fSyncStarted /\ nSyncStarted = 0 /\ Fetches(node[p])

StartsSync(p) ==
    ~node[p].fSyncStarted /\ (HeadersRecent \/ (nSyncStarted = 0 /\ Fetches(node[p])))

StartSync(p) ==
    LET n == IF StartsSync(p) THEN [node[p] EXCEPT !.fSyncStarted = TRUE,
                                                   !.nHeadersSyncTimeout = TRUE]
             ELSE node[p]
    IN  ProcessBlockAvailability(n, chain.index)
SyncRequests(p) ==
    IF ~StartsSync(p) THEN {}
    ELSE {GetHeaders(p, IF chain.pindexBestHeader = Genesis THEN Genesis
                        ELSE Parent[chain.pindexBestHeader])}

(* The clocks of a peer that run when SendMessages reads the time, and may *)
(* be past their timeouts; a responsive peer is in time.                   *)
Clocks(p) ==
    {k \in {"stalling", "download", "headers", "chain"} :
        /\ p \notin Responsive
        /\ CASE k = "stalling" -> download.nStallingSince[p]
             [] k = "download" -> download.vBlocksInFlight[p] # <<>>
             [] k = "headers" -> node[p].nHeadersSyncTimeout
             [] k = "chain" -> node[p].m_timeout}

(* The only header sync peer is late, and there is another to turn to. *)
HeadersTimeout(n, late) ==
    /\ "headers" \in late /\ n.fSyncStarted
    /\ ~HeadersRecent /\ nSyncStarted = 1
    /\ nPreferredDownload - (IF n.fPreferredDownload THEN 1 ELSE 0) >= 1

(* The peer stalls the download window, or owes a block or headers too long. *)
TimedOut(n, late) ==
    \/ late \cap {"stalling", "download"} # {}
    \/ HeadersTimeout(n, late) /\ n.kind # "whitelisted"

CheckHeadersSync(n, late) ==
    IF n.fSyncStarted /\ HeadersRecent THEN [n EXCEPT !.nHeadersSyncTimeout = FALSE]
    ELSE IF HeadersTimeout(n, late)
         THEN [n EXCEPT !.fSyncStarted = FALSE, !.nHeadersSyncTimeout = FALSE]
         ELSE n

(* An outbound peer whose chain stays behind the one we were on is left.   *)
(* Its clock stands for CHAIN_SYNC_TIMEOUT and the wait for the answer to  *)
(* the last getheaders after it; starting it afresh does not show.         *)
Considered(n) == IsOutboundDisconnectionCandidate(n) /\ n.fSyncStarted /\ ~n.m_protect
Behind(n) == n.pindexBestKnownBlock = Null \/ Work(n.pindexBestKnownBlock) < Work(tip)
ConsiderEviction(n, late) ==
    ClosingIf([n EXCEPT !.m_timeout = IF Considered(n) THEN Behind(n) ELSE @],
              Considered(n) /\ Behind(n) /\ "chain" \in late)

(* A message was processed, or none was waiting. *)
BeforeSend(p) == At(p, "send") \/ Ready(p)

(* SendMessages leaves early: no handshake yet, the node is closing, or    *)
(* cs_main is taken.                                                       *)
SendNothing(p) ==
    /\ At(p, "send")
    /\ UNCHANGED <<chain, node, download, counters, requests, toRequest>>
    /\ EndOfTurn

Sends(p) == BeforeSend(p) /\ node[p].fSuccessfullyConnected /\ ~node[p].fDisconnect

(* SendRejectsAndCheckIfBanned finds fShouldBan: scores are not kept, so   *)
(* any peer that sends of its own accord may have earned it.               *)
SendBanned(p) ==
    /\ Sends(p) /\ p \notin Responsive
    /\ node' = [node EXCEPT ![p] = Punish(@)]
    /\ EndOfTurn
    /\ UNCHANGED <<chain, download, counters, requests, toRequest>>

SendTimeout(p, late) ==
    /\ Sends(p)
    /\ LET n == StartSync(p) IN
        /\ TimedOut(n, late)
        /\ node' = [node EXCEPT ![p] = Closing(n)]
    /\ nSyncStarted' = nSyncStarted + (IF StartsSync(p) THEN 1 ELSE 0)
    /\ requests' = Pushed(requests, p, SyncRequests(p))
    /\ EndOfTurn
    /\ UNCHANGED <<chain, download, nPreferredDownload, nProtected, toRequest>>

SendRequests(p, late) ==
    /\ Sends(p)
    /\ LET n == StartSync(p)
           checked == CheckHeadersSync(n, late)
       IN  /\ ~TimedOut(n, late)
           /\ nSyncStarted' = nSyncStarted + (IF StartsSync(p) THEN 1 ELSE 0)
                                - (IF n.fSyncStarted /\ ~checked.fSyncStarted THEN 1 ELSE 0)
           /\ requests' = Pushed(requests, p, SyncRequests(p))
           /\ \E next \in {IF ~IsInitialBlockDownload \/ Fetches(n)
                           THEN FindNextBlocksToDownload(p, n, Room(p))
                           ELSE NothingToDownload(n)} :
               /\ node' = [node EXCEPT ![p] = ConsiderEviction(
                            [checked EXCEPT !.pindexLastCommonBlock = next.common], late)]
               /\ toRequest' = [blocks |-> next.blocks, compact |-> FALSE]
               /\ download' = IF next.staller # NoPeer /\ download.nBlocksInFlight[p] = 0
                              THEN [download EXCEPT !.nStallingSince[next.staller] = TRUE]
                              ELSE download
               /\ IF next.blocks = {} THEN EndOfTurn
                  ELSE phase' = "sent" /\ turn' = p /\ UNCHANGED hand
    /\ UNCHANGED <<chain, nPreferredDownload, nProtected>>

(* One round of the loops that end in MarkBlockAsInFlight; the getdata of  *)
(* a single block may ask for a compact one.                               *)
RequestBlock(p) ==
    /\ turn = p /\ ~Unlocked
    /\ \E b \in Lowest(toRequest.blocks, 1) :
        /\ download' = MarkBlockAsInFlight(download, p, b, FALSE)
        /\ requests' = Pushed(requests, p, {IF toRequest.compact THEN GetCompact(b)
                                                                 ELSE GetBlock(b)})
        /\ toRequest' = [blocks |-> toRequest.blocks \ {b}, compact |-> FALSE]
        /\ UNCHANGED node
        /\ IF phase = "sent" /\ toRequest.blocks = {b} THEN EndOfTurn
           ELSE UNCHANGED <<turn, phase, hand>>
    /\ UNCHANGED <<chain, counters>>

(***************************************************************************)
(* The specification.                                                      *)
(***************************************************************************)
(* The messages a peer may send.  A responsive one only answers.  A block  *)
(* already on disk is left alone, unless it was asked for; how a compact   *)
(* block turns out matters only where it is put together.                  *)
Owes(p, request) == p \in Responsive => request \in requests[p]
News(p) == {b \in Serves[p] : b \notin chain.data \/ InFlight(download, b)}
Outcomes(p) ==
    {"filled", "failed"} \cup (IF Punish(node[p]).fDisconnect THEN {"invalid"} ELSE {})
CompactOutcomes(p, b) == IF Useful(b) /\ Near(b) THEN Outcomes(p) \cup {"some"} ELSE {"filled"}
TxnOutcomes(p, b) == IF Expected(p, b) THEN Outcomes(p) ELSE {"filled"}

ReceiveMessage(p) ==
    /\ Talks(p)
    /\ \/ \E h \in HeadersFrom(p) : ReceiveHeaders(p, h)
       \/ \E b \in News(p) :
            /\ Owes(p, GetBlock(b))
            /\ ReceiveBlock(p, b)
       \/ \E b \in News(p) :
            /\ Owes(p, GetCompact(b))
            /\ \E status \in CompactOutcomes(p, b) : ReceiveCompactBlock(p, b, status)
       \/ \E b \in Serves[p] :
            /\ Owes(p, GetBlockTxn(b))
            /\ \E status \in TxnOutcomes(p, b) : ReceiveBlockTxn(p, b, status)
       \/ \E b \in Serves[p] : p \notin Responsive /\ ReceiveInv(p, b)

SendMessages(p) ==
    /\ Sends(p)
    /\ \E late \in SUBSET Clocks(p) : SendTimeout(p, late) \/ SendRequests(p, late)

Next ==
    \E p \in Peers :
        \/ \E kind \in KindsOf[p] : InitializeNode(p, kind)
        \/ CloseSocketDisconnect(p) \/ FinalizeNode(p)
        \/ ReceiveVersion(p) \/ ReceiveMessage(p) \/ ProcessBlock(p)
        \/ SendNothing(p) \/ SendBanned(p) \/ SendMessages(p) \/ RequestBlock(p)

Spec == Init /\ [][Next]_vars
-----------------------------------------------------------------------------
(* The books agree.  A block is in the map exactly if it is on the list of *)
(* the peer the map names, once; the counters of a peer are the length of  *)
(* its list; a peer without a CNodeState owes nothing; and each global     *)
(* counter is the number of peers it stands for.  This is what             *)
(* MarkBlockAsReceived dereferences and what FinalizeNode asserts when the *)
(* last peer goes.                                                         *)
BooksExact ==
    /\ \A p \in Peers :
        /\ IsInjective(download.vBlocksInFlight[p])
        /\ Range(download.vBlocksInFlight[p]) =
            {b \in Blocks : download.mapBlocksInFlight[b] = p}
        /\ download.nBlocksInFlight[p] = Len(download.vBlocksInFlight[p])
        /\ download.nBlocksInFlightValidHeaders[p] = Len(download.vBlocksInFlight[p])
        /\ ~Open(p) => download.vBlocksInFlight[p] = <<>>
    /\ \A b \in download.partialBlock : InFlight(download, b)
    /\ download.nPeersWithValidatedDownloads =
        Cardinality({p \in Peers : download.vBlocksInFlight[p] # <<>>})
    /\ nPreferredDownload = Cardinality({p \in Peers : node[p].fPreferredDownload})
    /\ nSyncStarted = Cardinality({p \in Peers : node[p].fSyncStarted})
    /\ nProtected = Cardinality({p \in Peers : node[p].m_protect})

(* A peer that is held to stall the download has a block to deliver: none  *)
(* is disconnected as "stalling block download" for nothing.               *)
StallersOwe ==
    \A p \in Peers : download.nStallingSince[p] =>
        Open(p) /\ download.vBlocksInFlight[p] # <<>>

(* A peer is asked only for blocks of chains it is on, whichever of the    *)
(* three ways of asking is used: a walk that follows another peer's        *)
(* headers would wait for a block this one cannot have.                    *)
OnlyAnnounced ==
    \A p \in Peers : \A b \in Range(download.vBlocksInFlight[p]) :
        \E a \in Serves[p] : b \in Chain[a]

(* pindexLastCommonBlock is "the last full block we both have": all blocks *)
(* up to it are on disk, so no block below a peer's download window is     *)
(* missing, and the peer serves it.                                        *)
LastCommonIsFull ==
    \A p \in Peers : node[p].pindexLastCommonBlock # Null =>
        /\ Chain[node[p].pindexLastCommonBlock] \subseteq chain.data
        /\ \E a \in Serves[p] \cup {Genesis} : node[p].pindexLastCommonBlock \in Chain[a]

(* A block is not asked for again once it is here: neither while it is on  *)
(* disk nor while it is on its way from the message to the disk.           *)
NeverAskedTwice ==
    [][\A b \in Blocks :
        ~InFlight(download, b) /\ InFlight(download, b)' =>
            b \notin chain.data /\ (hand # Null => hand.block # b)]_vars

(* SendMessages has nothing to ask p for, and no window to move on. *)
AtRest(p) ==
    LET next == FindNextBlocksToDownload(p, StartSync(p), Room(p)) IN
    /\ ~StartsSync(p)
    /\ \/ IsInitialBlockDownload /\ ~Fetches(node[p])
       \/ next.blocks = {} /\ next.common = node[p].pindexLastCommonBlock

(* The download never comes to rest too early.  Once a responsive peer has *)
(* answered everything, SendMessages has nothing to ask it for, and no     *)
(* timeout of another peer is left to wait for, that peer's chain is       *)
(* active, or one with as much work: whatever the other peer announced,    *)
(* sent, withheld or took with it when it left.                            *)
NeverStuck ==
    \A p \in Responsive :
        /\ turn = NoPeer /\ node[p].fSuccessfullyConnected
        /\ requests[p] = {} /\ AtRest(p)
        /\ \A q \in Peers \ Responsive :
            /\ ~node[q].fDisconnect /\ download.vBlocksInFlight[q] = <<>>
            /\ node[q].nHeadersSyncTimeout => HeadersRecent
        => Work(tip) >= Work(PeerTip[p])
=============================================================================
