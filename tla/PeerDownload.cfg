CONSTANTS
    Null = Null
    NoPeer = NoPeer
    Blocks <- MCBlocks
    Genesis = "g"
    Parent <- MCParent
    Height <- MCHeight
    Peers = {1, 2}
    Responsive = {2}
    Invalid = {"x2"}
    Serves <- MCServes
    KindsOf <- MCKindsOf
    PeerTip <- MCPeerTip
    RecentHeight = 1
    DirectHeight = 1
    MinimumWork = 1
    MAX_BLOCKS_IN_TRANSIT_PER_PEER = 2
    BLOCK_DOWNLOAD_WINDOW = 1
    MAX_HEADERS_RESULTS = 2
    MAX_BLOCKS_TO_ANNOUNCE = 2
    MIN_BLOCKS_TO_KEEP = 3
    MAX_OUTBOUND_PEERS_TO_PROTECT = 1
SPECIFICATION Spec
INVARIANTS
    BooksExact
    StallersOwe
    OnlyAnnounced
    LastCommonIsFull
    NeverStuck
PROPERTIES
    NeverAskedTwice
