CONSTANTS
    Blocks <- MCBlocks
    Genesis = "g"
    Parent <- MCParent
    Height <- MCHeight
    Null <- MCNull
    Work <- MCWork
    Address <- MCAddress
    Threads = {"t1"}
    ContextFails = {"a3"}
    ConnectFails = {"b2"}
    RpcBlocks = {"a1", "a2", "b1", "b2"}
    CarefulOperator = TRUE
    MaxPrecious = 2
    Idle = "idle"
SPECIFICATION Spec
INVARIANTS
    NoAbort
    
    CandidatesExact
    FailedHaveCause
    
    BestChainActive
