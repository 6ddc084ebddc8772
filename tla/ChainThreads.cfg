CONSTANTS
    Blocks <- MCUneven
    Genesis = "g"
    Parent <- MCParent
    Height <- MCHeight
    Null <- MCNull
    Work <- MCWork
    Address <- MCAddress
    Threads = {"t1", "t2"}
    ContextFails = {}
    ConnectFails = {"b2"}
    RpcBlocks = {}
    CarefulOperator = TRUE
    MaxPrecious = 0
    Idle = "idle"
SPECIFICATION Spec
INVARIANT NoAbort
PROPERTY Activates
