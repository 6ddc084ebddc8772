CONSTANTS
    Blocks <- MCBlocks
    Genesis = "g"
    Parent <- MCParent
    Height <- MCHeight
    Vtx <- MCVtx
    Issues <- MCIssues
    OutPoints <- MCOutPoints
    Null <- MCNull
    Spent = Spent
    NoUndo = NoUndo
    MaxCrashes = 2
SPECIFICATION Spec
INVARIANTS
    CoinsMatchTip
    StartupSucceeds
PROPERTIES
    FlushCompleted
    
