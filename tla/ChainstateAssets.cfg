CONSTANTS
    Blocks <- MCBlocks
    Genesis = "g"
    Parent <- MCParent
    Height <- MCHeight
    Vtx <- MCVtx
    Issues <- MCIssues
    OutPoints <- MCOutPoints
    Null <- MCNull
    Spent = Spent
    NoUndo = NoUndo
    MaxCrashes = 1
SPECIFICATION Spec
INVARIANT AssetsMatchTip
