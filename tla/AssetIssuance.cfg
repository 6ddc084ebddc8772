CONSTANTS
    Names <- MCNames
    Restricted <- MCRestricted
    Txs <- MCTxs
    Blocks <- MCBlocks
    MaxMoney = 3
    MaxHeight = 3
    None = None
    Gone = Gone
SPECIFICATION Spec
INVARIANTS
    AssetsExact
    DumpExact
    LookupsFresh
    
    VerifierExact
