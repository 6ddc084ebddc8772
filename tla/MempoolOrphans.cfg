CONSTANTS
    None = None
    Kind <- MCKind
    Worlds <- RivalWorlds
    MaxHeight = 2
    MaxBlockTxs = 2
    MaxPoolTxs = 3
    MaxDisconnected = 4
    LimitAncestors = 3
    LimitDescendants = 3
    MinRelayFee = 1
    IncrementalFee = 1
    CoinbaseMaturity = 1
    MaxDelta = 1
    Favourites <- MCFavourites
    MaxExpired = 1
SPECIFICATION Spec
INVARIANTS
    PoolConsistent
