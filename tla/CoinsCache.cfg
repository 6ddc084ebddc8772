CONSTANTS
    OutPoints = {o1, o2}
    Coins = {c1, c2}
    Spent = Spent
    Absent = Absent
SPECIFICATION Spec
INVARIANTS
    FlagsSound
    NoLogicError
PROPERTIES
    EffectsExact
    ImplementsCoinsView
