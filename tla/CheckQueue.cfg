CONSTANTS
    Workers = {w1, w2}
    Masters = {m1}
    Interruptible = {w1, m1}
    MaxChecks = 4
    nBatchSize = 2
    None = None
SPECIFICATION Spec
INVARIANTS
    NoCheckLost
    VerdictExact
    QuietAfterWait
PROPERTIES
    ControlReleased
