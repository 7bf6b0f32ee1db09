SPECIFICATION Spec
CONSTANTS
    Session = {s1, s2}
    NoSession = NoSession
    Passphrase = {alice, bob}
    Password = {pw, other}
    MaxUserId = 2
    Commands <- Command
    SavedFlags <- BothFlags
    HistoryLimits <- OneRow
    HalfWord = 4
    ForeignKeys = TRUE
    DbFaults = TRUE
    MaxSent = 1
    MaxFrames = 1
SYMMETRY SessionSymmetry
INVARIANTS AccountIntegrity
PROPERTIES RowsAreKept
