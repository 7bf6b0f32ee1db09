SPECIFICATION Spec
CONSTANTS
    Session = {s1, s2}
    NoSession = NoSession
    Passphrase = {alice, bob}
    Password = {pw}
    MaxUserId = 2
    Commands <- MessageOnly
    SavedFlags <- NoFlags
    HistoryLimits <- NoLimits
    HalfWord = 4
    ForeignKeys = TRUE
    DbFaults = FALSE
    MaxSent = 1
    MaxFrames = 1
INVARIANTS UnknownStillPersisted
