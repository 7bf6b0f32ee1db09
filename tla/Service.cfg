SPECIFICATION FairSpec
CONSTANTS
    Session = {s1, s2}
    NoSession = NoSession
    Passphrase = {alice, bob}
    Password = {pw}
    MaxUserId = 2
    Commands <- HistoryOnly
    SavedFlags <- NoFlags
    HistoryLimits <- HugeLimit
    HalfWord = 4
    ForeignKeys = TRUE
    DbFaults = FALSE
    MaxSent = 1
    MaxFrames = 2
INVARIANTS HistoryCoversQueued
PROPERTIES QueuedIsWritten LeavingIsUnrouted AcceptedIsServed
