SPECIFICATION Spec
CONSTANTS
    Session = {s1, s2, s3}
    NoSession = NoSession
    Passphrase = {alice, bob}
    Password = {pw}
    MaxUserId = 2
    Commands <- MessageOnly
    SavedFlags <- NoFlags
    HistoryLimits <- NoLimits
    HalfWord = 4
    ForeignKeys = TRUE
    DbFaults = FALSE
    MaxSent = 2
    MaxFrames = 1
SYMMETRY SessionSymmetry
INVARIANTS TypeOK RouteIsLive RoutedUntilFirstLeave SoleSessionReachable EventIsGenuine
PROPERTIES MailSpec
