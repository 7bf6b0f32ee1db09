SPECIFICATION SysSpec
CONSTANTS
    s1 = s1  s2 = s2  s3 = s3  alice = alice  bob = bob  pw = pw
    Session = {s1, s2}
    NoSession = NoSession
    Passphrase = {alice, bob}
    Password = {pw}
    MaxUserId = 2
    Commands <- Requests
    SavedFlags <- NoFlags
    HistoryLimits <- Limits
    HalfWord = 4
    ForeignKeys = TRUE
    DbFaults = FALSE
    MaxSent = 0
    MaxFrames = 1
    MaxFailures = 0
    Plans <- HistoryThenStream
    Accounts <- AliceOnly
INVARIANTS StreamStaysRouted
