SPECIFICATION SysSpec
CONSTANTS
    s1 = s1  s2 = s2  s3 = s3  alice = alice  bob = bob  pw = pw
    Session = {s1, s2, s3}
    NoSession = NoSession
    Passphrase = {alice, bob}
    Password = {pw}
    MaxUserId = 2
    Commands <- Requests
    SavedFlags <- NoFlags
    HistoryLimits <- Limits
    HalfWord = 4
    ForeignKeys = TRUE
    DbFaults = FALSE
    MaxSent = 2
    MaxFrames = 5
    MaxFailures = 1
    Plans <- Applications
    Accounts <- AliceOnly
INVARIANTS BundleIsOwnHistory SnapshotPrecedesStream ShownIsMail HistoryFailsOnlyWhenPushed
PROPERTIES CallReturns PushedIsShown SentIsHandled
