SPECIFICATION AppSpec
CONSTANTS
    Stream = {t1, t2}
    NoStream = NoStream
    User = {alice}
    Caller = {c1, c2}
    MaxLines = 2
    Lists = {t1}
    Peer = {bob}
    MaxEvents = 1
    MaxParts = 3
INVARIANTS EntryIsLive SoleStreamUsable WrittenInOrder OkIsKept PageFollowsGroup BubblesAreAccepted
PROPERTIES AcceptedIsWritten SendEnds
