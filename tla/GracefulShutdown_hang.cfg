CONSTANTS
    s1 = s1
    s2 = s2
    NoSession = NoSession
    Session = {s1, s2}
    Task = {request, deferred, heartbeat}
    Heartbeat = {heartbeat}
    Detached = {deferred}
    MaxMessages = 2
    KeepRecent = 1
    SummarizeOnOverflow = FALSE
    Requests <- ChatsOnly
    Ttl = 0
    PersistEnabled = TRUE
    SaveMayFail = TRUE
    LoadMayFail = FALSE
    MaxTurns = 2
    MaxClock = 0
SPECIFICATION HangingSpec
PROPERTY GraceEndsProcess
