CONSTANTS
    s1 = s1
    s2 = s2
    NoSession = NoSession
    Session = {s1, s2}
    Task = {t1, t2}
    MaxMessages = 2
    KeepRecent = 1
    SummarizeOnOverflow = FALSE
    Requests <- ChatRequests
    Ttl = 2
    PersistEnabled = TRUE
    SaveMayFail = FALSE
    LoadMayFail = FALSE
    MaxTurns = 2
    MaxClock = 3
SPECIFICATION Spec
INVARIANT ChatKeepsSession
