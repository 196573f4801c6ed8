CONSTANTS
    s1 = s1
    s2 = s2
    NoSession = NoSession
    Session = {s1, s2}
    Task = {t1, t2}
    MaxMessages = 2
    KeepRecent = 1
    SummarizeOnOverflow = TRUE
    Requests <- WritingRequests
    Ttl = 0
    PersistEnabled = TRUE
    SaveMayFail = TRUE
    LoadMayFail = TRUE
    MaxTurns = 3
    MaxClock = 0
SPECIFICATION Spec
SYMMETRY Symmetry
INVARIANTS
    TypeOK
    DiskMatchesMemory
    TurnsNeverMix
    HistoryHasNoHoles
    HistoryIsBounded
    TurnsSawTheirPast
