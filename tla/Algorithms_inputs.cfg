\* One call, then TLC stops.
CONSTANTS
    MaxMessages = 4
    KeepRecent = 2
    SummarizeOnOverflow = TRUE
    NoHeader = NoHeader
    Second = 2
    Minute = 10
    PerMinute = 3
    MaxBody = 2
    ApiToken = "t"
    MinChars = 2
    MaxOf <- MCMaxOf
    DefaultOf <- MCDefaultOf
    Tick = 2
    FetchTimeout = 4
    MaxRedirects = 1
    PromptMax = 5
    SearchMax = 6
    Radius = 1
    ChunkMax = 3
SPECIFICATION Spec
INVARIANTS
    TruncationComposes
    CompactionKeepsRecent
    LayersAreNested
    GlobsMatchMeaning
    SearchesAreComplete
    ParsersKeepSchemas
    WebAnswersAreBounded
    PagesShowTheirParts
    ReportsAreTrue
    MemoryReachesPrompt
    SetupIsRepeatable
    ExportsComeBack
    AnswersAreKept
CHECK_DEADLOCK FALSE
