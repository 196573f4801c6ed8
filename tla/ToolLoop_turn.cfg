CONSTANTS
    MaxIterations = 3
    TimeoutSet = TRUE
    Tool = {"file_write", "shell_exec"}
    Blocking = {"shell_exec"}
    Answers <- AllAnswers
SPECIFICATION FairSpec
INVARIANTS
    TypeOK
    EveryCallReported
    ContextIsPaired
    ReportIsTrue
    MetricsCountExecutions
PROPERTY TurnEnds
\* The system stops when the turn and its threads have ended.
CHECK_DEADLOCK FALSE
