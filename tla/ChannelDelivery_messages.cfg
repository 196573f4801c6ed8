\* Two requests: enough for a repetition that overlaps the first request, and
\* for a turn that follows another.
CONSTANTS
    None = None
    Blank = Blank
    Secrets = {"telegram", "slack", "discord"}
    Tokens = {"telegram", "discord"}
    MaxSkew = 1
    PersistEnabled = TRUE
    SaveMayFail = TRUE
    LoadMayFail = TRUE
    MaxOffers = 2
    Event <- MCEvent
    Proofs <- MCProofs
SPECIFICATION Spec
INVARIANTS
    SeenIsRemembered
PROPERTIES
    KeepsContract
    DeferredIsAnswered
CHECK_DEADLOCK FALSE
