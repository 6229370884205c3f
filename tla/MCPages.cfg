SPECIFICATION Spec
CONSTANTS
    Kinds <- AllPages
    MaxAsks = 2
    MaxPuts = 2
    MaxEdits = 2
    MaxTyped <- OneMoreText
    MaxWrites = 2
INVARIANTS
    TypeOK
    NewestShown
    OwnEditsKept
    RestingIsCurrent
    AnswersTyped
    NoSilentEmpty
PROPERTIES
    WorkRunsOut
    Settles
CHECK_DEADLOCK FALSE
