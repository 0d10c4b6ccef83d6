SPECIFICATION MCSpec
CONSTANTS
    Sessions = {s1}
    Accounts = {a1, a2}
    Intents = {i1}
    Kinds = {"classic", "soroban"}
    ClassicTimeout = 1
    SorobanTimeout = 2
    TTL = 2
    PollAttempts = 2
    MaxNow = 3
    MaxBuilds = 3
    NoTx = NoTx
CHECK_DEADLOCK FALSE
SYMMETRY Symmetry
INVARIANTS TypeOK ExpiredIsLate ReplacedOnlyIfExposed
PROPERTIES OpenRecordsSurvive ImplementsOneOpenWrite
