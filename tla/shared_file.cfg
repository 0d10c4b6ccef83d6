SPECIFICATION Spec
CONSTANTS
    Sessions = {s1, s2}
    Accounts = {a1}
    Intents = {i1}
    Kinds = {"classic"}
    ClassicTimeout = 2
    SorobanTimeout = 1
    TTL = 3
    PollAttempts = 2
    MaxNow = 4
    MaxBuilds = 3
    NoTx = NoTx
CHECK_DEADLOCK FALSE
PROPERTY OpenRecordsSurvive
