SPECIFICATION Spec
CONSTANTS
    Sessions = {s1}
    Accounts = {a1}
    Intents = {i1}
    Kinds = {"classic"}
    ClassicTimeout = 3
    SorobanTimeout = 3
    TTL = 2
    PollAttempts = 2
    MaxNow = 3
    MaxBuilds = 3
    NoTx = NoTx
CHECK_DEADLOCK FALSE
INVARIANT ReconciledBeforeReplaced
