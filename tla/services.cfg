CONSTANTS
    Signers = {"s1"}
    Aliases = {"a1", "a2", "a3"}
    MaxVersion = 1
    WritesFail = FALSE
    None = None
    Anchors <- TwoAnchors
    Accounts = {"C", "D"}
    Networks = {"public", "test"}
    Plans <- MCPlans
    MaxTime = 2
    ListedDocuments <- MCDocuments
    FormDocuments <- MCForms
    PaymentDocuments <- SometimesDown
    FormAnswers <- OneAnswer
    PaymentAnswers <- ManyAnswers
    FormIds = {"first"}
    PaymentIds = {"first", "second"}
    Account = "local"
    Options <- MCOptions
    Languages = {"en"}
    Names <- MCNames
    Values = {"", "value"}
    MaxFields = 2
    NoValue = NoValue
    MaxHead = 9
    SharedHead = 6
    Page = 2
    CacheLimit = 4
SPECIFICATION MCSpec
INVARIANTS
    DurableDomainHasItsKey
    PostedIsBound
    AnchorIsUnderstood
    HistoryIsWhole
PROPERTIES
    RemovedDomainIsClosed
    AuthenticationEnds
    SyncEnds
\* The session is over when the challenge has been exchanged, and an account ends.
CHECK_DEADLOCK FALSE
