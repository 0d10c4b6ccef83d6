CONSTANTS
    k1 = k1
    k2 = k2
    Passes = {w1, w2}
    Secrets = {"seed"}
    Mnemonics = {"phrase"}
    Ambiguous = {"phrase"}
    MaxIndex = 1
    MaxEnvelopes = 2
    Keys = {k1, k2}
    HintOf <- MCHintOf
    Networks = {"public", "test"}
    Transactions <- MCTransactions
    Entries <- MCEntries
    Grants <- MCGrants
    MaxSignatures = 2
    MaxAnswers = 1
    MaxTime = 2
SPECIFICATION MCSpec
SYMMETRY Symmetry
INVARIANTS
    SignedIsSatisfied
    AgentWithinGrant
    SignersAreKept
    CodesGuide
PROPERTIES
    SignaturesAreKept
