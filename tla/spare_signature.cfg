CONSTANTS
    k1 = k1
    k2 = k2
    k3 = k3
    h = h
    NotLoaded = NotLoaded
    Keys = {k1, k2, k3}
    Others = {h}
    Accounts <- TwoAccounts
    Ledgers <- TwoAccountLedgers
    Envelopes <- TwoAccountEnvelopes
    Custodies <- TwoAccountCustodies
    Requests <- TwoAccountRequests
    MaxChanges = 0
SPECIFICATION Spec
INVARIANTS OnlyNeededSignatures
