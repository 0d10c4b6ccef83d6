CONSTANTS
    k1 = k1
    k2 = k2
    k3 = k3
    h = h
    NotLoaded = NotLoaded
    Keys = {k1, k2, k3}
    Others = {h}
    Accounts <- TwoAccounts
    Ledgers <- MCLedgers
    Envelopes <- MCEnvelopes
    Custodies <- MCCustodies
    Requests <- MCRequests
    MaxChanges = 1
SPECIFICATION MCSpec
INVARIANTS
    AcceptedByNetwork
    SelectionIsComplete
    PasscodeBeforeProviders
    EverySignatureCounts
    ReviewIsHonest
    AcceptedByAnchor
