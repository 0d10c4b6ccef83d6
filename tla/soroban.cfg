CONSTANTS
    h1 = h1
    h2 = h2
    b1 = b1
    b2 = b2
    e1 = e1
    e2 = e2
    k1 = k1
    k2 = k2
    Handles = {h1, h2}
    Bodies = {b1, b2}
    Networks = {n1, n2}
    Entries = {e1, e2}
    Kinds = {"address", "source", "delegated"}
    Keys = {k1, k2}
    MaxTime = 0
    MaxNow = 1
    None = None
SPECIFICATION MCSpec
INVARIANTS SignedIsReviewed SubmittedIsSigned OneTransactionPerReview
