CONSTANTS
    Names = {n1, n2}
    Addresses = {a1}
    Passes = {w1, w2}
    Procs = {p1}
    MaxEnvelopes = 3
    Operations <- AllOperations
    Crashes = FALSE
    Windows = FALSE
    DefaultFile = DefaultFile
    None = None
    Torn = Torn
SPECIFICATION Spec
SYMMETRY Symmetry
INVARIANTS OnePasscode
