CONSTANTS
    Names = {n1, n2}
    Addresses = {a1, a2}
    Passes = {w1}
    Procs = {p1}
    MaxEnvelopes = 2
    Operations <- AllOperations
    Crashes = TRUE
    Windows = FALSE
    DefaultFile = DefaultFile
    None = None
    Torn = Torn
SPECIFICATION Spec
SYMMETRY Symmetry
INVARIANTS FilesAreWhole
PROPERTIES OnlyDeletionRemoves ImplementsMap
