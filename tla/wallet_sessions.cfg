CONSTANTS
    n1 = n1
    n2 = n2
    n3 = n3
    a1 = a1
    a2 = a2
    a3 = a3
    w1 = w1
    w2 = w2
    p1 = p1
    p2 = p2
    p3 = p3
    DefaultFile = DefaultFile
    None = None
    Torn = Torn
SPECIFICATION Spec
SYMMETRY Symmetry
INVARIANTS SessionIsCurrent SessionKeyFits OnePasscode
PROPERTIES ReplacementIsOnDisk
\* Every envelope the bound allows may have been made.
CHECK_DEADLOCK FALSE
