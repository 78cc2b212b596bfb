SPECIFICATION Spec
CONSTANTS
    c1 = c1
    s1 = s1
    s2 = s2
SYMMETRY Symmetry
INVARIANTS
    HistoryStaysValid
    LiveIsManaged
    ClaimsAreSpaced
    ReplacementIsSafe
PROPERTIES
    NothingAfterFence
CHECK_DEADLOCK FALSE
