SPECIFICATION Spec
CONSTANTS
    Ids = {k1, k2, k3}
    Authors = {a1, a2, a3}
    MaxKeys = 4
    Replaces = FALSE
SYMMETRY Symmetry
INVARIANTS
    TypeOK
    ShownStaysPinned
    PinnedIsRecoverable
