SPECIFICATION Spec
CONSTANTS
    w1 = w1
    w2 = w2
    Ids = {"a", "b"}
    First = "a"
    Workers = {w1, w2}
    Nobody = Nobody
    Edits <- MCEdits
    MaxHash = 3
INVARIANTS Handed SignedOut
PROPERTIES AdminLeft NothingUndone
SYMMETRY MCSymmetry
