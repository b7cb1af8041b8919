SPECIFICATION Spec
CONSTANTS
    p = p
    q = q
    a = a
    b = b
    Plans = {p}
    Txs = {a, b}
    Desktops = {"d"}
    Epochs = {"e"}
    NoEpoch = NoEpoch
    Ops = {"create", "upload", "update", "trash", "restore", "checkpoint", "result", "purge"}
    Page = 1
    MaxClock = 5
INVARIANTS NoMiss StampsAlone
PROPERTY Mirrors
SYMMETRY MCSymmetry
