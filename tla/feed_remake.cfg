SPECIFICATION FairSpec
CONSTANTS
    p = p
    q = q
    a = a
    b = b
    Plans = {p}
    Txs = {a}
    Desktops = {"d"}
    Epochs = {"e", "f"}
    NoEpoch = NoEpoch
    Ops = {"create", "upload", "update", "trash", "restore", "checkpoint", "result", "purge"}
    Page = 1
    MaxClock = 3
PROPERTIES Mirrors CatchesUp
