SPECIFICATION MCSpec
CONSTANTS
    p1 = p1  p2 = p2  v1 = v1  x = x  y = y
    Engines = {"sqlite", "postgres"}
    Plans = {p1, p2}
    Rows = {v1, v2, x, y}
    Keys = {d1, x}
    PlanOf <- MCPlanOf
    SourceOf <- MCSourceOf
    NoRow = NoRow  Unused = Unused  Gone = Gone
    Writers = {a, b}
    Sweepers = {s, t}
    Removers = {m}
    SweepAge = 3
    OpTime = 1
    MaxClock = 4
INVARIANTS NamedStored NoLeakSerial
SYMMETRY MCSymmetry
