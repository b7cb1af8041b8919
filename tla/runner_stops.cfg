SPECIFICATION Spec
CONSTANTS
    p1 = p1  p2 = p2  i = i  j = j  k = k
    Jobs = {i, j}
    Plans = {p1}
    Nodes = {n}
    PlanOf <- MCPlanOf
    NoNode = NoNode
    Limits = {1, 2}
    Watchers = {}
INVARIANTS  DeletedStops RevokedStops DoneKept  Drained
SYMMETRY MCSymmetry
