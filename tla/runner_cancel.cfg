SPECIFICATION Spec
CONSTANTS
    p1 = p1  p2 = p2  i = i  j = j  k = k
    Jobs = {i}
    Plans = {p1}
    Nodes = {n}
    PlanOf <- MCPlanOf
    NoNode = NoNode
    Limits = {1}
    Watchers = {}
INVARIANTS CancelFinds
