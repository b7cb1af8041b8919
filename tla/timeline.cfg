SPECIFICATION MCSpec
CONSTANTS
    u1 = u1  u2 = u2  u3 = u3  k1 = k1  k2 = k2
    Scopes = {"uploads", "caps"}
    Uploads = {u1, u2, u3}
    KeyOf <- MCKeyOf
    NoKey = NoKey  First = First  None = None
    Requests = {q1, q2}
    Solves = {j}
    OwnCaps = {2}  ServerCaps = {1, 2}
    MaxVersion = 4
INVARIANTS Linear  ConflictHonest 
PROPERTY Protected
SYMMETRY MCSymmetry
