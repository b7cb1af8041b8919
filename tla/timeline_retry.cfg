SPECIFICATION MCSpec
CONSTANTS
    u1 = u1  u2 = u2  u3 = u3  k1 = k1  k2 = k2
    Scopes = {"uploads"}
    Uploads = {u1, u2, u3}
    KeyOf <- MCKeyOf
    NoKey = NoKey  First = First  None = None
    Requests = {q}
    Solves = {}
    OwnCaps = {}  ServerCaps = {1}
    MaxVersion = 4
INVARIANTS LostAnswerNoConflict
