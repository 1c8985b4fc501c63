CONSTANTS
    c1 = c1
    c2 = c2
    c3 = c3
    c4 = c4
    c5 = c5
    k1 = k1
    b1 = b1
    b2 = b2
    Calls = {c1, c2, c3, c4, c5}
    Keys = {k1}
    NoKey = NoKey
    Bodies = {b1, b2}
    KeyOf <- MCKeyOf
    BodyOf <- MCBodyOf
    TTL = 1
    MaxTime = 4
SPECIFICATION Spec
INVARIANT RepliesMatchRequests
