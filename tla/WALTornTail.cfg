CONSTANTS
    Keys = {k1, k2}
    Values = {v1}
    Oversized = {}
    MaxAppends = 3
SPECIFICATION Spec
INVARIANT AckedIsRecovered
