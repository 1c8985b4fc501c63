CONSTANTS
    Callers = {c1, c2, c3}
    FailureThreshold = 2
    SuccessThreshold = 2
    OpenTimeout = 1
    HalfOpenMaxCalls = 2
    Calls = {c1, c2, c3}
    TryCalls = {c3}
    Capacity = 1
    Attempts = {0, 3, 6}
    Bases = {0, 2, 3}
    Caps = {0, 5, 12}
    Multipliers = {0, 1, 3}
    MaxDuration = 31
    Scale = 2
    capacity = 3
    rate = 1
    limit = 3
    window = 4
    MaxTime = 10
    MaxGrants = 7
SPECIFICATION Spec
INVARIANTS ProbesOfPeriodCapped WithinCapacity DelayWithinBounds OneLateCall EverySpanIsBounded NeverStingy
PROPERTIES Recovers SlotsComeBack
