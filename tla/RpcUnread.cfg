CONSTANTS
    Clients = {k1, k2}
    k1 = k1
    k2 = k2
    Customers = {alice, bob}
    alice = alice
    bob = bob
    Keys = {key}
    key = key
    Anyone = Anyone
    NoKey = NoKey
    Requests <- MCRequests
    SendBuffer = 1
    MaxConns = 2
    MaxCalls = 3
    Base = 16
    WordBits = 10
    MaxBytes = 3
    MaxHops = 2
SPECIFICATION MCSpec
INVARIANT AnswersMatchCalls
