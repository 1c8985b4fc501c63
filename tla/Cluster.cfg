CONSTANTS
    Machines = 2
    maxSequence = 1
    maxBackwardWait = 1
    Epoch = 1
    TimestampLimit = 3
    MaxMilli = 4
    MaxSteps = 1
    MaxRestarts = 1
    MaxIds = 4
    Nodes = {n1, n2, n3}
    MaxWrites = 4
    virtualNodes = 2
    Size = 6
    MerkleKeys <- MCKeys
    MerkleValues <- MCValues
    Sep = 1
    Absent = Absent
    HalfLat = 8
    HalfLng = 16
    CharBits = 3
    MaxPrecision = 2
SPECIFICATION MCSpec
INVARIANTS IdsAreSound ClockIsCausality HoldsTheFrontier FindsEveryDifference NearbyIsFound
PROPERTY PlacementIsStable
