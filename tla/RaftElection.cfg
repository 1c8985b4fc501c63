CONSTANTS
    N = 3
    Steppers = {s1}
    PartitionSets = {{0}, {1, 2}}
    MinTimeout = 1
    MaxTimeout = 3
    MaxTerm = 2
SPECIFICATION FairSpec
INVARIANTS ElectionSafety HeartbeatsSuppressElections
PROPERTIES MinorityElectsNoLeader LeadersConverge
