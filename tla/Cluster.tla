------------------------------- MODULE Cluster -------------------------------
(***************************************************************************)
(* What the nodes of a cluster use to agree without talking first: ids     *)
(* from a generator per machine, vector clocks on the replicas of a key,   *)
(* the ring that places keys on nodes and the cells that a proximity       *)
(* search is sharded by. The packages share no state, so a behaviour       *)
(* exercises one of them, named by part.                                   *)
(***************************************************************************)
EXTENDS Integers

CONSTANTS
    Machines, maxSequence, maxBackwardWait, Epoch, TimestampLimit,
    MaxMilli, MaxSteps, MaxRestarts, MaxIds,
    Nodes, MaxWrites,
    virtualNodes, Size,
    HalfLat, HalfLng, CharBits, MaxPrecision

VARIABLES
    part,
    clock, sequence, lastMilli, pc, issued, steps, restarts, floor, rewound,
    versions, written, past, seen,
    hash, nodes, positions, owners,
    lat, lng, precision

Generators == INSTANCE Snowflake
Replicas == INSTANCE VersionedReplicas
Ring == INSTANCE HashRing
Geo == INSTANCE Geohash

ASSUME Assumptions ==
    /\ Generators!SnowflakeAssumption /\ Replicas!ReplicasAssumption
    /\ Ring!RingAssumption /\ Geo!GeoAssumption

generatorVars ==
    <<clock, sequence, lastMilli, pc, issued, steps, restarts, floor, rewound>>
replicaVars == <<versions, written, past, seen>>
ringVars == <<hash, nodes, positions, owners>>
geoVars == <<lat, lng, precision>>
vars == <<part, generatorVars, replicaVars, ringVars, geoVars>>

Parts == {"ids", "replicas", "ring", "geo"}

Start == Generators!Init /\ Replicas!Init /\ Ring!Init /\ Geo!Init

Init == part \in Parts /\ Start

IdStep ==
    part = "ids" /\ Generators!Next /\ UNCHANGED <<part, replicaVars, ringVars, geoVars>>
ReplicaStep ==
    part = "replicas" /\ Replicas!Next /\ UNCHANGED <<part, generatorVars, ringVars, geoVars>>
RingStep ==
    part = "ring" /\ Ring!Next /\ UNCHANGED <<part, generatorVars, replicaVars, geoVars>>
GeoStep ==
    part = "geo" /\ Geo!Next /\ UNCHANGED <<part, generatorVars, replicaVars, ringVars>>

Next == IdStep \/ ReplicaStep \/ RingStep \/ GeoStep

Spec == Init /\ [][Next]_vars

\* snowflake.go:14-22, :121-122: no id is returned twice, but by a clock that a restart
\* made the generator forget, and an id tells its machine and time.
IdsAreSound == Generators!IdsAreSound

\* clock.go:8-11: clocks compare as the writes they stamp are causally ordered.
ClockIsCausality == Replicas!ClockIsCausality

\* clock.go:168-169: a replica holds the writes it knows that nothing it knows replaces.
HoldsTheFrontier == Replicas!HoldsTheFrontier

\* ring_test.go:64-65, ring.go:86-87: every key has its full set of different replicas,
\* and only a node that joins or leaves changes it.
PlacementIsStable ==
    [][part = "ring" => Ring!OnlyNecessaryMoves /\ Ring!ReplicasAreDistinctNodes']_vars

\* geohash.go:134-136: what is less than a cell away is in the area searched.
NearbyIsFound == part = "geo" => Geo!NearbyIsFound
=============================================================================
