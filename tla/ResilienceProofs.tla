-------------------------- MODULE ResilienceProofs --------------------------
(***************************************************************************)
(* Proofs about the resilience patterns for every value of their           *)
(* parameters. The patterns are instances inside Resilience; what they     *)
(* take from FiniteSets is shown to be the same operators first.           *)
(***************************************************************************)
EXTENDS Resilience, Sequences, FiniteSetTheorems, NaturalsInduction, WellFoundedInduction, TLAPS

LEMMA CountingIsShared ==
    /\ \A S : Breaker!Cardinality(S) = Cardinality(S)
    /\ \A S : Breaker!IsFiniteSet(S) <=> IsFiniteSet(S)
    /\ \A S : Compartment!Cardinality(S) = Cardinality(S)
    /\ \A S : Compartment!IsFiniteSet(S) <=> IsFiniteSet(S)
<1>1. \A S : Breaker!Cardinality(S) = Cardinality(S)
  BY DEF Breaker!Cardinality, Cardinality
<1>2. \A S : Breaker!IsFiniteSet(S) <=> IsFiniteSet(S)
  BY DEF Breaker!IsFiniteSet, IsFiniteSet
<1>3. \A S : Compartment!Cardinality(S) = Cardinality(S)
  BY DEF Compartment!Cardinality, Cardinality
<1>4. \A S : Compartment!IsFiniteSet(S) <=> IsFiniteSet(S)
  BY DEF Compartment!IsFiniteSet, IsFiniteSet
<1> QED BY <1>1, <1>2, <1>3, <1>4

-----------------------------------------------------------------------------
(* The circuit breaker.                                                    *)

LEMMA BreakerConstants == IsFiniteSet(Callers) /\ HalfOpenMaxCalls \in Nat \ {0}
BY Assumptions, CountingIsShared DEF Assumptions, Breaker!BreakerAssumption

\* halfOpenCall counts every probe admitted in the period, those that have returned
\* included, and there are probes of the present period only while it lasts.
BreakerInv ==
    /\ halfOpenCall \in 0 .. HalfOpenMaxCalls
    /\ role \in [Callers -> Breaker!Roles]
    /\ state # "halfOpen" => Breaker!Probes = {}
    /\ Cardinality(Breaker!Probes) <= halfOpenCall

\* Fewer probes count no more.
LEMMA FewerProbes ==
    ASSUME Breaker!Probes' \subseteq Breaker!Probes
    PROVE  /\ Cardinality(Breaker!Probes') \in Nat
           /\ Cardinality(Breaker!Probes) \in Nat
           /\ Cardinality(Breaker!Probes') <= Cardinality(Breaker!Probes)
<1>1. IsFiniteSet(Breaker!Probes)
  BY BreakerConstants, FS_Subset DEF Breaker!Probes
<1>2. IsFiniteSet(Breaker!Probes')
  BY <1>1, FS_Subset
<1> QED BY <1>1, <1>2, FS_Subset, FS_CardinalityType

LEMMA BreakerInit == Breaker!Init => BreakerInv
<1> SUFFICES ASSUME Breaker!Init PROVE BreakerInv
  OBVIOUS
<1>1. Breaker!Probes = {}
  BY DEF Breaker!Init, Breaker!Probes
<1> QED
  BY <1>1, FS_EmptySet, BreakerConstants DEF Breaker!Init, BreakerInv, Breaker!Roles

LEMMA BreakerNext == BreakerInv /\ [Breaker!Next]_breakerVars => BreakerInv'
<1> SUFFICES ASSUME BreakerInv, [Breaker!Next]_breakerVars PROVE BreakerInv'
  OBVIOUS
<1> USE BreakerConstants
<1>1. ASSUME NEW c \in Callers, Breaker!Pass(c) PROVE BreakerInv'
  <2>1. Breaker!Probes' = Breaker!Probes
    BY <1>1 DEF Breaker!Pass, Breaker!Probes, BreakerInv
  <2> QED BY <1>1, <2>1 DEF Breaker!Pass, BreakerInv, Breaker!Roles
<1>2. ASSUME NEW c \in Callers, Breaker!FirstProbe(c) PROVE BreakerInv'
  <2>1. Breaker!Probes' = {c}
    BY <1>2 DEF Breaker!FirstProbe, Breaker!Probes, BreakerInv
  <2>2. Cardinality(Breaker!Probes') = 1
    BY <2>1, FS_Singleton, Zenon
  <2> QED BY <1>2, <2>2 DEF Breaker!FirstProbe, BreakerInv, Breaker!Roles
<1>3. ASSUME NEW c \in Callers, Breaker!Probe(c) PROVE BreakerInv'
  <2>1. Breaker!Probes' = Breaker!Probes \cup {c} /\ c \notin Breaker!Probes
    BY <1>3 DEF Breaker!Probe, Breaker!Probes, BreakerInv
  <2>2. Cardinality(Breaker!Probes') = Cardinality(Breaker!Probes) + 1
    BY <2>1, FS_AddElement, FS_Subset DEF Breaker!Probes
  <2>3. Cardinality(Breaker!Probes) \in Nat
    BY FS_Subset, FS_CardinalityType DEF Breaker!Probes
  <2> QED BY <1>3, <2>2, <2>3 DEF Breaker!Probe, BreakerInv, Breaker!Roles
<1>4. ASSUME NEW c \in Callers, Breaker!Failure(c) PROVE BreakerInv'
  <2>1. CASE Breaker!FailureTrips /\ state # "open"
    <3>1. Breaker!Probes' = {}
      BY <1>4, <2>1 DEF Breaker!Failure, Breaker!EndPeriod, Breaker!Probes
    <3> QED
      BY <1>4, <2>1, <3>1, FS_EmptySet
      DEF Breaker!Failure, Breaker!EndPeriod, BreakerInv, Breaker!Roles
  <2>2. CASE ~ (Breaker!FailureTrips /\ state # "open")
    <3>1. state # "halfOpen"
      BY <2>2 DEF Breaker!FailureTrips
    <3>2. Breaker!Probes' = {}
      BY <1>4, <2>2, <3>1 DEF Breaker!Failure, Breaker!Probes, BreakerInv
    <3> QED
      BY <1>4, <2>2, <3>2, FS_EmptySet DEF Breaker!Failure, BreakerInv, Breaker!Roles
  <2> QED BY <2>1, <2>2
<1>5. ASSUME NEW c \in Callers, Breaker!Success(c) PROVE BreakerInv'
  <2>1. CASE Breaker!SuccessCloses(c)
    <3>1. Breaker!Probes' = {}
      BY <2>1 DEF Breaker!SuccessCloses, Breaker!EndPeriod, Breaker!Probes
    <3> QED
      BY <2>1, <3>1, FS_EmptySet
      DEF Breaker!SuccessCloses, Breaker!EndPeriod, BreakerInv, Breaker!Roles
  <2>2. CASE ~ Breaker!SuccessCloses(c)
    <3>1. role' = [role EXCEPT ![c] = "none"] /\ UNCHANGED <<state, halfOpenCall>>
      BY <1>5, <2>2 DEF Breaker!Success, Breaker!SuccessCounts
    <3>2. Breaker!Probes' \subseteq Breaker!Probes
      BY <3>1 DEF Breaker!Probes, BreakerInv
    <3> QED BY <3>1, <3>2, FewerProbes DEF BreakerInv, Breaker!Roles
  <2> QED BY <2>1, <2>2
<1>6. ASSUME NEW c \in Callers, Breaker!Panic(c) PROVE BreakerInv'
  <2>1. Breaker!Probes' \subseteq Breaker!Probes
    BY <1>6 DEF Breaker!Panic, Breaker!Probes, BreakerInv
  <2> QED BY <1>6, <2>1, FewerProbes DEF Breaker!Panic, BreakerInv, Breaker!Roles
<1>7. CASE Breaker!Tick \/ Breaker!Repair \/ UNCHANGED breakerVars
  BY <1>7 DEF Breaker!Tick, Breaker!Repair, breakerVars, BreakerInv, Breaker!Probes
<1> QED
  BY <1>1, <1>2, <1>3, <1>4, <1>5, <1>6, <1>7
  DEF Breaker!Next, Breaker!beforeCall, Breaker!afterCall

\* CircuitBreaker.ProbesOfPeriodCapped (breaker_test.go:154) for any number of callers and
\* any thresholds: however late results arrive, at most HalfOpenMaxCalls probes of one
\* half-open period are in flight.
THEOREM ProbesCapped == Spec => []ProbesOfPeriodCapped
<1>1. Init => BreakerInv
  BY BreakerInit DEF Init
<1>2. BreakerInv /\ [Next]_vars => BreakerInv'
  BY BreakerNext
  DEF Next, BreakerStep, BulkheadStep, RetryStep, LimiterStep, vars, breakerVars
<1>3. BreakerInv => ProbesOfPeriodCapped
  <2> SUFFICES ASSUME BreakerInv PROVE ProbesOfPeriodCapped
    OBVIOUS
  <2>1. Cardinality(Breaker!Probes) \in Nat
    BY BreakerConstants, FS_Subset, FS_CardinalityType DEF Breaker!Probes
  <2> QED
    BY <2>1, CountingIsShared, BreakerConstants
    DEF BreakerInv, ProbesOfPeriodCapped, Breaker!ProbesOfPeriodCapped
<1> QED BY <1>1, <1>2, <1>3, PTL DEF Spec

-----------------------------------------------------------------------------
(* The bulkhead.                                                           *)

LEMMA BulkheadConstants == IsFiniteSet(Calls) /\ Capacity \in Nat \ {0}
BY Assumptions, CountingIsShared DEF Assumptions, Compartment!BulkheadAssumption

Labels == {"select", "granted", "accepted", "running", "deactivate", "release", "done"}
Holding == {"granted", "accepted", "running", "deactivate", "release"}
Counted == {"running", "deactivate"}

\* The channel holds one token per call between Acquire and Release, and active is the
\* number of calls between Enter and Deactivate, which are some of them.
BulkheadInv ==
    /\ bulkPc \in [Calls -> Labels]
    /\ slots = Cardinality(Compartment!At(Holding)) /\ slots <= Capacity
    /\ active = Cardinality(Compartment!At(Counted))

LEMMA AtIsFinite ==
    ASSUME NEW L
    PROVE  IsFiniteSet(Compartment!At(L)) /\ Cardinality(Compartment!At(L)) \in Nat
BY BulkheadConstants, FS_Subset, FS_CardinalityType DEF Compartment!At

\* What a step of call c from one label to another does to the number of calls in L.
LEMMA GotoCounts ==
    ASSUME NEW c \in Calls, NEW l \in Labels, Compartment!Goto(c, l), NEW CONSTANT L,
           bulkPc \in [Calls -> Labels]
    PROVE  /\ bulkPc' \in [Calls -> Labels]
           /\ (l \in L <=> bulkPc[c] \in L) =>
                 Cardinality(Compartment!At(L)') = Cardinality(Compartment!At(L))
           /\ l \in L /\ bulkPc[c] \notin L =>
                 Cardinality(Compartment!At(L)') = Cardinality(Compartment!At(L)) + 1
           /\ l \notin L /\ bulkPc[c] \in L =>
                 Cardinality(Compartment!At(L)') = Cardinality(Compartment!At(L)) - 1
<1>1. bulkPc' = [bulkPc EXCEPT ![c] = l]
  BY DEF Compartment!Goto
<1>2. ASSUME l \in L <=> bulkPc[c] \in L PROVE Compartment!At(L)' = Compartment!At(L)
  BY <1>1, <1>2 DEF Compartment!At
<1>3. ASSUME l \in L, bulkPc[c] \notin L
      PROVE  Cardinality(Compartment!At(L)') = Cardinality(Compartment!At(L)) + 1
  <2>1. Compartment!At(L)' = Compartment!At(L) \cup {c} /\ c \notin Compartment!At(L)
    BY <1>1, <1>3 DEF Compartment!At
  <2> QED BY <2>1, AtIsFinite, FS_AddElement
<1>4. ASSUME l \notin L, bulkPc[c] \in L
      PROVE  Cardinality(Compartment!At(L)') = Cardinality(Compartment!At(L)) - 1
  <2>1. Compartment!At(L)' = Compartment!At(L) \ {c} /\ c \in Compartment!At(L)
    BY <1>1, <1>4 DEF Compartment!At
  <2> QED BY <2>1, AtIsFinite, FS_RemoveElement
<1> QED BY <1>1, <1>2, <1>3, <1>4

LEMMA BulkheadInit == Compartment!Init => BulkheadInv
<1> SUFFICES ASSUME Compartment!Init PROVE BulkheadInv
  OBVIOUS
<1>1. Compartment!At(Holding) = {} /\ Compartment!At(Counted) = {}
  BY DEF Compartment!Init, Compartment!At, Holding, Counted
<1> QED
  BY <1>1, FS_EmptySet, BulkheadConstants DEF Compartment!Init, BulkheadInv, Labels

LEMMA BulkheadNext == BulkheadInv /\ [Compartment!Next]_bulkVars => BulkheadInv'
<1> SUFFICES ASSUME BulkheadInv, [Compartment!Next]_bulkVars PROVE BulkheadInv'
  OBVIOUS
<1> DEFINE H == Cardinality(Compartment!At(Holding))
           A == Cardinality(Compartment!At(Counted))
<1>1. H \in Nat /\ A \in Nat /\ Capacity \in Nat
  BY AtIsFinite, BulkheadConstants
<1>2. bulkPc \in [Calls -> Labels] /\ slots = H /\ slots <= Capacity /\ active = A
  BY DEF BulkheadInv
<1>3. ASSUME NEW c \in Calls, NEW l \in Labels, Compartment!Goto(c, l)
      PROVE  /\ bulkPc' \in [Calls -> Labels]
             /\ (l \in Holding <=> bulkPc[c] \in Holding) => H' = H
             /\ l \in Holding /\ bulkPc[c] \notin Holding => H' = H + 1
             /\ l \notin Holding /\ bulkPc[c] \in Holding => H' = H - 1
             /\ (l \in Counted <=> bulkPc[c] \in Counted) => A' = A
             /\ l \in Counted /\ bulkPc[c] \notin Counted => A' = A + 1
             /\ l \notin Counted /\ bulkPc[c] \in Counted => A' = A - 1
  BY <1>2, <1>3, GotoCounts
<1> HIDE DEF H, A
<1>4. ASSUME NEW c \in Calls, Compartment!Do(c)
      PROVE  bulkPc' \in [Calls -> Labels] /\ slots' = H' /\ slots' <= Capacity /\ active' = A'
  <2> USE DEF Labels, Holding, Counted
  <2>1. CASE Compartment!Acquire(c)
    BY <1>1, <1>2, <1>3, <2>1 DEF Compartment!Acquire
  <2>2. CASE Compartment!RejectDo(c)
    BY <1>1, <1>2, <1>3, <2>2 DEF Compartment!RejectDo
  <2>3. CASE Compartment!RejectTryDo(c)
    BY <1>1, <1>2, <1>3, <2>3 DEF Compartment!RejectTryDo
  <2>4. CASE Compartment!CountAccepted(c)
    BY <1>1, <1>2, <1>3, <2>4 DEF Compartment!CountAccepted
  <2>5. CASE Compartment!Enter(c)
    BY <1>1, <1>2, <1>3, <2>5 DEF Compartment!Enter
  <2>6. CASE Compartment!Finish(c)
    BY <1>1, <1>2, <1>3, <2>6 DEF Compartment!Finish
  <2>7. CASE Compartment!Deactivate(c)
    BY <1>1, <1>2, <1>3, <2>7 DEF Compartment!Deactivate
  <2>8. CASE Compartment!Release(c)
    BY <1>1, <1>2, <1>3, <2>8 DEF Compartment!Release
  <2> QED
    BY <1>4, <2>1, <2>2, <2>3, <2>4, <2>5, <2>6, <2>7, <2>8 DEF Compartment!Do
<1>5. ASSUME UNCHANGED <<slots, active, bulkPc>> PROVE BulkheadInv'
  BY <1>5 DEF BulkheadInv, Compartment!At
<1>6. ASSUME NEW c \in Calls, Compartment!Expire(c) PROVE BulkheadInv'
  BY <1>5, <1>6 DEF Compartment!Expire
<1>7. CASE Compartment!AllReturned \/ UNCHANGED bulkVars
  BY <1>5, <1>7 DEF Compartment!AllReturned, Compartment!vars, bulkVars
<1> QED BY <1>4, <1>6, <1>7 DEF Compartment!Next, BulkheadInv, H, A

\* Bulkhead.WithinCapacity (bulkhead_test.go:39) for any number of calls and any capacity:
\* however the updates of channel and counters interleave, Active hides no running fn
\* and does not exceed the capacity.
THEOREM CapacityKept == Spec => []WithinCapacity
<1>1. Init => BulkheadInv
  BY BulkheadInit DEF Init
<1>2. BulkheadInv /\ [Next]_vars => BulkheadInv'
  BY BulkheadNext
  DEF Next, BreakerStep, BulkheadStep, RetryStep, LimiterStep, vars, bulkVars
<1>3. BulkheadInv => WithinCapacity
  <2> SUFFICES ASSUME BulkheadInv PROVE WithinCapacity
    OBVIOUS
  <2>1. /\ Compartment!At({"running"}) \subseteq Compartment!At(Counted)
        /\ Compartment!At(Counted) \subseteq Compartment!At(Holding)
    BY DEF Compartment!At, Counted, Holding
  <2>2. /\ Cardinality(Compartment!At({"running"})) <= Cardinality(Compartment!At(Counted))
        /\ Cardinality(Compartment!At(Counted)) <= Cardinality(Compartment!At(Holding))
    BY <2>1, AtIsFinite, FS_Subset
  <2>3. /\ Cardinality(Compartment!At({"running"})) \in Nat
        /\ Cardinality(Compartment!At(Counted)) \in Nat
        /\ Cardinality(Compartment!At(Holding)) \in Nat
    BY AtIsFinite
  <2> QED
    BY <2>2, <2>3, CountingIsShared, BulkheadConstants
    DEF BulkheadInv, WithinCapacity, Compartment!WithinCapacity
<1> QED BY <1>1, <1>2, <1>3, PTL DEF Spec

-----------------------------------------------------------------------------
(* The retry policy.                                                       *)

LEMMA RetryConstants ==
    /\ Attempts \subseteq Nat /\ Bases \subseteq Nat /\ Caps \subseteq Nat
    /\ Multipliers \subseteq Nat /\ MaxDuration \in Nat
    /\ \A b \in Bases \cup Caps : b <= MaxDuration
BY Assumptions DEF Assumptions, Retrier!RetryAssumption

Outcomes == {"ok", "permanent", "rejected", "transient"}

\* What Do counts, by where it stands: a call that began after the cancellation is the
\* last one, because no check is passed any more; the attempts made so far are those
\* before the present one, and all of them failed in a way worth a retry.
RetryInv ==
    /\ retryPc \in {"idle", "check", "call", "run", "sleep", "done"}
    /\ attempt \in Nat \ {0}
    /\ outcomes \in Seq(Outcomes)
    /\ retryPc # "idle" => policy.MaxAttempts \in Nat \ {0}
    /\ late \in {0, 1}
    /\ late = 1 => cancelled /\ retryPc \in {"check", "run", "sleep", "done"}
    /\ retryPc \in {"idle", "check", "call", "run"} => Len(outcomes) = attempt - 1
    /\ retryPc = "idle" => attempt = 1
    /\ retryPc \in {"check", "call", "run"} => attempt <= policy.MaxAttempts
    /\ retryPc = "sleep" => Len(outcomes) = attempt /\ attempt < policy.MaxAttempts
    /\ retryPc = "done" => Len(outcomes) <= policy.MaxAttempts
    /\ retryPc # "done" => \A i \in 1 .. Len(outcomes) : outcomes[i] = "transient"
    /\ \A i \in 1 .. (Len(outcomes) - 1) : outcomes[i] = "transient"

LEMMA RetryInit == Retrier!Init => RetryInv
BY DEF Retrier!Init, RetryInv

LEMMA RetryNext == RetryInv /\ [Retrier!Next]_retryVars => RetryInv'
<1> SUFFICES ASSUME RetryInv, [Retrier!Next]_retryVars PROVE RetryInv'
  OBVIOUS
<1> USE DEF RetryInv
<1>1. CASE Retrier!Start
  <2>1. PICK p \in Retrier!Policies : policy' = Retrier!Filled(p)
    BY <1>1 DEF Retrier!Start
  <2>2. p.MaxAttempts \in Nat
    BY <2>1, RetryConstants DEF Retrier!Policies
  <2>3. policy'.MaxAttempts \in Nat \ {0}
    BY <2>1, <2>2 DEF Retrier!Filled, Retrier!Policies
  <2> QED BY <1>1, <2>3 DEF Retrier!Start
<1>2. CASE Retrier!Check \/ Retrier!CheckCancelled
  BY <1>2 DEF Retrier!Check, Retrier!CheckCancelled, Retrier!Return
<1>3. CASE Retrier!Call
  BY <1>3 DEF Retrier!Call
<1>4. CASE Retrier!FnEnds
  <2>1. PICK r \in Outcomes : outcomes' = Append(outcomes, r) /\ retryPc' = "done"
    BY <1>4 DEF Retrier!FnEnds, Retrier!Return, Outcomes
  <2> QED BY <1>4, <2>1 DEF Retrier!FnEnds
<1>5. CASE Retrier!FnExhausts
  BY <1>5 DEF Retrier!FnExhausts, Retrier!Return, Outcomes
<1>6. CASE Retrier!FnFails
  <2>1. outcomes' \in Seq(Outcomes) /\ Len(outcomes') = Len(outcomes) + 1
    BY <1>6 DEF Retrier!FnFails, Outcomes
  <2>2. \A i \in 1 .. Len(outcomes') : outcomes'[i] = "transient"
    BY <1>6 DEF Retrier!FnFails, Outcomes
  <2> QED BY <1>6, <2>1, <2>2 DEF Retrier!FnFails
<1>7. CASE Retrier!TimerFires \/ Retrier!SleepCancelled
  BY <1>7 DEF Retrier!TimerFires, Retrier!SleepCancelled, Retrier!Return
<1>8. CASE Retrier!Cancel \/ Retrier!Returned \/ UNCHANGED retryVars
  BY <1>8 DEF Retrier!Cancel, Retrier!Returned, Retrier!vars, retryVars
<1> QED
  BY <1>1, <1>2, <1>3, <1>4, <1>5, <1>6, <1>7, <1>8 DEF Retrier!Next, Retrier!Do

\* Retry.OneLateCall (retry.go:82) for every policy: whichever way the select of the
\* sleep falls, one call of fn at most begins after the cancellation, only transient
\* failures are retried, and there are at most MaxAttempts calls.
THEOREM AtMostOneLateCall == Spec => []OneLateCall
<1>1. Init => RetryInv
  BY RetryInit DEF Init
<1>2. RetryInv /\ [Next]_vars => RetryInv'
  BY RetryNext
  DEF Next, BreakerStep, BulkheadStep, RetryStep, LimiterStep, vars, retryVars
<1>3. RetryInv => OneLateCall
  BY DEF RetryInv, OneLateCall, Retrier!OneLateCall
<1> QED BY <1>1, <1>2, <1>3, PTL DEF Spec

\* A set of numbers that is not empty has a least element: what induction rests on here.
LEMMA LeastOf ==
    ASSUME NEW S, S \subseteq Nat, S # {}
    PROVE  \E n \in S : \A k \in S : n <= k
<1>1. PICK n \in S : \A k \in S : ~ (<<k, n>> \in OpToRel(<, Nat))
  BY WFMin, NatLessThanWellFounded
<1>2. \A k \in S : ~ (k < n)
  BY <1>1 DEF OpToRel
<1> QED BY <1>2

\* The powers of x are numbers. The first 0 .. n of them exist for every n, agree
\* wherever two such lists are both defined, and so make up the function Pow recurses by.
LEMMA PowType ==
    ASSUME NEW x \in Nat, NEW m \in Nat
    PROVE  Retrier!Pow(x, m) \in Nat
<1> DEFINE Good(g, n) == g[0] = 1 /\ \A k \in 1 .. n : g[k] = x * g[k - 1]
           G(n) == CHOOSE g \in [0 .. n -> Nat] : Good(g, n)
           f == [n \in Nat |-> G(n)[n]]
           Power == CHOOSE p : p = [k \in Nat |-> IF k = 0 THEN 1 ELSE x * p[k - 1]]
<1>1. \A n \in Nat : \E g \in [0 .. n -> Nat] : Good(g, n)
  <2> DEFINE Bad == {n \in Nat : ~ \E g \in [0 .. n -> Nat] : Good(g, n)}
  <2> SUFFICES ASSUME Bad # {} PROVE FALSE
    OBVIOUS
  <2>1. PICK n \in Bad : \A k \in Bad : n <= k
    BY LeastOf
  <2>2. CASE n = 0
    <3>1. [k \in 0 .. 0 |-> 1] \in [0 .. n -> Nat] /\ Good([k \in 0 .. 0 |-> 1], n)
      BY <2>2
    <3> QED BY <3>1, <2>1
  <2>3. CASE n # 0
    <3>0. n \in Nat \ {0}
      BY <2>3
    <3>1. n - 1 \in Nat /\ n - 1 \notin Bad
      <4> HIDE DEF Bad
      <4> QED BY <2>1, <3>0
    <3>2. PICK g \in [0 .. (n - 1) -> Nat] : Good(g, n - 1)
      BY <3>1
    <3> DEFINE h == [k \in 0 .. n |-> IF k = n THEN x * g[n - 1] ELSE g[k]]
    <3>3. h \in [0 .. n -> Nat]
      BY <3>1, <3>2
    <3>4. Good(h, n)
      <4>1. h[0] = 1
        BY <3>0, <3>2
      <4>2. ASSUME NEW k \in 1 .. n PROVE h[k] = x * h[k - 1]
        <5>1. h[k - 1] = g[k - 1]
          BY <3>0
        <5>2. CASE k = n
          BY <5>1, <5>2, <3>0
        <5>3. CASE k # n
          <6>1. k \in 1 .. (n - 1) /\ h[k] = g[k]
            BY <5>3, <3>0
          <6> QED BY <6>1, <5>1, <3>2
        <5> QED BY <5>2, <5>3
      <4> QED BY <4>1, <4>2
    <3> QED BY <3>3, <3>4, <2>1
  <2> QED BY <2>2, <2>3
<1>2. \A n \in Nat : G(n) \in [0 .. n -> Nat] /\ Good(G(n), n)
  BY <1>1
<1>3. \A n \in Nat \ {0} : G(n)[n - 1] = G(n - 1)[n - 1]
  <2> SUFFICES ASSUME NEW n \in Nat \ {0} PROVE G(n)[n - 1] = G(n - 1)[n - 1]
    OBVIOUS
  <2> DEFINE Off == {k \in 0 .. (n - 1) : G(n)[k] # G(n - 1)[k]}
  <2> HIDE DEF G
  <2>0. Good(G(n), n) /\ Good(G(n - 1), n - 1)
    <3>1. n \in Nat /\ n - 1 \in Nat
      OBVIOUS
    <3> HIDE DEF Good
    <3> QED BY <1>2, <3>1
  <2>1. ASSUME Off # {} PROVE FALSE
    <3>0. Off \subseteq Nat
      OBVIOUS
    <3>1. PICK k \in Off : \A l \in Off : k <= l
      <4> HIDE DEF Off
      <4> QED BY <2>1, <3>0, LeastOf
    <3>2. k # 0
      BY <2>0, <3>1
    <3>3. k - 1 \in 0 .. (n - 1) /\ k - 1 \notin Off
      BY <3>1, <3>2
    <3> QED BY <2>0, <3>1, <3>2, <3>3
  <2> QED BY <2>1
<1>4. f = [k \in Nat |-> IF k = 0 THEN 1 ELSE x * f[k - 1]]
  <2>1. \A k \in Nat : f[k] = IF k = 0 THEN 1 ELSE x * f[k - 1]
    <3> HIDE DEF G
    <3> SUFFICES ASSUME NEW k \in Nat PROVE f[k] = IF k = 0 THEN 1 ELSE x * f[k - 1]
      OBVIOUS
    <3>1. f[k] = G(k)[k]
      OBVIOUS
    <3>2. CASE k = 0
      BY <1>2, <3>1, <3>2
    <3>3. CASE k # 0
      <4>1. f[k - 1] = G(k - 1)[k - 1]
        BY <3>3
      <4>2. G(k)[k] = x * G(k)[k - 1]
        BY <1>2, <3>3
      <4> QED BY <1>3, <3>1, <3>3, <4>1, <4>2
    <3> QED BY <3>2, <3>3
  <2> HIDE DEF G
  <2>3. f = [k \in Nat |-> f[k]]
    OBVIOUS
  <2> HIDE DEF f
  <2> QED BY <2>1, <2>3
<1>5. Power = [k \in Nat |-> IF k = 0 THEN 1 ELSE x * Power[k - 1]]
  <2> HIDE DEF f
  <2> QED BY <1>4
<1>6. \A n \in Nat : Power[n] \in Nat
  <2> DEFINE Bad == {n \in Nat : Power[n] \notin Nat}
  <2> HIDE DEF Power
  <2>1. ASSUME Bad # {} PROVE FALSE
    <3>1. PICK n \in Bad : \A k \in Bad : n <= k
      BY <2>1, LeastOf
    <3>2. n # 0
      BY <1>5, <3>1
    <3>3. n - 1 \in Nat /\ n - 1 \notin Bad
      BY <3>1, <3>2
    <3> QED BY <1>5, <3>1, <3>2, <3>3
  <2> QED BY <2>1
<1>7. Retrier!Pow(x, m) = Power[m]
  BY DEF Retrier!Pow
<1> QED BY <1>6, <1>7

FilledPolicies ==
    [MaxAttempts : Nat \ {0}, BaseDelay : 0 .. MaxDuration, MaxDelay : 0 .. MaxDuration,
     Multiplier : Nat, Jitter : Retrier!Jitters]

\* The backoff of the present attempt before it is capped or converted.
Nominal == policy.BaseDelay * Retrier!Pow(policy.Multiplier, attempt - 1)

\* A draw lies between 0 and what it is a part of, whichever sign that has.
LEMMA DrawsBetween ==
    ASSUME NEW x \in Int, NEW d \in Retrier!Draws(x)
    PROVE  d \in Int /\ (x >= 0 => d >= 0 /\ d <= x)
BY DEF Retrier!Draws

LEMMA LargerOfTwo ==
    ASSUME NEW a \in Int, NEW b \in Int
    PROVE  Retrier!Max({a, b}) = IF a >= b THEN a ELSE b
BY DEF Retrier!Max

LEMMA BackoffValues ==
    ASSUME policy \in FilledPolicies, Nominal \in Nat, NEW base \in Retrier!Backoff(attempt)
    PROVE  /\ base \in Int
           /\ policy.MaxDelay > 0 /\ Nominal > policy.MaxDelay => base = policy.MaxDelay
           /\ ~(policy.MaxDelay > 0 /\ Nominal > policy.MaxDelay) /\ Nominal <= MaxDuration
                => base = Nominal
           /\ policy.MaxDelay > 0 => base >= 0 /\ base <= policy.MaxDelay
BY RetryConstants
DEF FilledPolicies, Nominal, Retrier!Backoff, Retrier!ToDuration, Retrier!MinDuration

\* What each kind of jitter makes of a backoff.
LEMMA JitteredValues ==
    ASSUME policy \in FilledPolicies, delay \in Int, NEW base \in Int,
           NEW d \in Retrier!Jittered(base, delay)
    PROVE  /\ d \in Int
           /\ policy.Jitter = "None" => d = base
           /\ policy.Jitter = "Full" /\ base >= 0 => d >= 0 /\ d <= base
           /\ policy.Jitter = "Equal" /\ base >= 0 => d >= base \div 2 /\ d <= base
           /\ policy.Jitter = "Decorrelated" => d >= policy.BaseDelay
<1>1. CASE policy.Jitter = "None"
  BY <1>1 DEF Retrier!Jittered
<1>2. CASE policy.Jitter = "Full"
  BY <1>2, DrawsBetween DEF Retrier!Jittered
<1>3. CASE policy.Jitter = "Equal"
  <2>1. PICK e \in Retrier!Draws(base \div 2) : d = (base \div 2) + e
    BY <1>3 DEF Retrier!Jittered
  <2>2. base \div 2 \in Int /\ (base >= 0 => base \div 2 >= 0 /\ 2 * (base \div 2) <= base)
    OBVIOUS
  <2>3. e \in Int /\ (base \div 2 >= 0 => e >= 0 /\ e <= base \div 2)
    BY <2>1, <2>2, DrawsBetween
  <2> QED BY <1>3, <2>1, <2>2, <2>3
<1>4. CASE policy.Jitter = "Decorrelated"
  <2>1. PICK e \in Retrier!Draws(Retrier!Wrap(3 * delay)) :
               d = Retrier!Max({e, policy.BaseDelay})
    BY <1>4 DEF Retrier!Jittered
  <2>2. Retrier!Wrap(3 * delay) \in Int
    <3>1. 2 * (MaxDuration + 1) \in Nat \ {0}
      BY RetryConstants
    <3>2. 3 * delay - Retrier!MinDuration \in Int /\ Retrier!MinDuration \in Int
      BY RetryConstants DEF Retrier!MinDuration
    <3> QED BY <3>1, <3>2 DEF Retrier!Wrap
  <2>3. e \in Int
    BY <2>1, <2>2, DrawsBetween
  <2>4. policy.BaseDelay \in Int
    BY RetryConstants DEF FilledPolicies
  <2>5. d \in Int /\ d >= policy.BaseDelay
    BY <2>1, <2>3, <2>4, LargerOfTwo
  <2> QED BY <1>4, <2>5
<1> QED BY <1>1, <1>2, <1>3, <1>4 DEF FilledPolicies, Retrier!Jitters

LEMMA CappedValues ==
    ASSUME policy \in FilledPolicies, NEW d \in Int
    PROVE  Retrier!Capped(d) =
             IF policy.MaxDelay > 0 /\ d > policy.MaxDelay THEN policy.MaxDelay ELSE d
<1>1. policy.MaxDelay \in Int
  BY RetryConstants DEF FilledPolicies
<1> QED BY <1>1 DEF Retrier!Capped, Retrier!Min

\* Types enough for the arithmetic of delayFor, and the bounds themselves.
DelayInv ==
    /\ attempt \in Nat \ {0}
    /\ retryPc # "idle" => policy \in FilledPolicies
    /\ delay \in Int
    /\ DelayWithinBounds

LEMMA DelayInit == Retrier!Init => DelayInv
BY DEF Retrier!Init, DelayInv, DelayWithinBounds, Retrier!DelayWithinBounds

LEMMA DelayNext == DelayInv /\ [Retrier!Next]_retryVars => DelayInv'
<1> SUFFICES ASSUME DelayInv, [Retrier!Next]_retryVars PROVE DelayInv'
  OBVIOUS
<1>1. CASE Retrier!Start
  <2>1. PICK p \in Retrier!Policies : policy' = Retrier!Filled(p) /\ delay' = p.BaseDelay
    BY <1>1 DEF Retrier!Start
  <2>2. p \in [MaxAttempts : Nat, BaseDelay : 0 .. MaxDuration, MaxDelay : 0 .. MaxDuration,
               Multiplier : Nat, Jitter : Retrier!Jitters]
    <3>1. Bases \subseteq 0 .. MaxDuration /\ Caps \subseteq 0 .. MaxDuration
      BY RetryConstants
    <3> QED BY <3>1, RetryConstants DEF Retrier!Policies
  <2>3. policy' \in FilledPolicies /\ delay' \in Int
    <3> DEFINE t == IF p.MaxAttempts = 0 THEN 1 ELSE p.MaxAttempts
               m == IF p.Multiplier = 0 THEN 2 ELSE p.Multiplier
    <3>1. policy' = [[p EXCEPT !.MaxAttempts = t] EXCEPT !.Multiplier = m]
      BY <2>1, <2>2 DEF Retrier!Filled
    <3>2. t \in Nat \ {0} /\ m \in Nat /\ p.BaseDelay \in Int
      BY <2>2, RetryConstants
    <3> HIDE DEF t, m
    <3> QED BY <2>1, <2>2, <3>1, <3>2 DEF FilledPolicies
  <2> QED
    BY <1>1, <2>3
    DEF Retrier!Start, DelayInv, DelayWithinBounds, Retrier!DelayWithinBounds
<1>2. CASE Retrier!FnFails
  <2>1. /\ policy \in FilledPolicies /\ delay \in Int /\ attempt \in Nat \ {0}
        /\ UNCHANGED <<policy, attempt>>
    BY <1>2 DEF Retrier!FnFails, DelayInv
  <2>2. Nominal \in Nat
    <3>1. policy.BaseDelay \in Nat /\ policy.Multiplier \in Nat /\ attempt - 1 \in Nat
      BY <2>1, RetryConstants DEF FilledPolicies
    <3>2. Retrier!Pow(policy.Multiplier, attempt - 1) \in Nat
      BY <3>1, PowType
    <3> QED BY <3>1, <3>2 DEF Nominal
  <2>base. PICK base \in Retrier!Backoff(attempt) :
                 \E d \in Retrier!Jittered(base, delay) : delay' = Retrier!Capped(d)
    BY <1>2 DEF Retrier!FnFails, Retrier!delayFor
  <2>3. PICK d \in Retrier!Jittered(base, delay) : delay' = Retrier!Capped(d)
    BY <2>base
  <2>4. /\ base \in Int
        /\ policy.MaxDelay > 0 /\ Nominal > policy.MaxDelay => base = policy.MaxDelay
        /\ ~(policy.MaxDelay > 0 /\ Nominal > policy.MaxDelay) /\ Nominal <= MaxDuration
             => base = Nominal
        /\ policy.MaxDelay > 0 => base >= 0 /\ base <= policy.MaxDelay
    BY <2>1, <2>2, BackoffValues
  <2>5. /\ d \in Int
        /\ policy.Jitter = "None" => d = base
        /\ policy.Jitter = "Full" /\ base >= 0 => d >= 0 /\ d <= base
        /\ policy.Jitter = "Equal" /\ base >= 0 => d >= base \div 2 /\ d <= base
        /\ policy.Jitter = "Decorrelated" => d >= policy.BaseDelay
    BY <2>1, <2>3, <2>4, JitteredValues
  <2>6. delay' = IF policy.MaxDelay > 0 /\ d > policy.MaxDelay THEN policy.MaxDelay ELSE d
    BY <2>1, <2>3, <2>5, CappedValues
  <2>7. policy.MaxDelay \in 0 .. MaxDuration /\ policy.BaseDelay \in Nat
    BY <2>1, RetryConstants DEF FilledPolicies
  <2>8. delay' \in Int
    BY <2>5, <2>6, <2>7, RetryConstants
  <2>9. DelayWithinBounds'
    <3> DEFINE half == Nominal \div 2
               F == CASE policy.Jitter = "None" -> Nominal
                      [] policy.Jitter = "Full" -> 0
                      [] policy.Jitter = "Equal" -> half
                      [] policy.Jitter = "Decorrelated" -> policy.BaseDelay
    <3>1. /\ policy.MaxDelay > 0 => delay' \in 0 .. policy.MaxDelay
          /\ policy.MaxDelay > 0 => delay' >= F \/ delay' >= policy.MaxDelay \div 2
          /\ policy.MaxDelay = 0 /\ Nominal <= MaxDuration => delay' >= F
      <4>1. CASE policy.Jitter = "None"
        BY <4>1, <2>2, <2>4, <2>5, <2>6, <2>7, RetryConstants
      <4>2. CASE policy.Jitter = "Full"
        BY <4>2, <2>2, <2>4, <2>5, <2>6, <2>7, RetryConstants
      <4>3. CASE policy.Jitter = "Equal"
        BY <4>3, <2>2, <2>4, <2>5, <2>6, <2>7, RetryConstants
      <4>4. CASE policy.Jitter = "Decorrelated"
        BY <4>4, <2>2, <2>4, <2>5, <2>6, <2>7, RetryConstants
      <4> QED BY <4>1, <4>2, <4>3, <4>4, <2>1 DEF FilledPolicies, Retrier!Jitters
    <3>2. policy' = policy /\ attempt' = attempt
      BY <2>1
    <3>3. Nominal' = Nominal
      BY <3>2 DEF Nominal
    <3>4. F' = F
      BY <3>2, <3>3, Zenon
    <3>5. (retryPc = "sleep" =>
             IF policy.MaxDelay > 0
             THEN /\ delay \in 0 .. policy.MaxDelay
                  /\ delay >= F \/ delay >= policy.MaxDelay \div 2
             ELSE Nominal <= MaxDuration => delay >= F)'
      <4> HIDE DEF F
      <4> QED BY <3>1, <3>2, <3>3, <3>4, <2>7
    <3> QED BY <3>5 DEF DelayWithinBounds, Retrier!DelayWithinBounds, Nominal
  <2> QED BY <2>1, <2>8, <2>9 DEF DelayInv
<1>3. CASE Retrier!Cancel \/ Retrier!Returned \/ UNCHANGED retryVars
  BY <1>3
  DEF Retrier!Cancel, Retrier!Returned, Retrier!vars, retryVars, DelayInv, DelayWithinBounds,
      Retrier!DelayWithinBounds
<1>4. CASE \/ Retrier!Check \/ Retrier!CheckCancelled \/ Retrier!Call \/ Retrier!FnEnds
           \/ Retrier!FnExhausts \/ Retrier!TimerFires \/ Retrier!SleepCancelled
  <2>1. /\ retryPc # "idle" /\ retryPc' # "idle" /\ retryPc' # "sleep"
        /\ UNCHANGED <<policy, delay>> /\ (attempt' = attempt \/ attempt' = attempt + 1)
    BY <1>4
    DEF Retrier!Check, Retrier!CheckCancelled, Retrier!Call, Retrier!FnEnds,
        Retrier!FnExhausts, Retrier!TimerFires, Retrier!SleepCancelled, Retrier!Return
  <2> QED BY <2>1 DEF DelayInv, DelayWithinBounds, Retrier!DelayWithinBounds
<1> QED BY <1>1, <1>2, <1>3, <1>4 DEF Retrier!Next, Retrier!Do

\* Retry.DelayWithinBounds (retry.go:46-47, :130, :164) for every policy, multiplier and
\* width of a Duration: no overflow of the backoff or of prevDelay takes a delay above the
\* cap or, with a cap, below its floor.
THEOREM DelaysBounded == Spec => []DelayWithinBounds
<1>1. Init => DelayInv
  BY DelayInit DEF Init
<1>2. DelayInv /\ [Next]_vars => DelayInv'
  BY DelayNext
  DEF Next, BreakerStep, BulkheadStep, RetryStep, LimiterStep, vars, retryVars, DelayInv,
      DelayWithinBounds, Retrier!DelayWithinBounds
<1>3. DelayInv => DelayWithinBounds
  BY DEF DelayInv
<1> QED BY <1>1, <1>2, <1>3, PTL DEF Spec

-----------------------------------------------------------------------------
(* The rate limiters.                                                      *)

LEMMA LimiterConstants ==
    /\ Scale \in Nat \ {0} /\ capacity \in Nat /\ rate \in Nat \ {0}
    /\ limit \in Nat \ {0} /\ window \in Nat \ {0} /\ Limiter!Full \in Nat
BY Assumptions DEF Assumptions, Limiter!LimiterAssumption, Limiter!Full

LEMMA Products ==
    ASSUME NEW a \in Int, NEW b \in Int, NEW c \in Int
    PROVE  /\ a * b \in Int
           /\ a * (b + c) = a * b + a * c /\ (b + c) * a = b * a + c * a
           /\ a >= 0 /\ b <= c => a * b <= a * c /\ b * a <= c * a
           /\ a >= 0 /\ b >= 0 => a * b >= 0
OBVIOUS

\* What all limiters have in common: grants are in the past.
ClockInv ==
    /\ now \in Nat
    /\ grants \in Seq(Nat)
    /\ \A i \in 1 .. Len(grants) : grants[i] <= now

\* What an answer does to the list of grants.
LEMMA ReplyAppends ==
    ASSUME ClockInv, NEW yes \in BOOLEAN, NEW n \in {1, 2}, Limiter!Reply(yes, n), now' = now
    PROVE  /\ ClockInv'
           /\ yes => Len(grants') = Len(grants) + n
           /\ ~ yes => grants' = grants
           /\ \A i \in 1 .. Len(grants) : grants'[i] = grants[i]
           /\ \A i \in Len(grants) + 1 .. Len(grants') : grants'[i] = now
           /\ yes => refused' = 0
           /\ ~ yes => refused' = n
<1> DEFINE more == [i \in 1 .. n |-> now]
<1>1. more \in Seq(Nat) /\ Len(more) = n /\ \A i \in 1 .. n : more[i] = now
  BY DEF ClockInv
<1>2. CASE yes
  <2>1. grants' = grants \o more
    BY <1>2 DEF Limiter!Reply
  <2> HIDE DEF more
  <2>2. grants' \in Seq(Nat) /\ Len(grants') = Len(grants) + n
    BY <1>1, <2>1 DEF ClockInv
  <2>3. \A i \in 1 .. Len(grants) : grants'[i] = grants[i]
    BY <1>1, <2>1 DEF ClockInv
  <2>4. \A i \in Len(grants) + 1 .. Len(grants') : grants'[i] = now
    <3> SUFFICES ASSUME NEW i \in Len(grants) + 1 .. Len(grants) + n PROVE grants'[i] = now
      BY <2>2
    <3>1. i - Len(grants) \in 1 .. n /\ grants'[i] = more[i - Len(grants)]
      BY <1>1, <2>1 DEF ClockInv
    <3> QED BY <1>1, <3>1
  <2> QED BY <1>2, <2>2, <2>3, <2>4 DEF ClockInv, Limiter!Reply
<1>3. CASE ~ yes
  BY <1>3 DEF ClockInv, Limiter!Reply
<1> QED BY <1>2, <1>3

\* A token bucket and a leaky bucket are the same counter, seen from its two ends.
Level == IF algorithm = "TokenBucket" THEN Limiter!Full - amount ELSE amount
Drained ==
    IF Level - rate * (now - last) < 0 THEN 0 ELSE Level - rate * (now - last)

\* What a bucket holds accounts for the grants since each of them, and exactly so for
\* those since it was last empty.
BucketInv ==
    /\ amount \in Int
    /\ Level \in 0 .. Limiter!Full
    /\ last \in 0 .. now /\ refused \in Nat
    /\ \A i \in 1 .. Len(grants) :
          (Len(grants) - i + 1) * Scale <= Level + rate * (last - grants[i])
    /\ Level = 0 \/ \E i \in 1 .. Len(grants) :
                       (Len(grants) - i + 1) * Scale >= Level + rate * (last - grants[i])
    /\ \A i, j \in 1 .. Len(grants) :
          i <= j => (j - i + 1) * Scale <= Limiter!Full + rate * (grants[j] - grants[i])
    /\ refused > 0 =>
          \/ refused > capacity
          \/ \E i \in 1 .. Len(grants) :
                (Len(grants) - i + 1 + refused) * Scale
                    > Limiter!Full + rate * (now - grants[i])

\* What holds when a bucket has been drained up to the present.
LEMMA DrainedInv ==
    ASSUME ClockInv, BucketInv
    PROVE  /\ Drained \in 0 .. Limiter!Full
           /\ \A i \in 1 .. Len(grants) :
                 (Len(grants) - i + 1) * Scale <= Drained + rate * (now - grants[i])
           /\ Drained = 0 \/ \E i \in 1 .. Len(grants) :
                 (Len(grants) - i + 1) * Scale >= Drained + rate * (now - grants[i])
<1> USE LimiterConstants DEF ClockInv
<1> DEFINE D == rate * (now - last)
           C(i) == (Len(grants) - i + 1) * Scale
           Old(i) == rate * (last - grants[i])
           New(i) == rate * (now - grants[i])
<1>1. Level \in Int /\ D \in Nat
  BY DEF BucketInv
<1>2. \A i \in 1 .. Len(grants) :
         C(i) \in Int /\ Old(i) \in Int /\ New(i) = Old(i) + D
  <2> SUFFICES ASSUME NEW i \in 1 .. Len(grants)
               PROVE  C(i) \in Int /\ Old(i) \in Int /\ New(i) = Old(i) + D
    OBVIOUS
  <2>1. /\ grants[i] \in Int /\ Len(grants) - i + 1 \in Int /\ now - last \in Int
        /\ last - grants[i] \in Int /\ now - grants[i] = (last - grants[i]) + (now - last)
    <3>1. grants[i] \in Nat /\ last \in Nat /\ now \in Nat /\ Len(grants) \in Nat
      <4>1. last \in Nat
        BY DEF BucketInv
      <4> QED BY <4>1
    <3> QED BY <3>1
  <2>2. rate \in Int /\ Scale \in Int
    OBVIOUS
  <2>3. C(i) \in Int /\ Old(i) \in Int
    BY <2>1, <2>2, Products
  <2>4. New(i) = rate * ((last - grants[i]) + (now - last))
    BY <2>1
  <2>5. rate * ((last - grants[i]) + (now - last)) = Old(i) + D
    <3> DEFINE b == last - grants[i]
               c == now - last
    <3>1. b \in Int /\ c \in Int
      BY <2>1
    <3> HIDE DEF b, c
    <3>2. rate * (b + c) = rate * b + rate * c
      BY <2>2, <3>1, Products
    <3> QED BY <3>2 DEF b, c
  <2> QED BY <2>3, <2>4, <2>5
<1>3. /\ \A i \in 1 .. Len(grants) : C(i) <= Level + Old(i)
      /\ Level = 0 \/ \E i \in 1 .. Len(grants) : C(i) >= Level + Old(i)
      /\ Level \in 0 .. Limiter!Full
  BY DEF BucketInv
<1>4. Drained = IF Level - D < 0 THEN 0 ELSE Level - D
  BY DEF Drained
<1> HIDE DEF D, C, Old, New
<1>5. Drained \in 0 .. Limiter!Full
  BY <1>1, <1>3, <1>4
<1>6. \A i \in 1 .. Len(grants) : C(i) <= Drained + New(i)
  BY <1>1, <1>2, <1>3, <1>4
<1>7. Drained = 0 \/ \E i \in 1 .. Len(grants) : C(i) >= Drained + New(i)
  BY <1>1, <1>2, <1>3, <1>4
<1> QED BY <1>5, <1>6, <1>7 DEF C, New

\* A request of size n that finds what is drained of the bucket.
LEMMA BucketAnswers ==
    ASSUME ClockInv, BucketInv, NEW n \in {1, 2}, now' = now, last' = now,
           Limiter!Reply(Drained + n * Scale <= Limiter!Full, n),
           Level' = IF Drained + n * Scale <= Limiter!Full THEN Drained + n * Scale ELSE Drained,
           amount' \in Int
    PROVE  BucketInv'
<1> USE LimiterConstants
<1> DEFINE yes == Drained + n * Scale <= Limiter!Full
           L == Len(grants)
<1>0. yes \in BOOLEAN /\ Limiter!Reply(yes, n)
  OBVIOUS
<1>1. /\ ClockInv' /\ (yes => Len(grants') = L + n) /\ (~ yes => grants' = grants)
      /\ \A i \in 1 .. L : grants'[i] = grants[i]
      /\ \A i \in L + 1 .. Len(grants') : grants'[i] = now
      /\ (yes => refused' = 0) /\ (~ yes => refused' = n)
  <2> HIDE DEF yes
  <2> QED BY <1>0, ReplyAppends
<1>2. /\ Drained \in 0 .. Limiter!Full
      /\ \A i \in 1 .. L : (L - i + 1) * Scale <= Drained + rate * (now - grants[i])
      /\ Drained = 0 \/ \E i \in 1 .. L :
            (L - i + 1) * Scale >= Drained + rate * (now - grants[i])
  BY DrainedInv
<1>3. L \in Nat /\ now \in Nat /\ \A i \in 1 .. L : grants[i] \in Nat /\ grants[i] <= now
  BY DEF ClockInv
<1>4. last' \in 0 .. now' /\ refused' \in Nat /\ Level' \in 0 .. Limiter!Full
  <2>1. n * Scale \in Nat
    OBVIOUS
  <2> QED BY <1>1, <1>2, <1>3, <2>1, SMTT(20)
<1>5. CASE yes
  <2> DEFINE M == L + n
             C(i) == (L - i + 1) * Scale
             Cn(i) == (M - i + 1) * Scale
             R(i) == rate * (now - grants[i])
             Rn(i) == rate * (now - grants'[i])
             ns == n * Scale
  <2>1. \A i \in 1 .. L : C(i) \in Nat /\ Cn(i) = C(i) + ns /\ R(i) \in Nat /\ Rn(i) = R(i)
    BY <1>1, <1>3
  <2>2. \A i \in L + 1 .. M : Cn(i) \in Nat /\ Cn(i) <= ns /\ Rn(i) = 0
    <3> SUFFICES ASSUME NEW i \in L + 1 .. M
                 PROVE  Cn(i) \in Nat /\ Cn(i) <= ns /\ Rn(i) = 0
      OBVIOUS
    <3>1. M - i + 1 \in Nat /\ M - i + 1 <= n /\ grants'[i] = now
      BY <1>1, <1>3, <1>5
    <3>2. Cn(i) \in Nat /\ Cn(i) <= ns
      <4> HIDE DEF M
      <4> QED BY <3>1, Products
    <3> QED BY <1>3, <3>1, <3>2
  <2>3. Cn(L + 1) = ns /\ L + 1 \in L + 1 .. M /\ M \in Nat /\ ns \in Nat /\ Len(grants') = M
    BY <1>1, <1>3, <1>5
  <2>4. /\ \A i \in 1 .. L : C(i) <= Drained + R(i)
        /\ Drained = 0 \/ \E i \in 1 .. L : C(i) >= Drained + R(i)
        /\ Level' = Drained + ns /\ Drained + ns <= Limiter!Full
    BY <1>2, <1>5
  <2> HIDE DEF C, Cn, R, Rn, ns, M, L, yes
  <2>0. \A i \in 1 .. M : i \in 1 .. L \/ i \in L + 1 .. M
    BY <1>3, <2>3
  <2>5. \A i \in 1 .. M : Cn(i) <= Level' + Rn(i)
    <3> SUFFICES ASSUME NEW i \in 1 .. M PROVE Cn(i) <= Level' + Rn(i)
      OBVIOUS
    <3>1. CASE i \in 1 .. L
      BY <3>1, <1>2, <2>1, <2>3, <2>4, SMTT(20)
    <3>2. CASE i \in L + 1 .. M
      BY <3>2, <1>2, <2>2, <2>3, <2>4
    <3> QED BY <3>1, <3>2, <1>3, <2>3
  <2>6. \E i \in 1 .. M : Cn(i) >= Level' + Rn(i)
    <3>1. CASE Drained = 0
      <4>1. L + 1 \in 1 .. M
        BY <1>3, <2>3
      <4> QED BY <3>1, <4>1, <2>2, <2>3, <2>4
    <3>2. CASE Drained # 0
      <4>1. PICK i \in 1 .. L : C(i) >= Drained + R(i)
        BY <2>4, <3>2
      <4>2. i \in 1 .. M
        BY <1>3, <2>3
      <4>3. Cn(i) >= Level' + Rn(i)
        <5>1. C(i) \in Nat /\ Cn(i) = C(i) + ns /\ R(i) \in Nat /\ Rn(i) = R(i)
          BY <2>1
        <5>2. Drained \in Int /\ ns \in Int /\ Level' = Drained + ns
          BY <1>2, <2>3, <2>4
        <5> QED BY <4>1, <5>1, <5>2
      <4> QED BY <4>2, <4>3
    <3> QED BY <3>1, <3>2
  <2>7. \A i, j \in 1 .. Len(grants') :
           i <= j => (j - i + 1) * Scale <= Limiter!Full + rate * (grants'[j] - grants'[i])
    <3> SUFFICES ASSUME NEW i \in 1 .. M, NEW j \in 1 .. M, i <= j
                 PROVE  (j - i + 1) * Scale <= Limiter!Full + rate * (grants'[j] - grants'[i])
      BY <2>3
    <3>1. CASE j \in 1 .. L
      <4>1. i \in 1 .. L /\ grants'[i] = grants[i] /\ grants'[j] = grants[j]
        BY <3>1, <1>1, <1>3, <2>3
      <4> QED BY <3>1, <4>1 DEF BucketInv, L
    <3>2. CASE j \in L + 1 .. M
      <4>1. grants'[j] = now /\ rate * (grants'[j] - grants'[i]) = Rn(i)
        BY <3>2, <1>1, <2>3 DEF Rn
      <4>2. (j - i + 1) * Scale <= Cn(i)
        BY <1>3, <2>3 DEF Cn
      <4>3. Cn(i) <= Limiter!Full + Rn(i)
        <5>1. Cn(i) \in Int /\ Rn(i) \in Int
          BY <2>1, <2>2, <2>3, <1>3, <2>0
        <5> QED BY <5>1, <2>4, <2>5, <1>2, <2>3
      <4>4. Cn(i) \in Int /\ Rn(i) \in Int /\ (j - i + 1) * Scale \in Int
        BY <2>1, <2>2, <2>3, <1>3, <2>0, Products
      <4> QED BY <4>1, <4>2, <4>3, <4>4
    <3> QED BY <3>1, <3>2, <1>3, <2>3
  <2> QED
    BY <1>1, <1>4, <1>5, <2>3, <2>5, <2>6, <2>7 DEF BucketInv, Cn, Rn, M
<1>6. CASE ~ yes
  <2>1. grants' = grants /\ refused' = n /\ Level' = Drained /\ n > 0
    BY <1>1, <1>6
  <2>2. \/ n > capacity
        \/ \E i \in 1 .. L : (L - i + 1 + n) * Scale > Limiter!Full + rate * (now - grants[i])
    <3>1. CASE Drained = 0
      <4>1. n * Scale > capacity * Scale
        BY <1>6, <3>1 DEF Limiter!Full
      <4> QED BY <4>1
    <3>2. CASE Drained # 0
      <4>1. PICK i \in 1 .. L : (L - i + 1) * Scale >= Drained + rate * (now - grants[i])
        BY <1>2, <3>2
      <4>2. (L - i + 1 + n) * Scale = (L - i + 1) * Scale + n * Scale
        BY <1>3
      <4>3. (L - i + 1) * Scale \in Int /\ n * Scale \in Int /\ rate * (now - grants[i]) \in Int
        BY <1>3
      <4> QED BY <4>1, <4>2, <4>3, <1>2, <1>6, SMTT(20)
    <3> QED BY <3>1, <3>2
  <2> QED BY <1>2, <1>4, <2>1, <2>2 DEF BucketInv
<1> QED BY <1>5, <1>6

\* A request to a bucket, and a reading of one, in terms of its level.
LEMMA BucketNext ==
    ASSUME ClockInv, BucketInv, algorithm \in {"TokenBucket", "LeakyBucket"}, Limiter!Next
    PROVE  BucketInv'
<1> USE LimiterConstants
<1>0. now \in Nat /\ last \in Nat /\ Level \in Int /\ amount \in Int /\ rate * (now - last) \in Int
  BY DEF ClockInv, BucketInv
<1>1. ASSUME algorithm = "TokenBucket"
      PROVE  Limiter!refill = Limiter!Full - Drained
  BY <1>0, <1>1 DEF Limiter!refill, Drained, Level
<1>2. ASSUME algorithm = "LeakyBucket"
      PROVE  Limiter!leaked = Drained
  BY <1>0, <1>2 DEF Limiter!leaked, Drained, Level
<1>3. Drained \in 0 .. Limiter!Full
  BY DrainedInv
<1>4. ASSUME NEW n \in {1, 2}, Limiter!AllowN(n) PROVE BucketInv'
  <2> DEFINE ns == n * Scale
  <2>1. ns \in Nat
    OBVIOUS
  <2> HIDE DEF ns
  <2>2. (Limiter!refill >= ns) = (Drained + ns <= Limiter!Full)
    BY <1>1, <1>3, <1>4, <2>1 DEF Limiter!AllowN
  <2>3. /\ algorithm = "TokenBucket" /\ algorithm' = algorithm /\ now' = now /\ last' = now
        /\ Limiter!Reply(Drained + ns <= Limiter!Full, n)
        /\ amount' = IF Drained + ns <= Limiter!Full
                     THEN Limiter!refill - ns ELSE Limiter!refill
    BY <1>4, <2>2 DEF Limiter!AllowN, Limiter!Request, ns
  <2>4. Level' = IF Drained + ns <= Limiter!Full THEN Drained + ns ELSE Drained
    BY <1>1, <1>3, <2>1, <2>3 DEF Level, Limiter!Full
  <2>5. amount' \in Int
    BY <1>1, <1>3, <2>1, <2>3
  <2> QED BY <2>3, <2>4, <2>5, BucketAnswers DEF ns
<1>5. CASE Limiter!AllowLeaky
  <2>1. /\ algorithm = "LeakyBucket" /\ algorithm' = algorithm /\ now' = now /\ last' = now
        /\ Limiter!Reply(Drained + 1 * Scale <= Limiter!Full, 1)
        /\ amount' = IF Drained + 1 * Scale <= Limiter!Full THEN Drained + 1 * Scale ELSE Drained
    BY <1>2, <1>5 DEF Limiter!AllowLeaky, Limiter!Request
  <2>2. Level' = amount'
    BY <2>1 DEF Level
  <2>3. amount' \in Int
    BY <1>3, <2>1
  <2> QED BY <2>1, <2>2, <2>3, BucketAnswers
<1>6. CASE Limiter!Tokens
  <2>1. Level' = Drained /\ last' = now /\ amount' \in Int
    BY <1>1, <1>3, <1>6 DEF Limiter!Tokens, Level, Limiter!Full
  <2>2. UNCHANGED <<now, grants, refused>>
    BY <1>6 DEF Limiter!Tokens, Limiter!answerVars
  <2> QED BY <1>0, <2>1, <2>2, DrainedInv DEF BucketInv
<1>7. CASE Limiter!Tick
  <2>1. /\ Level' = Level /\ last' = last /\ grants' = grants /\ refused' = 0
        /\ now' \in Nat /\ now <= now' /\ amount' = amount
    BY <1>0, <1>7 DEF Limiter!Tick, Limiter!bucketVars, Level, Limiter!Full
  <2> QED BY <1>0, <2>1 DEF BucketInv
<1> QED
  BY <1>4, <1>5, <1>6, <1>7 DEF Limiter!Next, Limiter!AllowFixed, Limiter!AllowSliding

\* A window that starts at start and has granted the last cur requests, so that all
\* grants but the last cur + prev are older than the window before it. For a fixed window,
\* which forgets its predecessor, there is such a number all the same.
Windowed(start, prev, cur) ==
    LET p == Len(grants) - cur IN
    /\ start \in 0 .. now /\ prev \in 0 .. limit /\ cur \in 0 .. limit /\ p >= 0
    /\ \A i \in 1 .. Len(grants) : grants[i] < start + window
    /\ \A i \in 1 .. p : grants[i] < start
    /\ \E q \in 0 .. p :
          /\ p - q <= limit
          /\ algorithm = "FixedWindow" => prev = 0
          /\ algorithm = "SlidingWindow" => q = p - prev
          /\ \A i \in 1 .. q : grants[i] < start - window

SpansInv ==
    \A i, j \in 1 .. Len(grants) : i <= j /\ grants[j] - grants[i] < window =>
        /\ algorithm = "FixedWindow" => j - i + 1 <= 2 * limit
        /\ algorithm = "SlidingWindow" =>
              (j - i) * window <= limit * (window + (grants[j] - grants[i]))

WindowInv == Windowed(windowStart, previous, current) /\ SpansInv

LEMMA RolledFixed ==
    ASSUME ClockInv, WindowInv, algorithm = "FixedWindow"
    PROVE  LET r == Limiter!RollFixed IN
           Windowed(r.start, r.prev, r.cur) /\ now - r.start < window
<1> USE LimiterConstants
<1>1. CASE now - windowStart >= window
  <2>1. /\ Limiter!RollFixed.start = now /\ Limiter!RollFixed.prev = 0
        /\ Limiter!RollFixed.cur = 0
    BY <1>1 DEF Limiter!RollFixed
  <2> DEFINE q == Len(grants) - current
  <2>2. q \in 0 .. Len(grants) /\ Len(grants) - q <= limit
    BY DEF WindowInv, Windowed, ClockInv
  <2>3. \A i \in 1 .. Len(grants) : grants[i] < now /\ grants[i] < now + window
    BY <1>1 DEF WindowInv, Windowed, ClockInv
  <2>4. \A i \in 1 .. q : grants[i] < now - window
    BY <1>1 DEF WindowInv, Windowed, ClockInv
  <2> HIDE DEF q
  <2>5. Windowed(now, 0, 0)
    BY <2>2, <2>3, <2>4 DEF Windowed, ClockInv
  <2> QED BY <2>1, <2>5 DEF ClockInv
<1>2. CASE ~ (now - windowStart >= window)
  <2>1. /\ Limiter!RollFixed.start = windowStart /\ Limiter!RollFixed.prev = 0
        /\ Limiter!RollFixed.cur = current /\ previous = 0
    BY <1>2 DEF Limiter!RollFixed, WindowInv, Windowed
  <2>2. windowStart \in Int /\ now \in Int
    BY DEF WindowInv, Windowed, ClockInv
  <2> QED BY <1>2, <2>1, <2>2 DEF WindowInv
<1> QED BY <1>1, <1>2

LEMMA RolledSliding ==
    ASSUME ClockInv, WindowInv, algorithm = "SlidingWindow"
    PROVE  LET r == Limiter!RollSliding IN
           Windowed(r.start, r.prev, r.cur) /\ now - r.start < window
<1> USE LimiterConstants
<1>0. windowStart \in 0 .. now /\ now \in Nat /\ 2 * window \in Nat /\ window < 2 * window
  BY DEF WindowInv, Windowed, ClockInv
<1>1. CASE now - windowStart >= 2 * window
  <2>1. /\ Limiter!RollSliding.start = now /\ Limiter!RollSliding.prev = 0
        /\ Limiter!RollSliding.cur = 0
    BY <1>0, <1>1 DEF Limiter!RollSliding
  <2>2. \A i \in 1 .. Len(grants) : grants[i] < now - window
    BY <1>1 DEF WindowInv, Windowed, ClockInv
  <2>3. Windowed(now, 0, 0)
    <3>1. Len(grants) \in Nat /\ \A i \in 1 .. Len(grants) : grants[i] \in Nat
      BY DEF ClockInv
    <3>2. \A i \in 1 .. Len(grants) : grants[i] < now /\ grants[i] < now + window
      BY <1>0, <2>2, <3>1
    <3> QED BY <1>0, <2>2, <3>1, <3>2 DEF Windowed
  <2> QED BY <1>0, <2>1, <2>3
<1>2. CASE now - windowStart >= window /\ now - windowStart < 2 * window
  <2>1. /\ Limiter!RollSliding.start = windowStart + window
        /\ Limiter!RollSliding.prev = current /\ Limiter!RollSliding.cur = 0
    BY <1>0, <1>2 DEF Limiter!RollSliding
  <2> DEFINE q == Len(grants) - current
  <2>2. q \in 0 .. Len(grants) /\ Len(grants) - q <= limit /\ current \in 0 .. limit
        /\ q = Len(grants) - current /\ Len(grants) \in Nat
    BY DEF WindowInv, Windowed, ClockInv
  <2>3. /\ \A i \in 1 .. Len(grants) : grants[i] < windowStart + window
        /\ \A i \in 1 .. q : grants[i] < windowStart
    BY DEF WindowInv, Windowed
  <2> HIDE DEF q
  <2>4. Windowed(windowStart + window, current, 0)
    <3> DEFINE start == windowStart + window
    <3>1. start \in 0 .. now /\ start - window = windowStart
      BY <1>0, <1>2
    <3>2. \A i \in 1 .. Len(grants) : grants[i] < start /\ grants[i] < start + window
      <4>1. \A i \in 1 .. Len(grants) : grants[i] \in Nat
        BY DEF ClockInv
      <4> QED BY <1>0, <2>3, <4>1
    <3>3. \A i \in 1 .. q : grants[i] < start - window
      BY <2>3, <3>1
    <3> HIDE DEF start
    <3>4. Windowed(start, current, 0)
      <4> DEFINE p == Len(grants) - 0
      <4>1. p = Len(grants) /\ p >= 0 /\ 0 \in 0 .. limit
        BY <2>2
      <4>2. \E x \in 0 .. p :
               /\ p - x <= limit
               /\ algorithm = "FixedWindow" => current = 0
               /\ algorithm = "SlidingWindow" => x = p - current
               /\ \A i \in 1 .. x : grants[i] < start - window
        <5> q \in 0 .. p
          BY <2>2, <4>1
        <5> WITNESS q \in 0 .. p
        <5> QED BY <2>2, <3>3, <4>1
      <4> HIDE DEF p
      <4>3. \A i \in 1 .. p : grants[i] < start
        BY <3>2, <4>1
      <4> QED BY <2>2, <3>1, <3>2, <4>1, <4>2, <4>3 DEF Windowed, p
    <3> QED BY <3>4 DEF start
  <2> QED BY <1>0, <1>2, <2>1, <2>4
<1>3. CASE now - windowStart < window
  <2>1. /\ Limiter!RollSliding.start = windowStart /\ Limiter!RollSliding.prev = previous
        /\ Limiter!RollSliding.cur = current
    BY <1>0, <1>3 DEF Limiter!RollSliding
  <2> QED BY <1>3, <2>1 DEF WindowInv
<1> QED BY <1>0, <1>1, <1>2, <1>3

\* An answer in a window r that holds the present.
LEMMA WindowAnswers ==
    ASSUME ClockInv, SpansInv, algorithm \in {"FixedWindow", "SlidingWindow"},
           NEW r, Windowed(r.start, r.prev, r.cur), now - r.start < window,
           algorithm' = algorithm, Limiter!AllowInWindow(r)
    PROVE  WindowInv'
<1> USE LimiterConstants
<1> DEFINE yes == Limiter!UnderLimit(r)
           L == Len(grants)
           p == L - r.cur
<1>0. yes \in BOOLEAN /\ Limiter!Reply(yes, 1) /\ now' = now
  BY DEF Limiter!AllowInWindow, Limiter!Request, Limiter!UnderLimit
<1>1. /\ ClockInv' /\ (yes => Len(grants') = L + 1) /\ (~ yes => grants' = grants)
      /\ \A i \in 1 .. L : grants'[i] = grants[i]
      /\ \A i \in L + 1 .. Len(grants') : grants'[i] = now
  <2> HIDE DEF yes
  <2> QED BY <1>0, ReplyAppends
<1>2. windowStart' = r.start /\ previous' = r.prev /\ current' = IF yes THEN r.cur + 1 ELSE r.cur
  BY DEF Limiter!AllowInWindow
<1>3. /\ r.start \in 0 .. now /\ r.prev \in 0 .. limit /\ r.cur \in 0 .. limit
      /\ L \in Nat /\ p \in Nat /\ now \in Nat
  BY DEF ClockInv, Windowed
<1>7. /\ \A i \in 1 .. L : grants[i] \in Nat /\ grants[i] <= now /\ grants[i] < r.start + window
      /\ \A i \in 1 .. p : grants[i] < r.start
  <2>1. \A i \in 1 .. L : grants[i] \in Nat /\ grants[i] <= now
    BY DEF ClockInv
  <2>2. \A i \in 1 .. L : grants[i] < r.start + window
    BY DEF Windowed
  <2>3. \A i \in 1 .. p : grants[i] < r.start
    BY DEF Windowed
  <2> QED BY <2>1, <2>2, <2>3
<1>4. PICK q \in 0 .. p :
         /\ p - q <= limit
         /\ algorithm = "FixedWindow" => r.prev = 0
         /\ algorithm = "SlidingWindow" => q = p - r.prev
         /\ \A i \in 1 .. q : grants[i] < r.start - window
  BY DEF Windowed
<1>5. CASE ~ yes
  BY <1>0, <1>1, <1>2, <1>5 DEF WindowInv, Windowed, SpansInv
<1>6. CASE yes
  <2> DEFINE start == r.start
             e == now - start
             P == r.prev
             c == r.cur
  <2>a. /\ L \in Nat /\ p \in Nat /\ p + c = L /\ q \in Nat /\ q <= p /\ p - q <= limit
        /\ now \in Nat /\ start \in Nat /\ start <= now /\ now < start + window
        /\ P \in 0 .. limit /\ c \in 0 .. limit
    <3>1. L \in Nat /\ p \in Nat /\ p + c = L /\ c \in 0 .. limit /\ P \in 0 .. limit
      BY <1>3
    <3>2. now \in Nat /\ start \in Nat /\ start <= now /\ now < start + window
      BY <1>3
    <3>3. q \in Nat /\ q <= p /\ p - q <= limit
      <4> HIDE DEF p
      <4> QED BY <1>4, <3>1
    <3> QED BY <3>1, <3>2, <3>3
  <2>b. Len(grants') = L + 1 /\ grants'[L + 1] = now
    BY <1>1, <1>3, <1>6
  <2>c. \A i \in 1 .. L : /\ grants'[i] = grants[i] /\ grants[i] \in Nat
                          /\ grants[i] <= now /\ grants[i] < start + window
    BY <1>1, <1>7
  <2>d. /\ \A i \in 1 .. p : grants[i] < start
        /\ \A i \in 1 .. q : grants[i] < start - window
    BY <1>4, <1>7
  <2>e. /\ algorithm = "FixedWindow" => P = 0
        /\ algorithm = "SlidingWindow" => q = p - P
    BY <1>4
  <2>f. windowStart' = start /\ previous' = P /\ current' = c + 1
    BY <1>2, <1>6
  <2>0. P * (window - e) + c * window < limit * window
    BY <1>6 DEF Limiter!UnderLimit
  <2>1. e \in Nat /\ window - e \in Nat /\ P \in Nat /\ P <= limit /\ c \in Nat
    <3> HIDE DEF start, P, c, p, L
    <3> QED BY <2>a
  <2> HIDE DEF e, P, c, start, p, L, yes
  <2>2. c < limit
    <3>1. P * (window - e) \in Int /\ P * (window - e) >= 0
      BY <2>1, Products
    <3>2. limit <= c => limit * window <= c * window
      BY <2>1, Products
    <3>3. limit * window \in Int /\ c * window \in Int
      BY <2>1, Products
    <3> QED BY <2>0, <2>1, <3>1, <3>2, <3>3
  <2>3. Windowed(windowStart, previous, current)'
    <3>1. Len(grants') - current' = p /\ current' \in 0 .. limit
      BY <2>a, <2>b, <2>f, <2>2
    <3>2. \A i \in 1 .. Len(grants') : grants'[i] < windowStart' + window
      BY <2>a, <2>b, <2>c, <2>f
    <3>3. \A i \in 1 .. p : grants'[i] < windowStart'
      BY <2>a, <2>c, <2>d, <2>f
    <3>4. \A i \in 1 .. q : grants'[i] < windowStart' - window
      BY <2>a, <2>c, <2>d, <2>f
    <3>5. windowStart' \in 0 .. now' /\ previous' \in 0 .. limit
      BY <1>0, <2>a, <2>f
    <3>6. \E x \in 0 .. p :
             /\ p - x <= limit
             /\ algorithm' = "FixedWindow" => previous' = 0
             /\ algorithm' = "SlidingWindow" => x = p - previous'
             /\ \A i \in 1 .. x : grants'[i] < windowStart' - window
      BY <2>a, <2>e, <2>f, <3>4
    <3> DEFINE p1 == Len(grants') - current'
    <3>7. /\ p1 >= 0 /\ \A i \in 1 .. p1 : grants'[i] < windowStart'
          /\ \E x \in 0 .. p1 :
                /\ p1 - x <= limit
                /\ algorithm' = "FixedWindow" => previous' = 0
                /\ algorithm' = "SlidingWindow" => x = p1 - previous'
                /\ \A i \in 1 .. x : grants'[i] < windowStart' - window
      <4> HIDE DEF p1
      <4>1. p1 = p
        BY <3>1 DEF p1
      <4> QED BY <2>a, <3>3, <3>6, <4>1
    <3> QED BY <3>1, <3>2, <3>5, <3>7 DEF Windowed
  <2>4. SpansInv'
    <3> SUFFICES ASSUME NEW i \in 1 .. Len(grants'), NEW j \in 1 .. Len(grants'), i <= j,
                        grants'[j] - grants'[i] < window
                 PROVE  /\ algorithm = "FixedWindow" => j - i + 1 <= 2 * limit
                        /\ algorithm = "SlidingWindow" =>
                             (j - i) * window <= limit * (window + (grants'[j] - grants'[i]))
      BY DEF SpansInv
    <3>1. CASE j \in 1 .. L
      <4>1. i \in 1 .. L /\ grants'[i] = grants[i] /\ grants'[j] = grants[j]
        BY <3>1, <2>a, <2>b, <2>c
      <4> QED BY <3>1, <4>1 DEF SpansInv, L
    <3>2. CASE j = L + 1
      <4> DEFINE took == grants'[j] - grants'[i]
                 k == j - i
      <4>1. grants'[j] = now /\ grants'[i] \in Nat /\ grants'[i] <= now /\ took \in Nat
        BY <3>2, <2>a, <2>b, <2>c
      <4>2. ~ (i \in 1 .. q)
        <5> SUFFICES ASSUME i \in 1 .. q PROVE FALSE
          OBVIOUS
        <5>1. i \in 1 .. L /\ grants'[i] = grants[i]
          BY <2>a, <2>c
        <5>2. grants[i] < start - window
          BY <2>d
        <5> QED BY <2>a, <4>1, <5>1, <5>2
      <4>3. k \in Nat /\ k <= (p - q) + c
        BY <3>2, <2>a, <2>b, <4>2
      <4>4. CASE algorithm = "FixedWindow"
        BY <2>a, <2>2, <4>3, <4>4
      <4>5. CASE algorithm = "SlidingWindow"
        <5>1. limit * (window + took) = limit * window + limit * took
          BY <4>1, Products
        <5>2. limit * window \in Int /\ limit * took \in Int /\ limit * took >= 0
          BY <4>1, Products
        <5>3. CASE k <= c
          <6>1. k * window <= c * window /\ c * window \in Int /\ k * window \in Int
            BY <2>1, <4>3, <5>3, Products
          <6>2. P * (window - e) \in Int /\ P * (window - e) >= 0
            BY <2>1, Products
          <6> QED BY <2>0, <5>1, <5>2, <6>1, <6>2, <4>5
        <5>4. CASE ~ (k <= c)
          <6>1. i \in 1 .. p
            BY <3>2, <2>a, <2>b, <5>4
          <6>2. grants'[i] < start /\ took >= e
            <7>1. i \in 1 .. L
              BY <2>a, <6>1
            <7>2. grants'[i] < start
              BY <2>c, <2>d, <6>1, <7>1
            <7> QED BY <2>a, <4>1, <7>2 DEF e
          <6>3. k <= P + c
            BY <2>a, <2>e, <4>3, <4>5
          <6>4. k * window <= (P + c) * window
            BY <2>1, <4>3, <6>3, Products
          <6>5. (P + c) * window = P * window + c * window
            BY <2>1, Products
          <6>6. P * window = P * (window - e) + P * e
            <7>1. window = (window - e) + e
              BY <2>1
            <7>2. P * ((window - e) + e) = P * (window - e) + P * e
              <8> DEFINE b == window - e
              <8>1. b \in Int
                BY <2>1
              <8> HIDE DEF b
              <8>2. P * (b + e) = P * b + P * e
                BY <2>1, <8>1, Products
              <8> QED BY <8>2 DEF b
            <7> QED BY <7>1, <7>2
          <6>7. P * e <= limit * e /\ limit * e <= limit * took
            BY <2>1, <4>1, <6>2, Products
          <6>8. /\ P * (window - e) \in Int /\ P * e \in Int /\ limit * e \in Int
                /\ c * window \in Int /\ k * window \in Int /\ (P + c) * window \in Int
            BY <2>1, <4>3, Products
          <6> QED BY <2>0, <4>5, <5>1, <5>2, <6>4, <6>5, <6>6, <6>7, <6>8, SMTT(20)
        <5> QED BY <5>3, <5>4
      <4> QED BY <4>4, <4>5
    <3> QED BY <3>1, <3>2, <2>a, <2>b
  <2> QED BY <2>3, <2>4 DEF WindowInv
<1> QED BY <1>5, <1>6

LimiterInv ==
    /\ algorithm \in {"TokenBucket", "LeakyBucket", "FixedWindow", "SlidingWindow"}
    /\ ClockInv
    /\ Limiter!Bucket => BucketInv
    /\ ~ Limiter!Bucket => WindowInv

LEMMA LimiterInit == Limiter!Init => LimiterInv
<1> SUFFICES ASSUME Limiter!Init PROVE LimiterInv
  OBVIOUS
<1> USE LimiterConstants
<1>1. ClockInv /\ grants = <<>> /\ Len(grants) = 0
  BY DEF Limiter!Init, ClockInv
<1>2. ASSUME Limiter!Bucket PROVE BucketInv
  <2>1. Level = 0 /\ amount \in Int
    BY <1>2 DEF Limiter!Init, Level, Limiter!Bucket
  <2> QED BY <1>1, <2>1 DEF Limiter!Init, BucketInv
<1>3. WindowInv
  BY <1>1 DEF Limiter!Init, WindowInv, Windowed, SpansInv
<1> QED BY <1>1, <1>2, <1>3 DEF LimiterInv, Limiter!Init

LEMMA LimiterNext == LimiterInv /\ [Limiter!Next]_limiterVars => LimiterInv'
<1> SUFFICES ASSUME LimiterInv, [Limiter!Next]_limiterVars PROVE LimiterInv'
  OBVIOUS
<1> USE LimiterConstants
<1>1. CASE UNCHANGED limiterVars
  BY <1>1
  DEF limiterVars, LimiterInv, ClockInv, BucketInv, Level, WindowInv, Windowed, SpansInv,
      Limiter!Bucket, Limiter!Full
<1>2. CASE Limiter!Next
  <2>1. ClockInv /\ algorithm' = algorithm
    BY <1>2
    DEF LimiterInv, Limiter!Next, Limiter!AllowN, Limiter!Tokens, Limiter!AllowLeaky,
        Limiter!AllowFixed, Limiter!AllowSliding, Limiter!AllowInWindow, Limiter!Tick,
        Limiter!Request
  <2>2. ClockInv'
    <3>1. CASE Limiter!Tick \/ Limiter!Tokens
      BY <2>1, <3>1
      DEF Limiter!Tick, Limiter!Tokens, Limiter!answerVars, ClockInv
    <3>2. ASSUME NEW yes \in BOOLEAN, NEW n \in {1, 2}, Limiter!Reply(yes, n), now' = now
          PROVE  ClockInv'
      BY <2>1, <3>2, ReplyAppends
    <3>3. ASSUME NEW n \in {1, 2}, Limiter!AllowN(n) PROVE ClockInv'
      <4> DEFINE yes == Limiter!refill >= n * Scale
      <4>1. yes \in BOOLEAN /\ Limiter!Reply(yes, n) /\ now' = now
        BY <3>3 DEF Limiter!AllowN, Limiter!Request
      <4> HIDE DEF yes
      <4> QED BY <3>2, <4>1
    <3>4. CASE Limiter!AllowLeaky
      <4> DEFINE yes == Limiter!leaked + Scale <= Limiter!Full
      <4>1. yes \in BOOLEAN /\ Limiter!Reply(yes, 1) /\ now' = now
        BY <3>4 DEF Limiter!AllowLeaky, Limiter!Request
      <4> HIDE DEF yes
      <4> QED BY <3>2, <4>1
    <3>5. ASSUME NEW r, Limiter!AllowInWindow(r) PROVE ClockInv'
      <4> DEFINE yes == Limiter!UnderLimit(r)
      <4>1. yes \in BOOLEAN /\ Limiter!Reply(yes, 1) /\ now' = now
        BY <3>5 DEF Limiter!AllowInWindow, Limiter!Request, Limiter!UnderLimit
      <4> HIDE DEF yes
      <4> QED BY <3>2, <4>1
    <3> QED
      BY <1>2, <3>1, <3>3, <3>4, <3>5
      DEF Limiter!Next, Limiter!AllowFixed, Limiter!AllowSliding
  <2>3. ASSUME Limiter!Bucket PROVE BucketInv'
    BY <1>2, <2>1, <2>3, BucketNext DEF LimiterInv, Limiter!Bucket
  <2>4. ASSUME ~ Limiter!Bucket PROVE WindowInv'
    <3>1. WindowInv /\ SpansInv /\ algorithm \in {"FixedWindow", "SlidingWindow"}
      BY <2>4 DEF LimiterInv, Limiter!Bucket, WindowInv
    <3>2. CASE Limiter!Tick
      <4>1. /\ now \in Nat /\ now' \in Nat /\ now <= now'
            /\ UNCHANGED <<windowStart, current, previous, grants, algorithm>>
        BY <2>1, <3>2 DEF Limiter!Tick, Limiter!windowVars, ClockInv
      <4>2. Windowed(windowStart, previous, current)'
        <5>1. Windowed(windowStart, previous, current)
          BY <3>1 DEF WindowInv
        <5>2. windowStart' \in 0 .. now'
          BY <4>1, <5>1 DEF Windowed
        <5> QED BY <4>1, <5>1, <5>2, Zenon DEF Windowed
      <4>3. SpansInv'
        BY <3>1, <4>1 DEF SpansInv
      <4> QED BY <4>2, <4>3 DEF WindowInv
    <3>3. CASE Limiter!AllowFixed
      <4> DEFINE r == Limiter!RollFixed
      <4>1. Limiter!AllowInWindow(r) /\ algorithm = "FixedWindow"
        BY <3>3 DEF Limiter!AllowFixed
      <4>2. Windowed(r.start, r.prev, r.cur) /\ now - r.start < window
        BY <2>1, <3>1, <4>1, RolledFixed
      <4> HIDE DEF r
      <4> QED BY <2>1, <3>1, <4>1, <4>2, WindowAnswers
    <3>4. CASE Limiter!AllowSliding
      <4> DEFINE r == Limiter!RollSliding
      <4>1. Limiter!AllowInWindow(r) /\ algorithm = "SlidingWindow"
        BY <3>4 DEF Limiter!AllowSliding
      <4>2. Windowed(r.start, r.prev, r.cur) /\ now - r.start < window
        BY <2>1, <3>1, <4>1, RolledSliding
      <4> HIDE DEF r
      <4> QED BY <2>1, <3>1, <4>1, <4>2, WindowAnswers
    <3> QED
      BY <1>2, <3>1, <3>2, <3>3, <3>4
      DEF Limiter!Next, Limiter!AllowN, Limiter!Tokens, Limiter!AllowLeaky
  <2> QED BY <2>1, <2>2, <2>3, <2>4 DEF LimiterInv, Limiter!Bucket
<1> QED BY <1>1, <1>2

LEMMA LimiterInvariant == Spec => []LimiterInv
<1>1. Init => LimiterInv
  BY LimiterInit DEF Init
<1>2. LimiterInv /\ [Next]_vars => LimiterInv'
  <2> SUFFICES ASSUME LimiterInv, [Next]_vars PROVE LimiterInv'
    OBVIOUS
  <2>1. [Limiter!Next]_limiterVars
    BY DEF Next, BreakerStep, BulkheadStep, RetryStep, LimiterStep, vars, limiterVars
  <2> QED BY <2>1, LimiterNext
<1> QED BY <1>1, <1>2, PTL DEF Spec

\* RateLimiter.EverySpanIsBounded (limiter.go:3-6, :72, :111-113, :145) for any capacity,
\* rate, limit and window: however requests, readings and the clock interleave, what any
\* of the four limiters lets through in a span of time stays within its bound.
THEOREM SpansBounded == Spec => []EverySpanIsBounded
<1>1. LimiterInv => EverySpanIsBounded
  <2> SUFFICES ASSUME LimiterInv PROVE EverySpanIsBounded
    OBVIOUS
  <2> USE LimiterConstants
  <2>0. Len(grants) \in Nat /\ \A i \in 1 .. Len(grants) : grants[i] \in Nat
    BY DEF LimiterInv, ClockInv
  <2> SUFFICES ASSUME NEW s \in Limiter!Spans
               PROVE  /\ Limiter!Bucket =>
                           Limiter!Granted(s) * Scale <= Limiter!Full + rate * Limiter!Took(s)
                      /\ algorithm = "FixedWindow" /\ Limiter!Took(s) < window =>
                           Limiter!Granted(s) <= 2 * limit
                      /\ algorithm = "SlidingWindow" /\ Limiter!Took(s) < window =>
                           (Limiter!Granted(s) - 1) * window
                               <= limit * (window + Limiter!Took(s))
    BY DEF EverySpanIsBounded, Limiter!EverySpanIsBounded, Limiter!BurstThenSteadyRate,
           Limiter!AtMostTwiceTheLimit, Limiter!NoBoundaryBurst
  <2> DEFINE i == s[1]
             j == s[2]
  <2>1. /\ i \in 1 .. Len(grants) /\ j \in 1 .. Len(grants) /\ i <= j
        /\ Limiter!Took(s) = grants[j] - grants[i]
        /\ Limiter!Granted(s) = j - i + 1
    BY DEF Limiter!Spans, Limiter!Took, Limiter!Granted
  <2> HIDE DEF i, j
  <2>2. Limiter!Granted(s) - 1 = j - i
    BY <2>0, <2>1
  <2>3. Limiter!Bucket =>
          Limiter!Granted(s) * Scale <= Limiter!Full + rate * Limiter!Took(s)
    BY <2>1 DEF LimiterInv, BucketInv
  <2>4. ~ Limiter!Bucket => SpansInv
    BY DEF LimiterInv, WindowInv
  <2> QED BY <2>1, <2>2, <2>3, <2>4 DEF SpansInv, Limiter!Bucket
<1> QED BY <1>1, LimiterInvariant, PTL

\* RateLimiter.NeverStingy (limiter.go:48-52, :92-104) for any capacity and rate: a bucket
\* refuses only what would break its bound, however often it was asked or read before.
THEOREM BucketsAreNotStingy == Spec => []NeverStingy
<1>1. LimiterInv => NeverStingy
  BY DEF LimiterInv, BucketInv, NeverStingy, Limiter!NeverStingy
<1> QED BY <1>1, LimiterInvariant, PTL
=============================================================================
