--------------------------- MODULE CircuitBreaker ---------------------------
(***************************************************************************)
(* The three-state breaker of code/circuit_breaker/breaker.go.             *)
(*                                                                         *)
(* Call is beforeCall under the lock, fn without it, and afterCall under   *)
(* the lock again, so the result of a call may be counted in another state *)
(* than the one that admitted it. A call that beforeCall refuses changes   *)
(* nothing. transition(to) appears inlined in the steps that take it.      *)
(***************************************************************************)
EXTENDS Integers, FiniteSets

CONSTANTS
    Callers,            \* goroutines, each in at most one Call at a time
    FailureThreshold, SuccessThreshold, OpenTimeout, HalfOpenMaxCalls   \* Config

\* New replaces thresholds that are not positive; it relates none of them.
BreakerAssumption ==
    /\ IsFiniteSet(Callers)
    /\ FailureThreshold \in Nat \ {0}
    /\ SuccessThreshold \in Nat \ {0}
    /\ HalfOpenMaxCalls \in Nat \ {0}
    /\ OpenTimeout \in Nat

VARIABLES
    state,
    failures,       \* counted up to FailureThreshold: nothing tells more apart
    successes,
    halfOpenCall,
    openFor,        \* now - openedAt, counted up to OpenTimeout
    healthy,        \* the dependency: once healthy, fn succeeds
    role,           \* per caller: the call in flight, by what admitted it
    lost            \* history: probes of this half-open period that panicked

vars == <<state, failures, successes, halfOpenCall, openFor, healthy, role, lost>>

\* "call": admitted while closed. "probe": admitted in the present half-open
\* period. "late": a probe of an earlier one.
Roles == {"none", "call", "probe", "late"}

Init ==
    /\ state = "closed"
    /\ failures = 0 /\ successes = 0 /\ halfOpenCall = 0
    /\ openFor = 0
    /\ healthy = FALSE
    /\ role = [c \in Callers |-> "none"]
    /\ lost = 0

-----------------------------------------------------------------------------
(* beforeCall                                                              *)

Pass(c) ==
    /\ role[c] = "none"
    /\ state = "closed"
    /\ role' = [role EXCEPT ![c] = "call"]
    /\ UNCHANGED <<state, failures, successes, halfOpenCall, openFor, healthy, lost>>

\* The timeout has expired: transition(StateHalfOpen), then the first probe.
FirstProbe(c) ==
    /\ role[c] = "none"
    /\ state = "open" /\ openFor >= OpenTimeout
    /\ state' = "halfOpen"
    /\ successes' = 0
    /\ halfOpenCall' = 1
    /\ role' = [role EXCEPT ![c] = "probe"]
    /\ lost' = 0
    /\ UNCHANGED <<failures, openFor, healthy>>

\* Mutant: the cap is off by one.
ProbeOverCap(c) ==
    /\ role[c] = "none"
    /\ state = "halfOpen" /\ halfOpenCall <= HalfOpenMaxCalls
    /\ halfOpenCall' = halfOpenCall + 1
    /\ role' = [role EXCEPT ![c] = "probe"]
    /\ UNCHANGED <<state, failures, successes, openFor, healthy, lost>>

Probe(c) ==
    /\ role[c] = "none"
    /\ state = "halfOpen" /\ halfOpenCall < HalfOpenMaxCalls
    /\ halfOpenCall' = halfOpenCall + 1
    /\ role' = [role EXCEPT ![c] = "probe"]
    /\ UNCHANGED <<state, failures, successes, openFor, healthy, lost>>

-----------------------------------------------------------------------------
(* afterCall                                                               *)

\* The call of c is over and the half-open period, if any, with it.
EndPeriod(c) == [d \in Callers |->
    IF d = c THEN "none" ELSE IF role[d] = "probe" THEN "late" ELSE role[d]]

FailureTrips == state = "halfOpen" \/ failures + 1 >= FailureThreshold

\* transition(StateOpen) does nothing in StateOpen: openedAt is kept.
Failure(c) ==
    /\ role[c] # "none" /\ ~ healthy
    /\ failures' = IF failures < FailureThreshold THEN failures + 1 ELSE failures
    /\ successes' = 0
    /\ IF FailureTrips /\ state # "open"
       THEN /\ state' = "open"
            /\ openFor' = 0
            /\ halfOpenCall' = 0
            /\ role' = EndPeriod(c)
            /\ lost' = 0
       ELSE /\ role' = [role EXCEPT ![c] = "none"]
            /\ UNCHANGED <<state, openFor, halfOpenCall, lost>>
    /\ UNCHANGED healthy

SuccessCounts(c) ==
    /\ successes' = successes + 1
    /\ role' = [role EXCEPT ![c] = "none"]
    /\ UNCHANGED <<state, halfOpenCall, lost>>

\* transition(StateClosed).
SuccessCloses(c) ==
    /\ state' = "closed"
    /\ successes' = 0
    /\ halfOpenCall' = 0
    /\ role' = EndPeriod(c)
    /\ lost' = 0

\* Mutant: closing takes one success more.
SuccessOneMore(c) ==
    /\ role[c] # "none"
    /\ failures' = 0
    /\ IF state = "halfOpen"
       THEN IF successes >= SuccessThreshold THEN SuccessCloses(c) ELSE SuccessCounts(c)
       ELSE /\ role' = [role EXCEPT ![c] = "none"]
            /\ UNCHANGED <<state, successes, halfOpenCall, lost>>
    /\ UNCHANGED <<openFor, healthy>>

Success(c) ==
    /\ role[c] # "none"
    /\ failures' = 0
    /\ IF state = "halfOpen"
       THEN IF successes + 1 >= SuccessThreshold THEN SuccessCloses(c) ELSE SuccessCounts(c)
       ELSE /\ role' = [role EXCEPT ![c] = "none"]
            /\ UNCHANGED <<state, successes, halfOpenCall, lost>>
    /\ UNCHANGED <<openFor, healthy>>

\* fn panics: the frame unwinds through Call and afterCall never runs.
Panic(c) ==
    /\ role[c] # "none" /\ ~ healthy
    /\ role' = [role EXCEPT ![c] = "none"]
    /\ lost' = IF role[c] = "probe" THEN lost + 1 ELSE lost
    /\ UNCHANGED <<state, failures, successes, halfOpenCall, openFor, healthy>>

-----------------------------------------------------------------------------
(* The clock and the dependency.                                           *)

Tick ==
    /\ openFor' = IF state = "open" /\ openFor < OpenTimeout THEN openFor + 1 ELSE openFor
    /\ UNCHANGED <<state, failures, successes, halfOpenCall, healthy, role, lost>>

Repair ==
    /\ ~ healthy
    /\ healthy' = TRUE
    /\ UNCHANGED <<state, failures, successes, halfOpenCall, openFor, role, lost>>

beforeCall(c) == Pass(c) \/ FirstProbe(c) \/ Probe(c)
afterCall(c) == Success(c) \/ Failure(c)

Next ==
    \/ \E c \in Callers : beforeCall(c) \/ afterCall(c) \/ Panic(c)
    \/ Tick
    \/ Repair

Spec == Init /\ [][Next]_vars

\* Somebody keeps calling, a call returns, and time passes.
Fairness ==
    /\ WF_vars(\E c \in Callers : beforeCall(c))
    /\ \A c \in Callers : WF_vars(afterCall(c))
    /\ WF_vars(Tick)

-----------------------------------------------------------------------------

Probes == {c \in Callers : role[c] = "probe"}

\* breaker_test.go:154 "Without this cap, every waiting caller floods the
\* dependency": of the calls admitted since the breaker last became half-open, at
\* most HalfOpenMaxCalls are in flight.
ProbesOfPeriodCapped == Cardinality(Probes) <= HalfOpenMaxCalls

\* breaker.go:3-9, "while it tries to recover ... probes decide whether to close
\* again": a breaker whose dependency has recovered closes in the end, unless a
\* probe of its half-open period was lost to a panic. This needs SuccessThreshold
\* <= HalfOpenMaxCalls, which New does not see to.
Recovers == healthy ~> (state = "closed" \/ lost > 0)
=============================================================================
