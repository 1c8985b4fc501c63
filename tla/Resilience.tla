----------------------------- MODULE Resilience -----------------------------
(***************************************************************************)
(* The four resilience patterns of the handbook: the circuit breaker, the  *)
(* bulkhead, the retry policy and the rate limiters. The packages share no *)
(* state, so a behaviour exercises one of them, named by pattern, and      *)
(* leaves the others in their initial state.                               *)
(***************************************************************************)
EXTENDS Integers, FiniteSets

CONSTANTS
    Callers, FailureThreshold, SuccessThreshold, OpenTimeout, HalfOpenMaxCalls,
    Calls, TryCalls, Capacity,
    Attempts, Bases, Caps, Multipliers, MaxDuration,
    Scale, capacity, rate, limit, window, MaxTime, MaxGrants

VARIABLES
    pattern,
    state, failures, successes, halfOpenCall, openFor, healthy, role, lost,
    slots, active, accepted, rejected, bulkPc, ctxDone, bulkResult,
    policy, retryPc, attempt, delay, cancelled, outcomes, late, retryResult,
    algorithm, now, amount, last, windowStart, current, previous, grants, refused

Breaker == INSTANCE CircuitBreaker
Compartment == INSTANCE Bulkhead WITH pc <- bulkPc, result <- bulkResult
Retrier == INSTANCE Retry WITH pc <- retryPc, result <- retryResult
Limiter == INSTANCE RateLimiter

ASSUME Assumptions ==
    /\ Breaker!BreakerAssumption /\ Compartment!BulkheadAssumption
    /\ Retrier!RetryAssumption /\ Limiter!LimiterAssumption

breakerVars == <<state, failures, successes, halfOpenCall, openFor, healthy, role, lost>>
bulkVars == <<slots, active, accepted, rejected, bulkPc, ctxDone, bulkResult>>
retryVars == <<policy, retryPc, attempt, delay, cancelled, outcomes, late, retryResult>>
limiterVars == <<algorithm, now, amount, last, windowStart, current, previous, grants, refused>>
vars == <<pattern, breakerVars, bulkVars, retryVars, limiterVars>>

\* Which limiter is used matters to the limiter's behaviours only.
Init ==
    /\ pattern \in {"breaker", "bulkhead", "retry", "limiter"}
    /\ Breaker!Init /\ Compartment!Init /\ Retrier!Init /\ Limiter!Init
    /\ pattern = "limiter" \/ algorithm = "TokenBucket"

BreakerStep ==
    /\ pattern = "breaker" /\ Breaker!Next
    /\ UNCHANGED <<pattern, bulkVars, retryVars, limiterVars>>
BulkheadStep ==
    /\ pattern = "bulkhead" /\ Compartment!Next
    /\ UNCHANGED <<pattern, breakerVars, retryVars, limiterVars>>
RetryStep ==
    /\ pattern = "retry" /\ Retrier!Next
    /\ UNCHANGED <<pattern, breakerVars, bulkVars, limiterVars>>
LimiterStep ==
    /\ pattern = "limiter" /\ Limiter!Next
    /\ UNCHANGED <<pattern, breakerVars, bulkVars, retryVars>>

Next == BreakerStep \/ BulkheadStep \/ RetryStep \/ LimiterStep

Spec ==
    /\ Init /\ [][Next]_vars
    /\ pattern = "breaker" => Breaker!Fairness
    /\ pattern = "bulkhead" => Compartment!Fairness

\* breaker_test.go:154: CircuitBreaker's bound on the probes of one half-open period.
ProbesOfPeriodCapped == Breaker!ProbesOfPeriodCapped

\* breaker.go:3-9: the breaker of a healthy dependency closes.
Recovers == pattern = "breaker" => Breaker!Recovers

\* bulkhead_test.go:39: never more functions at once than the bulkhead has slots.
WithinCapacity == Compartment!WithinCapacity

\* bulkhead.go:43-45, bulkhead_test.go:75, :87: nobody queues for ever, even behind
\* functions that hang, and every slot comes back from functions that end.
SlotsComeBack == pattern = "bulkhead" => Compartment!NoEndlessWait /\ Compartment!SlotsComeBack

\* retry.go:46-47, :130: a delay keeps between its floor and its cap.
DelayWithinBounds == Retrier!DelayWithinBounds

\* retry.go:82: at most one call of fn begins after the cancellation.
OneLateCall == Retrier!OneLateCall

\* limiter.go:3-6: what a limiter lets through in a span of time, wherever it starts.
EverySpanIsBounded == Limiter!EverySpanIsBounded

\* limiter.go:48-52, :92-104: a bucket refuses no request it could let through.
NeverStingy == Limiter!NeverStingy
=============================================================================
