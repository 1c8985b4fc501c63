------------------------------- MODULE Retry --------------------------------
(***************************************************************************)
(* Policy.Do of code/retry_backoff_jitter/retry.go: one call of Do, with a *)
(* context that may be cancelled at any moment and a function that         *)
(* succeeds or fails as it likes. Durations are integers of a small width; *)
(* a random draw is any value the draw can give.                           *)
(***************************************************************************)
EXTENDS Integers, Sequences, FiniteSetsExt

CONSTANTS
    Attempts,      \* values of Policy.MaxAttempts
    Bases,         \* values of Policy.BaseDelay
    Caps,          \* values of Policy.MaxDelay; 0 for no cap
    Multipliers,   \* values of Policy.Multiplier
    MaxDuration    \* the largest time.Duration, 2^63 - 1 in the code

RetryAssumption ==
    /\ Attempts \subseteq Nat /\ Bases \subseteq Nat /\ Caps \subseteq Nat
    /\ Multipliers \subseteq Nat
    /\ MaxDuration \in Nat /\ MaxDuration % 2 = 1
    /\ \A b \in Bases \cup Caps : b <= MaxDuration

VARIABLES
    policy,      \* the Policy Do is called on, its defaults filled in
    pc,          \* "idle", "check", "call", "run", "sleep" or "done"
    attempt,
    delay,       \* the delay being slept; Do's prevDelay from then on
    cancelled,   \* ctx is cancelled
    outcomes,    \* history: what fn returned, call by call
    late,        \* history: how many calls of fn began after the cancellation
    result       \* what Do returned

vars == <<policy, pc, attempt, delay, cancelled, outcomes, late, result>>

Jitters == {"None", "Full", "Equal", "Decorrelated"}
MinDuration == -MaxDuration - 1

\* Conversion of a float to a Duration: out of range it is up to the architecture,
\* the least value on amd64 and the nearest one on arm64.
ToDuration(x) == IF x <= MaxDuration THEN {x} ELSE {MinDuration, MaxDuration}

\* Multiplication of Durations wraps around.
Wrap(x) == ((x - MinDuration) % (2 * (MaxDuration + 1))) + MinDuration

\* The values of time.Duration(random() * float64(x)), random() being in [0, 1).
Draws(x) == IF x > 0 THEN 0 .. (x - 1) ELSE IF x = 0 THEN {0} ELSE (x + 1) .. 0

\* math.Pow, for the whole multipliers modelled.
Pow(x, n) ==
    LET power[k \in Nat] == IF k = 0 THEN 1 ELSE x * power[k - 1] IN power[n]

\* The delays Backoff(a) can return.
Backoff(a) ==
    LET d == policy.BaseDelay * Pow(policy.Multiplier, a - 1) IN
    IF policy.MaxDelay > 0 /\ d > policy.MaxDelay THEN {policy.MaxDelay} ELSE ToDuration(d)

\* Mutant: equal jitter draws from the whole backoff.
JitteredEqualFull(base, prev) ==
    CASE policy.Jitter = "None"  -> {base}
      [] policy.Jitter \in {"Full", "Equal"} -> Draws(base)
      [] policy.Jitter = "Decorrelated" -> {Max({d, policy.BaseDelay}) : d \in Draws(Wrap(3 * prev))}

\* The switch of delayFor.
Jittered(base, prev) ==
    CASE policy.Jitter = "None"  -> {base}
      [] policy.Jitter = "Full"  -> Draws(base)
      [] policy.Jitter = "Equal" -> {(base \div 2) + d : d \in Draws(base \div 2)}
      [] policy.Jitter = "Decorrelated" -> {Max({d, policy.BaseDelay}) : d \in Draws(Wrap(3 * prev))}

Capped(d) == IF policy.MaxDelay > 0 THEN Min({d, policy.MaxDelay}) ELSE d

\* The delays delayFor(a, prev) can return.
delayFor(a, prev) ==
    {Capped(d) : d \in UNION {Jittered(base, prev) : base \in Backoff(a)}}

-----------------------------------------------------------------------------

\* Do fills in what the policy leaves out.
Filled(p) ==
    [p EXCEPT !.MaxAttempts = IF @ = 0 THEN 1 ELSE @, !.Multiplier = IF @ = 0 THEN 2 ELSE @]

Policies == [MaxAttempts : Attempts, BaseDelay : Bases, MaxDelay : Caps,
             Multiplier : Multipliers, Jitter : Jitters]

ZeroPolicy == [MaxAttempts |-> 0, BaseDelay |-> 0, MaxDelay |-> 0, Multiplier |-> 0,
               Jitter |-> "None"]

Init ==
    /\ policy = ZeroPolicy /\ pc = "idle" /\ attempt = 1 /\ delay = 0
    /\ cancelled = FALSE
    /\ outcomes = <<>> /\ late = 0
    /\ result = "none"

\* Do is called.
Start ==
    /\ pc = "idle"
    /\ \E p \in Policies : policy' = Filled(p) /\ delay' = p.BaseDelay
    /\ pc' = "check"
    /\ UNCHANGED <<attempt, cancelled, outcomes, late, result>>

Return(r) == pc' = "done" /\ result' = r

\* The context is cancelled, by its owner or by its deadline.
Cancel ==
    /\ ~cancelled /\ pc # "done"
    /\ cancelled' = TRUE
    /\ UNCHANGED <<policy, pc, attempt, delay, outcomes, late, result>>

\* Mutant: the context is only watched during the sleep.
CheckUnseen ==
    /\ pc = "check"
    /\ pc' = "call"
    /\ UNCHANGED <<policy, attempt, delay, cancelled, outcomes, late, result>>

\* ctx.Err() at the top of the loop; the call of fn comes after it.
Check ==
    /\ pc = "check" /\ ~cancelled
    /\ pc' = "call"
    /\ UNCHANGED <<policy, attempt, delay, cancelled, outcomes, late, result>>

CheckCancelled ==
    /\ pc = "check" /\ cancelled
    /\ Return("cancelled")
    /\ UNCHANGED <<policy, attempt, delay, cancelled, outcomes, late>>

Call ==
    /\ pc = "call"
    /\ pc' = "run"
    /\ late' = late + (IF cancelled THEN 1 ELSE 0)
    /\ UNCHANGED <<policy, attempt, delay, cancelled, outcomes, result>>

\* fn succeeds, or fails with a Permanent or with an error Retryable rejects.
FnEnds ==
    /\ pc = "run"
    /\ \E r \in {"ok", "permanent", "rejected"} : outcomes' = Append(outcomes, r) /\ Return(r)
    /\ UNCHANGED <<policy, attempt, delay, cancelled, late>>

FnExhausts ==
    /\ pc = "run" /\ attempt = policy.MaxAttempts
    /\ outcomes' = Append(outcomes, "transient")
    /\ Return("exhausted")
    /\ UNCHANGED <<policy, attempt, delay, cancelled, late>>

FnFails ==
    /\ pc = "run" /\ attempt < policy.MaxAttempts
    /\ outcomes' = Append(outcomes, "transient")
    /\ delay' \in delayFor(attempt, delay)
    /\ pc' = "sleep"
    /\ UNCHANGED <<policy, attempt, cancelled, late, result>>

\* The select: with the timer and the context both ready either case may be taken.
TimerFires ==
    /\ pc = "sleep"
    /\ attempt' = attempt + 1
    /\ pc' = "check"
    /\ UNCHANGED <<policy, delay, cancelled, outcomes, late, result>>

SleepCancelled ==
    /\ pc = "sleep" /\ cancelled
    /\ Return("cancelled")
    /\ UNCHANGED <<policy, attempt, delay, cancelled, outcomes, late>>

Do == Start \/ Check \/ CheckCancelled \/ Call \/ FnEnds \/ FnExhausts \/ FnFails \/ SleepCancelled

Returned == pc = "done" /\ UNCHANGED vars

Next == Do \/ TimerFires \/ Cancel \/ Returned

Spec == Init /\ [][Next]_vars

-----------------------------------------------------------------------------

\* retry.go:46-47, :130 "capped", :164 and retry_test.go:191-192: a delay is never
\* above MaxDelay, however large the backoff has grown; equal jitter waits at least
\* half of the backoff before every retry, and decorrelated jitter at least
\* BaseDelay, where the cap allows it. Without a MaxDelay the floor holds as long as
\* the un-jittered backoff fits a Duration.
DelayWithinBounds ==
    LET nominal == policy.BaseDelay * Pow(policy.Multiplier, attempt - 1)
        floor == CASE policy.Jitter = "None" -> nominal
                   [] policy.Jitter = "Full" -> 0
                   [] policy.Jitter = "Equal" -> nominal \div 2
                   [] policy.Jitter = "Decorrelated" -> policy.BaseDelay
    IN  pc = "sleep" =>
          IF policy.MaxDelay > 0
          THEN /\ delay \in 0 .. policy.MaxDelay
               /\ delay >= floor \/ delay >= policy.MaxDelay \div 2
          ELSE nominal <= MaxDuration => delay >= floor

\* retry.go:82 "runs fn until it succeeds, the policy is exhausted, or ctx is cancelled":
\* once ctx is cancelled at most one more call of fn begins, the one that had passed
\* the check already, even if the timer wins the race with the cancellation; and only
\* retryable failures are retried, at most MaxAttempts times.
OneLateCall ==
    /\ late <= 1
    /\ \A i \in 1 .. (Len(outcomes) - 1) : outcomes[i] = "transient"
    /\ pc # "idle" => Len(outcomes) <= policy.MaxAttempts
=============================================================================
