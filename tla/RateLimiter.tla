----------------------------- MODULE RateLimiter -----------------------------
(***************************************************************************)
(* The four limiters of code/rate_limiter/limiter.go. They share a clock   *)
(* and nothing else, so a behaviour uses one of them, named by algorithm.  *)
(* Every Allow holds the lock, so it is one step. Time is counted in       *)
(* ticks; amounts that are fractions per second in the code are whole      *)
(* numbers of 1/Scale of a request, so arithmetic is exact.                *)
(***************************************************************************)
EXTENDS Integers, Sequences

CONSTANTS
    Scale,              \* one request
    capacity, rate,     \* of the buckets: requests, and 1/Scale of one per tick
    limit, window,      \* of the windows: requests, and ticks
    MaxTime,            \* bound: the clock stops here
    MaxGrants           \* bound: no more requests are made after this many grants

LimiterAssumption ==
    /\ Scale \in Nat \ {0} /\ capacity \in Nat /\ rate \in Nat \ {0}
    /\ limit \in Nat \ {0} /\ window \in Nat \ {0}
    /\ MaxTime \in Nat /\ MaxGrants \in Nat

VARIABLES
    algorithm,
    now,
    amount, last,                     \* buckets: tokens or level, in 1/Scale of a request
    windowStart, current, previous,   \* windows: FixedWindow.count is current
    grants,     \* history: the time of every request let through
    refused     \* history: the size of the request just refused, or 0

bucketVars == <<amount, last>>
windowVars == <<windowStart, current, previous>>
answerVars == <<grants, refused>>
vars == <<algorithm, now, bucketVars, windowVars, answerVars>>

Full == capacity * Scale

\* One of the constructors.
Init ==
    /\ algorithm \in {"TokenBucket", "LeakyBucket", "FixedWindow", "SlidingWindow"}
    /\ amount = IF algorithm = "TokenBucket" THEN Full ELSE 0
    /\ now = 0 /\ last = 0
    /\ windowStart = 0 /\ current = 0 /\ previous = 0
    /\ grants = <<>> /\ refused = 0

Tick ==
    /\ now' = IF now < MaxTime THEN now + 1 ELSE now
    /\ refused' = 0
    /\ UNCHANGED <<algorithm, bucketVars, windowVars, grants>>

\* A request of size n reaches the limiter and is answered.
Request == Len(grants) < MaxGrants /\ UNCHANGED <<algorithm, now>>
Reply(yes, n) ==
    /\ grants' = IF yes THEN grants \o [i \in 1 .. n |-> now] ELSE grants
    /\ refused' = IF yes THEN 0 ELSE n

-----------------------------------------------------------------------------

refill ==
    LET tokens == amount + (now - last) * rate IN IF tokens > Full THEN Full ELSE tokens

\* Mutant: a refusal forgets the time it has not credited.
AllowNLosesTime(n) ==
    /\ algorithm = "TokenBucket" /\ Request
    /\ last' = now
    /\ Reply(refill >= n * Scale, n)
    /\ amount' = IF refill >= n * Scale THEN refill - n * Scale ELSE amount
    /\ UNCHANGED windowVars

\* TokenBucket.AllowN; Allow is AllowN(1).
AllowN(n) ==
    /\ algorithm = "TokenBucket" /\ Request
    /\ last' = now
    /\ Reply(refill >= n * Scale, n)
    /\ amount' = IF refill >= n * Scale THEN refill - n * Scale ELSE refill
    /\ UNCHANGED windowVars

\* A reading refills too.
Tokens ==
    /\ algorithm = "TokenBucket"
    /\ amount' = refill /\ last' = now
    /\ UNCHANGED <<algorithm, now, windowVars, answerVars>>

leaked == LET level == amount - (now - last) * rate IN IF level < 0 THEN 0 ELSE level

AllowLeaky ==
    /\ algorithm = "LeakyBucket" /\ Request
    /\ last' = now
    /\ Reply(leaked + Scale <= Full, 1)
    /\ amount' = IF leaked + Scale <= Full THEN leaked + Scale ELSE leaked
    /\ UNCHANGED windowVars

-----------------------------------------------------------------------------

RollFixed ==
    IF now - windowStart >= window THEN [start |-> now, prev |-> 0, cur |-> 0]
    ELSE [start |-> windowStart, prev |-> 0, cur |-> current]

RollSliding ==
    LET elapsed == now - windowStart IN
    CASE elapsed >= 2 * window -> [start |-> now, prev |-> 0, cur |-> 0]
      [] elapsed >= window /\ elapsed < 2 * window ->
            [start |-> windowStart + window, prev |-> current, cur |-> 0]
      [] elapsed < window -> [start |-> windowStart, prev |-> previous, cur |-> current]

\* Mutant: the previous window is not counted.
UnderLimitIgnoresPrevious(r) == r.cur < limit

\* SlidingWindow's estimated < limit, times window; FixedWindow has no previous.
UnderLimit(r) == r.prev * (window - (now - r.start)) + r.cur * window < limit * window

\* The window moves before the request is counted, and also when it is refused.
AllowInWindow(r) ==
    /\ Request
    /\ windowStart' = r.start /\ previous' = r.prev
    /\ Reply(UnderLimit(r), 1)
    /\ current' = IF UnderLimit(r) THEN r.cur + 1 ELSE r.cur
    /\ UNCHANGED bucketVars

AllowFixed == algorithm = "FixedWindow" /\ AllowInWindow(RollFixed)
AllowSliding == algorithm = "SlidingWindow" /\ AllowInWindow(RollSliding)

Next ==
    \/ AllowN(1) \/ AllowN(2) \/ Tokens
    \/ AllowLeaky
    \/ AllowFixed
    \/ AllowSliding
    \/ Tick

Spec == Init /\ [][Next]_vars

-----------------------------------------------------------------------------

Bucket == algorithm \in {"TokenBucket", "LeakyBucket"}
Spans == {s \in (1 .. Len(grants)) \X (1 .. Len(grants)) : s[1] <= s[2]}
Took(s) == grants[s[2]] - grants[s[1]]
Granted(s) == s[2] - s[1] + 1

BurstThenSteadyRate ==
    Bucket => \A s \in Spans : Granted(s) * Scale <= Full + rate * Took(s)

AtMostTwiceTheLimit ==
    algorithm = "FixedWindow" =>
        \A s \in Spans : Took(s) < window => Granted(s) <= 2 * limit

NoBoundaryBurst ==
    algorithm = "SlidingWindow" =>
        \A s \in Spans : Took(s) < window =>
            (Granted(s) - 1) * window <= limit * (window + Took(s))

\* limiter.go:3-6, :72, :111-113, :145: over every span of time, wherever it starts, a
\* bucket lets through no more than its capacity and what flows in, or drains, in that
\* span; a fixed window no more than twice the limit in less than a window; a sliding
\* window, in d ticks, no more than the limit and the share d/window of it, but for
\* rounding up ("eliminates the fixed-window boundary burst").
EverySpanIsBounded == BurstThenSteadyRate /\ AtMostTwiceTheLimit /\ NoBoundaryBurst

\* limiter.go:48-52, :92-104: a bucket is not stingy either. It only refuses a request
\* that would exceed that in some span, counted from an earlier grant or from the request
\* itself, however often the bucket was asked or read in between.
NeverStingy ==
    Bucket /\ refused > 0 =>
        \/ refused > capacity
        \/ \E i \in 1 .. Len(grants) :
              (Len(grants) - i + 1 + refused) * Scale > Full + rate * (now - grants[i])
=============================================================================
