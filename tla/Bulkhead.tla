------------------------------ MODULE Bulkhead ------------------------------
(***************************************************************************)
(* The bulkhead of code/bulkhead_semaphore/bulkhead.go: calls of Do and    *)
(* TryDo on one compartment. The slot channel and the three counters are   *)
(* updated one after the other, without a lock, so other calls run between *)
(* any two of the updates.                                                 *)
(***************************************************************************)
EXTENDS Integers, FiniteSets

CONSTANTS
    Calls,       \* every call made
    TryCalls,    \* those of them made through TryDo
    Capacity

\* NewBulkhead panics unless the capacity is positive.
BulkheadAssumption ==
    /\ IsFiniteSet(Calls)
    /\ TryCalls \subseteq Calls
    /\ Capacity \in Nat \ {0}

VARIABLES
    slots,       \* tokens in the channel
    active, accepted, rejected,
    pc,          \* per call
    ctxDone,     \* per call: its context has expired
    result       \* per call: what Do or TryDo returned

vars == <<slots, active, accepted, rejected, pc, ctxDone, result>>

Init ==
    /\ slots = 0 /\ active = 0 /\ accepted = 0 /\ rejected = 0
    /\ pc = [c \in Calls |-> "select"]
    /\ ctxDone = [c \in Calls |-> FALSE]
    /\ result = [c \in Calls |-> "none"]

Goto(c, label) == pc' = [pc EXCEPT ![c] = label]

\* The deadline of a caller of Do passes, at any time.
Expire(c) ==
    /\ c \notin TryCalls /\ ~ ctxDone[c]
    /\ ctxDone' = [ctxDone EXCEPT ![c] = TRUE]
    /\ UNCHANGED <<slots, active, accepted, rejected, pc, result>>

\* The send on slots succeeds, in Do and in TryDo. In Do both cases of the select
\* may be ready, and then either is taken.
Acquire(c) ==
    /\ pc[c] = "select"
    /\ slots < Capacity
    /\ slots' = slots + 1
    /\ Goto(c, "granted")
    /\ UNCHANGED <<active, accepted, rejected, ctxDone, result>>

\* The context has expired (ErrFull) or was cancelled (its own error).
RejectDo(c) ==
    /\ pc[c] = "select" /\ c \notin TryCalls
    /\ ctxDone[c]
    /\ rejected' = rejected + 1
    /\ result' = [result EXCEPT ![c] = "ErrFull"]
    /\ Goto(c, "done")
    /\ UNCHANGED <<slots, active, accepted, ctxDone>>

RejectTryDo(c) ==
    /\ pc[c] = "select" /\ c \in TryCalls
    /\ slots = Capacity
    /\ rejected' = rejected + 1
    /\ result' = [result EXCEPT ![c] = "ErrFull"]
    /\ Goto(c, "done")
    /\ UNCHANGED <<slots, active, accepted, ctxDone>>

CountAccepted(c) ==
    /\ pc[c] = "granted"
    /\ accepted' = accepted + 1
    /\ Goto(c, "accepted")
    /\ UNCHANGED <<slots, active, rejected, ctxDone, result>>

\* active.Add(1), and fn starts.
Enter(c) ==
    /\ pc[c] = "accepted"
    /\ active' = active + 1
    /\ Goto(c, "running")
    /\ UNCHANGED <<slots, accepted, rejected, ctxDone, result>>

\* Mutant: the release is not deferred, so a panic skips it.
FinishLeaksOnPanic(c) ==
    /\ pc[c] = "running"
    /\ \E r \in {"ok", "err", "panic"} :
          /\ result' = [result EXCEPT ![c] = r]
          /\ Goto(c, IF r = "panic" THEN "done" ELSE "deactivate")
    /\ UNCHANGED <<slots, active, accepted, rejected, ctxDone>>

\* fn returns or panics; the deferred function runs either way.
Finish(c) ==
    /\ pc[c] = "running"
    /\ \E r \in {"ok", "err", "panic"} : result' = [result EXCEPT ![c] = r]
    /\ Goto(c, "deactivate")
    /\ UNCHANGED <<slots, active, accepted, rejected, ctxDone>>

\* Mutant: the slot is given back before active goes down.
DeactivateReleases(c) ==
    /\ pc[c] = "deactivate"
    /\ slots' = slots - 1
    /\ Goto(c, "release")
    /\ UNCHANGED <<active, accepted, rejected, ctxDone, result>>

Deactivate(c) ==
    /\ pc[c] = "deactivate"
    /\ active' = active - 1
    /\ Goto(c, "release")
    /\ UNCHANGED <<slots, accepted, rejected, ctxDone, result>>

Release(c) ==
    /\ pc[c] = "release"
    /\ slots' = slots - 1
    /\ Goto(c, "done")
    /\ UNCHANGED <<active, accepted, rejected, ctxDone, result>>

Do(c) ==
    \/ Acquire(c) \/ RejectDo(c) \/ RejectTryDo(c)
    \/ CountAccepted(c) \/ Enter(c) \/ Finish(c) \/ Deactivate(c) \/ Release(c)

AllReturned == (\A c \in Calls : pc[c] = "done") /\ UNCHANGED vars

Next ==
    \/ \E c \in Calls : Do(c) \/ Expire(c)
    \/ AllReturned

Spec == Init /\ [][Next]_vars

\* Goroutines run and every context of Do has a deadline (:43-45), but fn need not
\* return.
Unfinished(c) == Do(c) /\ pc[c] # "running"
Fairness == \A c \in Calls : WF_vars(Unfinished(c)) /\ WF_vars(Expire(c))

-----------------------------------------------------------------------------

At(labels) == {c \in Calls : pc[c] \in labels}

\* bulkhead_test.go:39 "Concurrency must never exceed capacity — that is the entire
\* guarantee": and what Active reports never hides a running fn nor exceeds the
\* capacity either, at any point between the updates.
WithinCapacity ==
    /\ Cardinality(At({"running"})) <= active
    /\ active <= Capacity

\* bulkhead.go:43-45: with a deadline, a caller leaves the queue even when every fn
\* that holds a slot hangs.
NoEndlessWait == \A c \in Calls : <>(pc[c] # "select")

\* bulkhead_test.go:75 and :87 "A panicking handler must not permanently consume a
\* slot": when every fn returns or panics, all calls end, every slot comes back for
\* good, and each call was counted once as accepted or as rejected.
SlotsComeBack ==
    (\A c \in Calls : []<>(pc[c] # "running")) =>
        <>[](/\ At({"done"}) = Calls /\ slots = 0 /\ active = 0
             /\ rejected = Cardinality({c \in Calls : result[c] = "ErrFull"})
             /\ accepted = Cardinality(Calls) - rejected)
=============================================================================
