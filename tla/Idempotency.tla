----------------------------- MODULE Idempotency -----------------------------
(***************************************************************************)
(* The idempotency-key store of code/idempotency_keys/idempotency.go.      *)
(*                                                                         *)
(* Execute claims the key under the lock, runs the handler without it, and *)
(* records the outcome under the lock again. Any number of calls, Purge    *)
(* and the clock interleave between the phases.                            *)
(*                                                                         *)
(* A body stands for its fingerprint (SHA-256 is taken to be injective).   *)
(* The response a handler produces is named by the call that ran it.       *)
(***************************************************************************)
EXTENDS Integers

CONSTANTS
    Calls,    \* calls of Execute
    Keys,     \* idempotency keys
    NoKey,    \* the empty key
    Bodies,   \* request bodies
    KeyOf, BodyOf,
    TTL,      \* Store.ttl; 0 means records never expire
    MaxTime   \* bound: the clock stops here

ASSUME IdempotencyAssumption ==
    /\ KeyOf \in [Calls -> Keys \cup {NoKey}]
    /\ NoKey \notin Keys
    /\ BodyOf \in [Calls -> Bodies]
    /\ TTL \in Nat /\ MaxTime \in Nat

VARIABLES
    now,
    status, fingerprint, response, createdAt,   \* Store.records, per key
    pc, claimedAt,                              \* per call
    result, got,                                \* per call: how Execute returned
    overrun        \* history: some handler has run for longer than the TTL

recordVars == <<status, fingerprint, response, createdAt>>
callVars == <<pc, claimedAt, result, got>>
vars == <<now, recordVars, callVars, overrun>>

None == [none |-> TRUE]   \* no body, no response
Statuses == {"absent", "inProgress", "completed", "failed"}
Results == {"none", "keyRequired", "fresh", "replay", "conflict", "mismatch",
            "failed", "vanished", "panicked"}

Init ==
    /\ now = 0
    /\ status = [k \in Keys |-> "absent"]
    /\ fingerprint = [k \in Keys |-> None]
    /\ response = [k \in Keys |-> None]
    /\ createdAt = [k \in Keys |-> 0]
    /\ pc = [c \in Calls |-> "start"]
    /\ claimedAt = [c \in Calls |-> 0]
    /\ result = [c \in Calls |-> "none"]
    /\ got = [c \in Calls |-> None]
    /\ overrun = FALSE

Return(c, r, v) ==
    /\ pc' = [pc EXCEPT ![c] = "done"]
    /\ result' = [result EXCEPT ![c] = r]
    /\ got' = [got EXCEPT ![c] = v]

expired(k) == TTL > 0 /\ now - createdAt[k] > TTL

\* The record Execute finds: expired ones are deleted on the way.
Live(k) == status[k] # "absent" /\ ~ expired(k)

-----------------------------------------------------------------------------
(* Phase 1 of Execute.                                                     *)

RejectEmptyKey(c) ==
    /\ pc[c] = "start"
    /\ KeyOf[c] = NoKey
    /\ Return(c, "keyRequired", None)
    /\ UNCHANGED <<now, recordVars, claimedAt, overrun>>

RejectMismatch(c) ==
    LET k == KeyOf[c] IN
    /\ pc[c] = "start" /\ k \in Keys
    /\ Live(k)
    /\ fingerprint[k] # BodyOf[c]
    /\ Return(c, "mismatch", None)
    /\ UNCHANGED <<now, recordVars, claimedAt, overrun>>

RejectConflict(c) ==
    LET k == KeyOf[c] IN
    /\ pc[c] = "start" /\ k \in Keys
    /\ Live(k)
    /\ fingerprint[k] = BodyOf[c]
    /\ status[k] = "inProgress"
    /\ Return(c, "conflict", None)
    /\ UNCHANGED <<now, recordVars, claimedAt, overrun>>

Replay(c) ==
    LET k == KeyOf[c] IN
    /\ pc[c] = "start" /\ k \in Keys
    /\ Live(k)
    /\ fingerprint[k] = BodyOf[c]
    /\ status[k] = "completed"
    /\ Return(c, "replay", response[k])
    /\ UNCHANGED <<now, recordVars, claimedAt, overrun>>

StartHandler(c) ==
    /\ pc' = [pc EXCEPT ![c] = "running"]
    /\ claimedAt' = [claimedAt EXCEPT ![c] = now]
    /\ status' = [status EXCEPT ![KeyOf[c]] = "inProgress"]
    /\ createdAt' = [createdAt EXCEPT ![KeyOf[c]] = now]
    /\ UNCHANGED <<now, result, got, overrun>>

\* A failed attempt is claimed again by the same request.
Reclaim(c) ==
    LET k == KeyOf[c] IN
    /\ pc[c] = "start" /\ k \in Keys
    /\ Live(k)
    /\ fingerprint[k] = BodyOf[c]
    /\ status[k] = "failed"
    /\ StartHandler(c)
    /\ UNCHANGED <<fingerprint, response>>

\* Mutant: no in-progress state, so a record exists only once it is completed.
ClaimUnlessCompleted(c) ==
    LET k == KeyOf[c] IN
    /\ pc[c] = "start" /\ k \in Keys
    /\ status[k] = "completed" => ~ Live(k)
    /\ StartHandler(c)
    /\ fingerprint' = [fingerprint EXCEPT ![k] = BodyOf[c]]
    /\ response' = [response EXCEPT ![k] = None]

\* A new or expired key.
Claim(c) ==
    LET k == KeyOf[c] IN
    /\ pc[c] = "start" /\ k \in Keys
    /\ ~ Live(k)
    /\ StartHandler(c)
    /\ fingerprint' = [fingerprint EXCEPT ![k] = BodyOf[c]]
    /\ response' = [response EXCEPT ![k] = None]

-----------------------------------------------------------------------------
(* Phase 3: the handler has returned.                                      *)

Vanished(c) ==
    /\ pc[c] = "running"
    /\ status[KeyOf[c]] = "absent"
    /\ Return(c, "vanished", None)
    /\ UNCHANGED <<now, recordVars, claimedAt, overrun>>

\* Mutant: a failed attempt leaves the record in progress.
FailStuck(c) ==
    /\ pc[c] = "running"
    /\ status[KeyOf[c]] # "absent"
    /\ Return(c, "failed", None)
    /\ UNCHANGED <<now, recordVars, claimedAt, overrun>>

Fail(c) ==
    /\ pc[c] = "running"
    /\ status[KeyOf[c]] # "absent"
    /\ status' = [status EXCEPT ![KeyOf[c]] = "failed"]
    /\ Return(c, "failed", None)
    /\ UNCHANGED <<now, fingerprint, response, createdAt, claimedAt, overrun>>

Complete(c) ==
    LET k == KeyOf[c] IN
    /\ pc[c] = "running"
    /\ status[k] # "absent"
    /\ status' = [status EXCEPT ![k] = "completed"]
    /\ response' = [response EXCEPT ![k] = c]
    /\ Return(c, "fresh", c)
    /\ UNCHANGED <<now, fingerprint, createdAt, claimedAt, overrun>>

\* A handler that panics unwinds Execute: phase 3 is never reached and the record
\* stays as it was claimed.
Panic(c) ==
    /\ pc[c] = "running"
    /\ Return(c, "panicked", None)
    /\ UNCHANGED <<now, recordVars, claimedAt, overrun>>

-----------------------------------------------------------------------------

\* Mutant: Purge drops every record that is not completed.
PurgeUnfinished ==
    LET gone == {k \in Keys : expired(k) \/ status[k] = "inProgress"} IN
    /\ status' = [k \in Keys |-> IF k \in gone THEN "absent" ELSE status[k]]
    /\ UNCHANGED <<now, fingerprint, response, createdAt, callVars, overrun>>

Purge ==
    /\ status' = [k \in Keys |-> IF expired(k) THEN "absent" ELSE status[k]]
    /\ UNCHANGED <<now, fingerprint, response, createdAt, callVars, overrun>>

Tick ==
    /\ now < MaxTime
    /\ now' = now + 1
    /\ overrun' = (overrun \/ \E c \in Calls : /\ pc[c] = "running" /\ TTL > 0
                                             /\ now' - claimedAt[c] > TTL)
    /\ UNCHANGED <<recordVars, callVars>>

Execute(c) ==
    \/ RejectEmptyKey(c) \/ RejectMismatch(c) \/ RejectConflict(c) \/ Replay(c)
    \/ Reclaim(c) \/ Claim(c)
    \/ Vanished(c) \/ Fail(c) \/ Complete(c) \/ Panic(c)

Next ==
    \/ \E c \in Calls : Execute(c)
    \/ Purge
    \/ Tick

Spec == Init /\ [][Next]_vars

\* A handler that runs ends, one way or another, and time goes on.
FairSpec ==
    Spec /\ WF_vars(Tick) /\ \A c \in Calls : WF_vars(Execute(c) /\ pc[c] = "running")

-----------------------------------------------------------------------------

\* Type invariant: a call that returned has a result, and only then.
TypeOK ==
    /\ now \in Nat
    /\ status \in [Keys -> Statuses]
    /\ fingerprint \in [Keys -> Bodies \cup {None}]
    /\ response \in [Keys -> Calls \cup {None}]
    /\ createdAt \in [Keys -> Nat]
    /\ pc \in [Calls -> {"start", "running", "done"}]
    /\ claimedAt \in [Calls -> Nat]
    /\ result \in [Calls -> Results]
    /\ got \in [Calls -> Calls \cup {None}]
    /\ \A c \in Calls : (pc[c] = "done") <=> (result[c] # "none")
    /\ overrun \in BOOLEAN

Running(k) == {c \in Calls : pc[c] = "running" /\ KeyOf[c] = k}

OneHandlerPerKey == \A k \in Keys : \A c, d \in Running(k) : c = d

EffectsAreApart ==
    \A c, d \in Calls :
        c # d /\ KeyOf[c] = KeyOf[d] /\ result[c] = "fresh" /\ result[d] = "fresh" =>
            /\ TTL > 0
            /\ claimedAt[c] - claimedAt[d] > TTL \/ claimedAt[d] - claimedAt[c] > TTL

\* idempotency.go:88-89 "so a reused key with different content is detected rather
\* than silently served the wrong response": a replayed response is the one an
\* earlier call with the same key and the same body produced, however long
\* handlers take.
RepliesMatchRequests ==
    \A c \in Calls : result[c] = "replay" =>
        \E d \in Calls : /\ got[c] = d
                         /\ KeyOf[d] = KeyOf[c] /\ BodyOf[d] = BodyOf[c]
                         /\ result[d] = "fresh"

\* idempotency.go:15-18 and :95 "at most once", read with :13 "expired key -> treat as
\* new": until some handler outlives the TTL, one key never has two handlers running
\* at the same time, and two executions of it that both took effect were claimed more
\* than a TTL apart.
ExecutesOnce == ~ overrun => OneHandlerPerKey /\ EffectsAreApart

\* idempotency.go:20-21 and :88-89: RepliesMatchRequests, until a handler outlives the
\* TTL; and no handler that took effect is answered with "record vanished" (:166).
ReplayIsOwnResponse ==
    ~ overrun => RepliesMatchRequests /\ \A c \in Calls : result[c] # "vanished"

\* The call that holds k panicked.
HolderPanicked(k) ==
    \E c \in Calls : result[c] = "panicked" /\ KeyOf[c] = k /\ claimedAt[c] = createdAt[k]

Held(k) == status[k] = "inProgress" /\ Live(k)

\* idempotency_test.go:184 "otherwise a transient error permanently poisons the
\* key": a claimed key is released by its handler's outcome, whatever it is and however
\* late; and when the handler panics and leaves no outcome, by the TTL. (The clock of
\* the model must have a TTL left to go.)
KeyIsReleased ==
    \A k \in Keys :
        /\ status[k] = "inProgress" ~> status[k] # "inProgress" \/ HolderPanicked(k)
        /\ TTL > 0 =>
              (Held(k) /\ createdAt[k] + TTL < MaxTime ~> ~ Held(k))
=============================================================================
