-------------------------- MODULE IdempotencyProofs --------------------------
(***************************************************************************)
(* Proofs about Idempotency for any calls, keys, bodies and TTL. Up to the *)
(* first handler that outlives the TTL, Safe holds; nothing else is        *)
(* assumed of how long handlers take.                                      *)
(***************************************************************************)
EXTENDS Idempotency, TLAPS

\* The claim of a running call is intact: its record is the one it wrote, and it is
\* not older than the TTL, so it has not expired.
RunInv ==
    \A c \in Calls : pc[c] = "running" =>
        /\ KeyOf[c] \in Keys
        /\ status[KeyOf[c]] = "inProgress"
        /\ fingerprint[KeyOf[c]] = BodyOf[c]
        /\ createdAt[KeyOf[c]] = claimedAt[c]
        /\ claimedAt[c] <= now
        /\ TTL = 0 \/ now - claimedAt[c] <= TTL

\* A completed record holds the response of a call that made the same request.
RecordInv ==
    \A k \in Keys : status[k] = "completed" =>
        /\ response[k] \in Calls
        /\ KeyOf[response[k]] = k
        /\ BodyOf[response[k]] = fingerprint[k]
        /\ result[response[k]] = "fresh"
        /\ claimedAt[response[k]] = createdAt[k]

\* A call that took effect is still on record, or its claim is more than a TTL old
\* and so is every later claim of the key.
FreshInv ==
    \A c \in Calls : result[c] = "fresh" =>
        /\ KeyOf[c] \in Keys
        /\ \/ status[KeyOf[c]] = "completed" /\ response[KeyOf[c]] = c
           \/ /\ TTL > 0
              /\ now - claimedAt[c] > TTL
              /\ \/ status[KeyOf[c]] = "absent"
                 \/ createdAt[KeyOf[c]] - claimedAt[c] > TTL

NeverVanished == \A c \in Calls : result[c] # "vanished"

Safe ==
    /\ RunInv /\ OneHandlerPerKey /\ RecordInv /\ FreshInv
    /\ EffectsAreApart /\ RepliesMatchRequests /\ NeverVanished

Inv == TypeOK /\ (~ overrun => Safe)

-----------------------------------------------------------------------------

\* The initial states satisfy the invariant.
LEMMA InitInv == Init => Inv
<1> SUFFICES ASSUME Init PROVE Inv
  OBVIOUS
<1>1. TypeOK
  BY DEF Init, TypeOK, Statuses, Results
<1>2. Safe
  BY DEF Init, Safe, RunInv, OneHandlerPerKey, Running, RecordInv, FreshInv, EffectsAreApart,
         RepliesMatchRequests, NeverVanished
<1> QED BY <1>1, <1>2 DEF Inv

\* Every step keeps the types.
LEMMA TypeStep ==
    ASSUME TypeOK, [Next]_vars
    PROVE  TypeOK'
<1> USE IdempotencyAssumption DEF TypeOK, Statuses, Results, recordVars
<1>1. ASSUME NEW c \in Calls,
             RejectEmptyKey(c) \/ RejectMismatch(c) \/ RejectConflict(c)
             \/ Vanished(c) \/ Panic(c)
      PROVE  TypeOK'
  BY <1>1 DEF RejectEmptyKey, RejectMismatch, RejectConflict, Vanished, Panic, Return
<1>2. ASSUME NEW c \in Calls, Replay(c) PROVE TypeOK'
  BY <1>2 DEF Replay, Return
<1>3. ASSUME NEW c \in Calls, Reclaim(c) PROVE TypeOK'
  BY <1>3 DEF Reclaim, StartHandler
<1>4. ASSUME NEW c \in Calls, Claim(c) PROVE TypeOK'
  BY <1>4 DEF Claim, StartHandler
<1>5. ASSUME NEW c \in Calls, Fail(c) PROVE TypeOK'
  BY <1>5 DEF Fail, Return
<1>6. ASSUME NEW c \in Calls, Complete(c) PROVE TypeOK'
  BY <1>6 DEF Complete, Return
<1>7. ASSUME Purge PROVE TypeOK'
  BY <1>7 DEF Purge, callVars
<1>8. ASSUME Tick PROVE TypeOK'
  BY <1>8 DEF Tick, callVars
<1>9. ASSUME UNCHANGED vars PROVE TypeOK'
  BY <1>9 DEF vars, callVars
<1> QED BY <1>1, <1>2, <1>3, <1>4, <1>5, <1>6, <1>7, <1>8, <1>9 DEF Next, Execute

\* The record of a running call is live, so nobody else may claim its key.
LEMMA RunningIsLive ==
    ASSUME TypeOK, RunInv, NEW c \in Calls, pc[c] = "running"
    PROVE  KeyOf[c] \in Keys /\ Live(KeyOf[c]) /\ status[KeyOf[c]] = "inProgress"
BY IdempotencyAssumption DEF RunInv, Live, expired, TypeOK

\* A call that returns without touching the records keeps the invariant as long as
\* a replayed answer comes from a matching call.
LEMMA ReturnStep ==
    ASSUME TypeOK, Safe, NEW c \in Calls, NEW r \in Results \ {"none", "fresh", "vanished"},
           NEW v \in Calls \cup {None}, pc[c] # "done", Return(c, r, v),
           UNCHANGED <<now, recordVars, claimedAt>>,
           r = "replay" => /\ v \in Calls /\ KeyOf[v] = KeyOf[c] /\ BodyOf[v] = BodyOf[c]
                           /\ result[v] = "fresh"
    PROVE  Safe'
<1> USE DEF Safe, TypeOK, Return, recordVars
<1>1. /\ \A d \in Calls : pc'[d] = "running" => pc[d] = "running"
      /\ \A d \in Calls : result'[d] = "fresh" <=> result[d] = "fresh"
      /\ \A d \in Calls : d # c => result'[d] = result[d] /\ got'[d] = got[d]
      /\ result'[c] = r /\ got'[c] = v
  BY DEF Results
<1>2. RunInv' /\ OneHandlerPerKey'
  BY <1>1 DEF RunInv, OneHandlerPerKey, Running
<1>3. RecordInv' /\ FreshInv' /\ EffectsAreApart'
  BY <1>1 DEF RecordInv, FreshInv, EffectsAreApart
<1>4. RepliesMatchRequests' /\ NeverVanished'
  BY <1>1 DEF RepliesMatchRequests, NeverVanished
<1> QED BY <1>2, <1>3, <1>4 DEF Safe

\* idempotency.go:146-153 and :141-144: taking the key starts the only handler.
LEMMA ClaimStep ==
    ASSUME TypeOK, Safe, NEW c \in Calls, Claim(c) \/ Reclaim(c)
    PROVE  Safe'
<1> DEFINE k == KeyOf[c]
<1>1. /\ pc[c] = "start" /\ k \in Keys /\ pc' = [pc EXCEPT ![c] = "running"]
      /\ claimedAt' = [claimedAt EXCEPT ![c] = now]
      /\ status' = [status EXCEPT ![k] = "inProgress"]
      /\ createdAt' = [createdAt EXCEPT ![k] = now]
      /\ UNCHANGED <<now, result, got>>
  BY DEF Claim, Reclaim, StartHandler
<1>2. /\ fingerprint' = [fingerprint EXCEPT ![k] = BodyOf[c]]
      /\ \A z \in Keys : z # k => response'[z] = response[z]
      /\ ~ Live(k) \/ status[k] = "failed"
  BY DEF Claim, Reclaim, Safe, TypeOK
<1>3. /\ TypeOK /\ RunInv /\ OneHandlerPerKey /\ RecordInv /\ FreshInv
      /\ EffectsAreApart /\ RepliesMatchRequests /\ NeverVanished
  BY DEF Safe
<1>4. \A d \in Calls : pc[d] = "running" => KeyOf[d] # k
  BY <1>2, <1>3, RunningIsLive
<1>5. result[c] = "none"
  BY <1>1, <1>3 DEF TypeOK
<1>6. RunInv'
  <2> SUFFICES ASSUME NEW d \in Calls, pc'[d] = "running" PROVE RunInv!(d)!2'
    BY DEF RunInv
  <2>1. CASE d = c
    BY <1>1, <1>2, <1>3, <2>1, IdempotencyAssumption DEF TypeOK
  <2>2. CASE d # c
    BY <1>1, <1>2, <1>3, <1>4, <2>2 DEF RunInv, TypeOK
  <2> QED BY <2>1, <2>2
<1>7. OneHandlerPerKey'
  BY <1>1, <1>3, <1>4 DEF OneHandlerPerKey, Running, TypeOK
<1>8. RecordInv'
  BY <1>1, <1>2, <1>3, <1>5 DEF RecordInv, TypeOK
<1>9. FreshInv'
  <2> SUFFICES ASSUME NEW d \in Calls, result[d] = "fresh" PROVE FreshInv!(d)!2'
    BY <1>1 DEF FreshInv
  <2>1. d # c /\ claimedAt'[d] = claimedAt[d] /\ claimedAt[d] \in Nat /\ now \in Nat
    BY <1>1, <1>3, <1>5 DEF TypeOK
  <2>2. CASE KeyOf[d] # k
    BY <1>1, <1>2, <1>3, <2>1, <2>2 DEF FreshInv, TypeOK
  <2>3. CASE KeyOf[d] = k
    <3>1. TTL > 0 /\ now - claimedAt[d] > TTL
      <4>1. CASE status[k] = "completed" /\ response[k] = d
        <5>1. expired(k)
          BY <1>2, <4>1 DEF Live
        <5>2. claimedAt[d] = createdAt[k]
          BY <1>1, <1>3, <4>1 DEF RecordInv
        <5> QED BY <5>1, <5>2 DEF expired
      <4> QED BY <1>3, <2>3, <4>1 DEF FreshInv
    <3>2. createdAt'[k] = now
      BY <1>1, <1>3 DEF TypeOK
    <3> QED BY <1>1, <2>1, <2>3, <3>1, <3>2
  <2> QED BY <2>2, <2>3
<1>10. EffectsAreApart'
  BY <1>1, <1>3, <1>5 DEF EffectsAreApart, TypeOK
<1>11. RepliesMatchRequests' /\ NeverVanished'
  BY <1>1, <1>3 DEF RepliesMatchRequests, NeverVanished
<1> QED BY <1>6, <1>7, <1>8, <1>9, <1>10, <1>11 DEF Safe

\* idempotency.go:161-178: recording the outcome ends the claim.
LEMMA FinishStep ==
    ASSUME TypeOK, Safe, NEW c \in Calls, Fail(c) \/ Complete(c)
    PROVE  Safe'
<1> DEFINE k == KeyOf[c]
<1>1. /\ TypeOK /\ RunInv /\ OneHandlerPerKey /\ RecordInv /\ FreshInv
      /\ EffectsAreApart /\ RepliesMatchRequests /\ NeverVanished
  BY DEF Safe
<1>2. /\ pc[c] = "running" /\ pc' = [pc EXCEPT ![c] = "done"]
      /\ UNCHANGED <<now, fingerprint, createdAt, claimedAt>>
  BY DEF Fail, Complete, Return
<1>3. /\ k \in Keys /\ status[k] = "inProgress" /\ fingerprint[k] = BodyOf[c]
      /\ createdAt[k] = claimedAt[c] /\ result[c] = "none"
  BY <1>1, <1>2 DEF RunInv, TypeOK
<1>4. \A d \in Calls : d # c /\ pc[d] = "running" => KeyOf[d] # k
  BY <1>1, <1>2 DEF OneHandlerPerKey, Running, RunInv
<1>5. \A d \in Calls : result[d] = "fresh" /\ KeyOf[d] = k =>
         TTL > 0 /\ now - claimedAt[d] > TTL /\ createdAt[k] - claimedAt[d] > TTL
  BY <1>1, <1>3 DEF FreshInv
<1>6. OneHandlerPerKey'
  BY <1>1, <1>2 DEF OneHandlerPerKey, Running, TypeOK
<1>7. CASE Fail(c)
  <2>1. /\ status' = [status EXCEPT ![k] = "failed"] /\ response' = response
        /\ result' = [result EXCEPT ![c] = "failed"] /\ got' = [got EXCEPT ![c] = None]
    BY <1>7 DEF Fail, Return
  <2>2. RunInv'
    BY <1>1, <1>2, <1>3, <1>4, <2>1 DEF RunInv, TypeOK
  <2>3. RecordInv'
    BY <1>1, <1>2, <1>3, <2>1 DEF RecordInv, TypeOK
  <2>4. FreshInv'
    BY <1>1, <1>2, <1>3, <1>5, <2>1 DEF FreshInv, TypeOK
  <2>5. EffectsAreApart'
    BY <1>1, <1>2, <1>3, <2>1 DEF EffectsAreApart, TypeOK
  <2>6. RepliesMatchRequests' /\ NeverVanished'
    BY <1>1, <1>3, <2>1 DEF RepliesMatchRequests, NeverVanished, TypeOK
  <2> QED BY <1>6, <2>2, <2>3, <2>4, <2>5, <2>6 DEF Safe
<1>8. CASE Complete(c)
  <2>1. /\ status' = [status EXCEPT ![k] = "completed"]
        /\ response' = [response EXCEPT ![k] = c]
        /\ result' = [result EXCEPT ![c] = "fresh"] /\ got' = [got EXCEPT ![c] = c]
    BY <1>8 DEF Complete, Return
  <2>2. RunInv'
    BY <1>1, <1>2, <1>3, <1>4, <2>1 DEF RunInv, TypeOK
  <2>3. RecordInv'
    BY <1>1, <1>2, <1>3, <2>1 DEF RecordInv, TypeOK
  <2>4. FreshInv'
    BY <1>1, <1>2, <1>3, <1>5, <2>1 DEF FreshInv, TypeOK
  <2>5. EffectsAreApart'
    <3> SUFFICES ASSUME NEW x \in Calls, NEW y \in Calls, x # y, KeyOf[x] = KeyOf[y],
                        result'[x] = "fresh", result'[y] = "fresh"
                 PROVE  TTL > 0 /\ (claimedAt[x] - claimedAt[y] > TTL
                                    \/ claimedAt[y] - claimedAt[x] > TTL)
      BY <1>2 DEF EffectsAreApart
    <3>1. CASE x = c
      <4>1. result[y] = "fresh"
        BY <1>1, <2>1, <3>1 DEF TypeOK
      <4> QED BY <1>3, <1>5, <3>1, <4>1
    <3>2. CASE y = c
      <4>1. result[x] = "fresh"
        BY <1>1, <2>1, <3>2 DEF TypeOK
      <4> QED BY <1>3, <1>5, <3>2, <4>1
    <3>3. CASE x # c /\ y # c
      BY <1>1, <2>1, <3>3 DEF EffectsAreApart, TypeOK
    <3> QED BY <3>1, <3>2, <3>3
  <2>6. RepliesMatchRequests' /\ NeverVanished'
    BY <1>1, <1>3, <2>1 DEF RepliesMatchRequests, NeverVanished, TypeOK
  <2> QED BY <1>6, <2>2, <2>3, <2>4, <2>5, <2>6 DEF Safe
<1> QED BY <1>7, <1>8

\* Purge and the clock only affect records that no running call owns.
LEMMA BackgroundStep ==
    ASSUME TypeOK, Safe, Purge \/ (Tick /\ ~ overrun')
    PROVE  Safe'
<1>1. /\ TypeOK /\ RunInv /\ OneHandlerPerKey /\ RecordInv /\ FreshInv
      /\ EffectsAreApart /\ RepliesMatchRequests /\ NeverVanished
  BY DEF Safe
<1>2. UNCHANGED <<pc, claimedAt, result, got, fingerprint, response, createdAt>>
  BY DEF Purge, Tick, callVars, recordVars
<1>3. /\ OneHandlerPerKey' /\ EffectsAreApart' /\ RepliesMatchRequests' /\ NeverVanished'
  BY <1>1, <1>2 DEF OneHandlerPerKey, Running, EffectsAreApart, RepliesMatchRequests,
                    NeverVanished
<1>4. CASE Purge
  <2>1. status' = [k \in Keys |-> IF expired(k) THEN "absent" ELSE status[k]] /\ now' = now
    BY <1>4 DEF Purge
  <2>2. RunInv'
    <3>1. \A c \in Calls : pc[c] = "running" => KeyOf[c] \in Keys /\ ~ expired(KeyOf[c])
      BY <1>1, RunningIsLive DEF Live
    <3> QED BY <1>1, <1>2, <2>1, <3>1 DEF RunInv
  <2>3. RecordInv'
    BY <1>1, <1>2, <2>1 DEF RecordInv
  <2>4. FreshInv'
    <3> SUFFICES ASSUME NEW c \in Calls, result[c] = "fresh" PROVE FreshInv!(c)!2'
      BY <1>2 DEF FreshInv
    <3>1. KeyOf[c] \in Keys
      BY <1>1 DEF FreshInv
    <3>2. CASE expired(KeyOf[c])
      <4>1. status'[KeyOf[c]] = "absent"
        BY <2>1, <3>1, <3>2
      <4>2. TTL > 0 /\ now - claimedAt[c] > TTL
        BY <1>1, <3>1, <3>2 DEF FreshInv, RecordInv, expired
      <4> QED BY <1>2, <2>1, <3>1, <4>1, <4>2
    <3>3. CASE ~ expired(KeyOf[c])
      <4>1. status'[KeyOf[c]] = status[KeyOf[c]]
        BY <2>1, <3>1, <3>3
      <4> QED BY <1>1, <1>2, <2>1, <4>1 DEF FreshInv
    <3> QED BY <3>2, <3>3
  <2> QED BY <1>3, <2>2, <2>3, <2>4 DEF Safe
<1>5. CASE Tick /\ ~ overrun'
  <2>1. now' = now + 1 /\ UNCHANGED status
        /\ \A c \in Calls : pc[c] = "running" => ~ (TTL > 0 /\ now' - claimedAt[c] > TTL)
    BY <1>5 DEF Tick, recordVars
  <2>2. now \in Nat /\ TTL \in Nat /\ \A c \in Calls : claimedAt[c] \in Nat
    BY <1>1, IdempotencyAssumption DEF TypeOK
  <2>3. RunInv'
    BY <1>1, <1>2, <2>1, <2>2 DEF RunInv
  <2>4. RecordInv'
    BY <1>1, <1>2, <2>1 DEF RecordInv
  <2>5. FreshInv'
    BY <1>1, <1>2, <2>1, <2>2 DEF FreshInv
  <2> QED BY <1>3, <2>3, <2>4, <2>5 DEF Safe
<1> QED BY <1>4, <1>5

\* Inv is inductive, however long handlers take.
THEOREM Invariance == Spec => []Inv
<1>1. ASSUME Inv, [Next]_vars PROVE Inv'
  <2>1. TypeOK /\ TypeOK'
    BY <1>1, TypeStep DEF Inv
  <2> SUFFICES ASSUME ~ overrun' PROVE Safe'
    BY <2>1 DEF Inv
  <2>2. ~ overrun
    BY <1>1 DEF Next, Execute, RejectEmptyKey, RejectMismatch, RejectConflict, Replay, Reclaim,
         Claim, StartHandler, Vanished, Fail, Complete, Panic, Purge, Tick, vars
  <2>3. Safe
    BY <1>1, <2>2 DEF Inv
  <2>4. ASSUME NEW c \in Calls, RejectEmptyKey(c) \/ RejectMismatch(c) \/ RejectConflict(c)
        PROVE  Safe'
    <3>1. PICK r \in {"keyRequired", "mismatch", "conflict"} : Return(c, r, None)
      BY <2>4 DEF RejectEmptyKey, RejectMismatch, RejectConflict
    <3>2. pc[c] = "start" /\ UNCHANGED <<now, recordVars, claimedAt>>
      BY <2>4 DEF RejectEmptyKey, RejectMismatch, RejectConflict
    <3> QED BY <2>1, <2>3, <3>1, <3>2, ReturnStep DEF Results
  <2>5. ASSUME NEW c \in Calls, Replay(c) PROVE Safe'
    <3>1. /\ pc[c] = "start" /\ KeyOf[c] \in Keys /\ status[KeyOf[c]] = "completed"
          /\ fingerprint[KeyOf[c]] = BodyOf[c]
          /\ Return(c, "replay", response[KeyOf[c]])
          /\ UNCHANGED <<now, recordVars, claimedAt>>
      BY <2>5 DEF Replay
    <3>2. /\ response[KeyOf[c]] \in Calls /\ KeyOf[response[KeyOf[c]]] = KeyOf[c]
          /\ BodyOf[response[KeyOf[c]]] = BodyOf[c] /\ result[response[KeyOf[c]]] = "fresh"
      BY <2>3, <3>1 DEF Safe, RecordInv
    <3> QED BY <2>1, <2>3, <3>1, <3>2, ReturnStep DEF Results
  <2>6. ASSUME NEW c \in Calls, Vanished(c) PROVE Safe'
    BY <2>3, <2>6 DEF Vanished, Safe, RunInv
  <2>7. ASSUME NEW c \in Calls, Claim(c) \/ Reclaim(c) PROVE Safe'
    BY <2>1, <2>3, <2>7, ClaimStep
  <2>8. ASSUME NEW c \in Calls, Fail(c) \/ Complete(c) PROVE Safe'
    BY <2>1, <2>3, <2>8, FinishStep
  <2>9. ASSUME Purge \/ Tick PROVE Safe'
    BY <2>1, <2>3, <2>9, BackgroundStep
  <2>10. ASSUME UNCHANGED vars PROVE Safe'
    BY <2>3, <2>10 DEF Safe, RunInv, OneHandlerPerKey, Running, RecordInv, FreshInv,
         EffectsAreApart, RepliesMatchRequests, NeverVanished, vars, recordVars, callVars
  <2>11. ASSUME NEW c \in Calls, Panic(c) PROVE Safe'
    <3>1. /\ pc[c] = "running" /\ Return(c, "panicked", None)
          /\ UNCHANGED <<now, recordVars, claimedAt>>
      BY <2>11 DEF Panic
    <3> QED BY <2>1, <2>3, <3>1, ReturnStep DEF Results
  <2> QED BY <1>1, <2>4, <2>5, <2>6, <2>7, <2>8, <2>9, <2>10, <2>11 DEF Next, Execute
<1> QED BY <1>1, InitInv, PTL DEF Spec

\* idempotency.go:15-18 and :95: one key never has two handlers running and takes
\* effect at most once within its TTL, unless a handler has outlived it.
THEOREM AtMostOnce == Spec => []ExecutesOnce
<1>1. Inv => ExecutesOnce
  BY DEF Inv, Safe, ExecutesOnce
<1> QED BY <1>1, Invariance, PTL

\* idempotency.go:20-21: a client never receives the answer to another request, nor
\* loses its own, unless a handler has outlived the TTL.
THEOREM OwnResponse == Spec => []ReplayIsOwnResponse
<1>1. Inv => ReplayIsOwnResponse
  BY DEF Inv, Safe, ReplayIsOwnResponse, NeverVanished
<1> QED BY <1>1, Invariance, PTL
=============================================================================
