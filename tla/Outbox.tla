------------------------------- MODULE Outbox -------------------------------
(***************************************************************************)
(* The transactional outbox of code/outbox_pattern/outbox.go.              *)
(*                                                                         *)
(* PlaceOrder commits an order row and an outbox row in one transaction.   *)
(* Any number of Relay goroutines fetch a batch of unpublished rows,       *)
(* publish them to the broker one by one and mark each row published. The  *)
(* database lock, the broker lock and nothing are held in turn, so relays  *)
(* interleave between fetch, publish, mark and recordFailure, and a relay  *)
(* may crash or see its context cancelled in between.                      *)
(*                                                                         *)
(* Row IDs are positions in the sequence outbox: rows are never deleted    *)
(* and Commit numbers them with nextID. Payload and timestamps are left    *)
(* out; PublishedAt # nil is membership in published.                      *)
(***************************************************************************)
EXTENDS Integers, Sequences, FiniteSets

CONSTANTS
    Txs,         \* PlaceOrder calls
    Orders,      \* order IDs
    OrderOf,     \* the order each call places
    Relays,      \* goroutines that run Relay.RunOnce in a loop
    Batch,       \* Relay.Batch; 0 means no limit
    MaxOutages,  \* bound: how often the broker is told to fail
    FailNexts,   \* how many publishes an outage refuses
    MaxCrashes,  \* bound: relay crashes
    MaxCancels   \* bound: cancelled contexts

ASSUME OutboxAssumption ==
    /\ OrderOf \in [Txs -> Orders]
    /\ IsFiniteSet(Relays)
    /\ Batch \in Nat
    /\ FailNexts \subseteq Nat
    /\ MaxOutages \in Nat
    /\ MaxCrashes \in Nat
    /\ MaxCancels \in Nat

VARIABLES
    tx,         \* state of each transaction: "none", "open", "committed", "failed", "rolledback"
    orders,     \* DB.orders
    outbox,     \* DB.outbox: outbox[id] is the transaction that wrote row id
    published,  \* IDs of the rows whose PublishedAt is set
    attempts,   \* Attempts of the rows, summed
    log,        \* RecordingBroker.Published, as row IDs
    failNext,   \* RecordingBroker.FailNext
    pc,         \* per relay
    batch,      \* per relay: the rows of events that are still to be handled
    outages, crashes, cancels

dbVars == <<tx, orders, outbox>>
faults == <<outages, crashes, cancels>>
vars == <<dbVars, published, attempts, log, failNext, pc, batch, faults>>

Ids == 1 .. Len(outbox)
\* Mutant: the newest row is left out of the scan.
UnpublishedButLast == (1 .. Len(outbox) - 1) \ published

\* DB.outbox rows with PublishedAt == nil.
Unpublished == Ids \ published
Logged == {log[i] : i \in 1 .. Len(log)}

Init ==
    /\ tx = [t \in Txs |-> "none"]
    /\ orders = {}
    /\ outbox = <<>>
    /\ published = {}
    /\ attempts = 0
    /\ log = <<>>
    /\ failNext = 0
    /\ pc = [r \in Relays |-> "idle"]
    /\ batch = [r \in Relays |-> {}]
    /\ outages = 0
    /\ crashes = 0
    /\ cancels = 0

-----------------------------------------------------------------------------
(* DB and Tx.                                                              *)

\* Begin, InsertOrder and EnqueueEvent touch only the transaction itself.
Begin(t) ==
    /\ tx[t] = "none"
    /\ tx' = [tx EXCEPT ![t] = "open"]
    /\ UNCHANGED <<orders, outbox, published, attempts, log, failNext, pc, batch,
                   faults>>

Commit(t) ==
    /\ tx[t] = "open"
    /\ tx' = [tx EXCEPT ![t] = "committed"]
    /\ orders' = orders \cup {OrderOf[t]}
    /\ outbox' = Append(outbox, t)
    /\ UNCHANGED <<published, attempts, log, failNext, pc, batch, faults>>

\* Mutant: the order is written before the commit is found to fail.
CommitFailedHalfway(t) ==
    /\ tx[t] = "open"
    /\ tx' = [tx EXCEPT ![t] = "failed"]
    /\ orders' = orders \cup {OrderOf[t]}
    /\ UNCHANGED <<outbox, published, attempts, log, failNext, pc, batch,
                   faults>>

\* failCommit: ErrCommitFailed before anything is applied.
CommitFailed(t) ==
    /\ tx[t] = "open"
    /\ tx' = [tx EXCEPT ![t] = "failed"]
    /\ UNCHANGED <<orders, outbox, published, attempts, log, failNext, pc, batch,
                   faults>>

\* Also the transaction whose process dies before Commit.
Rollback(t) ==
    /\ tx[t] = "open"
    /\ tx' = [tx EXCEPT ![t] = "rolledback"]
    /\ UNCHANGED <<orders, outbox, published, attempts, log, failNext, pc, batch,
                   faults>>

-----------------------------------------------------------------------------
(* Relay.RunOnce.                                                          *)

Lower(S, x) == {y \in S : y < x}

\* The first Batch unpublished rows in ID order.
UnpublishedEvents(S) ==
    IF Batch = 0 THEN S ELSE {x \in S : Cardinality(Lower(S, x)) < Batch}

\* The row the loop of RunOnce handles next: the slice is sorted by ID.
IsHead(r, id) == id \in batch[r] /\ \A x \in batch[r] : id <= x

Fetch(r) ==
    /\ pc[r] = "idle"
    /\ Unpublished # {}
    /\ batch' = [batch EXCEPT ![r] = UnpublishedEvents(Unpublished)]
    /\ pc' = [pc EXCEPT ![r] = "publish"]
    /\ UNCHANGED <<dbVars, published, attempts, log, failNext, faults>>

\* Mutant: the row is marked before the broker has it.
PublishMarksFirst(r, id) ==
    /\ pc[r] = "publish"
    /\ IsHead(r, id)
    /\ published' = published \cup {id}
    /\ log' = IF failNext = 0 THEN Append(log, id) ELSE log
    /\ failNext' = IF failNext = 0 THEN 0 ELSE failNext - 1
    /\ pc' = [pc EXCEPT ![r] = IF failNext = 0 THEN "mark" ELSE "failed"]
    /\ UNCHANGED <<dbVars, attempts, batch, faults>>

\* Broker.Publish, which accepts the event or refuses it while FailNext lasts.
Publish(r, id) ==
    /\ pc[r] = "publish"
    /\ IsHead(r, id)
    /\ \/ /\ failNext = 0
          /\ log' = Append(log, id)
          /\ pc' = [pc EXCEPT ![r] = "mark"]
          /\ UNCHANGED failNext
       \/ /\ failNext > 0
          /\ failNext' = failNext - 1
          /\ pc' = [pc EXCEPT ![r] = "failed"]
          /\ UNCHANGED log
    /\ UNCHANGED <<dbVars, published, attempts, batch, faults>>

\* Mutant: the loop moves on to the next row without marking this one.
MarkPublishedForgotten(r, id) ==
    /\ pc[r] = "mark"
    /\ IsHead(r, id)
    /\ batch' = [batch EXCEPT ![r] = @ \ {id}]
    /\ pc' = [pc EXCEPT ![r] = IF batch[r] = {id} THEN "idle" ELSE "publish"]
    /\ UNCHANGED <<dbVars, published, attempts, log, failNext, faults>>

MarkPublished(r, id) ==
    /\ pc[r] = "mark"
    /\ IsHead(r, id)
    /\ published' = published \cup {id}
    /\ batch' = [batch EXCEPT ![r] = @ \ {id}]
    /\ pc' = [pc EXCEPT ![r] = IF batch[r] = {id} THEN "idle" ELSE "publish"]
    /\ UNCHANGED <<dbVars, attempts, log, failNext, faults>>

\* Mutant: after a refusal the loop goes on with the next row.
RecordFailureContinues(r, id) ==
    /\ pc[r] = "failed"
    /\ IsHead(r, id)
    /\ attempts' = attempts + 1
    /\ batch' = [batch EXCEPT ![r] = @ \ {id}]
    /\ pc' = [pc EXCEPT ![r] = IF batch[r] = {id} THEN "idle" ELSE "publish"]
    /\ UNCHANGED <<dbVars, published, log, failNext, faults>>

RecordFailure(r, id) ==
    /\ pc[r] = "failed"
    /\ IsHead(r, id)
    /\ attempts' = attempts + 1
    /\ batch' = [batch EXCEPT ![r] = {}]
    /\ pc' = [pc EXCEPT ![r] = "idle"]
    /\ UNCHANGED <<dbVars, published, log, failNext, faults>>

\* ctx.Err() at the top of the loop. The relay is started again later.
Cancel(r) ==
    /\ pc[r] = "publish"
    /\ batch' = [batch EXCEPT ![r] = {}]
    /\ pc' = [pc EXCEPT ![r] = "idle"]
    /\ cancels < MaxCancels
    /\ cancels' = cancels + 1
    /\ UNCHANGED <<dbVars, published, attempts, log, failNext, outages, crashes>>

\* The relay process dies after Publish and before MarkPublished or RecordFailure.
Crash(r) ==
    /\ pc[r] \in {"mark", "failed"}
    /\ crashes < MaxCrashes
    /\ batch' = [batch EXCEPT ![r] = {}]
    /\ pc' = [pc EXCEPT ![r] = "idle"]
    /\ crashes' = crashes + 1
    /\ UNCHANGED <<dbVars, published, attempts, log, failNext, outages, cancels>>

BrokerDown ==
    /\ outages < MaxOutages
    /\ outages' = outages + 1
    /\ failNext' \in FailNexts
    /\ UNCHANGED <<dbVars, published, attempts, log, pc, batch, crashes, cancels>>

RunOnce(r) ==
    \/ Fetch(r)
    \/ \E id \in Ids : Publish(r, id) \/ MarkPublished(r, id) \/ RecordFailure(r, id)

PlaceOrder(t) == Begin(t) \/ Commit(t) \/ CommitFailed(t) \/ Rollback(t)

\* Everything ordered and published: the relays poll an empty table.
Drained ==
    /\ Unpublished = {}
    /\ \A r \in Relays : pc[r] = "idle"
    /\ UNCHANGED vars

Next ==
    \/ \E t \in Txs : PlaceOrder(t)
    \/ \E r \in Relays : RunOnce(r) \/ Cancel(r) \/ Crash(r)
    \/ BrokerDown
    \/ Drained

Spec == Init /\ [][Next]_vars

\* The relay is run again and again (RunUntilDrained, or a poller): a relay that
\* can move keeps moving. Nothing is assumed of the clients.
FairSpec == Spec /\ \A r \in Relays : WF_vars(RunOnce(r))

-----------------------------------------------------------------------------

TxStates == {"none", "open", "committed", "failed", "rolledback"}

\* Type invariant: relays hold rows that exist, and hold none while idle.
TypeOK ==
    /\ tx \in [Txs -> TxStates]
    /\ orders \subseteq Orders
    /\ outbox \in Seq(Txs)
    /\ published \subseteq Ids
    /\ attempts \in Nat
    /\ log \in Seq(Nat)
    /\ failNext \in Nat
    /\ pc \in [Relays -> {"idle", "publish", "mark", "failed"}]
    /\ batch \in [Relays -> SUBSET Ids]
    /\ \A r \in Relays : (pc[r] = "idle") <=> (batch[r] = {})
    /\ outages \in 0 .. MaxOutages
    /\ crashes \in 0 .. MaxCrashes
    /\ cancels \in 0 .. MaxCancels

\* outbox.go:93 "there is no window in which one exists without the other": the
\* orders are those with an event, and a transaction that did not commit left
\* neither, whatever the other transactions do.
AllOrNothing ==
    /\ orders = {OrderOf[outbox[id]] : id \in Ids}
    /\ \A t \in Txs : tx[t] = "committed" <=> \E id \in Ids : outbox[id] = t

\* outbox.go:232 "Marking first would lose events": a row marked published is at
\* the broker, whichever relay marked it and however relays crash.
NoLostEvent == published \subseteq Logged

\* outbox.go:246 "a later event must not overtake an earlier one": when an event
\* reaches the broker, every event with a smaller ID has been there before, also
\* with several relays, crashes and refused publishes.
NoOvertaking ==
    \A p \in 1 .. Len(log) : \A id \in 1 .. log[p] - 1 :
        \E q \in 1 .. p - 1 : log[q] = id

\* outbox.go:19-21: a duplicate is explained by a crash between publish and mark
\* or by a second relay; a lone relay that never crashes delivers exactly once.
DuplicatesExplained ==
    \A id \in Ids :
        Cardinality({p \in 1 .. Len(log) : log[p] = id}) <= Cardinality(Relays) + crashes

\* outbox.go:307 "the event is not lost - it will be retried": every committed row
\* is published in the end, after any finite number of outages and crashes.
EventuallyPublished ==
    \A id \in 1 .. Cardinality(Txs) : id \in Ids ~> id \in published
=============================================================================
