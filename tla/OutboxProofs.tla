---------------------------- MODULE OutboxProofs ----------------------------
(***************************************************************************)
(* Proofs about Outbox for every number of transactions and relays, every  *)
(* batch size and any number of outages, crashes and cancellations.        *)
(***************************************************************************)
EXTENDS Outbox, FiniteSetTheorems, WellFoundedInduction, TLAPS

\* The broker only holds rows that exist.
LogInv == Logged \subseteq Ids

\* The rows marked published are a prefix of the table.
PublishedIsPrefix ==
    \A id \in published : \A i \in Ids : i < id => i \in published

\* A relay's batch has no gap: what is older than a row of the batch is marked or
\* comes earlier in the same batch.
BatchInv ==
    \A r \in Relays : \A id \in batch[r] : \A i \in Ids :
        i < id => i \in published \/ i \in batch[r]

\* A relay about to mark a row has had it accepted by the broker.
MarkInv ==
    \A r \in Relays : pc[r] = "mark" =>
        \A id \in batch[r] : IsHead(r, id) => id \in Logged

OrderInv == NoLostEvent /\ NoOvertaking /\ LogInv /\ PublishedIsPrefix /\ BatchInv /\ MarkInv

Inv == TypeOK /\ OrderInv

\* The copies of row id at the broker, the relays that have published it and not
\* yet marked it, and the relays that hold it and may still publish it.
Copies(id) == {p \in 1 .. Len(log) : log[p] = id}
Marking(id) == {r \in Relays : pc[r] = "mark" /\ IsHead(r, id)}
Pending(id) == {r \in Relays : id \in batch[r] /\ ~ (pc[r] = "mark" /\ IsHead(r, id))}

\* While a row is not marked, each copy belongs to a crash or to a relay about to
\* mark it. Once it is marked no relay fetches it again, and the relays that still
\* hold it have room left for the copy each of them may add.
CopyBound(id) ==
    /\ id \notin published =>
         Cardinality(Copies(id)) <= crashes + Cardinality(Marking(id))
    /\ id \in published =>
         Cardinality(Copies(id)) + Cardinality(Pending(id)) <= Cardinality(Relays) + crashes

CopyInv == \A id \in Ids : CopyBound(id)

-----------------------------------------------------------------------------

LEMMA InitInv == Init => Inv
<1> SUFFICES ASSUME Init PROVE Inv
  OBVIOUS
<1>1. Len(outbox) = 0 /\ Len(log) = 0
  BY DEF Init
<1>2. TypeOK
  BY <1>1, OutboxAssumption DEF Init, TypeOK, TxStates, Ids
<1>3. OrderInv
  BY <1>1 DEF Init, OrderInv, NoLostEvent, NoOvertaking, LogInv, PublishedIsPrefix,
              BatchInv, MarkInv, Logged, Ids
<1> QED BY <1>2, <1>3 DEF Inv

\* Committing a row adds one ID and leaves the others alone.
LEMMA AppendRow ==
    ASSUME NEW t \in Txs, outbox \in Seq(Txs), outbox' = Append(outbox, t)
    PROVE  /\ Len(outbox') = Len(outbox) + 1 /\ Len(outbox) \in Nat
           /\ Ids' = Ids \cup {Len(outbox) + 1}
           /\ Len(outbox) + 1 \notin Ids
           /\ \A id \in Ids : outbox'[id] = outbox[id] /\ id < Len(outbox) + 1
           /\ outbox'[Len(outbox) + 1] = t
BY DEF Ids

\* Publishing appends one entry to the broker's log.
LEMMA AppendLog ==
    ASSUME NEW id \in Nat, log \in Seq(Nat), log' = Append(log, id)
    PROVE  /\ Len(log) \in Nat /\ Len(log') = Len(log) + 1
           /\ \A p \in 1 .. Len(log) : log'[p] = log[p]
           /\ log'[Len(log) + 1] = id
           /\ Logged' = Logged \cup {id}
<1>1. /\ Len(log) \in Nat /\ Len(log') = Len(log) + 1
      /\ \A p \in 1 .. Len(log) : log'[p] = log[p]
      /\ log'[Len(log) + 1] = id
  OBVIOUS
<1>2. 1 .. Len(log') = (1 .. Len(log)) \cup {Len(log) + 1}
  BY <1>1
<1> QED BY <1>1, <1>2 DEF Logged

\* The batch a relay fetches is downward closed among the unpublished rows.
LEMMA FetchedHasNoGap ==
    ASSUME TypeOK, NEW x \in UnpublishedEvents(Unpublished),
           NEW i \in Unpublished, i < x
    PROVE  i \in UnpublishedEvents(Unpublished)
<1>1. CASE Batch = 0
  BY <1>1 DEF UnpublishedEvents
<1>2. CASE Batch # 0
  <2>1. Cardinality(Lower(Unpublished, x)) < Batch /\ x \in Unpublished
    BY <1>2 DEF UnpublishedEvents
  <2>2. Unpublished \subseteq Ids /\ Len(outbox) \in Nat
    BY DEF Unpublished, TypeOK
  <2>3. IsFiniteSet(Ids)
    BY <2>2, FS_Interval DEF Ids
  <2>4. IsFiniteSet(Lower(Unpublished, x))
    BY <2>2, <2>3, FS_Subset DEF Lower
  <2>5. Lower(Unpublished, i) \in SUBSET Lower(Unpublished, x)
    <3>1. Unpublished \subseteq Int
      BY <2>2 DEF Ids
    <3>2. i \in Int /\ x \in Int
      BY <2>1, <3>1
    <3>3. ASSUME NEW y \in Unpublished, y < i PROVE y < x
      BY <3>1, <3>2, <3>3
    <3> QED BY <3>3 DEF Lower
  <2>6. /\ Cardinality(Lower(Unpublished, i)) <= Cardinality(Lower(Unpublished, x))
        /\ Cardinality(Lower(Unpublished, i)) \in Nat
        /\ Cardinality(Lower(Unpublished, x)) \in Nat
    BY <2>4, <2>5, FS_Subset, FS_CardinalityType
  <2>7. Batch \in Nat
    BY OutboxAssumption
  <2> QED BY <1>2, <2>1, <2>6, <2>7 DEF UnpublishedEvents
<1> QED BY <1>1, <1>2

\* A fetched batch is made of unpublished rows and is never empty.
LEMMA FetchedRows ==
    ASSUME TypeOK, Unpublished # {}
    PROVE  /\ UnpublishedEvents(Unpublished) \subseteq Unpublished
           /\ UnpublishedEvents(Unpublished) # {}
<1>1. UnpublishedEvents(Unpublished) \subseteq Unpublished
  BY DEF UnpublishedEvents
<1>2. Unpublished \subseteq Nat
  BY DEF Unpublished, Ids
<1>3. PICK x \in Unpublished : \A y \in Unpublished : ~ (<<y, x>> \in OpToRel(<, Nat))
  BY <1>2, WFMin, NatLessThanWellFounded
<1>4. \A y \in Unpublished : ~ (y < x)
  BY <1>2, <1>3 DEF OpToRel
<1>5. Lower(Unpublished, x) = {}
  BY <1>4 DEF Lower
<1>6. Cardinality(Lower(Unpublished, x)) = 0
  BY <1>5, FS_EmptySet
<1> QED BY <1>1, <1>6, OutboxAssumption DEF UnpublishedEvents

\* Every step keeps the types.
LEMMA TypeStep ==
    ASSUME TypeOK, [Next]_vars
    PROVE  TypeOK'
<1> USE DEF TypeOK
<1>1. Len(outbox) \in Nat
  OBVIOUS
<1>2. ASSUME NEW t \in Txs, Begin(t) PROVE TypeOK'
  BY <1>2 DEF Begin, TxStates, faults, Ids
<1>3. ASSUME NEW t \in Txs, Commit(t) PROVE TypeOK'
  <2>1. Ids \subseteq Ids' /\ outbox' \in Seq(Txs)
    BY <1>3, AppendRow DEF Commit
  <2>2. orders' \subseteq Orders
    BY <1>3, OutboxAssumption DEF Commit
  <2>3. tx' \in [Txs -> TxStates]
    BY <1>3 DEF Commit, TxStates
  <2>4. published' \subseteq Ids' /\ batch' \in [Relays -> SUBSET Ids']
    BY <1>3, <2>1 DEF Commit
  <2> QED BY <1>3, <2>1, <2>2, <2>3, <2>4 DEF Commit, faults
<1>4. ASSUME NEW t \in Txs, CommitFailed(t) PROVE TypeOK'
  BY <1>4 DEF CommitFailed, TxStates, faults, Ids
<1>5. ASSUME NEW t \in Txs, Rollback(t) PROVE TypeOK'
  BY <1>5 DEF Rollback, TxStates, faults, Ids
<1>6. ASSUME NEW r \in Relays, Fetch(r) PROVE TypeOK'
  <2>1. UnpublishedEvents(Unpublished) \in SUBSET Ids /\ UnpublishedEvents(Unpublished) # {}
    BY <1>6, FetchedRows DEF Fetch, Unpublished
  <2> QED BY <1>6, <2>1 DEF Fetch, dbVars, faults, Ids
<1>7. ASSUME NEW r \in Relays, NEW id \in Ids, Publish(r, id) PROVE TypeOK'
  <2>1. id \in Nat
    BY <1>1 DEF Ids
  <2>2. pc[r] = "publish" /\ batch[r] # {}
    BY <1>7 DEF Publish, IsHead
  <2>3. log' \in Seq(Nat) /\ failNext' \in Nat
    <3>1. CASE failNext = 0
      <4>1. log' = Append(log, id) /\ failNext' = failNext
        BY <1>7, <3>1 DEF Publish
      <4>2. log \in Seq(Nat) /\ failNext \in Nat
        OBVIOUS
      <4> QED BY ONLY <2>1, <4>1, <4>2
    <3>2. CASE failNext > 0
      BY <1>7, <3>2 DEF Publish
    <3> QED BY <3>1, <3>2
  <2>4. /\ pc' \in [Relays -> {"idle", "publish", "mark", "failed"}]
        /\ \A z \in Relays : (pc'[z] = "idle") <=> (batch[z] = {})
    BY <1>7, <2>2 DEF Publish
  <2> QED BY <1>7, <2>3, <2>4 DEF Publish, dbVars, faults, Ids
<1>8. ASSUME NEW r \in Relays, NEW id \in Ids, MarkPublished(r, id) PROVE TypeOK'
  BY <1>8 DEF MarkPublished, IsHead, dbVars, faults, Ids
<1>9. ASSUME NEW r \in Relays, NEW id \in Ids, RecordFailure(r, id) PROVE TypeOK'
  BY <1>9 DEF RecordFailure, dbVars, faults, Ids
<1>10. ASSUME NEW r \in Relays, Cancel(r) PROVE TypeOK'
  BY <1>10, OutboxAssumption DEF Cancel, dbVars, Ids
<1>11. ASSUME NEW r \in Relays, Crash(r) PROVE TypeOK'
  BY <1>11, OutboxAssumption DEF Crash, dbVars, Ids
<1>12. ASSUME BrokerDown PROVE TypeOK'
  BY <1>12, OutboxAssumption DEF BrokerDown, dbVars, Ids
<1>13. ASSUME Drained \/ UNCHANGED vars PROVE TypeOK'
  BY <1>13 DEF Drained, vars, dbVars, faults, Ids
<1> QED BY <1>2, <1>3, <1>4, <1>5, <1>6, <1>7, <1>8, <1>9, <1>10, <1>11, <1>12, <1>13
        DEF Next, PlaceOrder, RunOnce

-----------------------------------------------------------------------------

\* A step that leaves rows, marks, log and relays alone keeps the order.
LEMMA OrderUnchanged ==
    ASSUME OrderInv, UNCHANGED <<outbox, published, log, pc, batch>>
    PROVE  OrderInv'
BY DEF OrderInv, NoLostEvent, NoOvertaking, LogInv, PublishedIsPrefix, BatchInv,
       MarkInv, Logged, Ids, IsHead

\* A relay that drops its batch (failure, cancellation, crash) keeps the order.
LEMMA OrderDropBatch ==
    ASSUME TypeOK, OrderInv, NEW r \in Relays, UNCHANGED <<outbox, published, log>>,
           batch' = [batch EXCEPT ![r] = {}], pc' = [pc EXCEPT ![r] = "idle"]
    PROVE  OrderInv'
<1>1. UNCHANGED <<Ids, Logged>>
  BY DEF Ids, Logged
<1>2. NoLostEvent' /\ NoOvertaking' /\ LogInv' /\ PublishedIsPrefix'
  BY <1>1 DEF OrderInv, NoLostEvent, NoOvertaking, LogInv, PublishedIsPrefix
<1>3. BatchInv'
  BY <1>1 DEF OrderInv, BatchInv, TypeOK
<1>4. MarkInv'
  BY <1>1 DEF OrderInv, MarkInv, TypeOK, IsHead
<1> QED BY <1>2, <1>3, <1>4 DEF OrderInv

\* outbox.go:246 and :232: every step keeps delivery in order and loses nothing.
LEMMA OrderStep ==
    ASSUME Inv, [Next]_vars
    PROVE  OrderInv'
<1>1. TypeOK /\ OrderInv
  BY DEF Inv
<1>2. /\ NoLostEvent /\ NoOvertaking /\ LogInv /\ PublishedIsPrefix /\ BatchInv /\ MarkInv
  BY <1>1 DEF OrderInv
<1>3. Len(outbox) \in Nat /\ Ids \subseteq Nat /\ \A z \in Relays : batch[z] \subseteq Ids
  BY <1>1 DEF TypeOK, Ids
<1>4. ASSUME NEW t \in Txs, Begin(t) \/ CommitFailed(t) \/ Rollback(t) PROVE OrderInv'
  BY <1>1, <1>4, OrderUnchanged DEF Begin, CommitFailed, Rollback
<1>5. ASSUME NEW t \in Txs, Commit(t) PROVE OrderInv'
  <2>1. /\ Ids \subseteq Ids' /\ Ids' = Ids \cup {Len(outbox) + 1}
        /\ \A id \in Ids : id < Len(outbox) + 1
    BY <1>1, <1>5, AppendRow DEF Commit, TypeOK
  <2>2. UNCHANGED <<published, log, pc, batch, Logged>>
    BY <1>5 DEF Commit, Logged
  <2>3. NoLostEvent' /\ NoOvertaking' /\ LogInv'
    BY <1>2, <2>1, <2>2 DEF NoLostEvent, NoOvertaking, LogInv
  <2>4. \A id \in Ids : ~ (Len(outbox) + 1 < id)
    BY <1>3, <2>1
  <2>5. published \subseteq Ids
    BY <1>1 DEF TypeOK
  <2>6. PublishedIsPrefix'
    BY <1>2, <2>1, <2>2, <2>4, <2>5 DEF PublishedIsPrefix
  <2>7. BatchInv'
    BY <1>2, <1>3, <2>1, <2>2, <2>4 DEF BatchInv
  <2>8. MarkInv'
    BY <1>2, <2>2 DEF MarkInv, IsHead
  <2> QED BY <2>3, <2>6, <2>7, <2>8 DEF OrderInv
<1>6. ASSUME NEW r \in Relays, Fetch(r) PROVE OrderInv'
  <2>1. /\ UNCHANGED <<outbox, published, log, Ids, Logged>>
        /\ batch' = [batch EXCEPT ![r] = UnpublishedEvents(Unpublished)]
        /\ pc' = [pc EXCEPT ![r] = "publish"]
    BY <1>6 DEF Fetch, dbVars, Ids, Logged
  <2>2. NoLostEvent' /\ NoOvertaking' /\ LogInv' /\ PublishedIsPrefix'
    BY <1>2, <2>1 DEF NoLostEvent, NoOvertaking, LogInv, PublishedIsPrefix
  <2>3. \A x \in UnpublishedEvents(Unpublished) : \A i \in Ids :
           i < x => i \in published \/ i \in UnpublishedEvents(Unpublished)
    BY <1>1, FetchedHasNoGap DEF Unpublished
  <2>4. BatchInv'
    BY <1>1, <1>2, <2>1, <2>3 DEF BatchInv, TypeOK
  <2>5. MarkInv'
    BY <1>1, <1>2, <2>1 DEF MarkInv, IsHead, TypeOK
  <2> QED BY <2>2, <2>4, <2>5 DEF OrderInv
<1>7. ASSUME NEW r \in Relays, NEW id \in Ids, Publish(r, id) PROVE OrderInv'
  <2>1. /\ UNCHANGED <<outbox, published, batch, Ids>> /\ pc[r] = "publish"
        /\ id \in batch[r] /\ id \in Nat /\ \A x \in batch[r] : id <= x
    BY <1>3, <1>7 DEF Publish, dbVars, Ids, IsHead
  <2>2. PublishedIsPrefix' /\ BatchInv'
    BY <1>2, <2>1 DEF PublishedIsPrefix, BatchInv
  <2>3. CASE failNext = 0
    <3>1. log' = Append(log, id) /\ pc' = [pc EXCEPT ![r] = "mark"]
      BY <1>1, <1>7, <2>3 DEF Publish, TypeOK
    <3>2. /\ Len(log) \in Nat /\ Len(log') = Len(log) + 1
          /\ \A p \in 1 .. Len(log) : log'[p] = log[p]
          /\ log'[Len(log) + 1] = id
          /\ Logged' = Logged \cup {id}
      BY <1>1, <2>1, <3>1, AppendLog DEF TypeOK
    <3>3. NoLostEvent' /\ LogInv'
      BY <1>2, <2>1, <3>2 DEF NoLostEvent, LogInv
    <3>4. \A i \in 1 .. id - 1 : i \in Ids /\ i \in published
      <4> SUFFICES ASSUME NEW i \in 1 .. id - 1 PROVE i \in Ids /\ i \in published
        OBVIOUS
      <4>1. i \in Ids /\ i < id
        BY <1>3, <2>1 DEF Ids
      <4>2. i \notin batch[r]
        BY <1>3, <2>1, <4>1
      <4> QED BY <1>2, <2>1, <4>1, <4>2 DEF BatchInv
    <3>5. \A i \in 1 .. id - 1 : \E q \in 1 .. Len(log) : log[q] = i
      BY <1>2, <3>4 DEF NoLostEvent, Logged
    <3>6. NoOvertaking'
      <4> SUFFICES ASSUME NEW p \in 1 .. Len(log'), NEW i \in 1 .. log'[p] - 1
                   PROVE  \E q \in 1 .. p - 1 : log'[q] = i
        BY DEF NoOvertaking
      <4>1. CASE p = Len(log) + 1
        BY <3>2, <3>5, <4>1
      <4>2. CASE p \in 1 .. Len(log)
        <5>1. PICK q \in 1 .. p - 1 : log[q] = i
          BY <1>2, <3>2, <4>2 DEF NoOvertaking
        <5> QED BY <3>2, <4>2, <5>1
      <4> QED BY <3>2, <4>1, <4>2
    <3>7. MarkInv'
      <4> SUFFICES ASSUME NEW z \in Relays, pc'[z] = "mark", NEW x \in batch[z],
                          IsHead(z, x)
                   PROVE  x \in Logged'
        BY <2>1 DEF MarkInv, IsHead
      <4>1. CASE z = r
        <5>1. x <= id /\ id <= x /\ x \in Nat
          BY <1>3, <2>1, <4>1 DEF IsHead
        <5> QED BY <2>1, <3>2, <5>1
      <4>2. CASE z # r
        BY <1>1, <1>2, <3>1, <3>2, <4>2 DEF MarkInv, TypeOK
      <4> QED BY <4>1, <4>2
    <3> QED BY <2>2, <3>3, <3>6, <3>7 DEF OrderInv
  <2>4. CASE failNext # 0
    <3>1. UNCHANGED <<log, Logged>> /\ pc' = [pc EXCEPT ![r] = "failed"]
      BY <1>7, <2>4 DEF Publish, Logged
    <3>2. NoLostEvent' /\ NoOvertaking' /\ LogInv'
      BY <1>2, <2>1, <3>1 DEF NoLostEvent, NoOvertaking, LogInv
    <3>3. MarkInv'
      BY <1>1, <1>2, <2>1, <3>1 DEF MarkInv, IsHead, TypeOK
    <3> QED BY <2>2, <3>2, <3>3 DEF OrderInv
  <2> QED BY <2>3, <2>4
<1>8. ASSUME NEW r \in Relays, NEW id \in Ids, MarkPublished(r, id) PROVE OrderInv'
  <2>1. /\ UNCHANGED <<outbox, log, Ids, Logged>> /\ pc[r] = "mark"
        /\ IsHead(r, id) /\ id \in batch[r] /\ id \in Nat /\ \A x \in batch[r] : id <= x
        /\ published' = published \cup {id}
        /\ batch' = [batch EXCEPT ![r] = batch[r] \ {id}]
        /\ pc' = [pc EXCEPT ![r] = IF batch[r] = {id} THEN "idle" ELSE "publish"]
    BY <1>3, <1>8 DEF MarkPublished, dbVars, Ids, IsHead, Logged
  <2>2. NoLostEvent' /\ NoOvertaking' /\ LogInv'
    BY <1>2, <2>1 DEF NoLostEvent, NoOvertaking, LogInv, MarkInv
  <2>3. \A i \in Ids : i < id => i \in published
    BY <1>2, <1>3, <2>1 DEF BatchInv
  <2>4. PublishedIsPrefix'
    BY <1>2, <2>1, <2>3 DEF PublishedIsPrefix
  <2>5. BatchInv'
    BY <1>1, <1>2, <2>1 DEF BatchInv, TypeOK
  <2>6. MarkInv'
    BY <1>1, <1>2, <2>1 DEF MarkInv, IsHead, TypeOK
  <2> QED BY <2>2, <2>4, <2>5, <2>6 DEF OrderInv
<1>9. ASSUME NEW r \in Relays, NEW id \in Ids, RecordFailure(r, id) PROVE OrderInv'
  BY <1>1, <1>9, OrderDropBatch DEF RecordFailure, dbVars
<1>10. ASSUME NEW r \in Relays, Cancel(r) \/ Crash(r) PROVE OrderInv'
  BY <1>1, <1>10, OrderDropBatch DEF Cancel, Crash, dbVars
<1>11. ASSUME BrokerDown PROVE OrderInv'
  BY <1>1, <1>11, OrderUnchanged DEF BrokerDown, dbVars
<1>12. ASSUME Drained \/ UNCHANGED vars PROVE OrderInv'
  BY <1>1, <1>12, OrderUnchanged DEF Drained, vars, dbVars
<1> QED BY <1>4, <1>5, <1>6, <1>7, <1>8, <1>9, <1>10, <1>11, <1>12
        DEF Next, PlaceOrder, RunOnce

\* Orders and rows appear together.
LEMMA AtomicStep ==
    ASSUME TypeOK, AllOrNothing, [Next]_vars
    PROVE  AllOrNothing'
<1> USE DEF AllOrNothing
<1>1. ASSUME NEW t \in Txs, Begin(t) \/ CommitFailed(t) \/ Rollback(t)
      PROVE  AllOrNothing'
  <2>1. UNCHANGED <<orders, outbox, Ids>> /\ tx[t] # "committed"
        /\ \E s \in {"open", "failed", "rolledback"} : tx' = [tx EXCEPT ![t] = s]
    BY <1>1 DEF Begin, CommitFailed, Rollback, Ids
  <2>2. \A z \in Txs : tx'[z] = "committed" <=> tx[z] = "committed"
    BY <2>1 DEF TypeOK
  <2> QED BY <2>1, <2>2
<1>2. ASSUME NEW t \in Txs, Commit(t) PROVE AllOrNothing'
  <2>1. /\ Ids' = Ids \cup {Len(outbox) + 1}
        /\ \A id \in Ids : outbox'[id] = outbox[id]
        /\ outbox'[Len(outbox) + 1] = t
    BY <1>2, AppendRow DEF Commit, TypeOK
  <2>2. orders' = {OrderOf[outbox'[id]] : id \in Ids'}
    <3>1. /\ orders' = orders \cup {OrderOf[t]}
          /\ orders = {OrderOf[outbox[id]] : id \in Ids}
      BY <1>2 DEF Commit
    <3>2. {OrderOf[outbox'[id]] : id \in Ids'} =
             {OrderOf[outbox'[id]] : id \in Ids} \cup {OrderOf[t]}
      BY ONLY <2>1
    <3>3. {OrderOf[outbox'[id]] : id \in Ids} = {OrderOf[outbox[id]] : id \in Ids}
      BY ONLY <2>1
    <3> QED BY ONLY <3>1, <3>2, <3>3
  <2>3. \A z \in Txs : tx'[z] = "committed" <=> tx[z] = "committed" \/ z = t
    BY <1>2 DEF Commit, TypeOK
  <2>4. \A z \in Txs : tx'[z] = "committed" <=> \E id \in Ids' : outbox'[id] = z
    BY <2>1, <2>3
  <2> QED BY <2>2, <2>4
<1>3. ASSUME UNCHANGED dbVars PROVE AllOrNothing'
  BY <1>3 DEF dbVars, Ids
<1>4. ASSUME NEW r \in Relays, RunOnce(r) \/ Cancel(r) \/ Crash(r) PROVE UNCHANGED dbVars
  BY <1>4 DEF RunOnce, Fetch, Publish, MarkPublished, RecordFailure, Cancel, Crash
<1>5. ASSUME BrokerDown \/ Drained \/ UNCHANGED vars PROVE UNCHANGED dbVars
  BY <1>5 DEF BrokerDown, Drained, vars
<1> QED BY <1>1, <1>2, <1>3, <1>4, <1>5 DEF Next, PlaceOrder

-----------------------------------------------------------------------------

\* The types hold in every run: relays hold rows that exist, and only while busy.
THEOREM TypeCorrect == Spec => []TypeOK
<1>1. Init => TypeOK
  BY InitInv DEF Inv
<1>2. TypeOK /\ [Next]_vars => TypeOK'
  BY TypeStep
<1> QED BY <1>1, <1>2, PTL DEF Spec

\* outbox.go:14-17: in every reachable state, for any number of concurrent
\* transactions, the orders are exactly those whose event is in the outbox.
THEOREM Atomicity == Spec => []AllOrNothing
<1>1. Init => AllOrNothing
  <2> SUFFICES ASSUME Init PROVE AllOrNothing
    OBVIOUS
  <2>1. Len(outbox) = 0
    BY DEF Init
  <2>2. Ids = {}
    BY <2>1 DEF Ids
  <2> QED BY <2>2 DEF Init, AllOrNothing
<1>2. TypeOK /\ AllOrNothing /\ [Next]_vars => AllOrNothing'
  BY AtomicStep
<1> QED BY <1>1, <1>2, TypeCorrect, PTL DEF Spec

\* Inv is inductive.
THEOREM Invariance == Spec => []Inv
<1>1. Inv /\ [Next]_vars => Inv'
  BY TypeStep, OrderStep DEF Inv
<1> QED BY <1>1, InitInv, PTL DEF Spec

\* outbox.go:232-235: no event is marked published without having reached the
\* broker, for any number of relays and any pattern of crashes and outages.
THEOREM NothingLost == Spec => []NoLostEvent
<1>1. Inv => NoLostEvent
  BY DEF Inv, OrderInv
<1> QED BY <1>1, Invariance, PTL

\* outbox.go:246-247: no event overtakes an earlier one, for any number of relays,
\* any batch size and any pattern of crashes and outages.
THEOREM DeliveredInOrder == Spec => []NoOvertaking
<1>1. Inv => NoOvertaking
  BY DEF Inv, OrderInv
<1> QED BY <1>1, Invariance, PTL

-----------------------------------------------------------------------------
(* How many copies of an event the broker can hold.                        *)

\* The sets counted are finite, and a relay is not both about to mark a row and
\* still to publish it.
Countable ==
    \A id \in Nat :
        /\ IsFiniteSet(Copies(id)) /\ IsFiniteSet(Marking(id)) /\ IsFiniteSet(Pending(id))
        /\ Cardinality(Copies(id)) \in Nat
        /\ Cardinality(Marking(id)) \in Nat
        /\ Cardinality(Pending(id)) \in Nat
        /\ Cardinality(Relays) \in Nat
        /\ Cardinality(Marking(id)) + Cardinality(Pending(id)) <= Cardinality(Relays)

\* The copies of a row and the relays that hold it can be counted.
LEMMA CopyCounts == TypeOK => Countable
<1> SUFFICES ASSUME TypeOK, NEW id \in Nat
             PROVE  /\ IsFiniteSet(Copies(id)) /\ IsFiniteSet(Marking(id))
                    /\ IsFiniteSet(Pending(id))
                    /\ Cardinality(Copies(id)) \in Nat
                    /\ Cardinality(Marking(id)) \in Nat
                    /\ Cardinality(Pending(id)) \in Nat
                    /\ Cardinality(Relays) \in Nat
                    /\ Cardinality(Marking(id)) + Cardinality(Pending(id)) <= Cardinality(Relays)
  BY DEF Countable
<1>1. IsFiniteSet(Relays) /\ Cardinality(Relays) \in Nat
  BY OutboxAssumption, FS_CardinalityType
<1>2. Marking(id) \in SUBSET Relays /\ Pending(id) \in SUBSET Relays
  BY DEF Marking, Pending
<1>3. IsFiniteSet(Marking(id)) /\ IsFiniteSet(Pending(id))
  BY <1>1, <1>2, FS_Subset
<1>4. Len(log) \in Nat
  BY DEF TypeOK
<1>5. IsFiniteSet(1 .. Len(log)) /\ Copies(id) \in SUBSET (1 .. Len(log))
  BY <1>4, FS_Interval DEF Copies
<1>6. IsFiniteSet(Copies(id))
  BY <1>5, FS_Subset
<1>7. /\ Cardinality(Copies(id)) \in Nat
      /\ Cardinality(Marking(id)) \in Nat
      /\ Cardinality(Pending(id)) \in Nat
  BY <1>3, <1>6, FS_CardinalityType
<1>8. Marking(id) \cap Pending(id) = {}
  BY DEF Marking, Pending
<1>9. Cardinality(Marking(id) \cup Pending(id)) = Cardinality(Marking(id)) + Cardinality(Pending(id))
  BY <1>3, <1>7, <1>8, FS_Union, FS_EmptySet
<1>10. Marking(id) \cup Pending(id) \in SUBSET Relays
  BY <1>2
<1>11. Cardinality(Marking(id) \cup Pending(id)) <= Cardinality(Relays)
  BY <1>1, <1>10, FS_Subset
<1> QED BY <1>1, <1>3, <1>6, <1>7, <1>9, <1>11

\* A step that adds no copy of id, lets no relay about to mark it go and lets no
\* further relay hold it keeps its bound.
LEMMA CopyKept ==
    ASSUME TypeOK, TypeOK', NEW id \in Nat, CopyBound(id),
           Copies(id)' = Copies(id), crashes' >= crashes,
           id \in published' <=> id \in published,
           id \in published => Pending(id)' \subseteq Pending(id),
           id \notin published => Marking(id) \subseteq Marking(id)'
    PROVE  CopyBound(id)'
<1>1. Countable /\ Countable'
  BY CopyCounts, PTL
<1>2. /\ IsFiniteSet(Pending(id)) /\ IsFiniteSet(Marking(id)')
      /\ Cardinality(Copies(id)) \in Nat
      /\ Cardinality(Marking(id)) \in Nat /\ Cardinality(Marking(id)') \in Nat
      /\ Cardinality(Pending(id)) \in Nat /\ Cardinality(Pending(id)') \in Nat
      /\ Cardinality(Relays) \in Nat
  BY <1>1 DEF Countable
<1>3. crashes \in Int /\ crashes' \in Int
  BY DEF TypeOK
<1>4. CASE id \in published
  <2>1. Cardinality(Pending(id)') <= Cardinality(Pending(id))
    BY <1>2, <1>4, FS_Subset
  <2>2. Cardinality(Copies(id)) + Cardinality(Pending(id)) <= Cardinality(Relays) + crashes
    BY <1>4 DEF CopyBound
  <2>3. Cardinality(Copies(id)') + Cardinality(Pending(id)') <= Cardinality(Relays) + crashes'
    BY <1>2, <1>3, <2>1, <2>2
  <2> QED BY <1>4, <2>3 DEF CopyBound
<1>5. CASE id \notin published
  <2>1. Cardinality(Marking(id)) <= Cardinality(Marking(id)')
    BY <1>2, <1>5, FS_Subset
  <2>2. Cardinality(Copies(id)) <= crashes + Cardinality(Marking(id))
    BY <1>5 DEF CopyBound
  <2>3. Cardinality(Copies(id)') <= crashes' + Cardinality(Marking(id)')
    BY <1>2, <1>3, <2>1, <2>2
  <2> QED BY <1>5, <2>3 DEF CopyBound
<1> QED BY <1>4, <1>5

\* The bound of id and the sets it counts depend on these variables only.
LEMMA CopyUnchanged ==
    ASSUME CopyInv, UNCHANGED <<outbox, published, log, pc, batch, crashes>>
    PROVE  CopyInv'
<1>1. UNCHANGED Ids /\ \A id \in Ids : UNCHANGED <<Copies(id), Marking(id), Pending(id)>>
  BY DEF Ids, Copies, Marking, Pending, IsHead
<1> QED BY <1>1 DEF CopyInv, CopyBound

\* outbox.go:19-21: every step keeps each event's copies within its bound.
LEMMA CopyStep ==
    ASSUME Inv, Inv', CopyInv, [Next]_vars
    PROVE  CopyInv'
<1>1. TypeOK /\ TypeOK' /\ LogInv
  BY DEF Inv, OrderInv
<1>2. Countable /\ Countable'
  BY <1>1, CopyCounts, PTL
<1>3. /\ Ids \subseteq Nat /\ \A z \in Relays : batch[z] \subseteq Ids
      /\ crashes \in Nat /\ crashes' \in Nat /\ batch \in [Relays -> SUBSET Ids]
      /\ pc \in [Relays -> {"idle", "publish", "mark", "failed"}]
      /\ \A z \in Relays : (pc[z] = "idle") <=> (batch[z] = {})
  BY <1>1, SMTT(20) DEF TypeOK, Ids
<1>4. \A id \in Ids : CopyBound(id) /\ id \in Nat
  BY <1>3 DEF CopyInv
<1>5. ASSUME NEW t \in Txs, Begin(t) \/ CommitFailed(t) \/ Rollback(t) PROVE CopyInv'
  BY <1>5, CopyUnchanged DEF Begin, CommitFailed, Rollback, faults
<1>6. ASSUME NEW t \in Txs, Commit(t) PROVE CopyInv'
  <2>1. /\ UNCHANGED <<published, log, pc, batch, crashes>>
        /\ Ids' = Ids \cup {Len(outbox) + 1}
        /\ Len(outbox) + 1 \notin Ids /\ Len(outbox) + 1 \in Nat
    BY <1>1, <1>6, AppendRow DEF Commit, TypeOK, faults
  <2>2. \A id \in Nat : UNCHANGED <<Copies(id), Marking(id), Pending(id)>>
    BY <2>1 DEF Copies, Marking, Pending, IsHead
  <2>3. \A id \in Ids : CopyBound(id)'
    BY <1>4, <2>1, <2>2 DEF CopyBound
  <2>4. ASSUME NEW id \in Nat, id = Len(outbox) + 1 PROVE CopyBound(id)'
    <3>1. Copies(id) = {}
      BY <1>1, <2>1, <2>4 DEF Copies, LogInv, Logged
    <3>2. Copies(id)' = {} /\ id \notin published'
      BY <1>1, <2>1, <2>2, <2>4, <3>1 DEF TypeOK
    <3>3. Cardinality(Copies(id)') = 0 /\ Cardinality(Marking(id)') \in Nat
      BY <1>2, <3>2, FS_EmptySet DEF Countable
    <3> QED BY <1>3, <3>2, <3>3 DEF CopyBound
  <2> QED BY <1>3, <2>1, <2>3, <2>4 DEF CopyInv

<1>7. ASSUME NEW r \in Relays, Fetch(r) PROVE CopyInv'
  <2>1. /\ UNCHANGED <<published, log, crashes, Ids>> /\ pc[r] = "idle" /\ batch[r] = {}
        /\ batch' = [batch EXCEPT ![r] = UnpublishedEvents(Unpublished)]
        /\ pc' = [pc EXCEPT ![r] = "publish"]
    BY <1>3, <1>7 DEF Fetch, dbVars, faults, Ids
  <2>2. \A x \in UnpublishedEvents(Unpublished) : x \notin published
    BY <1>1, <1>7, FetchedRows DEF Fetch, Unpublished
  <2>3. ASSUME NEW id \in Ids PROVE CopyBound(id)'
    <3>1. Copies(id)' = Copies(id) /\ id \in Nat
      BY <1>3, <2>1 DEF Copies
    <3>2. Marking(id) \subseteq Marking(id)'
      BY <1>3, <2>1 DEF Marking, IsHead
    <3>3. id \in published => Pending(id)' \subseteq Pending(id)
      BY <1>3, <2>1, <2>2 DEF Pending, IsHead
    <3> QED BY <1>1, <1>3, <1>4, <2>1, <3>1, <3>2, <3>3, CopyKept
  <2> QED BY <2>1, <2>3 DEF CopyInv
<1>8. ASSUME NEW r \in Relays, NEW x \in Ids, Publish(r, x) PROVE CopyInv'
  <2>1. /\ UNCHANGED <<published, batch, crashes, Ids>> /\ pc[r] = "publish"
        /\ x \in batch[r] /\ x \in Nat /\ \A y \in batch[r] : x <= y
    BY <1>3, <1>8 DEF Publish, dbVars, faults, Ids, IsHead
  <2>2. \A y \in Ids : IsHead(r, y) => y = x
    BY <1>3, <2>1 DEF IsHead
  <2>3. CASE failNext = 0
    <3>1. log' = Append(log, x) /\ pc' = [pc EXCEPT ![r] = "mark"]
      BY <1>1, <1>8, <2>3 DEF Publish, TypeOK
    <3>2. /\ Len(log) \in Nat /\ Len(log') = Len(log) + 1
          /\ \A p \in 1 .. Len(log) : log'[p] = log[p]
          /\ log'[Len(log) + 1] = x
      BY <1>1, <2>1, <3>1, AppendLog DEF TypeOK
    <3>3. ASSUME NEW id \in Ids, id # x PROVE CopyBound(id)'
      <4>1. Copies(id)' = Copies(id) /\ id \in Nat
        BY <1>3, <3>2, <3>3 DEF Copies
      <4>2. Marking(id) \subseteq Marking(id)' /\ Pending(id)' \subseteq Pending(id)
        BY <1>3, <2>1, <2>2, <3>1, <3>3 DEF Marking, Pending, IsHead
      <4> QED BY <1>1, <1>3, <1>4, <2>1, <4>1, <4>2, CopyKept
    <3>4. CopyBound(x)'
      <4>1. Copies(x)' = Copies(x) \cup {Len(log) + 1} /\ Len(log) + 1 \notin Copies(x)
        BY <3>2 DEF Copies
      <4>2. Marking(x)' = Marking(x) \cup {r} /\ r \notin Marking(x)
        BY <1>3, <2>1, <3>1 DEF Marking, IsHead
      <4>3. Pending(x)' = Pending(x) \ {r} /\ r \in Pending(x)
        BY <1>3, <2>1, <3>1 DEF Pending, IsHead
      <4>4. /\ Cardinality(Copies(x)') = Cardinality(Copies(x)) + 1
            /\ Cardinality(Marking(x)') = Cardinality(Marking(x)) + 1
            /\ Cardinality(Pending(x)') = Cardinality(Pending(x)) - 1
        <5>1. IsFiniteSet(Copies(x)) /\ IsFiniteSet(Marking(x)) /\ IsFiniteSet(Pending(x))
          BY <1>2, <2>1 DEF Countable
        <5>2. Cardinality(Copies(x)') = Cardinality(Copies(x)) + 1
          BY <4>1, <5>1, FS_AddElement
        <5>3. Cardinality(Marking(x)') = Cardinality(Marking(x)) + 1
          BY <4>2, <5>1, FS_AddElement
        <5>4. Cardinality(Pending(x)') = Cardinality(Pending(x)) - 1
          BY <4>3, <5>1, FS_RemoveElement
        <5> QED BY <5>2, <5>3, <5>4
      <4>5. /\ Cardinality(Copies(x)) \in Nat /\ Cardinality(Marking(x)) \in Nat
            /\ Cardinality(Pending(x)) \in Nat /\ Cardinality(Relays) \in Nat
        BY <1>2, <2>1 DEF Countable
      <4>6. CopyBound(x)
        BY <1>4
      <4> QED BY <1>3, <2>1, <4>4, <4>5, <4>6 DEF CopyBound
    <3> QED BY <2>1, <3>3, <3>4 DEF CopyInv
  <2>4. CASE failNext # 0
    <3>1. UNCHANGED log /\ pc' = [pc EXCEPT ![r] = "failed"]
      BY <1>8, <2>4 DEF Publish
    <3>2. ASSUME NEW id \in Ids PROVE CopyBound(id)'
      <4>1. Copies(id)' = Copies(id) /\ id \in Nat
        BY <1>3, <3>1 DEF Copies
      <4>2. Marking(id) \subseteq Marking(id)' /\ Pending(id)' \subseteq Pending(id)
        BY <1>3, <2>1, <3>1 DEF Marking, Pending, IsHead
      <4> QED BY <1>1, <1>3, <1>4, <2>1, <4>1, <4>2, CopyKept
    <3> QED BY <2>1, <3>2 DEF CopyInv
  <2> QED BY <2>3, <2>4
<1>9. ASSUME NEW r \in Relays, NEW x \in Ids, MarkPublished(r, x) PROVE CopyInv'
  <2>1. /\ UNCHANGED <<log, crashes, Ids>> /\ pc[r] = "mark"
        /\ IsHead(r, x) /\ x \in batch[r] /\ x \in Nat /\ \A y \in batch[r] : x <= y
        /\ published' = published \cup {x}
        /\ batch' = [batch EXCEPT ![r] = batch[r] \ {x}]
        /\ pc' = [pc EXCEPT ![r] = IF batch[r] = {x} THEN "idle" ELSE "publish"]
    BY <1>3, <1>9 DEF MarkPublished, dbVars, faults, Ids, IsHead
  <2>2. \A y \in Ids : IsHead(r, y) => y = x
    BY <1>3, <2>1 DEF IsHead
  <2>3. ASSUME NEW id \in Ids PROVE Copies(id)' = Copies(id) /\ id \in Nat
    BY <1>3, <2>1 DEF Copies
  <2>4. ASSUME NEW id \in Ids, id # x PROVE CopyBound(id)'
    <3>1. Marking(id) \subseteq Marking(id)'
      BY <1>3, <2>1, <2>2, <2>4 DEF Marking, IsHead
    <3>2. Pending(id)' \subseteq Pending(id)
      BY <1>3, <2>1, <2>2, <2>4 DEF Pending, IsHead
    <3> QED BY <1>1, <1>3, <1>4, <2>1, <2>3, <2>4, <3>1, <3>2, CopyKept
  <2>5. CopyBound(x)'
    <3>1. Pending(x)' \in SUBSET Pending(x)
      BY <1>3, <2>1 DEF Pending, IsHead
    <3>2. /\ Cardinality(Copies(x)) \in Nat /\ Cardinality(Marking(x)) \in Nat
          /\ Cardinality(Pending(x)) \in Nat /\ Cardinality(Relays) \in Nat
          /\ Cardinality(Marking(x)) + Cardinality(Pending(x)) <= Cardinality(Relays)
          /\ Cardinality(Pending(x)') \in Nat /\ IsFiniteSet(Pending(x))
      BY <1>2, <2>1 DEF Countable
    <3>3. Cardinality(Pending(x)') <= Cardinality(Pending(x))
      BY <3>1, <3>2, FS_Subset
    <3>4. CopyBound(x) /\ Copies(x)' = Copies(x)
      BY <1>4, <2>3
    <3>5. x \in published'
      BY <2>1
    <3>6. Cardinality(Copies(x)) + Cardinality(Pending(x)) <= Cardinality(Relays) + crashes
      BY <1>3, <3>2, <3>4 DEF CopyBound
    <3>7. Cardinality(Copies(x)') + Cardinality(Pending(x)') <= Cardinality(Relays) + crashes'
      BY <1>3, <2>1, <3>2, <3>3, <3>4, <3>6
    <3> QED BY <3>5, <3>7 DEF CopyBound
  <2> QED BY <2>1, <2>4, <2>5 DEF CopyInv
<1>10. ASSUME NEW r \in Relays, UNCHANGED <<outbox, published, log, crashes>>,
              pc[r] # "mark",
              batch' = [batch EXCEPT ![r] = {}], pc' = [pc EXCEPT ![r] = "idle"]
       PROVE  CopyInv'
  <2>1. UNCHANGED Ids
    BY <1>10 DEF Ids
  <2>2. ASSUME NEW id \in Ids PROVE CopyBound(id)'
    <3>1. Copies(id)' = Copies(id) /\ id \in Nat
      BY <1>3, <1>10 DEF Copies
    <3>2. Marking(id) \subseteq Marking(id)' /\ Pending(id)' \subseteq Pending(id)
      BY <1>3, <1>10 DEF Marking, Pending, IsHead
    <3> QED BY <1>1, <1>3, <1>4, <1>10, <3>1, <3>2, CopyKept
  <2> QED BY <2>1, <2>2 DEF CopyInv
<1>11. ASSUME NEW r \in Relays, NEW x \in Ids, RecordFailure(r, x) PROVE CopyInv'
  BY <1>10, <1>11 DEF RecordFailure, dbVars, faults
<1>12. ASSUME NEW r \in Relays, Cancel(r) PROVE CopyInv'
  BY <1>10, <1>12 DEF Cancel, dbVars
<1>13. ASSUME NEW r \in Relays, Crash(r) PROVE CopyInv'
  <2>1. /\ UNCHANGED <<published, log, Ids>> /\ crashes' = crashes + 1
        /\ batch' = [batch EXCEPT ![r] = {}] /\ pc' = [pc EXCEPT ![r] = "idle"]
    BY <1>13 DEF Crash, dbVars, Ids
  <2>2. ASSUME NEW id \in Ids PROVE CopyBound(id)'
    <3>1. Copies(id)' = Copies(id) /\ id \in Nat
      BY <1>3, <2>1 DEF Copies
    <3>2. Marking(id)' = Marking(id) \ {r} /\ Pending(id)' \in SUBSET Pending(id)
      BY <1>3, <2>1 DEF Marking, Pending, IsHead
    <3>3. /\ Cardinality(Copies(id)) \in Nat /\ Cardinality(Marking(id)) \in Nat
          /\ Cardinality(Pending(id)) \in Nat /\ Cardinality(Relays) \in Nat
          /\ Cardinality(Pending(id)') \in Nat /\ Cardinality(Marking(id)') \in Nat
          /\ IsFiniteSet(Pending(id)) /\ IsFiniteSet(Marking(id))
      BY <1>2, <3>1 DEF Countable
    <3>4. /\ Cardinality(Pending(id)') <= Cardinality(Pending(id))
          /\ Cardinality(Marking(id)) <= Cardinality(Marking(id)') + 1
      BY <3>2, <3>3, FS_Subset, FS_RemoveElement
    <3>5. CopyBound(id)
      BY <1>4
    <3> QED BY <1>3, <2>1, <3>1, <3>3, <3>4, <3>5 DEF CopyBound
  <2> QED BY <2>1, <2>2 DEF CopyInv
<1>14. ASSUME BrokerDown \/ Drained \/ UNCHANGED vars PROVE CopyInv'
  BY <1>14, CopyUnchanged DEF BrokerDown, Drained, vars, dbVars, faults
<1> QED BY <1>5, <1>6, <1>7, <1>8, <1>9, <1>11, <1>12, <1>13, <1>14
        DEF Next, PlaceOrder, RunOnce

\* outbox.go:19-21: every copy of an event beyond one per relay is owed to a crash,
\* for any number of relays and any pattern of outages, refusals and cancellations.
THEOREM DuplicatesAreOwed == Spec => []DuplicatesExplained
<1>1. Init => CopyInv
  BY DEF Init, CopyInv, Ids
<1>2. Inv /\ Inv' /\ CopyInv /\ [Next]_vars => CopyInv'
  BY CopyStep
<1>3. Inv /\ CopyInv => DuplicatesExplained
  <2> SUFFICES ASSUME Inv, CopyInv, NEW id \in Ids
               PROVE  Cardinality(Copies(id)) <= Cardinality(Relays) + crashes
    BY DEF DuplicatesExplained, Copies
  <2>1. TypeOK /\ id \in Nat /\ crashes \in Nat
    BY DEF Inv, TypeOK, Ids
  <2>2. /\ Cardinality(Copies(id)) \in Nat /\ Cardinality(Marking(id)) \in Nat
        /\ Cardinality(Pending(id)) \in Nat /\ Cardinality(Relays) \in Nat
        /\ Cardinality(Marking(id)) + Cardinality(Pending(id)) <= Cardinality(Relays)
    BY <2>1, CopyCounts DEF Countable
  <2>3. CopyBound(id)
    BY DEF CopyInv
  <2> QED BY <2>1, <2>2, <2>3 DEF CopyBound
<1> QED BY <1>1, <1>2, <1>3, Invariance, PTL DEF Spec
=============================================================================
