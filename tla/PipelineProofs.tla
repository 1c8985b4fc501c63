--------------------------- MODULE PipelineProofs ---------------------------
(***************************************************************************)
(* Proofs about the worker-pool pipeline for any number of jobs, stages    *)
(* and workers and any size of the channels.                               *)
(***************************************************************************)
EXTENDS Pipeline, FiniteSetTheorems, TLAPS

Holding == {"stage", "fail", "send", "blocked"}

\* Types, who holds a job, and that a producer that waits has a job left to send.
TypeOK ==
    /\ chan \in [0 .. Stages -> Seq(Jobs)] /\ closed \in [0 .. Stages -> BOOLEAN]
    /\ errs \in [1 .. Stages -> Seq(Jobs)] /\ errsClosed \in [1 .. Stages -> BOOLEAN]
    /\ producer \in {"send", "blocked", "return", "done"}
    /\ produced \in 0 .. N /\ (producer = "blocked" => produced < N)
    /\ worker \in [Pool -> Holding \cup {"recv", "done"}]
    /\ hand \in [Pool -> Jobs \cup {None}]
    /\ \A w \in Pool : hand[w] = None <=> worker[w] \in {"recv", "done"}
    /\ collected \subseteq Jobs /\ reported \subseteq Jobs
    /\ ctxDone \in BOOLEAN

LEMMA Constants ==
    /\ N \in Nat /\ Stages \in Nat \ {0} /\ None \notin Jobs
    /\ 0 \in 0 .. Stages /\ Stages \in 0 .. Stages
    /\ \A w \in Pool : w[1] \in 1 .. Stages /\ w[1] \in 0 .. Stages /\ w[1] - 1 \in 0 .. Stages
BY PipelineAssumption DEF None, Jobs, Pool

LEMMA TypeInit == Init => TypeOK
<1> SUFFICES ASSUME Init PROVE TypeOK
  OBVIOUS
<1>1. \A w \in Pool : hand[w] = None /\ worker[w] = "recv"
  BY DEF Init
<1>2. chan \in [0 .. Stages -> Seq(Jobs)] /\ errs \in [1 .. Stages -> Seq(Jobs)]
  BY DEF Init
<1>3. produced \in 0 .. N
  BY Constants DEF Init
<1>4. /\ worker \in [Pool -> Holding \cup {"recv", "done"}]
      /\ hand \in [Pool -> Jobs \cup {None}]
  BY DEF Init
<1> QED BY <1>1, <1>2, <1>3, <1>4 DEF Init, TypeOK

\* A goroutine that goes on with hand h keeps the workers' part of the types.
LEMMA WorkerMoves ==
    ASSUME TypeOK, NEW w \in Pool, NEW l \in Holding \cup {"recv", "done"},
           NEW h \in Jobs \cup {None}, h = None <=> l \in {"recv", "done"},
           worker' = [worker EXCEPT ![w] = l], hand' = [hand EXCEPT ![w] = h]
    PROVE  /\ worker' \in [Pool -> Holding \cup {"recv", "done"}]
           /\ hand' \in [Pool -> Jobs \cup {None}]
           /\ \A v \in Pool : hand'[v] = None <=> worker'[v] \in {"recv", "done"}
BY DEF TypeOK

LEMMA TypeStep == TypeOK /\ [Next]_vars => TypeOK'
<1> SUFFICES ASSUME TypeOK, [Next]_vars PROVE TypeOK'
  OBVIOUS
<1> USE Constants
<1>1. CASE Produce
  <2>1. CASE Sent /\ UNCHANGED <<closed, errs, errsClosed, workerVars, endVars>>
              /\ produced < N /\ producer' = "send"
    <3>1. produced \in Jobs /\ produced' \in 0 .. N
      BY <2>1 DEF Sent, TypeOK, Jobs
    <3>2. chan' \in [0 .. Stages -> Seq(Jobs)]
      BY <2>1, <3>1 DEF Sent, Put, TypeOK
    <3> QED BY <2>1, <3>1, <3>2 DEF TypeOK, workerVars, endVars
  <2>2. CASE UNCHANGED <<chan, produced, errs, errsClosed, workerVars, endVars>>
              /\ closed' \in [0 .. Stages -> BOOLEAN]
              /\ producer' \in {"send", "blocked", "return", "done"}
              /\ (producer' = "blocked" => produced < N)
    BY <2>2 DEF TypeOK, workerVars, endVars
  <2>3. CASE ProduceTry
    BY <2>1, <2>2, <2>3 DEF ProduceTry, TypeOK
  <2>4. CASE ProduceUnblock
    BY <2>1, <2>2, <2>4 DEF ProduceUnblock, TypeOK
  <2>5. CASE ProduceReturn
    BY <2>2, <2>5 DEF ProduceReturn, TypeOK
  <2> QED BY <1>1, <2>3, <2>4, <2>5 DEF Produce
<1>2. ASSUME NEW w \in Pool, Work(w) PROVE TypeOK'
  <2> DEFINE in == chan[w[1] - 1]
  <2>0. in \in Seq(Jobs) /\ (in # <<>> => Head(in) \in Jobs /\ Tail(in) \in Seq(Jobs))
    BY SMTT(20) DEF TypeOK
  <2>1. CASE WorkerRecv(w)
    <3>1. CASE Goto(w, "done") /\ UNCHANGED <<chan, hand>>
      <4>1. hand' = [hand EXCEPT ![w] = None]
        BY <2>1, <3>1 DEF WorkerRecv, TypeOK
      <4> QED
        BY <2>1, <3>1, <4>1, WorkerMoves DEF WorkerRecv, Goto, TypeOK, endVars
    <3>2. CASE /\ in # <<>> /\ Goto(w, "stage")
               /\ chan' = [chan EXCEPT ![w[1] - 1] = Tail(@)]
               /\ hand' = [hand EXCEPT ![w] = Head(in)]
      <4>1. chan' \in [0 .. Stages -> Seq(Jobs)]
        BY <2>0, <3>2 DEF TypeOK
      <4> HIDE DEF in
      <4>2. /\ worker' \in [Pool -> Holding \cup {"recv", "done"}]
            /\ hand' \in [Pool -> Jobs \cup {None}]
            /\ \A v \in Pool : hand'[v] = None <=> worker'[v] \in {"recv", "done"}
        BY <2>0, <3>2, WorkerMoves DEF Goto, Holding
      <4> QED BY <2>1, <4>1, <4>2 DEF WorkerRecv, TypeOK, endVars
    <3> QED BY <2>1, <3>1, <3>2 DEF WorkerRecv
  <2>2. CASE WorkerStage(w)
    BY <2>2 DEF WorkerStage, Goto, TypeOK, chanVars, endVars, Holding
  <2>3. worker[w] \in Holding => hand[w] \in Jobs
    BY DEF TypeOK, Holding
  <2>4. CASE WorkerFail(w)
    <3>1. errs' \in [1 .. Stages -> Seq(Jobs)]
      <4>1. hand[w] \in Jobs
        BY <2>3, <2>4 DEF WorkerFail, Holding
      <4>2. errs \in [1 .. Stages -> Seq(Jobs)]
        BY DEF TypeOK
      <4>3. [errs EXCEPT ![w[1]] = Append(errs[w[1]], hand[w])] \in [1 .. Stages -> Seq(Jobs)]
        BY <4>1, <4>2
      <4> QED BY <2>4, <4>2, <4>3 DEF WorkerFail
    <3>2. /\ worker' \in [Pool -> Holding \cup {"recv", "done"}]
          /\ hand' \in [Pool -> Jobs \cup {None}]
          /\ \A v \in Pool : hand'[v] = None <=> worker'[v] \in {"recv", "done"}
      BY <2>4, WorkerMoves DEF WorkerFail, Goto
    <3> QED BY <2>4, <3>1, <3>2 DEF WorkerFail, TypeOK, endVars
  <2>5. CASE WorkerTry(w)
    <3>1. chan' \in [0 .. Stages -> Seq(Jobs)]
      <4>1. hand[w] \in Jobs
        BY <2>3, <2>5 DEF WorkerTry, Holding
      <4>2. chan \in [0 .. Stages -> Seq(Jobs)]
        BY DEF TypeOK
      <4>3. [chan EXCEPT ![w[1]] = Append(chan[w[1]], hand[w])] \in [0 .. Stages -> Seq(Jobs)]
        BY <4>1, <4>2
      <4> QED BY <2>5, <4>2, <4>3 DEF WorkerTry, Put
    <3>2. /\ worker' \in [Pool -> Holding \cup {"recv", "done"}]
          /\ hand' \in [Pool -> Jobs \cup {None}]
          /\ \A v \in Pool : hand'[v] = None <=> worker'[v] \in {"recv", "done"}
      <4>1. CASE Room(chan[w[1]])
        BY <2>5, <4>1, WorkerMoves DEF WorkerTry, Goto
      <4>2. CASE ~ Room(chan[w[1]])
        BY <2>5, <4>2 DEF WorkerTry, Goto, TypeOK, Holding
      <4> QED BY <4>1, <4>2
    <3> QED BY <2>5, <3>1, <3>2 DEF WorkerTry, TypeOK, endVars
  <2>6. CASE WorkerUnblock(w)
    <3>1. chan' \in [0 .. Stages -> Seq(Jobs)]
      <4>1. hand[w] \in Jobs
        BY <2>3, <2>6 DEF WorkerUnblock, Holding
      <4>2. chan \in [0 .. Stages -> Seq(Jobs)]
        BY DEF TypeOK
      <4>3. [chan EXCEPT ![w[1]] = Append(chan[w[1]], hand[w])] \in [0 .. Stages -> Seq(Jobs)]
        BY <4>1, <4>2
      <4> QED BY <2>6, <4>2, <4>3 DEF WorkerUnblock, Put
    <3>2. /\ worker' \in [Pool -> Holding \cup {"recv", "done"}]
          /\ hand' \in [Pool -> Jobs \cup {None}]
          /\ \A v \in Pool : hand'[v] = None <=> worker'[v] \in {"recv", "done"}
      BY <2>6, WorkerMoves DEF WorkerUnblock, Goto
    <3> QED BY <2>6, <3>1, <3>2 DEF WorkerUnblock, TypeOK, endVars
  <2> QED BY <1>2, <2>1, <2>2, <2>4, <2>5, <2>6 DEF Work
<1>3. ASSUME NEW s \in 1 .. Stages, Close(s) PROVE TypeOK'
  BY <1>3 DEF Close, CloseOut, CloseErrs, TypeOK, workerVars, endVars
<1>4. ASSUME NEW s \in 1 .. Stages, ReadError(s) PROVE TypeOK'
  <2>1. errs[s] \in Seq(Jobs) /\ Head(errs[s]) \in Jobs /\ Tail(errs[s]) \in Seq(Jobs)
    BY <1>4 DEF ReadError, TypeOK
  <2> QED BY <1>4, <2>1 DEF ReadError, TypeOK, workerVars
<1>5. CASE Collect
  <2>1. chan[Stages] \in Seq(Jobs)
    BY DEF TypeOK
  <2>2. chan[Stages] # <<>> =>
          Head(chan[Stages]) \in Jobs /\ Tail(chan[Stages]) \in Seq(Jobs)
    BY <2>1
  <2>3. CASE UNCHANGED <<chan, collected>> /\ collector' = "done"
    BY <1>5, <2>3 DEF Collect, TypeOK, workerVars
  <2>4. CASE /\ chan[Stages] # <<>> /\ chan' = [chan EXCEPT ![Stages] = Tail(@)]
             /\ collected' = collected \cup {Head(chan[Stages])} /\ UNCHANGED collector
    <3>1. chan' \in [0 .. Stages -> Seq(Jobs)] /\ collected' \subseteq Jobs
      BY <2>2, <2>4 DEF TypeOK
    <3> QED BY <1>5, <2>4, <3>1 DEF Collect, TypeOK, workerVars
  <2> QED BY <1>5, <2>3, <2>4 DEF Collect
<1>6. CASE Cancel
  BY <1>6 DEF Cancel, TypeOK, chanVars, workerVars
<1>7. CASE Finished \/ UNCHANGED vars
  BY <1>7 DEF Finished, vars, chanVars, workerVars, endVars, TypeOK
<1> QED BY <1>1, <1>2, <1>3, <1>4, <1>5, <1>6, <1>7 DEF Next

-----------------------------------------------------------------------------

LEMMA ClosedStep == TypeOK /\ NoSendOnClosed /\ [Next]_vars => NoSendOnClosed'
<1> SUFFICES ASSUME TypeOK, NoSendOnClosed, [Next]_vars PROVE NoSendOnClosed'
  OBVIOUS
<1> USE Constants
<1>1. CASE Produce
  <2>1. UNCHANGED <<worker, errsClosed>> /\ (producer = "done" => FALSE)
    BY <1>1 DEF Produce, ProduceTry, ProduceUnblock, ProduceReturn, workerVars
  <2>2. closed' = closed \/ (producer' = "done" /\ closed' = [closed EXCEPT ![0] = TRUE])
    BY <1>1 DEF Produce, ProduceTry, ProduceUnblock, ProduceReturn
  <2>3. \A s \in 1 .. Stages : closed'[s] = closed[s]
    BY <2>2 DEF TypeOK
  <2> QED BY <2>1, <2>2, <2>3 DEF NoSendOnClosed
<1>2. ASSUME NEW w \in Pool, Work(w) PROVE NoSendOnClosed'
  <2>1. /\ UNCHANGED <<closed, errsClosed, producer>> /\ worker[w] # "done"
        /\ \E l : worker' = [worker EXCEPT ![w] = l]
    BY <1>2
    DEF Work, WorkerRecv, WorkerStage, WorkerFail, WorkerTry, WorkerUnblock, Goto, chanVars
  <2> QED BY <2>1 DEF NoSendOnClosed, TypeOK
<1>3. ASSUME NEW s \in 1 .. Stages, CloseOut(s) PROVE NoSendOnClosed'
  <2>1. /\ closed' = [closed EXCEPT ![s] = TRUE] /\ closed'[0] = closed[0]
        /\ UNCHANGED <<worker, errsClosed, producer>>
    <3>1. closed \in [0 .. Stages -> BOOLEAN] /\ s # 0
      BY DEF TypeOK
    <3> QED BY <1>3, <3>1 DEF CloseOut, workerVars
  <2>2. ASSUME NEW w \in Pool, w[1] = s PROVE worker[w] = "done"
    <3>1. w[2] \in 1 .. Workers /\ w = <<s, w[2]>>
      BY <2>2 DEF Pool
    <3> QED BY <1>3, <3>1 DEF CloseOut
  <2> QED BY <2>1, <2>2 DEF NoSendOnClosed, TypeOK
<1>4. ASSUME NEW s \in 1 .. Stages, CloseErrs(s) PROVE NoSendOnClosed'
  BY <1>4 DEF CloseErrs, NoSendOnClosed, TypeOK, workerVars
<1>5. CASE \/ \E s \in 1 .. Stages : ReadError(s)
           \/ Collect \/ Cancel \/ Finished \/ UNCHANGED vars
  <2>1. UNCHANGED <<closed, errsClosed, producer, worker>>
    BY <1>5 DEF ReadError, Collect, Cancel, Finished, vars, chanVars, workerVars
  <2> QED BY <2>1 DEF NoSendOnClosed
<1> QED BY <1>1, <1>2, <1>3, <1>4, <1>5 DEF Next, Close

\* Pipeline.NoSendOnClosed (pipeline.go:109, :161-165) for any pipeline: whichever way the
\* producer and the workers end, a channel is closed when none of its senders is left.
THEOREM NobodySendsOnClosed == Spec => []NoSendOnClosed
<1>1. Init => NoSendOnClosed
  BY Constants DEF Init, NoSendOnClosed
<1> QED BY <1>1, TypeInit, TypeStep, ClosedStep, PTL DEF Spec

-----------------------------------------------------------------------------
(* Where a job is. The channels of a kind are a family of queues.          *)

Queued(q, I, j) == \E s \in I : \E i \in 1 .. Len(q[s]) : q[s][i] = j
QueuedOnce(q, I, j) ==
    \A s, t \in I : \A i \in 1 .. Len(q[s]), k \in 1 .. Len(q[t]) :
        q[s][i] = j /\ q[t][k] = j => s = t /\ i = k
Held(h, j) == \E w \in Pool : h[w] = j
HeldOnce(h, j) == \A w, v \in Pool : h[w] = j /\ h[v] = j => w = v

\* The steps on queues and hands, as predicates of the state before and after.
Queues(q, I) == q \in [I -> Seq(Jobs)]
Appended(r, q, s, e) == r = [q EXCEPT ![s] = Append(q[s], e)]
Taken(r, q, s, e) == q[s] # <<>> /\ r = [q EXCEPT ![s] = Tail(q[s])] /\ e = Head(q[s])
Hands(h) == h \in [Pool -> Jobs \cup {None}]
Handed(g, h, w, e) == h[w] = None /\ g = [h EXCEPT ![w] = e]
Dropped(g, h, w, e) == g = [h EXCEPT ![w] = None] /\ e = h[w]

LEMMA QueueAppend ==
    ASSUME NEW I, NEW q, NEW r, NEW s \in I, NEW e \in Jobs, NEW j \in Jobs,
           Queues(q, I), Appended(r, q, s, e)
    PROVE  /\ Queued(r, I, j) <=> j = e \/ Queued(q, I, j)
           /\ QueuedOnce(q, I, j) /\ (j = e => ~ Queued(q, I, j)) => QueuedOnce(r, I, j)
<1>1. /\ \A t \in I : t # s => r[t] = q[t]
      /\ Len(r[s]) = Len(q[s]) + 1 /\ r[s][Len(q[s]) + 1] = e
      /\ \A i \in 1 .. Len(q[s]) : r[s][i] = q[s][i]
      /\ \A t \in I : Len(q[t]) \in Nat
  BY DEF Queues, Appended
<1>2. \A t \in I, i \in Nat :
         i \in 1 .. Len(r[t]) <=> i \in 1 .. Len(q[t]) \/ (t = s /\ i = Len(q[s]) + 1)
  BY <1>1
<1>3. \A t \in I : \A i \in 1 .. Len(q[t]) : r[t][i] = q[t][i]
  BY <1>1
<1>4. Queued(r, I, j) <=> j = e \/ Queued(q, I, j)
  BY <1>1, <1>2, <1>3, SMTT(20) DEF Queued
<1>5. ASSUME QueuedOnce(q, I, j), j = e => ~ Queued(q, I, j) PROVE QueuedOnce(r, I, j)
  <2> SUFFICES ASSUME NEW t \in I, NEW u \in I,
                      NEW i \in 1 .. Len(r[t]), NEW k \in 1 .. Len(r[u]),
                      r[t][i] = j, r[u][k] = j
               PROVE  t = u /\ i = k
    BY DEF QueuedOnce
  <2>1. CASE i \in 1 .. Len(q[t]) /\ k \in 1 .. Len(q[u])
    BY <1>3, <1>5, <2>1 DEF QueuedOnce
  <2>2. CASE i \notin 1 .. Len(q[t])
    <3>1. t = s /\ i = Len(q[s]) + 1 /\ j = e
      BY <1>1, <1>2, <2>2
    <3>2. k \notin 1 .. Len(q[u])
      BY <1>3, <1>5, <3>1 DEF Queued
    <3> QED BY <1>2, <3>1, <3>2
  <2>3. CASE k \notin 1 .. Len(q[u])
    <3>1. u = s /\ k = Len(q[s]) + 1 /\ j = e
      BY <1>1, <1>2, <2>3
    <3>2. i \notin 1 .. Len(q[t])
      BY <1>3, <1>5, <3>1 DEF Queued
    <3> QED BY <1>2, <3>1, <3>2
  <2> QED BY <2>1, <2>2, <2>3
<1> QED BY <1>4, <1>5

LEMMA QueueTail ==
    ASSUME NEW I, NEW q, NEW r, NEW s \in I, NEW e, NEW j \in Jobs,
           Queues(q, I), Taken(r, q, s, e), QueuedOnce(q, I, j)
    PROVE  /\ Queued(r, I, j) <=> j # e /\ Queued(q, I, j)
           /\ QueuedOnce(r, I, j)
           /\ Queued(q, I, e) /\ e \in Jobs
<1>1. /\ \A t \in I : t # s => r[t] = q[t]
      /\ Len(r[s]) = Len(q[s]) - 1 /\ Len(q[s]) \in Nat \ {0} /\ e = q[s][1] /\ e \in Jobs
      /\ \A i \in 1 .. Len(r[s]) : r[s][i] = q[s][i + 1]
      /\ \A t \in I : Len(q[t]) \in Nat
  BY DEF Queues, Taken
<1>2. \A t \in I : \A i \in 1 .. Len(r[t]) :
         \/ t # s /\ i \in 1 .. Len(q[t]) /\ r[t][i] = q[t][i]
         \/ t = s /\ i + 1 \in 1 .. Len(q[s]) /\ r[t][i] = q[s][i + 1]
  BY <1>1
<1>3. ASSUME Queued(r, I, j) PROVE j # e /\ Queued(q, I, j)
  <2>0. PICK t \in I : \E i \in 1 .. Len(r[t]) : r[t][i] = j
    BY <1>3 DEF Queued
  <2>1. PICK i \in 1 .. Len(r[t]) : r[t][i] = j
    BY <2>0
  <2>2. CASE t # s
    <3>1. i \in 1 .. Len(q[t]) /\ q[t][i] = j
      BY <1>2, <2>1, <2>2
    <3> QED BY <1>1, <2>2, <3>1 DEF Queued, QueuedOnce
  <2>3. CASE t = s
    <3>1. i + 1 \in 1 .. Len(q[s]) /\ q[s][i + 1] = j /\ i + 1 # 1 /\ 1 \in 1 .. Len(q[s])
      BY <1>1, <1>2, <2>1, <2>3
    <3> QED BY <1>1, <3>1 DEF Queued, QueuedOnce
  <2> QED BY <2>2, <2>3
<1>4. ASSUME j # e, Queued(q, I, j) PROVE Queued(r, I, j)
  <2>0. PICK t \in I : \E i \in 1 .. Len(q[t]) : q[t][i] = j
    BY <1>4 DEF Queued
  <2>1. PICK i \in 1 .. Len(q[t]) : q[t][i] = j
    BY <2>0
  <2>2. CASE t # s
    BY <1>1, <2>1, <2>2 DEF Queued
  <2>3. CASE t = s
    <3>1. i # 1 /\ i - 1 \in 1 .. Len(r[s])
      BY <1>1, <1>4, <2>1, <2>3
    <3>2. (i - 1) + 1 = i
      OBVIOUS
    <3>3. r[s][i - 1] = q[s][(i - 1) + 1]
      BY <1>1, <3>1
    <3>4. r[s][i - 1] = j
      BY <2>1, <2>3, <3>2, <3>3
    <3> QED BY <3>1, <3>4 DEF Queued
  <2> QED BY <2>2, <2>3
<1>5. QueuedOnce(r, I, j)
  <2> SUFFICES ASSUME NEW t \in I, NEW u \in I,
                      NEW i \in 1 .. Len(r[t]), NEW k \in 1 .. Len(r[u]),
                      r[t][i] = j, r[u][k] = j
               PROVE  t = u /\ i = k
    BY DEF QueuedOnce
  <2> DEFINE a == IF t = s THEN i + 1 ELSE i
             b == IF u = s THEN k + 1 ELSE k
  <2>1. a \in 1 .. Len(q[t]) /\ q[t][a] = j
    BY <1>2
  <2>2. b \in 1 .. Len(q[u]) /\ q[u][b] = j
    BY <1>2
  <2>3. i \in Int /\ k \in Int
    OBVIOUS
  <2> HIDE DEF a, b
  <2>4. t = u /\ a = b
    BY <2>1, <2>2 DEF QueuedOnce
  <2> QED BY <2>3, <2>4 DEF a, b
<1>6. Queued(q, I, e) /\ e \in Jobs
  BY <1>1 DEF Queued
<1> QED BY <1>3, <1>4, <1>5, <1>6

LEMMA HandTakes ==
    ASSUME NEW h, NEW g, NEW w \in Pool, NEW e \in Jobs, NEW j \in Jobs,
           Hands(h), Handed(g, h, w, e)
    PROVE  /\ Held(g, j) <=> j = e \/ Held(h, j)
           /\ HeldOnce(h, j) /\ (j = e => ~ Held(h, j)) => HeldOnce(g, j)
BY Constants DEF Hands, Handed, Held, HeldOnce

LEMMA HandDrops ==
    ASSUME NEW h, NEW g, NEW w \in Pool, NEW e \in Jobs, NEW j \in Jobs,
           Hands(h), Dropped(g, h, w, e), HeldOnce(h, j)
    PROVE  /\ Held(g, j) <=> j # e /\ Held(h, j)
           /\ HeldOnce(g, j)
           /\ Held(h, e)
BY Constants DEF Hands, Dropped, Held, HeldOnce

\* A job is in one place at most, in none before it is sent, and in one from then on
\* until a cancellation.
Placed(j) ==
    LET inChan == Queued(chan, 0 .. Stages, j)
        inErrs == Queued(errs, 1 .. Stages, j)
        inHand == Held(hand, j)
        ended == j \in collected
        failed == j \in reported
    IN  /\ QueuedOnce(chan, 0 .. Stages, j) /\ QueuedOnce(errs, 1 .. Stages, j)
        /\ HeldOnce(hand, j)
        /\ inChan => ~ inErrs /\ ~ inHand /\ ~ ended /\ ~ failed
        /\ inErrs => ~ inHand /\ ~ ended /\ ~ failed
        /\ inHand => ~ ended /\ ~ failed
        /\ ended => ~ failed
        /\ j >= produced => ~ (inChan \/ inErrs \/ inHand \/ ended \/ failed)
        /\ ~ ctxDone /\ j < produced => inChan \/ inErrs \/ inHand \/ ended \/ failed

PlacedInv == \A j \in Jobs : Placed(j)

LEMMA PlacedInit == Init => PlacedInv
<1> SUFFICES ASSUME Init, NEW j \in Jobs
             PROVE  /\ ~ Queued(chan, 0 .. Stages, j) /\ ~ Queued(errs, 1 .. Stages, j)
                    /\ QueuedOnce(chan, 0 .. Stages, j) /\ QueuedOnce(errs, 1 .. Stages, j)
                    /\ ~ Held(hand, j) /\ HeldOnce(hand, j)
                    /\ j \notin collected /\ j \notin reported /\ ~ (j < produced)
  BY DEF PlacedInv, Placed, Jobs
<1>1. /\ \A s \in 0 .. Stages : Len(chan[s]) = 0
      /\ \A s \in 1 .. Stages : Len(errs[s]) = 0
      /\ \A w \in Pool : hand[w] # j
  BY Constants DEF Init
<1> QED BY <1>1 DEF Queued, QueuedOnce, Held, HeldOnce, Init, Jobs

\* A step takes every job from one place to another or leaves it where it is.
LEMMA PlacedStep == TypeOK /\ PlacedInv /\ [Next]_vars => PlacedInv'
<1> SUFFICES ASSUME TypeOK, PlacedInv, [Next]_vars, NEW j \in Jobs PROVE Placed(j)'
  BY DEF PlacedInv
<1> USE Constants
<1> DEFINE C == 0 .. Stages
           E == 1 .. Stages
<1>0. /\ Queues(chan, C) /\ Queues(errs, E) /\ Hands(hand)
      /\ produced \in Nat /\ Jobs \subseteq Nat
      /\ Placed(j)
  BY DEF TypeOK, Jobs, PlacedInv, Queues, Hands
<1> HIDE DEF C, E
<1>same. ASSUME UNCHANGED <<chan, errs, hand, collected, reported, produced, ctxDone>>
         PROVE  Placed(j)'
  BY <1>0, <1>same DEF Placed
\* Produce sends the job that is in no place yet.
<1>1. ASSUME Sent, produced < N, UNCHANGED <<errs, hand, collected, reported, ctxDone>>
      PROVE  Placed(j)'
  <2>1. /\ produced \in Jobs /\ Appended(chan', chan, 0, produced)
        /\ produced' = produced + 1 /\ 0 \in C
    BY <1>0, <1>1 DEF Sent, Put, Jobs, C, Appended
  <2>2. /\ Queued(chan', C, j) <=> j = produced \/ Queued(chan, C, j)
        /\ QueuedOnce(chan, C, j) /\ (j = produced => ~ Queued(chan, C, j))
             => QueuedOnce(chan', C, j)
    BY <1>0, <2>1, QueueAppend
  <2> QED BY <1>0, <1>1, <2>1, <2>2 DEF Placed, C
\* A worker takes the first job of its input.
<1>2. ASSUME NEW w \in Pool, NEW s \in C, NEW e,
             Taken(chan', chan, s, e), Handed(hand', hand, w, e),
             UNCHANGED <<errs, collected, reported, produced, ctxDone>>
      PROVE  Placed(j)'
  <2>0. QueuedOnce(chan, C, j)
    BY <1>0 DEF Placed, C
  <2>1. /\ Queued(chan', C, j) <=> j # e /\ Queued(chan, C, j)
        /\ QueuedOnce(chan', C, j) /\ Queued(chan, C, e) /\ e \in Jobs
    BY <1>0, <1>2, <2>0, QueueTail
  <2>2. /\ Held(hand', j) <=> j = e \/ Held(hand, j)
        /\ HeldOnce(hand, j) /\ (j = e => ~ Held(hand, j)) => HeldOnce(hand', j)
    BY <1>0, <1>2, <2>1, HandTakes
  <2> QED BY <1>0, <1>2, <2>1, <2>2 DEF Placed, C
\* A worker passes its job on.
<1>3. ASSUME NEW w \in Pool, NEW s \in C, NEW e \in Jobs,
             Appended(chan', chan, s, e), Dropped(hand', hand, w, e),
             UNCHANGED <<errs, collected, reported, produced, ctxDone>>
      PROVE  Placed(j)'
  <2>0. HeldOnce(hand, j)
    BY <1>0 DEF Placed
  <2>1. /\ Held(hand', j) <=> j # e /\ Held(hand, j)
        /\ HeldOnce(hand', j) /\ Held(hand, e)
    BY <1>0, <1>3, <2>0, HandDrops
  <2>2. /\ Queued(chan', C, j) <=> j = e \/ Queued(chan, C, j)
        /\ QueuedOnce(chan, C, j) /\ (j = e => ~ Queued(chan, C, j)) => QueuedOnce(chan', C, j)
    BY <1>0, <1>3, <2>1, QueueAppend
  <2> QED BY <1>0, <1>3, <2>1, <2>2 DEF Placed, C
\* A worker reports its job.
<1>4. ASSUME NEW w \in Pool, NEW s \in E, NEW e \in Jobs,
             Appended(errs', errs, s, e), Dropped(hand', hand, w, e),
             UNCHANGED <<chan, collected, reported, produced, ctxDone>>
      PROVE  Placed(j)'
  <2>0. HeldOnce(hand, j)
    BY <1>0 DEF Placed
  <2>1. /\ Held(hand', j) <=> j # e /\ Held(hand, j)
        /\ HeldOnce(hand', j) /\ Held(hand, e)
    BY <1>0, <1>4, <2>0, HandDrops
  <2>2. /\ Queued(errs', E, j) <=> j = e \/ Queued(errs, E, j)
        /\ QueuedOnce(errs, E, j) /\ (j = e => ~ Queued(errs, E, j)) => QueuedOnce(errs', E, j)
    BY <1>0, <1>4, <2>1, QueueAppend
  <2> QED BY <1>0, <1>4, <2>1, <2>2 DEF Placed, E
\* A worker drops its job because of the cancellation.
<1>5. ASSUME NEW w \in Pool, NEW e \in Jobs, Dropped(hand', hand, w, e), ctxDone,
             UNCHANGED <<chan, errs, collected, reported, produced, ctxDone>>
      PROVE  Placed(j)'
  <2>1. HeldOnce(hand, j)
    BY <1>0 DEF Placed
  <2>2. (Held(hand', j) => Held(hand, j)) /\ HeldOnce(hand', j)
    BY <1>0, <1>5, <2>1, HandDrops
  <2> QED BY <1>0, <1>5, <2>2 DEF Placed
<1>6. CASE Produce
  BY <1>0, <1>1, <1>6, <1>same
  DEF Produce, ProduceTry, ProduceUnblock, ProduceReturn, workerVars, endVars, TypeOK
<1>7. ASSUME NEW w \in Pool, Work(w) PROVE Placed(j)'
  <2>0. /\ w[1] \in C /\ w[1] - 1 \in C /\ w[1] \in E
        /\ (worker[w] = "recv" => hand[w] = None)
        /\ (worker[w] \in Holding => hand[w] \in Jobs)
    BY DEF TypeOK, C, E, Holding
  <2>1. CASE WorkerRecv(w)
    <3>1. CASE UNCHANGED <<chan, hand>>
      BY <1>same, <2>1, <3>1 DEF WorkerRecv, endVars
    <3>2. CASE ~ UNCHANGED <<chan, hand>>
      <4> DEFINE s == w[1] - 1
                 e == Head(chan[s])
      <4>1. Taken(chan', chan, s, e) /\ Handed(hand', hand, w, e)
        BY <2>0, <2>1, <3>2 DEF WorkerRecv, Taken, Handed
      <4>2. UNCHANGED <<errs, collected, reported, produced, ctxDone>>
        BY <2>1 DEF WorkerRecv, endVars
      <4> HIDE DEF e
      <4> QED BY <1>2, <2>0, <4>1, <4>2
    <3> QED BY <3>1, <3>2
  <2>2. CASE WorkerStage(w)
    BY <1>same, <2>2 DEF WorkerStage, chanVars, endVars
  <2> DEFINE e == hand[w]
  <2>3. CASE WorkerFail(w)
    <3>1. /\ e \in Jobs /\ Dropped(hand', hand, w, e)
          /\ UNCHANGED <<chan, collected, reported, produced, ctxDone>>
      BY <2>0, <2>3 DEF WorkerFail, Holding, Dropped, endVars
    <3>2. Appended(errs', errs, w[1], e) \/ (ctxDone /\ errs' = errs)
      BY <2>3 DEF WorkerFail, Appended
    <3> HIDE DEF e
    <3> QED BY <1>4, <1>5, <2>0, <3>1, <3>2
  <2>4. CASE WorkerTry(w)
    <3>1. /\ e \in Jobs
          /\ UNCHANGED <<errs, collected, reported, produced, ctxDone>>
      BY <2>0, <2>4 DEF WorkerTry, Holding, endVars
    <3>2. \/ Appended(chan', chan, w[1], e) /\ Dropped(hand', hand, w, e)
          \/ UNCHANGED <<chan, hand>>
      BY <2>4 DEF WorkerTry, Put, Appended, Dropped
    <3> HIDE DEF e
    <3> QED BY <1>3, <1>same, <2>0, <3>1, <3>2
  <2>5. CASE WorkerUnblock(w)
    <3>1. /\ e \in Jobs /\ Dropped(hand', hand, w, e)
          /\ UNCHANGED <<errs, collected, reported, produced, ctxDone>>
      BY <2>0, <2>5 DEF WorkerUnblock, Holding, Dropped, endVars
    <3>2. Appended(chan', chan, w[1], e) \/ (ctxDone /\ chan' = chan)
      BY <2>5 DEF WorkerUnblock, Put, Appended
    <3> HIDE DEF e
    <3> QED BY <1>3, <1>5, <2>0, <3>1, <3>2
  <2> QED BY <1>7, <2>1, <2>2, <2>3, <2>4, <2>5 DEF Work
<1>8. ASSUME NEW s \in 1 .. Stages, Close(s) PROVE Placed(j)'
  BY <1>8, <1>same DEF Close, CloseOut, CloseErrs, workerVars, endVars
<1>9. ASSUME NEW s \in 1 .. Stages, ReadError(s) PROVE Placed(j)'
  <2> DEFINE e == Head(errs[s])
  <2>0. /\ QueuedOnce(errs, E, j) /\ s \in E
        /\ Taken(errs', errs, s, e) /\ reported' = reported \cup {e}
        /\ UNCHANGED <<chan, hand, collected, produced, ctxDone>>
    BY <1>0, <1>9 DEF Placed, E, ReadError, workerVars, Taken
  <2> HIDE DEF e
  <2>1. /\ Queued(errs', E, j) <=> j # e /\ Queued(errs, E, j)
        /\ QueuedOnce(errs', E, j) /\ Queued(errs, E, e) /\ e \in Jobs
    BY <1>0, <2>0, QueueTail
  <2> QED BY <1>0, <2>0, <2>1 DEF Placed, E
<1>10. CASE Collect
  <2>1. CASE chan[Stages] # <<>> /\ chan' = [chan EXCEPT ![Stages] = Tail(@)]
             /\ collected' = collected \cup {Head(chan[Stages])}
    <3> DEFINE e == Head(chan[Stages])
    <3>0. /\ QueuedOnce(chan, C, j) /\ Stages \in C
          /\ Taken(chan', chan, Stages, e) /\ collected' = collected \cup {e}
          /\ UNCHANGED <<errs, hand, reported, produced, ctxDone>>
      BY <1>0, <1>10, <2>1 DEF Placed, C, Collect, workerVars, Taken
    <3> HIDE DEF e
    <3>1. /\ Queued(chan', C, j) <=> j # e /\ Queued(chan, C, j)
          /\ QueuedOnce(chan', C, j) /\ Queued(chan, C, e) /\ e \in Jobs
      BY <1>0, <3>0, QueueTail
    <3> QED BY <1>0, <3>0, <3>1 DEF Placed, C
  <2>2. CASE UNCHANGED <<chan, collected>>
    BY <1>10, <1>same, <2>2 DEF Collect, workerVars
  <2> QED BY <1>10, <2>1, <2>2 DEF Collect
<1>11. CASE Cancel \/ Finished \/ UNCHANGED vars
  BY <1>0, <1>11 DEF Cancel, Finished, vars, chanVars, workerVars, endVars, Placed
<1> QED BY <1>6, <1>7, <1>8, <1>9, <1>10, <1>11 DEF Next

\* The places of a job in the queues of one kind.
Spots(tag, q, I, j) == UNION {{<<tag, s, i>> : i \in Hits(q[s], j)} : s \in I}

LEMMA OneSpot ==
    ASSUME NEW tag, NEW q, NEW I, NEW j, Queues(q, I), QueuedOnce(q, I, j)
    PROVE  /\ Spots(tag, q, I, j) # {} <=> Queued(q, I, j)
           /\ \A x, y \in Spots(tag, q, I, j) : x = y
<1>1. \A s \in I : Hits(q[s], j) = {i \in 1 .. Len(q[s]) : q[s][i] = j}
  BY DEF Queues, Hits
<1>2. \A x : x \in Spots(tag, q, I, j) <=>
         \E s \in I : \E i \in 1 .. Len(q[s]) : q[s][i] = j /\ x = <<tag, s, i>>
  BY <1>1 DEF Spots
<1>3. Spots(tag, q, I, j) # {} <=> Queued(q, I, j)
  BY <1>2 DEF Queued
<1>4. \A x, y \in Spots(tag, q, I, j) : x = y
  BY <1>2 DEF QueuedOnce
<1> QED BY <1>3, <1>4

\* What the counts of JobsConserved say of a job that is in one place at most.
LEMMA PlacedCounts ==
    ASSUME TypeOK, NEW j \in Jobs, Placed(j)
    PROVE  /\ Cardinality(Places(j)) <= 1
           /\ ~ ctxDone /\ j < produced => Cardinality(Places(j)) = 1
<1> DEFINE A == Spots("chan", chan, 0 .. Stages, j)
           B == Spots("errs", errs, 1 .. Stages, j)
           H == {<<"hand", w[1], w[2]>> : w \in {w \in Pool : hand[w] = j}}
           D == {<<"collected">> : k \in {j} \cap collected}
           F == {<<"reported">> : k \in {j} \cap reported}
<1>0. /\ Queues(chan, 0 .. Stages) /\ QueuedOnce(chan, 0 .. Stages, j)
      /\ Queues(errs, 1 .. Stages) /\ QueuedOnce(errs, 1 .. Stages, j)
  BY DEF TypeOK, Queues, Placed
<1>1. /\ A # {} <=> Queued(chan, 0 .. Stages, j)
      /\ \A x, y \in A : x = y
  BY <1>0, OneSpot
<1>2. /\ B # {} <=> Queued(errs, 1 .. Stages, j)
      /\ \A x, y \in B : x = y
  BY <1>0, OneSpot
<1>3. /\ H # {} <=> Held(hand, j)
      /\ \A x, y \in H : x = y
  BY DEF Placed, Held, HeldOnce
<1>4. /\ D # {} <=> j \in collected
      /\ \A x, y \in D : x = y
  OBVIOUS
<1>5. /\ F # {} <=> j \in reported
      /\ \A x, y \in F : x = y
  OBVIOUS
<1>6. Places(j) = A \cup B \cup H \cup D \cup F
  BY DEF Places, Spots
<1> HIDE DEF A, B, H, D, F
<1>7. \A x, y \in Places(j) : x = y
  BY <1>1, <1>2, <1>3, <1>4, <1>5, <1>6 DEF Placed
<1>8. ~ ctxDone /\ j < produced => Places(j) # {}
  BY <1>1, <1>2, <1>3, <1>4, <1>5, <1>6 DEF Placed
<1>9. CASE Places(j) = {}
  BY <1>8, <1>9, FS_EmptySet
<1>10. CASE Places(j) # {}
  <2>1. PICK x : Places(j) = {x}
    BY <1>7, <1>10
  <2>2. Cardinality(Places(j)) = 1
    BY <2>1, FS_Singleton, Zenon
  <2> QED BY <2>2
<1> QED BY <1>9, <1>10

\* Pipeline.JobsConserved (pipeline_test.go:18, :155) for any pipeline: no interleaving of
\* producer, workers, collector and cancellation duplicates a job, and none loses one
\* before the cancellation.
THEOREM NoJobLostOrDoubled == Spec => []JobsConserved
<1>1. TypeOK /\ PlacedInv => JobsConserved
  BY PlacedCounts DEF PlacedInv, JobsConserved
<1> QED BY <1>1, TypeInit, TypeStep, PlacedInit, PlacedStep, PTL DEF Spec
=============================================================================
