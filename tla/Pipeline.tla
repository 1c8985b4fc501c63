------------------------------ MODULE Pipeline ------------------------------
(***************************************************************************)
(* The worker-pool pipeline of code/worker_pool_pipeline/pipeline.go: one  *)
(* Produce, a chain of Run stages and one Collect over bounded channels,   *)
(* under one context. Channel 0 is Produce's, channel s the output of      *)
(* stage s. Every goroutine advances on its own; a channel operation is    *)
(* one step.                                                               *)
(***************************************************************************)
EXTENDS Integers, Sequences, FiniteSets, SequencesExt

CONSTANTS
    N,            \* jobs to produce
    Stages,       \* number of Run stages
    Workers,      \* goroutines per stage
    BufferSize    \* capacity of every channel (0, a rendezvous, is not modelled)

ASSUME PipelineAssumption ==
    /\ N \in Nat /\ Stages \in Nat \ {0}
    /\ Workers \in Nat \ {0} /\ BufferSize \in Nat \ {0}

VARIABLES
    chan, closed,         \* per channel: contents, and whether it was closed
    errs, errsClosed,     \* per stage: its error channel
    producer, produced,   \* Produce's goroutine and its loop variable
    worker, hand,         \* per goroutine of Run: where it is, and its job
    collector, collected, \* Collect, and the jobs whose results it has
    drainErrs, reported,  \* whether the caller reads the error channels, and what it read
    ctxDone

chanVars == <<chan, closed, errs, errsClosed>>
workerVars == <<worker, hand>>
endVars == <<collector, collected, drainErrs, reported, ctxDone>>
vars == <<chanVars, producer, produced, workerVars, endVars>>

Jobs == 0 .. (N - 1)
None == -1
Pool == (1 .. Stages) \X (1 .. Workers)

Init ==
    /\ chan = [s \in 0 .. Stages |-> <<>>]
    /\ closed = [s \in 0 .. Stages |-> FALSE]
    /\ errs = [s \in 1 .. Stages |-> <<>>]
    /\ errsClosed = [s \in 1 .. Stages |-> FALSE]
    /\ producer = "send" /\ produced = 0
    /\ worker = [w \in Pool |-> "recv"]
    /\ hand = [w \in Pool |-> None]
    /\ collector = "recv" /\ collected = {}
    /\ drainErrs \in BOOLEAN /\ reported = {}
    /\ ctxDone = FALSE

Room(c) == Len(c) < BufferSize
Put(s, j) == chan' = [chan EXCEPT ![s] = Append(@, j)]

-----------------------------------------------------------------------------
(* Produce.                                                                *)

\* The job goes into the channel, and the loop counts it and goes on.
Sent == Put(0, produced) /\ produced' = produced + 1

\* send: the first select takes the channel if it has room, whatever the context.
ProduceTry ==
    /\ producer = "send" /\ produced < N
    /\ IF Room(chan[0])
       THEN Sent /\ UNCHANGED producer
       ELSE producer' = "blocked" /\ UNCHANGED <<chan, produced>>
    /\ UNCHANGED <<closed, errs, errsClosed, workerVars, endVars>>

\* Mutant: a blocked send that was woken up sends the job once more.
ProduceUnblockRetries ==
    /\ producer = "blocked"
    /\ \/ Room(chan[0]) /\ Put(0, produced) /\ producer' = "send" /\ UNCHANGED produced
       \/ ctxDone /\ producer' = "return" /\ UNCHANGED <<chan, produced>>
    /\ UNCHANGED <<closed, errs, errsClosed, workerVars, endVars>>

\* send: the second select waits for room or for the context.
ProduceUnblock ==
    /\ producer = "blocked"
    /\ \/ Room(chan[0]) /\ Sent /\ producer' = "send"
       \/ ctxDone /\ producer' = "return" /\ UNCHANGED <<chan, produced>>
    /\ UNCHANGED <<closed, errs, errsClosed, workerVars, endVars>>

\* The deferred close.
ProduceReturn ==
    /\ producer = "return" \/ (producer = "send" /\ produced = N)
    /\ closed' = [closed EXCEPT ![0] = TRUE]
    /\ producer' = "done"
    /\ UNCHANGED <<chan, errs, errsClosed, produced, workerVars, endVars>>

-----------------------------------------------------------------------------
(* Run: worker w of stage w[1].                                            *)

Goto(w, label) == worker' = [worker EXCEPT ![w] = label]

\* Mutant: a worker goes on with the loop when its input is closed.
WorkerRecvSpins(w) ==
    LET in == chan[w[1] - 1] IN
    /\ worker[w] = "recv"
    /\ \/ ctxDone /\ Goto(w, "done") /\ UNCHANGED <<chan, hand>>
       \/ in = <<>> /\ closed[w[1] - 1] /\ UNCHANGED <<worker, chan, hand>>
       \/ /\ in # <<>>
          /\ chan' = [chan EXCEPT ![w[1] - 1] = Tail(@)]
          /\ hand' = [hand EXCEPT ![w] = Head(in)]
          /\ Goto(w, "stage")
    /\ UNCHANGED <<closed, errs, errsClosed, producer, produced, endVars>>

\* The select on the context and the input channel.
WorkerRecv(w) ==
    LET in == chan[w[1] - 1] IN
    /\ worker[w] = "recv"
    /\ \/ /\ ctxDone \/ (in = <<>> /\ closed[w[1] - 1])
          /\ Goto(w, "done")
          /\ UNCHANGED <<chan, hand>>
       \/ /\ in # <<>>
          /\ chan' = [chan EXCEPT ![w[1] - 1] = Tail(@)]
          /\ hand' = [hand EXCEPT ![w] = Head(in)]
          /\ Goto(w, "stage")
    /\ UNCHANGED <<closed, errs, errsClosed, producer, produced, endVars>>

\* stage returns a result or an error.
WorkerStage(w) ==
    /\ worker[w] = "stage"
    /\ Goto(w, "send") \/ Goto(w, "fail")
    /\ UNCHANGED <<chanVars, producer, produced, hand, endVars>>

\* The select on the error channel and the context.
WorkerFail(w) ==
    /\ worker[w] = "fail"
    /\ \/ /\ Room(errs[w[1]])
          /\ errs' = [errs EXCEPT ![w[1]] = Append(@, hand[w])]
          /\ Goto(w, "recv")
       \/ ctxDone /\ Goto(w, "done") /\ UNCHANGED errs
    /\ hand' = [hand EXCEPT ![w] = None]
    /\ UNCHANGED <<chan, closed, errsClosed, producer, produced, endVars>>

WorkerTry(w) ==
    /\ worker[w] = "send"
    /\ IF Room(chan[w[1]])
       THEN /\ Put(w[1], hand[w])
            /\ Goto(w, "recv")
            /\ hand' = [hand EXCEPT ![w] = None]
       ELSE Goto(w, "blocked") /\ UNCHANGED <<chan, hand>>
    /\ UNCHANGED <<closed, errs, errsClosed, producer, produced, endVars>>

WorkerUnblock(w) ==
    /\ worker[w] = "blocked"
    /\ \/ Room(chan[w[1]]) /\ Put(w[1], hand[w]) /\ Goto(w, "recv")
       \/ ctxDone /\ Goto(w, "done") /\ UNCHANGED chan
    /\ hand' = [hand EXCEPT ![w] = None]
    /\ UNCHANGED <<closed, errs, errsClosed, producer, produced, endVars>>

\* Mutant: the channels are closed by the first worker to end.
CloseOutEarly(s) ==
    /\ ~ closed[s]
    /\ \E i \in 1 .. Workers : worker[<<s, i>>] = "done"
    /\ closed' = [closed EXCEPT ![s] = TRUE]
    /\ UNCHANGED <<chan, errs, errsClosed, producer, produced, workerVars, endVars>>

\* The goroutine that waits for the workers: close(out), then close(errs).
CloseOut(s) ==
    /\ ~ closed[s]
    /\ \A i \in 1 .. Workers : worker[<<s, i>>] = "done"
    /\ closed' = [closed EXCEPT ![s] = TRUE]
    /\ UNCHANGED <<chan, errs, errsClosed, producer, produced, workerVars, endVars>>

CloseErrs(s) ==
    /\ closed[s] /\ ~ errsClosed[s]
    /\ errsClosed' = [errsClosed EXCEPT ![s] = TRUE]
    /\ UNCHANGED <<chan, closed, errs, producer, produced, workerVars, endVars>>

-----------------------------------------------------------------------------
(* Collect and the caller.                                                 *)

Collect ==
    LET in == chan[Stages] IN
    /\ collector = "recv"
    /\ \/ /\ ctxDone \/ (in = <<>> /\ closed[Stages])
          /\ collector' = "done"
          /\ UNCHANGED <<chan, collected>>
       \/ /\ in # <<>>
          /\ chan' = [chan EXCEPT ![Stages] = Tail(@)]
          /\ collected' = collected \cup {Head(in)}
          /\ UNCHANGED collector
    /\ UNCHANGED <<closed, errs, errsClosed, producer, produced, workerVars, drainErrs,
                   reported, ctxDone>>

\* A caller that ranges over the error channel of stage s.
ReadError(s) ==
    /\ drainErrs /\ errs[s] # <<>>
    /\ reported' = reported \cup {Head(errs[s])}
    /\ errs' = [errs EXCEPT ![s] = Tail(@)]
    /\ UNCHANGED <<chan, closed, errsClosed, producer, produced, workerVars, collector,
                   collected, drainErrs, ctxDone>>

Cancel ==
    /\ ~ ctxDone
    /\ ctxDone' = TRUE
    /\ UNCHANGED <<chanVars, producer, produced, workerVars, collector, collected, drainErrs,
                   reported>>

GoroutinesDone ==
    /\ producer = "done" /\ collector = "done"
    /\ \A w \in Pool : worker[w] = "done"
    /\ \A s \in 1 .. Stages : closed[s] /\ errsClosed[s]

Finished == GoroutinesDone /\ UNCHANGED vars

Produce == ProduceTry \/ ProduceUnblock \/ ProduceReturn
Work(w) == WorkerRecv(w) \/ WorkerStage(w) \/ WorkerFail(w) \/ WorkerTry(w) \/ WorkerUnblock(w)
Close(s) == CloseOut(s) \/ CloseErrs(s)

Next ==
    \/ Produce
    \/ \E w \in Pool : Work(w)
    \/ \E s \in 1 .. Stages : Close(s) \/ ReadError(s)
    \/ Collect
    \/ Cancel
    \/ Finished

Spec == Init /\ [][Next]_vars

\* Every goroutine that can proceed does, and stage functions return.
FairSpec ==
    /\ Spec
    /\ WF_vars(Produce)
    /\ \A w \in Pool : WF_vars(Work(w))
    /\ \A s \in 1 .. Stages : WF_vars(Close(s)) /\ WF_vars(ReadError(s))
    /\ WF_vars(Collect)

-----------------------------------------------------------------------------

\* A send on a closed channel panics: once a channel is closed nobody is left who
\* could send on it, whichever way its senders ended (pipeline.go:109, :161-165).
NoSendOnClosed ==
    /\ closed[0] => producer = "done"
    /\ \A w \in Pool : closed[w[1]] => worker[w] = "done"
    /\ \A s \in 1 .. Stages : errsClosed[s] => closed[s]

\* Everywhere a job can be.
Hits(q, j) == {i \in DOMAIN q : q[i] = j}
Places(j) ==
    (UNION {{<<"chan", s, i>> : i \in Hits(chan[s], j)} : s \in 0 .. Stages})
    \cup (UNION {{<<"errs", s, i>> : i \in Hits(errs[s], j)} : s \in 1 .. Stages})
    \cup {<<"hand", w[1], w[2]>> : w \in {w \in Pool : hand[w] = j}}
    \cup {<<"collected">> : k \in {j} \cap collected}
    \cup {<<"reported">> : k \in {j} \cap reported}

\* pipeline_test.go:18 and :155: a job is never in two places, so no job is
\* processed twice or both collected and reported; and until the context is
\* cancelled a job that was sent is always somewhere.
JobsConserved ==
    \A j \in Jobs :
        /\ Cardinality(Places(j)) <= 1
        /\ ~ ctxDone /\ j < produced => Cardinality(Places(j)) = 1

\* pipeline_test.go:196 "A failing job must not stop the pipeline" and pipeline.go:17-18
\* "unwinds the whole pipeline instead of leaking goroutines": every goroutine ends,
\* wherever it was blocked, if the error channels are read or the context is cancelled.
Unwinds == drainErrs \/ <>ctxDone => <>GoroutinesDone
=============================================================================
