--------------------------------- MODULE WAL ---------------------------------
(***************************************************************************)
(* The write-ahead log of code/wal/wal.go and its recovery after crashes.  *)
(*                                                                         *)
(* log is what has been appended since the last Truncate, in order: the    *)
(* contents of the file followed by those of the bufio.Writer. How much of *)
(* its unsynced end has reached the file or the device is not decided      *)
(* before a crash or a failed write looks at it (bufio flushes by itself   *)
(* when it is full, the page cache when it likes). A crash keeps any       *)
(* number of whole records from that end and may leave a fragment of the   *)
(* next. Every method holds the lock, so each is one step.                 *)
(***************************************************************************)
EXTENDS Integers, Sequences

CONSTANTS
    Keys, Values,
    Oversized,    \* the keys and values longer than readAll takes (1<<24 bytes)
    MaxAppends    \* bound: records appended in all sessions

WALAssumption == Oversized \subseteq Keys \cup Values /\ MaxAppends \in Nat

VARIABLES
    log,          \* the items, oldest first
    flushed,      \* how many of them are known to be in the file
    synced,       \* how many of them are on the device
    stale,        \* the log before an unsynced Truncate, which a crash brings back
    open,         \* whether a process has the log open
    broken,       \* the bufio.Writer keeps its first error for good
    syncOnWrite,
    seq,          \* WAL.seq
    appends,      \* history: records appended so far, the id of the next one
    acked,        \* history: ids promised to be durable and not truncated since
    sound         \* history: those promised with nothing unreadable up to them

fileVars == <<log, flushed, synced, stale>>
sessionVars == <<open, broken, syncOnWrite, seq>>
ackVars == <<acked, sound>>
vars == <<fileVars, sessionVars, appends, ackVars>>

NoValue == [none |-> TRUE]
Ops == [op : {"put"}, key : Keys, value : Values] \cup [op : {"delete"}, key : Keys, value : {NoValue}]
Torn == [op |-> "torn"]   \* a fragment: its checksum or its length does not match

Whole(s) == {s[i] : i \in {i \in DOMAIN s : s[i].op # "torn"}}
Ids(s) == {r.id : r \in Whole(s)}

\* A fragment ends the log for readAll, and so does a length above its limit, which
\* append does not know.
Readable(i) == i.op # "torn" /\ i.key \notin Oversized /\ i.value \notin Oversized

\* readAll, and Replay: the records before the first one that does not check out.
readAll(s) ==
    LET ends == {i \in DOMAIN s : ~ Readable(s[i])}
    IN  IF ends = {} THEN s ELSE SubSeq(s, 1, (CHOOSE i \in ends : \A j \in ends : i <= j) - 1)

Init ==
    /\ log = <<>> /\ flushed = 0 /\ synced = 0 /\ stale = <<>>
    /\ open = FALSE /\ broken = FALSE /\ syncOnWrite = FALSE
    /\ seq = 0
    /\ appends = 0
    /\ acked = {} /\ sound = {}

-----------------------------------------------------------------------------

\* Mutant: the sequence starts again at every Open.
OpenRestarts ==
    /\ ~ open
    /\ open' = TRUE /\ broken' = FALSE
    /\ syncOnWrite' \in BOOLEAN
    /\ seq' = 0
    /\ UNCHANGED <<fileVars, appends, ackVars>>

Open ==
    /\ ~ open
    /\ open' = TRUE /\ broken' = FALSE
    /\ syncOnWrite' \in BOOLEAN
    /\ seq' = LET records == readAll(log)
              IN  IF records = <<>> THEN 0 ELSE records[Len(records)].seq
    /\ UNCHANGED <<fileVars, appends, ackVars>>

\* The promise a nil error of flushAndSyncLocked makes for everything in s.
Acknowledge(s) ==
    /\ acked' = acked \cup Ids(s)
    /\ sound' = sound \cup {s[i].id : i \in {i \in DOMAIN s : \A j \in 1 .. i : Readable(s[j])}}

\* Mutant: the buffer is flushed but the file is not synced.
FlushOnly(s) ==
    /\ log' = s
    /\ flushed' = Len(s)
    /\ Acknowledge(s)
    /\ UNCHANGED <<synced, stale>>

\* flushAndSyncLocked succeeds on log s.
flushAndSync(s) ==
    /\ log' = s
    /\ flushed' = Len(s)
    /\ synced' = Len(s)
    /\ stale' = <<>>
    /\ Acknowledge(s)

\* Flush, or the bufio.Writer's own flush, fails: part of the unsynced end stays
\* unwritten and the writer fails from now on.
FlushFails(s) ==
    /\ broken' = TRUE
    /\ \E n \in flushed .. (Len(s) - 1), t \in {<<>>, <<Torn>>} :
         log' = SubSeq(s, 1, n) \o t
    /\ flushed' = Len(log')
    /\ UNCHANGED <<synced, stale, ackVars>>

\* Flush succeeds and the Sync after it fails: the records are in the file.
SyncFails(s) ==
    /\ log' = s
    /\ flushed' = Len(s)
    /\ UNCHANGED <<synced, stale, broken, ackVars>>

Record(o) == [id |-> appends, seq |-> seq + 1, op |-> o.op, key |-> o.key, value |-> o.value]

\* Put and Delete: append.
append(o) ==
    LET s == Append(log, Record(o)) IN
    /\ open /\ appends < MaxAppends
    /\ seq' = seq + 1
    /\ appends' = appends + 1
    /\ \/ broken /\ UNCHANGED <<fileVars, broken, ackVars>>
       \/ /\ ~ broken
          /\ \/ ~ syncOnWrite /\ log' = s /\ UNCHANGED <<flushed, synced, stale, broken, ackVars>>
             \/ syncOnWrite /\ flushAndSync(s) /\ UNCHANGED broken
             \/ FlushFails(s)
             \/ syncOnWrite /\ SyncFails(s)
    /\ UNCHANGED <<open, syncOnWrite>>

Sync ==
    /\ open /\ ~ broken
    /\ \/ flushAndSync(log) /\ UNCHANGED broken
       \/ FlushFails(log)
       \/ SyncFails(log)
    /\ UNCHANGED <<open, syncOnWrite, seq, appends>>

\* Close releases the file whether or not its flush and sync succeed.
Close ==
    /\ open
    /\ \/ ~ broken /\ flushAndSync(log) /\ UNCHANGED broken
       \/ ~ broken /\ (FlushFails(log) \/ SyncFails(log))
       \/ broken /\ UNCHANGED <<fileVars, broken, ackVars>>
    /\ open' = FALSE
    /\ UNCHANGED <<syncOnWrite, seq, appends>>

\* The checkpoint: everything in the log has been applied elsewhere. The file is
\* not synced, so until the next sync a crash can bring back what was on the device.
Truncate ==
    /\ open /\ ~ broken
    /\ log' = <<>> /\ flushed' = 0 /\ synced' = 0
    /\ stale' = IF synced > 0 THEN SubSeq(log, 1, synced) ELSE stale
    /\ acked' = {} /\ sound' = {}
    /\ UNCHANGED <<sessionVars, appends>>

\* Truncate returns an error: its flush failed, or the file was not truncated.
TruncateFails ==
    /\ open /\ ~ broken
    /\ FlushFails(log) \/ SyncFails(log)
    /\ UNCHANGED <<open, syncOnWrite, seq, appends>>

\* The machine stops, with or without the log open.
Crash ==
    /\ \/ \E n \in synced .. Len(log) :
            \/ log' = SubSeq(log, 1, n)
            \/ n < Len(log) /\ log' = SubSeq(log, 1, n) \o <<Torn>>
       \/ stale # <<>> /\ log' = stale
    /\ flushed' = Len(log') /\ synced' = Len(log')
    /\ stale' = <<>>
    /\ open' = FALSE /\ broken' = FALSE
    /\ UNCHANGED <<syncOnWrite, seq, appends, ackVars>>

Next ==
    \/ Open
    \/ \E o \in Ops : append(o)
    \/ Sync
    \/ Close
    \/ Truncate
    \/ TruncateFails
    \/ Crash

Spec == Init /\ [][Next]_vars

-----------------------------------------------------------------------------
(* Recover: the key-value state the log implies.                           *)

Apply(r, state) == [state EXCEPT ![r.key] = IF r.op = "put" THEN r.value ELSE NoValue]

Recover(s) ==
    LET records == readAll(s)
        state[n \in 0 .. Len(records)] ==
            IF n = 0 THEN [k \in Keys |-> NoValue] ELSE Apply(records[n], state[n - 1])
    IN  state[Len(records)]

-----------------------------------------------------------------------------

Recovered == Ids(readAll(log))

\* wal.go:3-6 and :57-58, "an OS crash can lose recent records" only with
\* syncOnWrite off: a record that a synced write, Sync or Close acknowledged is
\* recovered after any number of crashes, failed writes and reopens, until a
\* Truncate, provided that neither it nor anything before it in the file was a fragment
\* or longer than readAll takes when it was acknowledged.
DurableOnSoundLog == sound \subseteq Recovered

\* wal.go:3-6 "replay the log to reconstruct any state that was acknowledged":
\* the same without the proviso.
AckedIsRecovered == acked \subseteq Recovered

\* wal_test.go:72 "otherwise replay order after a second crash is ambiguous", and
\* wal.go:219: whatever was lost, torn, truncated or brought back in between, the
\* recovered records have increasing sequence numbers and every key recovers to its
\* record with the highest one, a deletion included.
ReplayIsOrdered ==
    LET s == readAll(log) IN
    /\ \A i, j \in DOMAIN s : i < j => s[i].seq < s[j].seq
    /\ \A k \in Keys :
          LET hits == {r \in Whole(s) : r.key = k}
          IN  /\ hits = {} => Recover(log)[k] = NoValue
              /\ \A r \in hits : (\A q \in hits : q.seq <= r.seq) =>
                    Recover(log)[k] = IF r.op = "put" THEN r.value ELSE NoValue
=============================================================================
