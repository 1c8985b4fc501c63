----------------------------- MODULE Snowflake ------------------------------
(***************************************************************************)
(* The id generators of code/snowflake_id/snowflake.go. Every machine runs *)
(* one generator and has a clock of its own, in milliseconds, that NTP may *)
(* step back at any moment. Next holds the mutex from its first reading of *)
(* the clock to its return, so a generator serves one caller at a time; pc *)
(* says whether that caller waits for a small drift to pass or spins for   *)
(* the next millisecond.                                                   *)
(***************************************************************************)
EXTENDS Integers, Sequences

CONSTANTS
    Machines,          \* machine ids in use: 0 .. Machines - 1
    maxSequence,       \* 4095 in the code
    maxBackwardWait,   \* tolerated drift, in milliseconds
    Epoch,
    TimestampLimit,    \* 1 << timestampBits
    MaxMilli,          \* bound: the clocks stop here
    MaxSteps,          \* bound: backward steps of all clocks together
    MaxRestarts,       \* bound: restarts of all processes together
    MaxIds             \* bound: ids issued

SnowflakeAssumption ==
    /\ Machines \in Nat \ {0}
    /\ maxSequence \in Nat /\ maxBackwardWait \in Nat
    /\ Epoch \in Nat /\ TimestampLimit \in Nat \ {0}
    /\ MaxMilli \in Nat /\ MaxSteps \in Nat /\ MaxRestarts \in Nat /\ MaxIds \in Nat

MachineIds == 0 .. (Machines - 1)

VARIABLES
    clock,       \* what g.now() returns on each machine
    sequence,    \* Generator.sequence
    lastMilli,   \* Generator.lastMilli
    pc,          \* where Next is: "idle", "waiting" or "spinning"
    issued,      \* the ids returned, oldest first, with machine and clock reading
    steps, restarts,
    floor,       \* history: the last time an earlier generator of the machine used
    rewound      \* history: a clock showed such a time again

gen == <<sequence, lastMilli, pc>>
history == <<floor, rewound>>
vars == <<clock, gen, issued, steps, restarts, history>>

Init ==
    /\ clock = [m \in MachineIds |-> 0]
    /\ sequence = [m \in MachineIds |-> 0]
    /\ lastMilli = [m \in MachineIds |-> -1]
    /\ pc = [m \in MachineIds |-> "idle"]
    /\ issued = <<>>
    /\ steps = 0 /\ restarts = 0
    /\ floor = [m \in MachineIds |-> -1] /\ rewound = FALSE

\* The shifts: the fields side by side, timestamp highest.
Pack(elapsed, m, s) == (elapsed * Machines + m) * (maxSequence + 1) + s

Parse(id) ==
    [sequence  |-> id % (maxSequence + 1),
     machineID |-> (id \div (maxSequence + 1)) % Machines,
     ts        |-> (id \div ((maxSequence + 1) * Machines)) + Epoch]

\* The end of Next with clock reading now and sequence s: lastMilli is stored before
\* the range of the timestamp is checked, so the error returns keep it too.
Emit(m, now, s) ==
    LET elapsed == now - Epoch IN
    /\ sequence' = [sequence EXCEPT ![m] = s]
    /\ lastMilli' = [lastMilli EXCEPT ![m] = now]
    /\ pc' = [pc EXCEPT ![m] = "idle"]
    /\ issued' = IF elapsed < 0 \/ elapsed >= TimestampLimit THEN issued
                 ELSE Append(issued, [machine |-> m, at |-> clock[m], id |-> Pack(elapsed, m, s)])
    /\ UNCHANGED <<clock, steps, restarts, history>>

\* A caller is in Next: it has just taken the mutex, or it has waited out a drift.
\* The bounds let a call begin only while the clock can still pass lastMilli.
Running(m) ==
    \/ pc[m] = "waiting"
    \/ /\ pc[m] = "idle"
       /\ Len(issued) < MaxIds
       /\ clock[m] < MaxMilli /\ lastMilli[m] < MaxMilli

\* ErrClockBackwards: nothing changes.
Refuse(m) ==
    /\ pc[m] = "idle" /\ Running(m)
    /\ lastMilli[m] - clock[m] > maxBackwardWait
    /\ UNCHANGED vars

Wait(m) ==
    /\ pc[m] = "idle" /\ Running(m)
    /\ clock[m] < lastMilli[m]
    /\ lastMilli[m] - clock[m] <= maxBackwardWait
    /\ pc' = [pc EXCEPT ![m] = "waiting"]
    /\ UNCHANGED <<clock, sequence, lastMilli, issued, steps, restarts, history>>

\* Mutant: a clock behind lastMilli starts a millisecond like one ahead of it.
NewMilliAnyClock(m) ==
    /\ Running(m)
    /\ clock[m] # lastMilli[m]
    /\ Emit(m, clock[m], 0)

NewMilli(m) ==
    /\ Running(m)
    /\ clock[m] > lastMilli[m]
    /\ Emit(m, clock[m], 0)

SameMilli(m) ==
    /\ Running(m)
    /\ clock[m] = lastMilli[m]
    /\ sequence[m] < maxSequence
    /\ Emit(m, clock[m], sequence[m] + 1)

\* The masked increment gave 0: spin, mutex held.
Exhaust(m) ==
    /\ Running(m)
    /\ clock[m] = lastMilli[m]
    /\ sequence[m] = maxSequence
    /\ sequence' = [sequence EXCEPT ![m] = 0]
    /\ pc' = [pc EXCEPT ![m] = "spinning"]
    /\ UNCHANGED <<clock, lastMilli, issued, steps, restarts, history>>

Spin(m) ==
    /\ pc[m] = "spinning"
    /\ clock[m] > lastMilli[m]
    /\ Emit(m, clock[m], 0)

\* The environment: clocks move, processes restart. A restarted process calls
\* NewGenerator with the machine id of its slot, which StatefulSet ordinals keep; by
\* then at least a millisecond has passed.
SetClock(m, t) ==
    /\ clock' = [clock EXCEPT ![m] = t]
    /\ rewound' = (rewound \/ t <= floor'[m])

Tick(m) ==
    /\ UNCHANGED <<gen, issued, steps, restarts, floor>>
    /\ SetClock(m, IF clock[m] < MaxMilli THEN clock[m] + 1 ELSE clock[m])

StepBack(m) ==
    /\ steps < MaxSteps
    /\ steps' = steps + 1
    /\ UNCHANGED <<gen, issued, restarts, floor>>
    /\ \E t \in 0 .. (clock[m] - 1) : SetClock(m, t)

NewGenerator(m) ==
    /\ restarts < MaxRestarts
    /\ restarts' = restarts + 1
    /\ clock[m] < MaxMilli
    /\ floor' = [floor EXCEPT ![m] = IF lastMilli[m] > @ THEN lastMilli[m] ELSE @]
    /\ SetClock(m, clock[m] + 1)
    /\ sequence' = [sequence EXCEPT ![m] = 0]
    /\ lastMilli' = [lastMilli EXCEPT ![m] = -1]
    /\ pc' = [pc EXCEPT ![m] = "idle"]
    /\ UNCHANGED <<issued, steps>>

\* One call of Next, from any of the places where it stands.
Call(m) ==
    \/ Refuse(m) \/ Wait(m)
    \/ NewMilli(m) \/ SameMilli(m) \/ Exhaust(m) \/ Spin(m)

Next == \E m \in MachineIds : Call(m) \/ Tick(m) \/ StepBack(m) \/ NewGenerator(m)

Spec == Init /\ [][Next]_vars

-----------------------------------------------------------------------------

\* snowflake.go:14-22: whatever the clocks do, no two calls return the same id, on
\* one machine or on two, nor before and after a restart unless the clock went back
\* to a time the process before had used (lastMilli does not survive a restart). And
\* :21-22 "never borrow from the timestamp", :121-122: Parse finds in an id the machine
\* that made it and the time its clock showed when it was returned.
IdsAreSound ==
    /\ ~ rewound => \A i, j \in 1 .. Len(issued) : issued[i].id = issued[j].id => i = j
    /\ \A i \in 1 .. Len(issued) :
          /\ Parse(issued[i].id).machineID = issued[i].machine
          /\ Parse(issued[i].id).ts = issued[i].at
=============================================================================
