-------------------------------- MODULE Wire --------------------------------
(***************************************************************************)
(* The wire format of code/grpc_example/wire.go: an order is encoded by a  *)
(* newer binary, which also writes a field that this one does not know,    *)
(* and relayed by binaries that decode and encode it again; what arrives   *)
(* may be cut short.                                                       *)
(*                                                                         *)
(* A byte is a number below 2 * Base, Base (2^7 in the code) being the     *)
(* continuation bit of a varint, and integers have WordBits bits (64 in    *)
(* the code). A string is a sequence of bytes.                             *)
(***************************************************************************)
EXTENDS Integers, Sequences, FiniteSetsExt, SequencesExt

CONSTANTS
    Base, WordBits, MaxBytes,     \* 2^7, 64 and 10 in the code
    Orders,                       \* the orders sent
    Extras,                       \* the encodings of the fields added by the newer binary
    MaxHops                       \* bound: relays

Word == 2 ^ WordBits
WireAssumption ==
    /\ Base \in Nat \ {0, 1} /\ WordBits \in Nat /\ MaxBytes \in Nat
    /\ Base ^ MaxBytes >= Word /\ MaxHops \in Nat

VARIABLES order, extra, wire, hops, cut

vars == <<order, extra, wire, hops, cut>>

Err == [n |-> -1]                 \* the error result of the functions below
Drop(b, n) == SubSeq(b, n + 1, Len(b))

-----------------------------------------------------------------------------
(* Varints and tags.                                                       *)

\* Conversions between int64 and uint64.
uint64(v) == v % Word
int64(u) == IF u >= Word \div 2 THEN u - Word ELSE u

VarintSize(u) == Min({n \in 1 .. MaxBytes : u < Base ^ n})

AppendVarint(b, u) ==
    LET n == VarintSize(u) IN
    b \o [i \in 1 .. n |-> ((u \div Base ^ (i - 1)) % Base) + (IF i < n THEN Base ELSE 0)]

\* Up to the first byte without continuation bit; what does not fit the word is lost.
ConsumeVarint(b) ==
    LET ends == {i \in DOMAIN b : b[i] < Base} IN
    IF ends = {} \/ (ends # {} /\ Min(ends) > MaxBytes) THEN Err
    ELSE [n |-> Min(ends),
          v |-> MapThenSumSet(LAMBDA i : (b[i] % Base) * Base ^ (i - 1), 1 .. Min(ends)) % Word]

WireVarint == 0
WireFixed64 == 1
WireBytes == 2
WireFixed32 == 5

AppendTag(b, field, wt) == AppendVarint(b, field * 8 + wt)
ConsumeTag(b) ==
    LET c == ConsumeVarint(b) IN
    IF c = Err THEN Err ELSE [n |-> c.n, field |-> c.v \div 8, wt |-> c.v % 8]

-----------------------------------------------------------------------------
(* Values. Zero and empty values are not written.                          *)

AppendInt64(b, field, v) ==
    IF v = 0 THEN b ELSE AppendVarint(AppendTag(b, field, WireVarint), uint64(v))

AppendString(b, field, s) ==
    IF s = <<>> THEN b ELSE AppendVarint(AppendTag(b, field, WireBytes), Len(s)) \o s

ConsumeBytes(b) ==
    LET c == ConsumeVarint(b) IN
    IF c = Err \/ (c # Err /\ Len(b) - c.n < c.v) THEN Err
    ELSE [n |-> c.n + c.v, v |-> SubSeq(b, c.n + 1, c.n + c.v)]

\* The length of a value of a field that is not known, -1 for an error.
SkipValue(b, wt) ==
    CASE wt = WireVarint -> ConsumeVarint(b).n
      [] wt = WireFixed64 -> IF Len(b) < 8 THEN -1 ELSE 8
      [] wt = WireBytes -> ConsumeBytes(b).n
      [] wt = WireFixed32 -> IF Len(b) < 4 THEN -1 ELSE 4
      [] OTHER -> -1

appendFixed64(b, field, v) == AppendTag(b, field, WireFixed64) \o [i \in 1 .. 8 |-> v]
appendFixed32(b, field, v) == AppendTag(b, field, WireFixed32) \o [i \in 1 .. 4 |-> v]

-----------------------------------------------------------------------------
(* The message.                                                            *)

EmptyOrder == [id |-> 0, customer |-> <<>>, amount |-> 0, status |-> 0,
               tags |-> <<>>, unknownFields |-> <<>>]

Marshal(o) ==
    LET b == AppendInt64(AppendInt64(AppendString(AppendInt64(
                 <<>>, 1, o.id), 2, o.customer), 3, o.amount), 4, o.status) IN
    FoldLeft(LAMBDA a, t : AppendString(a, 5, t), b, o.tags) \o o.unknownFields

\* The field at the head of b: its encoding's length n, and the order with it set. A
\* known number with another wire type is an unknown field.
UnmarshalField(o, b) ==
    LET t == ConsumeTag(b)
        rest == Drop(b, t.n)
        varint == ConsumeVarint(rest)
        bytes == ConsumeBytes(rest)
        Set(c, r) == IF c = Err THEN Err ELSE [n |-> t.n + c.n, o |-> r]
        m == SkipValue(rest, t.wt)
    IN  IF t = Err THEN Err
        ELSE CASE t.field = 1 /\ t.wt = WireVarint -> Set(varint, [o EXCEPT !.id = int64(varint.v)])
               [] t.field = 2 /\ t.wt = WireBytes -> Set(bytes, [o EXCEPT !.customer = bytes.v])
               [] t.field = 3 /\ t.wt = WireVarint -> Set(varint, [o EXCEPT !.amount = int64(varint.v)])
               [] t.field = 4 /\ t.wt = WireVarint -> Set(varint, [o EXCEPT !.status = int64(varint.v)])
               [] t.field = 5 /\ t.wt = WireBytes -> Set(bytes, [o EXCEPT !.tags = Append(@, bytes.v)])
               [] OTHER -> IF m = -1 THEN Err
                           ELSE [n |-> t.n + m,
                                 o |-> [o EXCEPT !.unknownFields = @ \o SubSeq(b, 1, t.n + m)]]

\* Decodes b onto o, field by field; n is -1 for an error.
RECURSIVE UnmarshalFrom(_, _)
UnmarshalFrom(o, b) ==
    IF b = <<>> THEN [n |-> 0, o |-> o]
    ELSE LET f == UnmarshalField(o, b) IN
         IF f = Err THEN Err ELSE UnmarshalFrom(f.o, Drop(b, f.n))

Unmarshal(b) == UnmarshalFrom(EmptyOrder, b)

-----------------------------------------------------------------------------

Init == order = EmptyOrder /\ extra = <<>> /\ wire = <<>> /\ hops = 0 /\ cut = FALSE

\* The next message; a newer binary writes its fields before or after the others.
Send(o, x) ==
    /\ order = EmptyOrder
    /\ order' = o /\ extra' = x
    /\ wire' \in {Marshal(o) \o x, x \o Marshal(o)}
    /\ hops' = 0 /\ cut' = FALSE

\* Mutant: what was decoded is encoded without its unknown fields.
RelayKnown ==
    /\ hops < MaxHops /\ Unmarshal(wire) # Err
    /\ wire' = Marshal([Unmarshal(wire).o EXCEPT !.unknownFields = <<>>])
    /\ hops' = hops + 1
    /\ UNCHANGED <<order, extra, cut>>

\* An older binary passes on what it could decode.
Relay ==
    /\ hops < MaxHops /\ Unmarshal(wire) # Err
    /\ wire' = Marshal(Unmarshal(wire).o)
    /\ hops' = hops + 1
    /\ UNCHANGED <<order, extra, cut>>

\* The rest of the message is lost.
Truncate(n) ==
    /\ ~ cut /\ n < Len(wire)
    /\ wire' = SubSeq(wire, 1, n)
    /\ cut' = TRUE
    /\ UNCHANGED <<order, extra, hops>>

\* The message has arrived, and the next one may be sent.
Arrive == order' = EmptyOrder /\ extra' = <<>> /\ wire' = <<>> /\ hops' = 0 /\ cut' = FALSE

Next ==
    \/ \E o \in Orders, x \in Extras : Send(o, x)
    \/ Relay
    \/ Arrive
    \/ \E n \in 0 .. Len(wire) : Truncate(n)

Spec == Init /\ [][Next]_vars

-----------------------------------------------------------------------------

\* What a binary reads when it decodes the message as it was sent.
Sent == [order EXCEPT !.tags = SelectSeq(@, LAMBDA t : t # <<>>), !.unknownFields = extra]

\* Each field of p is that of o or missing, and tags and unknown fields end early.
PartOf(p, o) ==
    /\ \A f \in {"id", "customer", "amount", "status"} : p[f] \in {o[f], EmptyOrder[f]}
    /\ IsPrefix(p.tags, o.tags) /\ IsPrefix(p.unknownFields, o.unknownFields)

\* wire.go:223-225 "preserves fields written by a newer sender so they survive a
\* decode/encode round trip": however many binaries relay it, a message that is not cut
\* arrives with every field, extreme integers and unknown wire types included; a cut one
\* is refused or holds a part of what was sent, never a value nobody wrote.
RelayLosesNothing ==
    LET u == Unmarshal(wire) IN
    /\ ~ cut => u # Err /\ u.o = Sent
    /\ cut => u = Err \/ PartOf(u.o, Sent)
=============================================================================
