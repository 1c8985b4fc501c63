------------------------------- MODULE MCRpc -------------------------------
(***************************************************************************)
(* code/grpc_example for TLC: the service (Rpc) and its wire format        *)
(* (Wire). The bytes of a message do not depend on who calls whom, so a    *)
(* behaviour exercises one layer and leaves the other as it began.         *)
(***************************************************************************)
EXTENDS Rpc, TLC

CONSTANTS
    k1, k2, alice, bob, key,           \* members of Clients, Customers and Keys
    Base, WordBits, MaxBytes, MaxHops

VARIABLES
    layer,
    order, extra, wire, hops, cut

formatVars == <<order, extra, wire, hops, cut>>

Create(customer, k) == [method |-> "CreateOrder", customer |-> customer, key |-> k]

\* One client reads what the other one writes; both create the order of the same key.
MCRequests ==
    k1 :> {[method |-> "GetOrder", id |-> 1], Create(alice, key),
           [method |-> "WatchOrders", customer |-> alice]}
    @@ k2 :> {Create(alice, key), Create(bob, NoKey), Create(Anyone, NoKey)}

\* Zero, negative and extreme integers, empty strings, a customer that looks like a tag.
Orders ==
    [id : {0, -1}, customer : {<<>>, <<Base + 2, 1>>},
     amount : {-(2 ^ (WordBits - 1)), 2 ^ (WordBits - 1) - 1}, status : {2},
     tags : {<<>>, <<<<9>>, <<>>, <<4, 5>>>>}, unknownFields : {<<>>}]

Newer == INSTANCE Wire WITH Extras <- {}

\* Fields of every wire type with a number from the future, and one with a known number.
Extras ==
    {<<>>, Newer!AppendInt64(Newer!appendFixed64(<<>>, 10, 7), 9, -1),
     Newer!AppendString(Newer!appendFixed32(<<>>, 12, Base), 9, <<10, 11>>),
     Newer!AppendString(<<>>, 1, <<8>>)}

Format == INSTANCE Wire

ASSUME FormatAssumption == Format!WireAssumption

MCInit == layer \in {"service", "format"} /\ Init /\ Format!Init

ServiceStep == layer = "service" /\ Next /\ UNCHANGED <<layer, formatVars>>
FormatStep == layer = "format" /\ Format!Next /\ UNCHANGED <<layer, vars>>

MCNext == ServiceStep \/ FormatStep

\* With the other layer at work the service has nothing to do.
MCSpec == MCInit /\ [][MCNext]_<<layer, vars, formatVars>> /\ Fairness

\* wire.go:223-225: an old binary passes on what it does not know.
RelayLosesNothing == Format!RelayLosesNothing
=============================================================================
