-------------------------------- MODULE Rpc --------------------------------
(***************************************************************************)
(* The RPC server and client of code/grpc_example/rpc.go, from the moment  *)
(* Listen has returned: the accept loop, a handler per connection, the     *)
(* order store, Close, and clients that call, stream, redial and give up.  *)
(*                                                                         *)
(* A connection is a queue of frames in each direction. It goes down when  *)
(* either end closes it or the network breaks it; what was in flight may   *)
(* still be read, or is lost. A Client's methods hold its lock for the     *)
(* whole call, so a client has one call at a time. A frame is its kind and *)
(* the order or status code in it.                                         *)
(***************************************************************************)
EXTENDS Integers, Sequences, FiniteSets

CONSTANTS
    Clients, Customers, Keys,
    Anyone,       \* the empty customer: invalid in CreateOrder, everybody in WatchOrders
    NoKey,        \* CreateOrder without an idempotency key
    SendBuffer,   \* frames a connection takes before a write blocks
    Requests,     \* the requests that each client makes
    MaxConns,     \* bound: connections ever dialled
    MaxCalls      \* bound: calls ever made

ASSUME RpcAssumption ==
    /\ Anyone \notin Customers /\ NoKey \notin Keys
    /\ SendBuffer \in Nat \ {0} /\ MaxConns \in Nat /\ MaxCalls \in Nat
    /\ \A k \in Clients : Requests[k] \subseteq
          [method : {"GetOrder"}, id : Nat]
              \cup [method : {"CreateOrder"}, customer : Customers \cup {Anyone}, key : Keys \cup {NoKey}]
              \cup [method : {"WatchOrders"}, customer : Customers \cup {Anyone}]

VARIABLES
    orders, byIdempotencyKey,          \* the store; an order's id is its place
    acceptor, accepted, closer,        \* the accept loop, its connection, and Close
    conns, wg, backlog,                \* tracked connections, WaitGroup, not yet accepted
    up, requests, replies,             \* per connection: the wire
    handler, out,                      \* per connection: the goroutine, its bufio.Writer
    conn, call, began, got,            \* per client: connection, call, what it streamed
    dialled, calls,                    \* bounds
    unread                             \* history: connections with a stream given up

storeVars == <<orders, byIdempotencyKey>>
serverVars == <<acceptor, accepted, closer, conns, wg, backlog>>
wireVars == <<up, requests, replies>>
handlerVars == <<handler, out>>
clientVars == <<conn, call, began, got, dialled, calls, unread>>
vars == <<storeVars, serverVars, wireVars, handlerVars, clientVars>>

Conns == 1 .. MaxConns
NoCall == [method |-> "none"]

frameMessage(o) == [kind |-> "message", id |-> o]
frameEnd == [kind |-> "end"]
frameError(code) == [kind |-> "error", code |-> code]

Init ==
    /\ orders = <<>> /\ byIdempotencyKey = [k \in Keys |-> 0]
    /\ acceptor = "accept" /\ accepted = 0 /\ closer = "open"
    /\ conns = {} /\ wg = 1 /\ backlog = <<>>
    /\ up = [c \in Conns |-> FALSE]
    /\ requests = [c \in Conns |-> <<>>] /\ replies = [c \in Conns |-> <<>>]
    /\ handler = [c \in Conns |-> "none"] /\ out = [c \in Conns |-> <<>>]
    /\ conn = [k \in Clients |-> 0] /\ call = [k \in Clients |-> NoCall]
    /\ began = [k \in Clients |-> 0] /\ got = [k \in Clients |-> <<>>]
    /\ dialled = 0 /\ calls = 0 /\ unread = {}

-----------------------------------------------------------------------------
(* The store's operations hold its lock; each is what dispatch makes of it: *)
(* the frames it writes for connection c.                                   *)

Write(c, frames) == out' = [out EXCEPT ![c] = frames]

GetOrder(c, id) ==
    /\ UNCHANGED storeVars
    /\ Write(c, <<IF id \in DOMAIN orders THEN frameMessage(id) ELSE frameError("NotFound")>>)

\* Mutant: a key is recorded but not looked up.
CreateOrderTwice(c, customer, key) ==
    /\ customer # Anyone
    /\ orders' = Append(orders, [customer |-> customer, key |-> key])
    /\ byIdempotencyKey' =
          [k \in Keys |-> IF k = key THEN Len(orders) + 1 ELSE byIdempotencyKey[k]]
    /\ Write(c, <<frameMessage(Len(orders) + 1)>>)

\* A key that was used returns its order, whatever the rest of the request says.
CreateOrder(c, customer, key) ==
    \/ /\ customer = Anyone
       /\ Write(c, <<frameError("InvalidArgument")>>)
       /\ UNCHANGED storeVars
    \/ /\ customer # Anyone /\ key # NoKey /\ byIdempotencyKey[key] # 0
       /\ Write(c, <<frameMessage(byIdempotencyKey[key])>>)
       /\ UNCHANGED storeVars
    \/ /\ customer # Anyone /\ (key # NoKey => byIdempotencyKey[key] = 0)
       /\ orders' = Append(orders, [customer |-> customer, key |-> key])
       /\ byIdempotencyKey' =
             [k \in Keys |-> IF k = key THEN Len(orders) + 1 ELSE byIdempotencyKey[k]]
       /\ Write(c, <<frameMessage(Len(orders) + 1)>>)

\* The ids of a customer's orders among the first n, in order.
ListUpTo(customer, n) ==
    LET ids[i \in 0 .. n] ==
            IF i = 0 THEN <<>>
            ELSE IF customer \in {Anyone, orders[i].customer} THEN Append(ids[i - 1], i)
            ELSE ids[i - 1]
    IN ids[n]

\* Mutant: the last order is missed.
ListByCustomerShort(customer) ==
    IF orders = <<>> THEN <<>> ELSE ListUpTo(customer, Len(orders) - 1)

ListByCustomer(customer) == ListUpTo(customer, Len(orders))

WatchOrders(c, customer) ==
    LET ids == ListByCustomer(customer) IN
    /\ Write(c, Append([i \in DOMAIN ids |-> frameMessage(ids[i])], frameEnd))
    /\ UNCHANGED storeVars

dispatch(c, r) ==
    \/ r.method = "GetOrder" /\ GetOrder(c, r.id)
    \/ r.method = "CreateOrder" /\ CreateOrder(c, r.customer, r.key)
    \/ r.method = "WatchOrders" /\ WatchOrders(c, r.customer)

-----------------------------------------------------------------------------
(* The handler of a connection: read a frame, dispatch it, flush.          *)

Serve(c) ==
    /\ handler[c] = "read" /\ requests[c] # <<>>
    /\ dispatch(c, Head(requests[c]))
    /\ requests' = [requests EXCEPT ![c] = Tail(@)]
    /\ handler' = [handler EXCEPT ![c] = "flush"]
    /\ UNCHANGED <<serverVars, up, replies, clientVars>>

\* Mutant: the error branch returns without a flush.
FlushFrameUnlessError(c) ==
    /\ handler[c] = "flush"
    /\ replies' = IF Head(out[c]).kind = "error" THEN replies
                  ELSE [replies EXCEPT ![c] = Append(@, Head(out[c]))]
    /\ out' = [out EXCEPT ![c] = Tail(@)]
    /\ handler' = [handler EXCEPT ![c] = IF Len(out[c]) = 1 THEN "read" ELSE "flush"]
    /\ UNCHANGED <<storeVars, serverVars, up, requests, clientVars>>

\* The buffered frames leave one by one, as far as the client's side takes them.
FlushFrame(c) ==
    /\ handler[c] = "flush" /\ up[c] /\ Len(replies[c]) < SendBuffer
    /\ replies' = [replies EXCEPT ![c] = Append(@, Head(out[c]))]
    /\ out' = [out EXCEPT ![c] = Tail(@)]
    /\ handler' = [handler EXCEPT ![c] = IF Len(out[c]) = 1 THEN "read" ELSE "flush"]
    /\ UNCHANGED <<storeVars, serverVars, up, requests, clientVars>>

\* readFrame or Flush fails on a connection that is down: handle returns, and its
\* deferred calls close and untrack the connection and count the goroutine out.
untrackConn(c) ==
    /\ handler[c] \in {"read", "flush"} /\ ~ up[c]
    /\ conns' = conns \ {c} /\ wg' = wg - 1
    /\ handler' = [handler EXCEPT ![c] = "done"]
    /\ out' = [out EXCEPT ![c] = <<>>]
    /\ requests' = [requests EXCEPT ![c] = <<>>]
    /\ UNCHANGED <<storeVars, acceptor, accepted, closer, backlog, up, replies, clientVars>>

handle(c) == Serve(c) \/ FlushFrame(c) \/ untrackConn(c)

-----------------------------------------------------------------------------
(* The accept loop.                                                        *)

Accept ==
    /\ acceptor = "accept" /\ backlog # <<>>
    /\ acceptor' = "track" /\ accepted' = Head(backlog) /\ backlog' = Tail(backlog)
    /\ UNCHANGED <<storeVars, closer, conns, wg, wireVars, handlerVars, clientVars>>

\* Any error of Accept ends the loop.
AcceptReturns ==
    /\ acceptor = "accept"
    /\ acceptor' = "done" /\ wg' = wg - 1
    /\ UNCHANGED <<storeVars, accepted, closer, conns, backlog, wireVars, handlerVars, clientVars>>

\* The listener is closed.
AcceptFails == closer \notin {"open", "signalled"} /\ AcceptReturns

\* A fatal error. The listener stays open, and what is dialled waits in its backlog.
AcceptBreaks == closer \in {"open", "signalled"} /\ AcceptReturns

\* Under connMu: refused when closing has been signalled, and then the loop ends.
trackConn ==
    /\ acceptor = "track"
    /\ \/ /\ closer = "open"
          /\ conns' = conns \cup {accepted} /\ acceptor' = "spawn"
          /\ UNCHANGED <<wg, up>>
       \/ /\ closer # "open"
          /\ up' = [up EXCEPT ![accepted] = FALSE]
          /\ acceptor' = "done" /\ wg' = wg - 1 /\ UNCHANGED conns
    /\ UNCHANGED <<storeVars, accepted, closer, backlog, requests, replies, handlerVars, clientVars>>

\* Mutant: the handler is not counted.
SpawnUncounted ==
    /\ acceptor = "spawn"
    /\ acceptor' = "accept" /\ accepted' = 0
    /\ handler' = [handler EXCEPT ![accepted] = "read"]
    /\ UNCHANGED <<storeVars, closer, conns, wg, backlog, wireVars, out, clientVars>>

\* wg.Add and the go statement; the accept loop's own count keeps wg above zero.
Spawn ==
    /\ acceptor = "spawn"
    /\ acceptor' = "accept" /\ accepted' = 0 /\ wg' = wg + 1
    /\ handler' = [handler EXCEPT ![accepted] = "read"]
    /\ UNCHANGED <<storeVars, closer, conns, backlog, wireVars, out, clientVars>>

-----------------------------------------------------------------------------
(* Server.Close, step by step; once.Do keeps a second call from repeating  *)
(* it.                                                                     *)

Closing(from, to) == closer = from /\ closer' = to

Signal ==
    /\ Closing("open", "signalled")
    /\ UNCHANGED <<storeVars, acceptor, accepted, conns, wg, backlog, wireVars, handlerVars, clientVars>>

\* The listener goes, and with it the connections nobody accepted.
CloseListener ==
    /\ Closing("signalled", "unlistened")
    /\ up' = [c \in Conns |-> up[c] /\ \A i \in DOMAIN backlog : backlog[i] # c]
    /\ backlog' = <<>>
    /\ UNCHANGED <<storeVars, acceptor, accepted, conns, wg, requests, replies, handlerVars, clientVars>>

CloseConns ==
    /\ Closing("unlistened", "waiting")
    /\ up' = [c \in Conns |-> up[c] /\ c \notin conns]
    /\ UNCHANGED <<storeVars, acceptor, accepted, conns, wg, backlog, requests, replies, handlerVars, clientVars>>

Wait ==
    /\ Closing("waiting", "closed") /\ wg = 0
    /\ UNCHANGED <<storeVars, acceptor, accepted, conns, wg, backlog, wireVars, handlerVars, clientVars>>

-----------------------------------------------------------------------------
(* Clients.                                                                *)

\* A client without a connection that works dials another.
Dial(k) ==
    /\ call[k] = NoCall /\ (conn[k] # 0 => ~ up[conn[k]])
    /\ closer \in {"open", "signalled"} /\ dialled < MaxConns
    /\ dialled' = dialled + 1
    /\ conn' = [conn EXCEPT ![k] = dialled + 1]
    /\ up' = [up EXCEPT ![dialled + 1] = TRUE]
    /\ backlog' = Append(backlog, dialled + 1)
    /\ replies' = [c \in Conns |-> IF c = conn[k] THEN <<>> ELSE replies[c]]
    /\ UNCHANGED <<storeVars, acceptor, accepted, closer, conns, wg, requests,
                   handlerVars, call, began, got, calls, unread>>

\* The request is written; a write that fails changes nothing.
Send(k, r) ==
    /\ call[k] = NoCall /\ conn[k] # 0 /\ up[conn[k]]
    /\ calls < MaxCalls /\ calls' = calls + 1
    /\ requests' = [requests EXCEPT ![conn[k]] = Append(@, r)]
    /\ call' = [call EXCEPT ![k] = r]
    /\ began' = [began EXCEPT ![k] = Len(orders)]
    /\ UNCHANGED <<storeVars, serverVars, up, replies, handlerVars, conn, got, dialled, unread>>

\* The call returns, and with it its locals go.
Return(k) ==
    /\ call' = [call EXCEPT ![k] = NoCall]
    /\ began' = [began EXCEPT ![k] = 0]
    /\ got' = [got EXCEPT ![k] = <<>>]

\* WatchOrders passes a message to fn.
Streamed(k, f) == call[k].method = "WatchOrders" /\ f.kind = "message"

\* A frame ends the call, unless it is part of a stream. When fn returns an error the
\* call ends too, and the rest of the stream stays unread.
Receive(k) ==
    /\ call[k] # NoCall /\ replies[conn[k]] # <<>>
    /\ LET f == Head(replies[conn[k]]) IN
       \/ ~ Streamed(k, f) /\ Return(k) /\ UNCHANGED unread
       \/ /\ Streamed(k, f)
          /\ got' = [got EXCEPT ![k] = Append(@, f.id)]
          /\ UNCHANGED <<call, began, unread>>
       \/ Streamed(k, f) /\ Return(k) /\ unread' = unread \cup {conn[k]}
    /\ replies' = [replies EXCEPT ![conn[k]] = Tail(@)]
    /\ UNCHANGED <<storeVars, serverVars, up, requests, handlerVars, conn, dialled, calls>>

\* The connection is down, and what was on its way is lost or was read before. Every
\* later call on it would fail as well: the client is dropped.
ReceiveFails(k) ==
    /\ call[k] # NoCall /\ ~ up[conn[k]]
    /\ Return(k)
    /\ conn' = [conn EXCEPT ![k] = 0]
    /\ replies' = [replies EXCEPT ![conn[k]] = <<>>]
    /\ UNCHANGED <<storeVars, serverVars, up, requests, handlerVars, dialled, calls, unread>>

\* Client.Close, which does not wait for a call, or the network's failure.
Disconnect(c) ==
    /\ up[c]
    /\ up' = [up EXCEPT ![c] = FALSE]
    /\ UNCHANGED <<storeVars, serverVars, requests, replies, handlerVars, clientVars>>

\* After Close, clients that returned may stay as they are.
Over ==
    /\ closer = "closed" /\ \A k \in Clients : call[k] = NoCall
    /\ UNCHANGED vars

-----------------------------------------------------------------------------

AcceptLoop == Accept \/ AcceptFails \/ trackConn \/ Spawn
Close == Signal \/ CloseListener \/ CloseConns \/ Wait
Read(k) == Receive(k) \/ ReceiveFails(k)

Next ==
    \/ AcceptLoop
    \/ AcceptBreaks
    \/ Close
    \/ \E c \in Conns : handle(c) \/ Disconnect(c)
    \/ \E k \in Clients : Dial(k) \/ Read(k) \/ \E r \in Requests[k] : Send(k, r)
    \/ Over

Spec == Init /\ [][Next]_vars

\* Goroutines run. Nobody has to call, dial, disconnect or close anything, and nothing has
\* to break, but a call or a Close that has begun goes on.
Fairness ==
    /\ WF_vars(AcceptLoop) /\ WF_vars(Close /\ closer # "open")
    /\ \A c \in Conns : WF_vars(handle(c))
    /\ \A k \in Clients : WF_vars(Read(k))

FairSpec == Spec /\ Fairness

-----------------------------------------------------------------------------

\* Frame f is a right answer to the call of k: for its own request, and up to date with
\* what was stored when it began. A stream is one snapshot, complete and in order.
RightAnswer(k, f) ==
    LET r == call[k] IN
    \/ /\ r.method = "GetOrder"
       /\ \/ f = frameMessage(r.id) /\ r.id \in DOMAIN orders
          \/ f = frameError("NotFound") /\ r.id \notin 1 .. began[k]
    \/ /\ r.method = "CreateOrder" /\ r.customer = Anyone
       /\ f = frameError("InvalidArgument")
    \/ /\ r.method = "CreateOrder" /\ r.customer # Anyone
       /\ f.kind = "message" /\ orders[f.id].key = r.key
       /\ r.key = NoKey => f.id > began[k] /\ orders[f.id].customer = r.customer
    \/ /\ r.method = "WatchOrders" /\ f = frameEnd
       /\ \A i, j \in DOMAIN got[k] : i < j => got[k][i] < got[k][j]
       /\ \E n \in began[k] .. Len(orders) :
              {got[k][i] : i \in DOMAIN got[k]} =
                  {i \in 1 .. n : r.customer \in {Anyone, orders[i].customer}}

Answered(k) ==
    /\ call[k] # NoCall /\ replies[conn[k]] # <<>>
    /\ ~ Streamed(k, Head(replies[conn[k]]))

\* wire_test.go:439 "Framing must survive many messages on one connection": the frame
\* that ends a call is the right answer to it.
AnswersMatchCalls ==
    \A k \in Clients : Answered(k) => RightAnswer(k, Head(replies[conn[k]]))

\* ... on a connection where no fn of WatchOrders has returned an error.
AnswersMatchUnlessUnread ==
    \A k \in Clients : Answered(k) /\ conn[k] \notin unread =>
        RightAnswer(k, Head(replies[conn[k]]))

\* rpc.go:138-139 "a retried request returns the original order rather than creating a
\* second one": one order per key, whatever is retried on whichever connection while
\* earlier requests may still be served.
OneOrderPerKey ==
    \A i, j \in DOMAIN orders :
        orders[i].key = orders[j].key /\ orders[i].key # NoKey => i = j

\* rpc.go:267-268: when Close has returned, no goroutine of the server is left and no
\* connection is open, also those that arrived meanwhile.
CloseIsFinal ==
    closer = "closed" =>
        /\ acceptor = "done" /\ conns = {}
        /\ \A c \in Conns : ~ up[c] /\ handler[c] \in {"none", "done"}

\* The connection of k is in the backlog of a listener whose accept loop has ended.
Stranded(k) == acceptor = "done" /\ closer = "open" /\ \E i \in DOMAIN backlog : backlog[i] = conn[k]

\* rpc.go:196-197 "Close blocks forever on handlers parked in a blocking read" and
\* :297-298 "the client blocked forever": Close returns whatever clients do or do not
\* do, and a call returns with an answer or an error. There are finitely many of both,
\* so this is to say that in the end nobody waits, except where the accept loop broke: as
\* long as nobody calls Close, a connection that it had not accepted is never served.
NobodyWaitsForever ==
    <>[](/\ closer \in {"open", "closed"}
         /\ \A k \in Clients : call[k] = NoCall \/ Stranded(k))
=============================================================================
