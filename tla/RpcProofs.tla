----------------------------- MODULE RpcProofs -----------------------------
(***************************************************************************)
(* Proofs about the RPC server for any clients, requests and bounds.       *)
(***************************************************************************)
EXTENDS Rpc, FiniteSetTheorems, NaturalsInduction, WellFoundedInduction, TLAPS

Reqs ==
    [method : {"GetOrder"}, id : Nat]
        \cup [method : {"CreateOrder"}, customer : Customers \cup {Anyone}, key : Keys \cup {NoKey}]
        \cup [method : {"WatchOrders"}, customer : Customers \cup {Anyone}]

\* A request on its way is one a client makes.
WireInv ==
    /\ conn \in [Clients -> 0 .. MaxConns]
    /\ dialled \in 0 .. MaxConns
    /\ requests \in [Conns -> Seq(Reqs)]

LEMMA Constants ==
    /\ MaxConns \in Nat /\ NoKey \notin Keys
    /\ \A k \in Clients : Requests[k] \subseteq Reqs
BY RpcAssumption DEF Reqs

LEMMA WireInit == Init => WireInv
BY Constants DEF Init, WireInv

LEMMA WireStep == WireInv /\ [Next]_vars => WireInv'
<1> SUFFICES ASSUME WireInv, [Next]_vars PROVE WireInv'
  OBVIOUS
<1> USE Constants DEF WireInv
<1>1. ASSUME NEW k \in Clients, NEW r \in Requests[k], Send(k, r) PROVE WireInv'
  <2>1. r \in Reqs /\ conn[k] \in Conns
    BY <1>1 DEF Send, Conns
  <2>2. [requests EXCEPT ![conn[k]] = Append(requests[conn[k]], r)] \in [Conns -> Seq(Reqs)]
    BY <2>1
  <2> QED BY <1>1, <2>2 DEF Send
<1>2. ASSUME NEW k \in Clients, Dial(k) PROVE WireInv'
  <2>1. dialled' \in 0 .. MaxConns
    BY <1>2 DEF Dial
  <2> QED BY <1>2, <2>1 DEF Dial
<1>3. ASSUME NEW k \in Clients, Read(k) PROVE WireInv'
  BY <1>3 DEF Read, Receive, ReceiveFails
<1>4. ASSUME NEW c \in Conns, handle(c) PROVE WireInv'
  <2>1. CASE Serve(c)
    <3>1. Tail(requests[c]) \in Seq(Reqs)
      BY <2>1 DEF Serve
    <3> QED BY <2>1, <3>1 DEF Serve, clientVars
  <2>2. CASE FlushFrame(c) \/ untrackConn(c)
    <3>1. requests' = requests \/ requests' = [requests EXCEPT ![c] = <<>>]
      BY <2>2 DEF FlushFrame, untrackConn
    <3>2. requests' \in [Conns -> Seq(Reqs)]
      <4>1. <<>> \in Seq(Reqs)
        OBVIOUS
      <4> QED BY <3>1, <4>1
    <3> QED BY <2>2, <3>2 DEF FlushFrame, untrackConn, clientVars
  <2> QED BY <1>4, <2>1, <2>2 DEF handle
<1>5. CASE \/ AcceptLoop \/ AcceptBreaks \/ Close \/ (\E c \in Conns : Disconnect(c)) \/ Over
           \/ UNCHANGED vars
  <2>1. UNCHANGED <<conn, dialled, requests>>
    BY <1>5
    DEF AcceptLoop, Accept, AcceptReturns, AcceptFails, AcceptBreaks, trackConn, Spawn,
        Close, Signal, CloseListener, CloseConns, Wait, Disconnect, Over, vars, wireVars, clientVars
  <2> QED BY <2>1
<1> QED BY <1>1, <1>2, <1>3, <1>4, <1>5 DEF Next

-----------------------------------------------------------------------------
(* The store.                                                              *)

OrderRecords == [customer : Customers, key : Keys \cup {NoKey}]

\* The index knows the one order of every key that was used.
StoreInv ==
    /\ orders \in Seq(OrderRecords)
    /\ byIdempotencyKey \in [Keys -> Nat]
    /\ \A i \in DOMAIN orders : orders[i].key # NoKey => byIdempotencyKey[orders[i].key] = i
    /\ \A k \in Keys : byIdempotencyKey[k] # 0 =>
          byIdempotencyKey[k] \in DOMAIN orders /\ orders[byIdempotencyKey[k]].key = k

LEMMA StoreStep == WireInv /\ StoreInv /\ [Next]_vars => StoreInv'
<1> SUFFICES ASSUME WireInv, StoreInv, [Next]_vars PROVE StoreInv'
  OBVIOUS
<1>1. ASSUME UNCHANGED storeVars PROVE StoreInv'
  BY <1>1 DEF storeVars, StoreInv
<1>2. ASSUME NEW c \in Conns, NEW r \in Reqs, dispatch(c, r) PROVE StoreInv'
  <2>1. CASE UNCHANGED storeVars
    BY <1>1, <2>1
  <2>2. CASE ~ UNCHANGED storeVars
    <3>1. r.method = "CreateOrder" /\ CreateOrder(c, r.customer, r.key)
      BY <1>2, <2>2 DEF dispatch, GetOrder, WatchOrders
    <3>2. r.customer \in Customers \cup {Anyone} /\ r.key \in Keys \cup {NoKey}
      BY <3>1 DEF Reqs
    <3> DEFINE o == [customer |-> r.customer, key |-> r.key]
               n == Len(orders) + 1
    <3>3. /\ r.customer # Anyone /\ (r.key # NoKey => byIdempotencyKey[r.key] = 0)
          /\ orders' = Append(orders, o)
          /\ byIdempotencyKey' = [k \in Keys |-> IF k = r.key THEN n ELSE byIdempotencyKey[k]]
      BY <2>2, <3>1 DEF CreateOrder
    <3>4. o \in OrderRecords
      BY <3>2, <3>3 DEF OrderRecords
    <3>5. /\ orders' \in Seq(OrderRecords)
          /\ DOMAIN orders = 1 .. Len(orders) /\ DOMAIN orders' = 1 .. n /\ Len(orders) \in Nat
          /\ orders'[n] = o /\ \A i \in 1 .. Len(orders) : orders'[i] = orders[i]
      BY <3>3, <3>4 DEF StoreInv
    <3>6. byIdempotencyKey' \in [Keys -> Nat]
      BY <3>3, <3>5 DEF StoreInv
    <3>7. ASSUME NEW i \in 1 .. n, orders'[i].key # NoKey
          PROVE  byIdempotencyKey'[orders'[i].key] = i
      <4>1. CASE i = n
        <5>1. orders'[i].key = r.key /\ r.key \in Keys
          BY <3>2, <3>5, <3>7, <4>1
        <5> QED BY <3>3, <4>1, <5>1
      <4>2. CASE i # n
        <5>1. i \in DOMAIN orders /\ orders'[i] = orders[i] /\ i # 0
          BY <3>5, <4>2
        <5>2. byIdempotencyKey[orders[i].key] = i /\ orders[i].key \in Keys
          <6>1. orders[i].key \in Keys \cup {NoKey}
            <7>1. orders[i] \in OrderRecords
              BY <5>1 DEF StoreInv
            <7> QED BY <7>1 DEF OrderRecords
          <6>2. orders[i].key # NoKey
            BY <3>7, <5>1
          <6> QED BY <5>1, <6>1, <6>2 DEF StoreInv
        <5>3. orders[i].key # r.key
          BY <3>3, <3>7, <5>1, <5>2
        <5> QED BY <3>3, <5>1, <5>2, <5>3
      <4> QED BY <4>1, <4>2
    <3>8. ASSUME NEW k \in Keys, byIdempotencyKey'[k] # 0
          PROVE  byIdempotencyKey'[k] \in 1 .. n /\ orders'[byIdempotencyKey'[k]].key = k
      <4>1. CASE k = r.key
        BY <3>3, <3>5, <4>1
      <4>2. CASE k # r.key
        <5>1. byIdempotencyKey'[k] = byIdempotencyKey[k]
          BY <3>3, <4>2
        <5>2. byIdempotencyKey[k] \in 1 .. Len(orders) /\ orders[byIdempotencyKey[k]].key = k
          BY <3>5, <3>8, <5>1 DEF StoreInv
        <5> QED BY <3>5, <5>1, <5>2
      <4> QED BY <4>1, <4>2
    <3> QED BY <3>5, <3>6, <3>7, <3>8 DEF StoreInv
  <2> QED BY <2>1, <2>2
<1>3. ASSUME NEW c \in Conns, Serve(c) PROVE StoreInv'
  <2>1. Head(requests[c]) \in Reqs
    BY <1>3 DEF Serve, WireInv
  <2> QED BY <1>2, <1>3, <2>1 DEF Serve
<1>4. ASSUME NEW c \in Conns, handle(c) PROVE StoreInv'
  BY <1>1, <1>3, <1>4 DEF handle, FlushFrame, untrackConn
<1>5. CASE \/ AcceptLoop \/ AcceptBreaks \/ Close \/ (\E c \in Conns : Disconnect(c))
           \/ Over \/ UNCHANGED vars
           \/ \E k \in Clients : Dial(k) \/ Read(k) \/ \E r \in Requests[k] : Send(k, r)
  <2>1. UNCHANGED storeVars
    BY <1>5
    DEF AcceptLoop, Accept, AcceptReturns, AcceptFails, AcceptBreaks, trackConn, Spawn,
        Close, Signal, CloseListener, CloseConns, Wait, Disconnect, Over, Dial, Read,
        Receive, ReceiveFails, Send, vars
  <2> QED BY <1>1, <2>1
<1> QED BY <1>4, <1>5 DEF Next

LEMMA StoreInit == Init => StoreInv
BY DEF Init, StoreInv

\* Rpc.OneOrderPerKey (rpc.go:138-139) for any clients and requests: however requests are
\* retried and on whichever connections they are served, a key makes one order.
THEOREM KeysAreIdempotent == Spec => []OneOrderPerKey
<1>1. StoreInv => OneOrderPerKey
  BY DEF StoreInv, OneOrderPerKey
<1> QED BY <1>1, StoreInit, WireInit, WireStep, StoreStep, PTL DEF Spec

-----------------------------------------------------------------------------
(* Close. The WaitGroup counts the accept loop and the handlers at work,   *)
(* and the server tracks the connections of those handlers, and the one    *)
(* that is about to get its own.                                           *)

Working == {c \in Conns : handler[c] \in {"read", "flush"}}

Queued(c) == \E i \in DOMAIN backlog : backlog[i] = c

InHand(c) == acceptor \in {"track", "spawn"} /\ c = accepted

ServerTypeOK ==
    /\ handler \in [Conns -> {"none", "read", "flush", "done"}]
    /\ up \in [Conns -> BOOLEAN]
    /\ acceptor \in {"accept", "track", "spawn", "done"}
    /\ closer \in {"open", "signalled", "unlistened", "waiting", "closed"}
    /\ acceptor \in {"track", "spawn"} => accepted \in Conns
    /\ backlog \in Seq(Conns)
    /\ dialled \in 0 .. MaxConns

\* A connection waits once, for a handler that it does not have yet.
QueueInv ==
    /\ \A i, j \in DOMAIN backlog : backlog[i] = backlog[j] => i = j
    /\ \A c \in Conns : Queued(c) => c <= dialled /\ handler[c] = "none" /\ ~ InHand(c)
    /\ \A c \in Conns : InHand(c) => c <= dialled /\ handler[c] = "none"
    /\ \A c \in Conns : c > dialled => handler[c] = "none"

\* What is counted and tracked; nobody serves or queues a connection that is up in vain.
CountInv ==
    /\ wg = Cardinality(Working) + (IF acceptor = "done" THEN 0 ELSE 1)
    /\ conns = Working \cup (IF acceptor = "spawn" THEN {accepted} ELSE {})
    /\ \A c \in Conns : up[c] => c \in Working \/ Queued(c) \/ InHand(c)
    /\ closer \notin {"open", "signalled"} => backlog = <<>>
    /\ closer = "closed" => acceptor = "done" /\ Working = {}

ServerInv == ServerTypeOK /\ QueueInv /\ CountInv

LEMMA WorkingFinite ==
    ASSUME ServerTypeOK
    PROVE  IsFiniteSet(Working) /\ Cardinality(Working) \in Nat
<1>1. IsFiniteSet(Conns)
  BY Constants, FS_Interval DEF Conns
<1> QED BY <1>1, FS_Subset, FS_CardinalityType DEF Working

\* Steps that leave the queue and the counts as they are: a handler goes on, a connection
\* breaks, Close goes on.
LEMMA ServerGoesOn ==
    ASSUME ServerInv,
           UNCHANGED <<acceptor, accepted, backlog, conns, wg, dialled>>,
           handler' \in [Conns -> {"none", "read", "flush", "done"}],
           up' \in [Conns -> BOOLEAN],
           closer' \in {"open", "signalled", "unlistened", "waiting", "closed"},
           \A c \in Conns : handler'[c] = "none" <=> handler[c] = "none",
           Working' = Working,
           \A c \in Conns : up'[c] => up[c],
           closer' \notin {"open", "signalled"} => backlog = <<>>,
           closer' = "closed" => acceptor = "done" /\ Working = {}
    PROVE  ServerInv'
<1>1. ServerTypeOK'
  BY DEF ServerInv, ServerTypeOK
<1>2. /\ \A c \in Conns : Queued(c)' <=> Queued(c)
      /\ \A c \in Conns : InHand(c)' <=> InHand(c)
  BY DEF Queued, InHand
<1>3. QueueInv'
  BY <1>2 DEF ServerInv, QueueInv
<1>4. CountInv'
  BY <1>2 DEF ServerInv, CountInv
<1> QED BY <1>1, <1>3, <1>4 DEF ServerInv

LEMMA HandlerStep ==
    ASSUME ServerInv, NEW c \in Conns, handle(c) PROVE ServerInv'
<1> USE DEF ServerInv, ServerTypeOK
<1>1. CASE Serve(c) \/ FlushFrame(c)
  <2>1. /\ handler[c] \in {"read", "flush"}
        /\ \E h \in {"read", "flush"} : handler' = [handler EXCEPT ![c] = h]
        /\ UNCHANGED <<acceptor, accepted, backlog, conns, wg, dialled, up, closer>>
    BY <1>1 DEF Serve, FlushFrame, serverVars, clientVars
  <2>2. PICK h \in {"read", "flush"} : handler' = [handler EXCEPT ![c] = h]
    BY <2>1
  <2>3. handler' \in [Conns -> {"none", "read", "flush", "done"}]
    BY <2>2
  <2>4. \A d \in Conns : handler'[d] = IF d = c THEN h ELSE handler[d]
    BY <2>2
  <2>5. Working' = Working
    BY <2>1, <2>4 DEF Working
  <2>6. \A d \in Conns : handler'[d] = "none" <=> handler[d] = "none"
    BY <2>1, <2>4
  <2> QED BY <2>1, <2>3, <2>5, <2>6, ServerGoesOn DEF CountInv
<1>2. CASE untrackConn(c)
  <2>1. /\ handler[c] \in {"read", "flush"} /\ ~ up[c]
        /\ conns' = conns \ {c} /\ wg' = wg - 1
        /\ handler' = [handler EXCEPT ![c] = "done"]
        /\ UNCHANGED <<acceptor, accepted, closer, backlog, up, dialled>>
    BY <1>2 DEF untrackConn, clientVars
  <2>2. \A d \in Conns : handler'[d] = IF d = c THEN "done" ELSE handler[d]
    BY <2>1
  <2>3. Working' = Working \ {c} /\ c \in Working
    BY <2>1, <2>2 DEF Working
  <2>4. Cardinality(Working') = Cardinality(Working) - 1
    BY <2>3, WorkingFinite, FS_RemoveElement
  <2>5. ServerTypeOK'
    BY <2>1
  <2>6. /\ \A d \in Conns : Queued(d)' <=> Queued(d)
        /\ \A d \in Conns : InHand(d)' <=> InHand(d)
        /\ ~ Queued(c) /\ ~ InHand(c)
    BY <2>1 DEF Queued, InHand, QueueInv
  <2>7. c <= dialled
    BY <2>1 DEF QueueInv, Conns
  <2>8. QueueInv'
    BY <2>1, <2>2, <2>6, <2>7 DEF QueueInv, Conns
  <2>9. CountInv'
    <3>1. wg' = Cardinality(Working)' + (IF acceptor' = "done" THEN 0 ELSE 1)
      BY <2>1, <2>4, WorkingFinite DEF CountInv
    <3>2. conns' = Working' \cup (IF acceptor' = "spawn" THEN {accepted'} ELSE {})
      BY <2>1, <2>3, <2>6 DEF CountInv, InHand
    <3>3. \A d \in Conns : up'[d] => d \in Working' \/ Queued(d)' \/ InHand(d)'
      BY <2>1, <2>3, <2>6 DEF CountInv
    <3>4. closer' = "closed" => acceptor' = "done" /\ Working' = {}
      BY <2>1, <2>3 DEF CountInv
    <3> QED BY <2>1, <3>1, <3>2, <3>3, <3>4 DEF CountInv
  <2> QED BY <2>5, <2>8, <2>9
<1> QED BY <1>1, <1>2 DEF handle

LEMMA AcceptStep ==
    ASSUME ServerInv, AcceptLoop \/ AcceptBreaks PROVE ServerInv'
<1> USE DEF ServerInv, ServerTypeOK
<1>0. Len(backlog) \in Nat /\ DOMAIN backlog = 1 .. Len(backlog)
  OBVIOUS
<1>1. CASE Accept
  <2>1. /\ acceptor = "accept" /\ backlog # <<>>
        /\ acceptor' = "track" /\ accepted' = Head(backlog) /\ backlog' = Tail(backlog)
        /\ UNCHANGED <<closer, conns, wg, up, handler, dialled>>
    BY <1>1 DEF Accept, wireVars, handlerVars, clientVars
  <2>2. /\ accepted' \in Conns /\ accepted' = backlog[1] /\ 1 \in DOMAIN backlog
        /\ backlog' \in Seq(Conns)
        /\ DOMAIN backlog' = 1 .. Len(backlog) - 1
        /\ \A i \in DOMAIN backlog' : backlog'[i] = backlog[i + 1] /\ i + 1 \in DOMAIN backlog
    BY <1>0, <2>1
  <2>3. ServerTypeOK'
    BY <2>1, <2>2
  <2>4. Working' = Working
    BY <2>1 DEF Working
  <2>5. \A c \in Conns : Queued(c) <=> Queued(c)' \/ c = accepted'
    <3>1. ASSUME NEW c \in Conns, Queued(c), c # accepted' PROVE Queued(c)'
      <4>1. PICK i \in DOMAIN backlog : backlog[i] = c
        BY <3>1 DEF Queued
      <4>2. i - 1 \in DOMAIN backlog' /\ backlog'[i - 1] = c
        <5>1. i # 1 /\ i \in 1 .. Len(backlog)
          BY <1>0, <2>2, <3>1, <4>1
        <5>2. i - 1 \in DOMAIN backlog' /\ (i - 1) + 1 = i
          BY <1>0, <2>2, <5>1
        <5> QED BY <2>2, <4>1, <5>2
      <4> QED BY <4>2 DEF Queued
    <3>2. ASSUME NEW c \in Conns, Queued(c)' PROVE Queued(c)
      BY <2>2, <3>2 DEF Queued
    <3>3. \A c \in Conns : c = accepted' => Queued(c)
      BY <2>2 DEF Queued
    <3> QED BY <3>1, <3>2, <3>3
  <2>6. \A c \in Conns : c = accepted' => ~ Queued(c)'
    <3> SUFFICES ASSUME NEW i \in DOMAIN backlog', backlog'[i] = accepted' PROVE FALSE
      BY DEF Queued
    <3>1. backlog[i + 1] = backlog[1] /\ i + 1 \in DOMAIN backlog /\ i + 1 # 1
      BY <1>0, <2>2
    <3> QED BY <2>2, <3>1 DEF QueueInv
  <2>7. /\ \A c \in Conns : InHand(c)' <=> c = accepted'
        /\ \A c \in Conns : ~ InHand(c)
    BY <2>1 DEF InHand
  <2>8. \A i, j \in DOMAIN backlog' : backlog'[i] = backlog'[j] => i = j
    <3> SUFFICES ASSUME NEW i \in DOMAIN backlog', NEW j \in DOMAIN backlog',
                        backlog'[i] = backlog'[j]
                 PROVE  i = j
      OBVIOUS
    <3>1. i + 1 \in DOMAIN backlog /\ j + 1 \in DOMAIN backlog /\ backlog[i + 1] = backlog[j + 1]
      BY <2>2
    <3>2. i + 1 = j + 1
      BY <3>1 DEF QueueInv
    <3> QED BY <1>0, <2>2, <3>2
  <2>9. QueueInv'
    BY <2>1, <2>2, <2>5, <2>6, <2>7, <2>8 DEF QueueInv
  <2>10. CountInv'
    <3>1. Working' = Working /\ closer \in {"open", "signalled"}
      BY <2>1, <2>4 DEF CountInv
    <3>2. \A c \in Conns : up'[c] => c \in Working' \/ Queued(c)' \/ InHand(c)'
      BY <2>1, <2>4, <2>5, <2>7 DEF CountInv
    <3> QED BY <2>1, <3>1, <3>2 DEF CountInv
  <2> QED BY <2>3, <2>9, <2>10
<1>2. CASE AcceptFails \/ AcceptBreaks
  <2>1. /\ acceptor = "accept" /\ acceptor' = "done" /\ wg' = wg - 1
        /\ UNCHANGED <<accepted, closer, conns, backlog, up, handler, dialled>>
    BY <1>2 DEF AcceptReturns, AcceptFails, AcceptBreaks, wireVars, handlerVars, clientVars
  <2>2. ServerTypeOK' /\ Working' = Working
    BY <2>1 DEF Working
  <2>3. /\ \A c \in Conns : Queued(c)' <=> Queued(c)
        /\ \A c \in Conns : ~ InHand(c) /\ ~ InHand(c)'
    BY <2>1 DEF Queued, InHand
  <2>4. QueueInv'
    BY <2>1, <2>3 DEF QueueInv
  <2>5. CountInv'
    BY <2>1, <2>2, <2>3, WorkingFinite DEF CountInv
  <2> QED BY <2>2, <2>4, <2>5
<1>3. CASE trackConn
  <2>1. /\ acceptor = "track" /\ accepted \in Conns
        /\ \/ /\ closer = "open" /\ conns' = conns \cup {accepted} /\ acceptor' = "spawn"
              /\ UNCHANGED <<wg, up>>
           \/ /\ closer # "open" /\ up' = [up EXCEPT ![accepted] = FALSE]
              /\ acceptor' = "done" /\ wg' = wg - 1 /\ UNCHANGED conns
        /\ UNCHANGED <<accepted, closer, backlog, handler, dialled>>
    BY <1>3 DEF trackConn, handlerVars, clientVars
  <2>2. ServerTypeOK' /\ Working' = Working
    BY <2>1 DEF Working
  <2>3. /\ \A c \in Conns : Queued(c)' <=> Queued(c)
        /\ \A c \in Conns : InHand(c) <=> c = accepted
        /\ \A c \in Conns : InHand(c)' <=> c = accepted /\ acceptor' = "spawn"
    BY <2>1 DEF Queued, InHand
  <2>4. QueueInv'
    BY <2>1, <2>3 DEF QueueInv
  <2>5. closer # "closed"
    BY <2>1 DEF CountInv
  <2>6. \A c \in Conns : up'[c] => up[c] /\ (c # accepted \/ acceptor' = "spawn")
    BY <2>1
  <2>7. \A c \in Conns : up'[c] => c \in Working' \/ Queued(c)' \/ InHand(c)'
    BY <2>2, <2>3, <2>6 DEF CountInv
  <2>8. wg' = Cardinality(Working') + (IF acceptor' = "done" THEN 0 ELSE 1)
    BY <2>1, <2>2, WorkingFinite DEF CountInv
  <2>9. conns' = Working' \cup (IF acceptor' = "spawn" THEN {accepted'} ELSE {})
    BY <2>1, <2>2 DEF CountInv
  <2>10. CountInv'
    BY <2>1, <2>5, <2>7, <2>8, <2>9 DEF CountInv
  <2> QED BY <2>2, <2>4, <2>10
<1>4. CASE Spawn
  <2>1. /\ acceptor = "spawn" /\ accepted \in Conns
        /\ acceptor' = "accept" /\ wg' = wg + 1
        /\ handler' = [handler EXCEPT ![accepted] = "read"]
        /\ UNCHANGED <<closer, conns, backlog, up, dialled>>
    BY <1>4 DEF Spawn, wireVars, clientVars
  <2>2. \A c \in Conns : handler'[c] = IF c = accepted THEN "read" ELSE handler[c]
    BY <2>1
  <2>3. ServerTypeOK'
    BY <2>1
  <2>4. /\ \A c \in Conns : Queued(c)' <=> Queued(c)
        /\ \A c \in Conns : InHand(c) <=> c = accepted
        /\ \A c \in Conns : ~ InHand(c)'
    BY <2>1 DEF Queued, InHand
  <2>5. Working' = Working \cup {accepted} /\ accepted \notin Working
    BY <2>1, <2>2, <2>4 DEF Working, QueueInv
  <2>6. Cardinality(Working') = Cardinality(Working) + 1
    BY <2>5, WorkingFinite, FS_AddElement
  <2>7. QueueInv'
    BY <2>1, <2>2, <2>4 DEF QueueInv, Conns
  <2>8. CountInv'
    <3>1. wg' = Cardinality(Working') + (IF acceptor' = "done" THEN 0 ELSE 1)
      BY <2>1, <2>6, WorkingFinite DEF CountInv
    <3>2. conns' = Working' \cup (IF acceptor' = "spawn" THEN {accepted'} ELSE {})
      BY <2>1, <2>5 DEF CountInv
    <3>3. \A c \in Conns : up'[c] => c \in Working' \/ Queued(c)' \/ InHand(c)'
      BY <2>1, <2>4, <2>5 DEF CountInv
    <3> QED BY <2>1, <3>1, <3>2, <3>3 DEF CountInv
  <2> QED BY <2>3, <2>7, <2>8
<1> QED BY <1>1, <1>2, <1>3, <1>4 DEF AcceptLoop

LEMMA CloseStep ==
    ASSUME ServerInv, Close PROVE ServerInv'
<1> USE DEF ServerInv, ServerTypeOK
<1>1. CASE Signal \/ CloseConns \/ Wait
  <2>1. UNCHANGED <<acceptor, accepted, conns, wg, backlog, handler, dialled>>
    BY <1>1 DEF Signal, CloseConns, Wait, handlerVars, clientVars
  <2>2. up' \in [Conns -> BOOLEAN] /\ \A c \in Conns : up'[c] => up[c]
    BY <1>1 DEF Signal, CloseConns, Wait, wireVars
  <2>3. closer' \in {"signalled", "waiting", "closed"}
    BY <1>1 DEF Signal, CloseConns, Wait, Closing
  <2>4. closer' \notin {"open", "signalled"} => backlog = <<>>
    BY <1>1 DEF Signal, CloseConns, Wait, Closing, CountInv
  <2>5. closer' = "closed" => acceptor = "done" /\ Working = {}
    <3>1. SUFFICES ASSUME closer' = "closed" PROVE acceptor = "done" /\ Working = {}
      OBVIOUS
    <3>2. wg = 0
      BY <1>1, <3>1 DEF Signal, CloseConns, Wait, Closing
    <3>3. acceptor = "done" /\ Cardinality(Working) = 0
      BY <3>2, WorkingFinite DEF CountInv
    <3> QED BY <3>3, WorkingFinite, FS_EmptySet
  <2>6. Working' = Working
    BY <2>1 DEF Working
  <2> QED BY <2>1, <2>2, <2>3, <2>4, <2>5, <2>6, ServerGoesOn
<1>2. CASE CloseListener
  <2>1. /\ closer = "signalled" /\ closer' = "unlistened"
        /\ up' = [c \in Conns |-> up[c] /\ ~ Queued(c)]
        /\ backlog' = <<>>
        /\ UNCHANGED <<acceptor, accepted, conns, wg, handler, dialled>>
    BY <1>2 DEF CloseListener, Closing, Queued, handlerVars, clientVars
  <2>2. /\ \A c \in Conns : ~ Queued(c)'
        /\ \A c \in Conns : InHand(c)' <=> InHand(c)
        /\ Working' = Working
        /\ \A i \in DOMAIN backlog' : FALSE
    BY <2>1 DEF Queued, InHand, Working
  <2>3. ServerTypeOK'
    BY <2>1
  <2>4. QueueInv'
    BY <2>1, <2>2 DEF QueueInv
  <2>5. CountInv'
    BY <2>1, <2>2 DEF CountInv
  <2> QED BY <2>3, <2>4, <2>5
<1> QED BY <1>1, <1>2 DEF Close

LEMMA DialStep ==
    ASSUME ServerInv, NEW k \in Clients, Dial(k) PROVE ServerInv'
<1> USE DEF ServerInv, ServerTypeOK
<1> DEFINE n == dialled + 1
<1>1. /\ closer \in {"open", "signalled"} /\ n \in Conns /\ dialled' = n
      /\ up' = [up EXCEPT ![n] = TRUE] /\ backlog' = Append(backlog, n)
      /\ UNCHANGED <<acceptor, accepted, closer, conns, wg, handler>>
  BY Constants DEF Dial, handlerVars, Conns
<1>2. /\ Len(backlog) \in Nat /\ DOMAIN backlog = 1 .. Len(backlog)
      /\ backlog' \in Seq(Conns) /\ DOMAIN backlog' = 1 .. Len(backlog) + 1
      /\ backlog'[Len(backlog) + 1] = n
      /\ \A i \in DOMAIN backlog : backlog'[i] = backlog[i]
  BY <1>1
<1>3. dialled' \in 0 .. MaxConns
  BY <1>1, Constants DEF Conns
<1>4. ServerTypeOK'
  BY <1>1, <1>2, <1>3
<1>5. \A c \in Conns : Queued(c)' <=> Queued(c) \/ c = n
  <2>1. ASSUME NEW c \in Conns, Queued(c)', c # n PROVE Queued(c)
    BY <1>2, <2>1 DEF Queued
  <2>2. ASSUME NEW c \in Conns, Queued(c) \/ c = n PROVE Queued(c)'
    <3>1. CASE Queued(c)
      <4>1. PICK i \in DOMAIN backlog : backlog[i] = c
        BY <3>1 DEF Queued
      <4>2. i \in DOMAIN backlog' /\ backlog'[i] = c
        BY <1>2, <4>1
      <4> QED BY <4>2 DEF Queued
    <3>2. CASE c = n
      <4>1. Len(backlog) + 1 \in DOMAIN backlog'
        BY <1>2
      <4> QED BY <1>2, <3>2, <4>1 DEF Queued
    <3> QED BY <2>2, <3>1, <3>2
  <2> QED BY <2>1, <2>2
<1>6. \A c \in Conns : InHand(c)' <=> InHand(c)
  BY <1>1 DEF InHand
<1>7. ~ Queued(n) /\ ~ InHand(n) /\ handler[n] = "none" /\ Working' = Working
  BY <1>1 DEF QueueInv, Working, Conns
<1>8. QueueInv'
  <2>1. \A i, j \in DOMAIN backlog' : backlog'[i] = backlog'[j] => i = j
    <3>1. \A i \in DOMAIN backlog : backlog[i] # n
      BY <1>7 DEF Queued
    <3> QED BY <1>2, <3>1 DEF QueueInv
  <2>2. \A c \in Conns : c <= dialled => c <= dialled'
    BY <1>1 DEF Conns
  <2>3. \A c \in Conns : c > dialled' => c > dialled
    BY <1>1 DEF Conns
  <2>4. n <= dialled'
    BY <1>1 DEF Conns
  <2>5. \A c \in Conns : Queued(c)' => c <= dialled' /\ handler'[c] = "none" /\ ~ InHand(c)'
    BY <1>1, <1>5, <1>6, <1>7, <2>2, <2>4 DEF QueueInv
  <2>6. \A c \in Conns : InHand(c)' => c <= dialled' /\ handler'[c] = "none"
    BY <1>1, <1>6, <2>2 DEF QueueInv
  <2>7. \A c \in Conns : c > dialled' => handler'[c] = "none"
    BY <1>1, <2>3 DEF QueueInv
  <2> QED BY <2>1, <2>5, <2>6, <2>7 DEF QueueInv
<1>9. CountInv'
  <2>1. \A c \in Conns : up'[c] => up[c] \/ c = n
    BY <1>1
  <2>2. \A c \in Conns : up'[c] => c \in Working' \/ Queued(c)' \/ InHand(c)'
    BY <1>5, <1>6, <1>7, <2>1 DEF CountInv
  <2> QED BY <1>1, <1>7, <2>2 DEF CountInv
<1> QED BY <1>4, <1>8, <1>9

LEMMA ServerStep == ServerInv /\ [Next]_vars => ServerInv'
<1> SUFFICES ASSUME ServerInv, [Next]_vars PROVE ServerInv'
  OBVIOUS
<1>1. CASE \/ \E c \in Conns : Disconnect(c)
           \/ \E k \in Clients : Read(k) \/ \E r \in Requests[k] : Send(k, r)
           \/ Over \/ UNCHANGED vars
  <2>1. UNCHANGED <<serverVars, handler, dialled>>
    BY <1>1 DEF Disconnect, Read, Receive, ReceiveFails, Send, Over, vars, handlerVars, clientVars
  <2>2. up' = up \/ \E c \in Conns : up' = [up EXCEPT ![c] = FALSE]
    BY <1>1 DEF Disconnect, Read, Receive, ReceiveFails, Send, Over, vars, wireVars
  <2>3. up' \in [Conns -> BOOLEAN] /\ \A c \in Conns : up'[c] => up[c]
    BY <2>2 DEF ServerInv, ServerTypeOK
  <2>4. Working' = Working
    BY <2>1 DEF Working
  <2> QED BY <2>1, <2>3, <2>4, ServerGoesOn DEF serverVars, ServerInv, ServerTypeOK, CountInv
<1> QED BY <1>1, HandlerStep, AcceptStep, CloseStep, DialStep DEF Next

LEMMA ServerInit == Init => ServerInv
<1> SUFFICES ASSUME Init PROVE ServerInv
  OBVIOUS
<1>1. Working = {} /\ \A c \in Conns : ~ Queued(c) /\ ~ InHand(c)
  BY DEF Init, Working, Queued, InHand
<1>2. Cardinality(Working) = 0
  BY <1>1, FS_EmptySet
<1>3. ServerTypeOK
  BY Constants DEF Init, ServerTypeOK
<1>4. QueueInv
  BY <1>1 DEF Init, QueueInv
<1>5. CountInv
  BY <1>1, <1>2 DEF Init, CountInv
<1> QED BY <1>3, <1>4, <1>5 DEF ServerInv

\* Rpc.CloseIsFinal (rpc.go:267-268) for any number of connections: Close waits for the
\* accept loop and for every handler it spawned, and what arrived meanwhile is closed.
THEOREM CloseLeavesNothing == Spec => []CloseIsFinal
<1>1. ServerInv => CloseIsFinal
  <2> SUFFICES ASSUME ServerInv, closer = "closed"
               PROVE  acceptor = "done" /\ conns = {}
                      /\ \A c \in Conns : ~ up[c] /\ handler[c] \in {"none", "done"}
    BY DEF CloseIsFinal
  <2>1. acceptor = "done" /\ Working = {} /\ backlog = <<>> /\ conns = {}
    BY DEF ServerInv, CountInv
  <2>2. \A c \in Conns : ~ Queued(c) /\ ~ InHand(c)
    BY <2>1 DEF Queued, InHand
  <2> QED BY <2>1, <2>2 DEF ServerInv, ServerTypeOK, CountInv, Working
<1> QED BY <1>1, ServerInit, ServerStep, PTL DEF Spec

-----------------------------------------------------------------------------
(* Loops, by induction: the first pass that breaks a claim does not exist. *)

LEMMA LeastOf ==
    ASSUME NEW S, S \subseteq Nat, S # {}
    PROVE  \E n \in S : \A k \in S : n <= k
<1>1. PICK n \in S : \A k \in S : ~ (<<k, n>> \in OpToRel(<, Nat))
  BY WFMin, NatLessThanWellFounded
<1>2. \A k \in S : ~ (k < n)
  BY <1>1 DEF OpToRel
<1> QED BY <1>2

\* A set of numbers that has 0 and with every number below N the next one, has them all.
LEMMA CountUp ==
    ASSUME NEW N \in Nat, NEW S, 0 \in S,
           \A k \in 1 .. N : k - 1 \in S => k \in S
    PROVE  \A k \in 0 .. N : k \in S
<1> DEFINE Bad == {k \in 0 .. N : k \notin S}
<1>1. SUFFICES ASSUME Bad # {} PROVE FALSE
  OBVIOUS
<1>2. Bad \subseteq Nat
  OBVIOUS
<1>3. PICK k \in Bad : \A l \in Bad : k <= l
  <2> HIDE DEF Bad
  <2> QED BY <1>1, <1>2, LeastOf
<1>4. k \in 1 .. N /\ k - 1 \in 0 .. N /\ ~ (k <= k - 1)
  BY <1>3
<1>5. k - 1 \in S
  BY <1>3, <1>4
<1> QED BY <1>3, <1>4, <1>5

\* A loop of N passes that starts from a and makes F[k][x] of x in pass k.
Passes(F, N, S) == F \in [1 .. N -> [S -> S]]

RunOf(g, F, N, S, a) ==
    g \in [0 .. N -> S] /\ g[0] = a /\ \A k \in 1 .. N : g[k] = F[k][g[k - 1]]

LEMMA LoopRuns ==
    ASSUME NEW N \in Nat, NEW S, NEW a \in S, NEW F, Passes(F, N, S)
    PROVE  \E g : RunOf(g, F, N, S, a)
<1> USE DEF Passes
<1> DEFINE Run(g, n) == g[0] = a /\ \A k \in 1 .. n : g[k] = F[k][g[k - 1]]
           Runs == {n \in 0 .. N : \E g \in [0 .. n -> S] : Run(g, n)}
<1>1. 0 \in Runs
  <2>1. [k \in 0 .. 0 |-> a] \in [0 .. 0 -> S] /\ Run([k \in 0 .. 0 |-> a], 0)
    OBVIOUS
  <2>2. 0 \in 0 .. N /\ \E f \in [0 .. 0 -> S] : Run(f, 0)
    <3> HIDE DEF Run
    <3> QED BY <2>1
  <2> HIDE DEF Run
  <2> QED BY <2>2
<1>2. ASSUME NEW n \in 1 .. N, n - 1 \in Runs PROVE n \in Runs
  <2>1. PICK g \in [0 .. (n - 1) -> S] : Run(g, n - 1)
    BY <1>2
  <2> DEFINE x == F[n][g[n - 1]]
             h == [k \in 0 .. n |-> IF k = n THEN x ELSE g[k]]
  <2>2. x \in S
    <3>1. n - 1 \in 0 .. (n - 1)
      OBVIOUS
    <3>2. g[n - 1] \in S
      BY <2>1, <3>1
    <3> QED BY <3>2
  <2>3. h \in [0 .. n -> S]
    BY <2>1, <2>2
  <2>4. h[0] = a
    BY <2>1
  <2>5. ASSUME NEW k \in 1 .. n PROVE h[k] = F[k][h[k - 1]]
    <3>1. h[k - 1] = g[k - 1]
      OBVIOUS
    <3>2. CASE k = n
      BY <3>1, <3>2
    <3>3. CASE k # n
      <4>1. k \in 1 .. (n - 1) /\ h[k] = g[k]
        BY <3>3
      <4> QED BY <2>1, <3>1, <4>1
    <3> QED BY <3>2, <3>3
  <2>6. Run(h, n)
    BY <2>4, <2>5
  <2>7. \E f \in [0 .. n -> S] : Run(f, n)
    <3> HIDE DEF Run, h
    <3> QED BY <2>3, <2>6
  <2>8. n \in 0 .. N
    OBVIOUS
  <2> HIDE DEF Run
  <2> QED BY <2>7, <2>8
<1>3. N \in 0 .. N
  OBVIOUS
<1>4. N \in Runs
  <2> HIDE DEF Runs
  <2> QED BY <1>1, <1>2, <1>3, CountUp
<1> QED BY <1>4 DEF RunOf

-----------------------------------------------------------------------------
(* Answers. The frames that a handler writes for a request are an answer   *)
(* to it; they reach the client in order, in part or as a whole, before    *)
(* the next request leaves it.                                             *)

Frames ==
    [kind : {"message"}, id : Nat] \cup [kind : {"end"}] \cup [kind : {"error"}, code : {"NotFound", "InvalidArgument"}]

\* Order i of os is one of the customer's, or anyone's will do.
Wanted(customer, i, os) == customer \in {Anyone, os[i].customer}

\* The messages before the last frame are one snapshot of the orders of r.
Snapshot(r, b, fs, os) ==
    \E n \in b .. Len(os) :
        /\ \A i \in 1 .. Len(fs) - 1 :
              /\ fs[i] = frameMessage(fs[i].id)
              /\ fs[i].id \in 1 .. n /\ Wanted(r.customer, fs[i].id, os)
              /\ \A j \in 1 .. Len(fs) - 1 : i < j => fs[i].id < fs[j].id
        /\ \A m \in 1 .. n : Wanted(r.customer, m, os) => \E i \in 1 .. Len(fs) - 1 : fs[i].id = m

\* fs is an answer to request r, made when there were b orders, now that there are os.
AnswerTo(r, b, fs, os) ==
    /\ fs \in Seq(Frames) /\ fs # <<>>
    /\ \/ /\ r.method = "GetOrder" /\ Len(fs) = 1
          /\ \/ fs[1] = frameMessage(r.id) /\ r.id \in 1 .. Len(os)
             \/ fs[1] = frameError("NotFound") /\ r.id \notin 1 .. b
       \/ /\ r.method = "CreateOrder" /\ Len(fs) = 1 /\ r.customer = Anyone
          /\ fs[1] = frameError("InvalidArgument")
       \/ /\ r.method = "CreateOrder" /\ Len(fs) = 1 /\ r.customer # Anyone
          /\ fs[1].kind = "message" /\ fs[1].id \in 1 .. Len(os)
          /\ os[fs[1].id].key = r.key
          /\ r.key = NoKey => fs[1].id > b /\ os[fs[1].id].customer = r.customer
       \/ /\ r.method = "WatchOrders" /\ fs[Len(fs)] = frameEnd
          /\ Snapshot(r, b, fs, os)

\* Of the frames fs the client has streamed g, the wire holds p and the handler o.
InFlight(g, p, o, fs) ==
    /\ g \in Seq(Nat) /\ {p, o, fs} \subseteq Seq(Frames)
    /\ Len(g) < Len(fs) /\ Len(g) + Len(p) + Len(o) <= Len(fs)
    /\ \A i \in 1 .. Len(g) : fs[i] = frameMessage(g[i])
    /\ \A i \in 1 .. Len(p) : p[i] = fs[Len(g) + i]
    /\ \A i \in 1 .. Len(o) : o[i] = fs[Len(g) + Len(p) + i]

ClientTypeOK ==
    /\ replies \in [Conns -> Seq(Frames)] /\ out \in [Conns -> Seq(Frames)]
    /\ call \in [Clients -> Reqs \cup {NoCall}]
    /\ began \in [Clients -> Nat] /\ got \in [Clients -> Seq(Nat)]

\* Clients have connections of their own. One that nobody has dialled is empty, and a
\* handler that flushes has something to flush.
LinkInv ==
    /\ \A k \in Clients : conn[k] <= dialled /\ (call[k] # NoCall => conn[k] # 0)
    /\ \A k, l \in Clients : conn[k] = conn[l] /\ conn[k] # 0 => k = l
    /\ \A c \in Conns :
          /\ c > dialled => requests[c] = <<>> /\ replies[c] = <<>> /\ out[c] = <<>>
          /\ handler[c] = "flush" => out[c] # <<>>

\* The request waits, or was lost, and there is nothing to read.
Unanswered(k) ==
    /\ replies[conn[k]] = <<>> /\ out[conn[k]] = <<>> /\ got[k] = <<>>
    /\ requests[conn[k]] = <<>> \/ (call[k] # NoCall /\ requests[conn[k]] = <<call[k]>>)

\* An answer to the request is on its way.
Answering(k) ==
    /\ call[k] # NoCall /\ requests[conn[k]] = <<>>
    /\ \E fs : AnswerTo(call[k], began[k], fs, orders)
               /\ InFlight(got[k], replies[conn[k]], out[conn[k]], fs)

\* Of a client's call: it began with at most the orders of now, and there is nothing to
\* read for it, or an answer to it.
CallOK(k) ==
    /\ began[k] <= Len(orders)
    /\ call[k] = NoCall => got[k] = <<>>
    /\ conn[k] # 0 /\ conn[k] \notin unread => Unanswered(k) \/ Answering(k)

AnswerInv == ClientTypeOK /\ LinkInv /\ \A k \in Clients : CallOK(k)

\* The store later on: orders are only added.
Grown(os, later) ==
    /\ {os, later} \subseteq Seq(OrderRecords) /\ Len(os) <= Len(later)
    /\ \A i \in 1 .. Len(os) : later[i] = os[i]

LEMMA AnswerStays ==
    ASSUME NEW r, NEW b \in Nat, NEW fs, NEW os, NEW later,
           AnswerTo(r, b, fs, os), Grown(os, later)
    PROVE  AnswerTo(r, b, fs, later)
<1>1. Len(os) \in Nat /\ Len(later) \in Nat
  BY DEF Grown
<1>2. 1 .. Len(os) \subseteq 1 .. Len(later)
  BY <1>1 DEF Grown
<1>3. ASSUME Snapshot(r, b, fs, os) PROVE Snapshot(r, b, fs, later)
  <2>1. PICK n \in b .. Len(os) :
           /\ \A i \in 1 .. Len(fs) - 1 :
                 /\ fs[i] = frameMessage(fs[i].id)
                 /\ fs[i].id \in 1 .. n /\ Wanted(r.customer, fs[i].id, os)
                 /\ \A j \in 1 .. Len(fs) - 1 : i < j => fs[i].id < fs[j].id
           /\ \A m \in 1 .. n : Wanted(r.customer, m, os) => \E i \in 1 .. Len(fs) - 1 : fs[i].id = m
    BY <1>3 DEF Snapshot
  <2>2. n \in b .. Len(later) /\ 1 .. n \subseteq 1 .. Len(os)
    BY <1>1 DEF Grown
  <2>3. \A m \in 1 .. n : Wanted(r.customer, m, later) <=> Wanted(r.customer, m, os)
    BY <2>2 DEF Grown, Wanted
  <2> HIDE DEF Wanted
  <2>4. \A i \in 1 .. Len(fs) - 1 :
           /\ fs[i] = frameMessage(fs[i].id)
           /\ fs[i].id \in 1 .. n /\ Wanted(r.customer, fs[i].id, later)
           /\ \A j \in 1 .. Len(fs) - 1 : i < j => fs[i].id < fs[j].id
    BY <2>1, <2>3
  <2>5. \A m \in 1 .. n : Wanted(r.customer, m, later) => \E i \in 1 .. Len(fs) - 1 : fs[i].id = m
    BY <2>1, <2>3
  <2> QED BY <2>2, <2>4, <2>5 DEF Snapshot
<1> HIDE DEF Snapshot
<1>4. ASSUME NEW i \in 1 .. Len(os) PROVE later[i] = os[i] /\ i \in 1 .. Len(later)
  BY <1>2 DEF Grown
<1>5. CASE r.method = "WatchOrders"
  BY <1>3, <1>5 DEF AnswerTo
<1>6. CASE r.method = "GetOrder"
  BY <1>2, <1>6 DEF AnswerTo
<1>7. CASE r.method = "CreateOrder"
  BY <1>4, <1>7 DEF AnswerTo
<1> QED BY <1>5, <1>6, <1>7 DEF AnswerTo

\* The handler's writer passes its first frame on.
LEMMA FlightFlush ==
    ASSUME NEW g, NEW p, NEW o, NEW fs, InFlight(g, p, o, fs), o # <<>>
    PROVE  InFlight(g, Append(p, Head(o)), Tail(o), fs)
<1> DEFINE q == Append(p, Head(o))
           t == Tail(o)
<1>1. /\ g \in Seq(Nat) /\ p \in Seq(Frames) /\ o \in Seq(Frames) /\ fs \in Seq(Frames)
      /\ Len(g) \in Nat /\ Len(p) \in Nat /\ Len(o) \in Nat /\ Len(fs) \in Nat
  BY DEF InFlight
<1>2. /\ q \in Seq(Frames) /\ Len(q) = Len(p) + 1 /\ q[Len(p) + 1] = o[1]
      /\ \A i \in 1 .. Len(p) : q[i] = p[i]
      /\ Len(o) >= 1
  BY <1>1
<1>3. /\ t \in Seq(Frames) /\ Len(t) = Len(o) - 1
      /\ \A i \in 1 .. Len(t) : t[i] = o[i + 1]
  BY <1>1
<1> HIDE DEF q, t
<1>4. ASSUME NEW i \in 1 .. Len(q) PROVE q[i] = fs[Len(g) + i]
  <2>1. CASE i \in 1 .. Len(p)
    BY <1>2, <2>1 DEF InFlight
  <2>2. CASE i = Len(p) + 1
    <3>1. o[1] = fs[Len(g) + Len(p) + 1]
      BY <1>1, <1>2 DEF InFlight
    <3>2. Len(g) + Len(p) + 1 = Len(g) + (Len(p) + 1)
      BY <1>1
    <3> QED BY <1>2, <2>2, <3>1, <3>2
  <2> QED BY <1>1, <1>2, <2>1, <2>2
<1>5. ASSUME NEW i \in 1 .. Len(t) PROVE t[i] = fs[Len(g) + Len(q) + i]
  <2>1. i + 1 \in 1 .. Len(o) /\ Len(g) + Len(p) + (i + 1) = Len(g) + Len(q) + i
    BY <1>1, <1>2, <1>3
  <2>2. o[i + 1] = fs[Len(g) + Len(p) + (i + 1)]
    BY <2>1 DEF InFlight
  <2> QED BY <1>3, <2>1, <2>2
<1>6. Len(g) < Len(fs) /\ Len(g) + Len(q) + Len(t) <= Len(fs)
  BY <1>1, <1>2, <1>3 DEF InFlight
<1>7. \A i \in 1 .. Len(g) : fs[i] = frameMessage(g[i])
  BY DEF InFlight
<1>8. InFlight(g, q, t, fs)
  BY <1>1, <1>2, <1>3, <1>4, <1>5, <1>6, <1>7 DEF InFlight
<1> QED BY <1>8 DEF q, t

\* The client streams the next frame, which is not the last.
LEMMA FlightTake ==
    ASSUME NEW g, NEW p, NEW o, NEW fs, NEW x \in Nat,
           InFlight(g, p, o, fs), p # <<>>, Head(p) = frameMessage(x), fs[Len(fs)] = frameEnd
    PROVE  InFlight(Append(g, x), Tail(p), o, fs)
<1> DEFINE h == Append(g, x)
           t == Tail(p)
<1>1. /\ g \in Seq(Nat) /\ p \in Seq(Frames) /\ o \in Seq(Frames) /\ fs \in Seq(Frames)
      /\ Len(g) \in Nat /\ Len(p) \in Nat /\ Len(o) \in Nat /\ Len(fs) \in Nat
  BY DEF InFlight
<1>2. /\ h \in Seq(Nat) /\ Len(h) = Len(g) + 1 /\ h[Len(g) + 1] = x
      /\ \A i \in 1 .. Len(g) : h[i] = g[i]
  BY <1>1
<1>3. /\ t \in Seq(Frames) /\ Len(t) = Len(p) - 1 /\ Len(p) >= 1 /\ p[1] = frameMessage(x)
      /\ \A i \in 1 .. Len(t) : t[i] = p[i + 1]
  BY <1>1
<1> HIDE DEF h, t
<1>4. fs[Len(g) + 1] = frameMessage(x)
  BY <1>1, <1>3 DEF InFlight
<1>5. Len(g) + 1 # Len(fs)
  BY <1>4 DEF frameMessage, frameEnd
<1>6. Len(h) < Len(fs) /\ Len(h) + Len(t) + Len(o) <= Len(fs)
  BY <1>1, <1>2, <1>3, <1>5 DEF InFlight
<1>7. ASSUME NEW i \in 1 .. Len(h) PROVE fs[i] = frameMessage(h[i])
  <2>1. CASE i \in 1 .. Len(g)
    BY <1>2, <2>1 DEF InFlight
  <2>2. CASE i = Len(g) + 1
    BY <1>2, <1>4, <2>2
  <2> QED BY <1>1, <1>2, <2>1, <2>2
<1>8. ASSUME NEW i \in 1 .. Len(t) PROVE t[i] = fs[Len(h) + i]
  <2>1. i + 1 \in 1 .. Len(p) /\ Len(g) + (i + 1) = Len(h) + i
    BY <1>1, <1>2, <1>3
  <2>2. p[i + 1] = fs[Len(g) + (i + 1)]
    BY <2>1 DEF InFlight
  <2> QED BY <1>3, <2>1, <2>2
<1>9. ASSUME NEW i \in 1 .. Len(o) PROVE o[i] = fs[Len(h) + Len(t) + i]
  <2>1. Len(h) + Len(t) + i = Len(g) + Len(p) + i
    BY <1>1, <1>2, <1>3
  <2> QED BY <2>1 DEF InFlight
<1>10. InFlight(h, t, o, fs)
  BY <1>1, <1>2, <1>3, <1>6, <1>7, <1>8, <1>9 DEF InFlight
<1> QED BY <1>10 DEF h, t

\* An answer is written; the connection breaks before the rest of it leaves the writer.
LEMMA FlightEnds ==
    ASSUME NEW g, NEW p, NEW o, NEW fs
    PROVE  /\ fs \in Seq(Frames) /\ fs # <<>> => InFlight(<<>>, <<>>, fs, fs)
           /\ InFlight(g, p, o, fs) => InFlight(g, p, <<>>, fs)
<1>1. ASSUME fs \in Seq(Frames), fs # <<>> PROVE InFlight(<<>>, <<>>, fs, fs)
  <2>1. Len(fs) \in Nat /\ 0 < Len(fs) /\ Len(<<>>) = 0
    BY <1>1
  <2>2. \A i \in 1 .. Len(fs) : 0 + 0 + i = i
    OBVIOUS
  <2> QED BY <1>1, <2>1, <2>2 DEF InFlight
<1>2. ASSUME InFlight(g, p, o, fs) PROVE InFlight(g, p, <<>>, fs)
  <2>1. Len(g) \in Nat /\ Len(p) \in Nat /\ Len(o) \in Nat /\ Len(fs) \in Nat
    BY <1>2 DEF InFlight
  <2> QED BY <1>2, <2>1 DEF InFlight
<1> QED BY <1>1, <1>2

\* ids are those of the customer's orders among the first n, in order.
Listed(ids, customer, n) ==
    /\ ids \in Seq(Nat)
    /\ \A i \in 1 .. Len(ids) :
          /\ ids[i] \in 1 .. n /\ Wanted(customer, ids[i], orders)
          /\ \A j \in 1 .. Len(ids) : i < j => ids[i] < ids[j]
    /\ \A m \in 1 .. n : Wanted(customer, m, orders) => \E i \in 1 .. Len(ids) : ids[i] = m

\* A pass of ListByCustomer's loop.
ListPass(ids, customer, n) == IF Wanted(customer, n, orders) THEN Append(ids, n) ELSE ids

LEMMA ListPassLists ==
    ASSUME NEW ids, NEW customer, NEW n \in Nat \ {0}, Listed(ids, customer, n - 1)
    PROVE  Listed(ListPass(ids, customer, n), customer, n)
<1> USE DEF Listed
<1>0. Len(ids) \in Nat /\ 1 .. (n - 1) \subseteq 1 .. n /\ n \in 1 .. n /\ ~ (n <= n - 1)
  OBVIOUS
<1> HIDE DEF Wanted
<1>1. CASE Wanted(customer, n, orders)
  <2> DEFINE a == Append(ids, n)
             l == Len(ids) + 1
  <2>1. /\ a \in Seq(Nat) /\ Len(a) = l /\ a[l] = n /\ l \in 1 .. l
        /\ \A i \in 1 .. Len(ids) : a[i] = ids[i] /\ i \in 1 .. l
        /\ \A i \in 1 .. l : i \in 1 .. Len(ids) \/ i = l
    BY <1>0
  <2> HIDE DEF a
  <2>2. \A i \in 1 .. Len(ids) : ids[i] \in Nat /\ ids[i] < n
    BY <1>0
  <2>3. ASSUME NEW i \in 1 .. l, NEW j \in 1 .. l, i < j PROVE a[i] < a[j]
    <3>1. i \in 1 .. Len(ids)
      BY <1>0, <2>3
    <3> QED BY <2>1, <2>2, <2>3, <3>1
  <2>4. \A i \in 1 .. l : a[i] \in 1 .. n /\ Wanted(customer, a[i], orders)
    BY <1>0, <1>1, <2>1
  <2>5. ASSUME NEW m \in 1 .. n, Wanted(customer, m, orders) PROVE \E i \in 1 .. l : a[i] = m
    <3>1. CASE m = n
      BY <2>1, <3>1
    <3>2. CASE m # n
      <4>1. m \in 1 .. (n - 1)
        BY <3>2
      <4> QED BY <2>1, <2>5, <4>1
    <3> QED BY <3>1, <3>2
  <2>6. Listed(a, customer, n)
    BY <2>1, <2>3, <2>4, <2>5
  <2> QED BY <1>1, <2>6 DEF ListPass, a
<1>2. CASE ~ Wanted(customer, n, orders)
  <2>1. \A m \in 1 .. n : Wanted(customer, m, orders) => m \in 1 .. (n - 1)
    BY <1>2
  <2>2. Listed(ids, customer, n)
    BY <1>0, <2>1
  <2> QED BY <1>2, <2>2 DEF ListPass
<1> QED BY <1>1, <1>2

LEMMA ListUpToLists ==
    ASSUME NEW customer, NEW N \in Nat
    PROVE  Listed(ListUpTo(customer, N), customer, N)
<1> DEFINE none == <<>>
           States == Seq(Nat)
           F == [n \in 1 .. N |-> [v \in States |-> ListPass(v, customer, n)]]
           ids == CHOOSE p : p = [i \in 0 .. N |->
                      IF i = 0 THEN none ELSE ListPass(p[i - 1], customer, i)]
<1>1. ListUpTo(customer, N) = ids[N]
  BY DEF ListUpTo, ListPass, Wanted
<1>2. none \in States
  OBVIOUS
<1>3. ASSUME NEW n \in 1 .. N, NEW v \in States PROVE ListPass(v, customer, n) \in States
  BY DEF ListPass
<1> HIDE DEF none, States, ListPass
<1>4. Passes(F, N, States)
  BY <1>3 DEF Passes
<1>5. PICK g : RunOf(g, F, N, States, none)
  <2> HIDE DEF F
  <2> QED BY <1>2, <1>4, LoopRuns
<1>6. g \in [0 .. N -> States] /\ g[0] = none
      /\ \A n \in 1 .. N : g[n] = ListPass(g[n - 1], customer, n)
  <2>1. g \in [0 .. N -> States] /\ g[0] = none /\ \A n \in 1 .. N : g[n] = F[n][g[n - 1]]
    <3> HIDE DEF F
    <3> QED BY <1>5 DEF RunOf
  <2>2. ASSUME NEW n \in 1 .. N PROVE g[n] = ListPass(g[n - 1], customer, n)
    <3>1. n - 1 \in 0 .. N
      OBVIOUS
    <3>2. g[n - 1] \in States
      BY <2>1, <3>1
    <3> QED BY <2>1, <3>2
  <2> QED BY <2>1, <2>2
<1> HIDE DEF F
<1>7. g = [i \in 0 .. N |-> IF i = 0 THEN none ELSE ListPass(g[i - 1], customer, i)]
  <2>1. \A n \in 0 .. N : n # 0 => n \in 1 .. N
    OBVIOUS
  <2> QED BY <1>6, <2>1
<1>8. ids = [i \in 0 .. N |-> IF i = 0 THEN none ELSE ListPass(ids[i - 1], customer, i)]
  BY <1>7
<1> HIDE DEF ids
<1> DEFINE S == {n \in 0 .. N : Listed(ids[n], customer, n)}
<1>9. 0 \in S
  <2>1. 0 \in 0 .. N
    OBVIOUS
  <2>2. ids[0] = none
    BY <1>8, <2>1
  <2>3. Listed(none, customer, 0)
    BY DEF Listed, none
  <2> QED BY <2>1, <2>2, <2>3
<1>10. ASSUME NEW n \in 1 .. N, n - 1 \in S PROVE n \in S
  <2>1. n \in 0 .. N /\ n # 0 /\ n \in Nat \ {0}
    OBVIOUS
  <2>2. ids[n] = ListPass(ids[n - 1], customer, n)
    BY <1>8, <2>1
  <2>3. Listed(ids[n - 1], customer, n - 1)
    BY <1>10
  <2>4. Listed(ids[n], customer, n)
    BY <2>1, <2>2, <2>3, ListPassLists
  <2> QED BY <2>1, <2>4
<1>11. N \in S
  <2>1. N \in 0 .. N
    OBVIOUS
  <2> HIDE DEF S
  <2> QED BY <1>9, <1>10, <2>1, CountUp
<1> QED BY <1>1, <1>11

StreamOf(ids) == Append([i \in DOMAIN ids |-> frameMessage(ids[i])], frameEnd)

\* What WatchOrders writes is a snapshot, up to date with any number of orders so far.
LEMMA StreamIsSnapshot ==
    ASSUME StoreInv, NEW r, NEW b \in Nat, b <= Len(orders), NEW ids, NEW fs,
           Listed(ids, r.customer, Len(orders)),
           fs = StreamOf(ids)
    PROVE  /\ fs \in Seq(Frames) /\ fs # <<>> /\ fs[Len(fs)] = frameEnd
           /\ Snapshot(r, b, fs, orders)
<1> DEFINE ms == [i \in DOMAIN ids |-> frameMessage(ids[i])]
           l == Len(ids)
<1>1. l \in Nat /\ DOMAIN ids = 1 .. l /\ \A i \in 1 .. l : ids[i] \in Nat
  BY DEF Listed
<1>2. ms \in Seq(Frames) /\ Len(ms) = l /\ \A i \in 1 .. l : ms[i] = frameMessage(ids[i])
  <2>1. \A i \in 1 .. l : frameMessage(ids[i]) \in Frames
    BY <1>1 DEF frameMessage, Frames
  <2>2. ms \in [1 .. l -> Frames]
    BY <1>1, <2>1
  <2> HIDE DEF Frames
  <2>3. ms \in Seq(Frames)
    BY <1>1, <2>2
  <2>4. Len(ms) = l
    BY <1>1, <2>2, <2>3
  <2> QED BY <1>1, <2>3, <2>4
<1>3. frameEnd \in Frames
  BY DEF frameEnd, Frames
<1> HIDE DEF ms
<1>4. /\ fs \in Seq(Frames) /\ Len(fs) = l + 1 /\ fs[l + 1] = frameEnd /\ Len(fs) - 1 = l
      /\ \A i \in 1 .. l : fs[i] = frameMessage(ids[i])
  <2>1. fs = Append(ms, frameEnd)
    BY DEF ms, StreamOf
  <2> QED BY <1>1, <1>2, <1>3, <2>1
<1>5. \A i \in 1 .. l : fs[i] = frameMessage(fs[i].id) /\ fs[i].id = ids[i]
  <2>1. \A x : frameMessage(x).id = x
    BY DEF frameMessage
  <2> QED BY <1>4, <2>1
<1>6. Len(orders) \in Nat
  BY DEF StoreInv
<1>7. Len(orders) \in b .. Len(orders)
  BY <1>6
<1>8. ASSUME NEW i \in 1 .. Len(fs) - 1
      PROVE  /\ fs[i] = frameMessage(fs[i].id)
             /\ fs[i].id \in 1 .. Len(orders) /\ Wanted(r.customer, fs[i].id, orders)
             /\ \A j \in 1 .. Len(fs) - 1 : i < j => fs[i].id < fs[j].id
  <2> HIDE DEF Wanted
  <2>1. i \in 1 .. l
    BY <1>4
  <2>2. /\ ids[i] \in 1 .. Len(orders) /\ Wanted(r.customer, ids[i], orders)
        /\ \A j \in 1 .. l : i < j => ids[i] < ids[j]
    BY <2>1 DEF Listed
  <2> QED BY <1>4, <1>5, <2>1, <2>2
<1>9. ASSUME NEW m \in 1 .. Len(orders), Wanted(r.customer, m, orders)
      PROVE  \E i \in 1 .. Len(fs) - 1 : fs[i].id = m
  <2>1. PICK i \in 1 .. l : ids[i] = m
    BY <1>9 DEF Listed
  <2> QED BY <1>4, <1>5, <2>1
<1>10. Snapshot(r, b, fs, orders)
  BY <1>7, <1>8, <1>9 DEF Snapshot
<1>11. fs # <<>>
  BY <1>1, <1>4
<1> QED BY <1>4, <1>10, <1>11

LEMMA SingleFrame ==
    ASSUME NEW f \in Frames
    PROVE  <<f>> \in Seq(Frames) /\ <<f>> # <<>> /\ Len(<<f>>) = 1 /\ <<f>>[1] = f
OBVIOUS

\* What dispatch writes answers the request.
LEMMA dispatchAnswers ==
    ASSUME StoreInv, StoreInv', NEW c \in Conns, NEW r \in Reqs, NEW b \in Nat, b <= Len(orders),
           dispatch(c, r)
    PROVE  \E fs : out' = [out EXCEPT ![c] = fs] /\ AnswerTo(r, b, fs, orders')
<1>0. /\ orders \in Seq(OrderRecords) /\ Len(orders) \in Nat
      /\ DOMAIN orders = 1 .. Len(orders)
  BY DEF StoreInv
<1>1. CASE r.method = "GetOrder"
  <2>1. r.id \in Nat
    BY <1>1 DEF Reqs
  <2>2. GetOrder(c, r.id)
    BY <1>1 DEF dispatch
  <2> DEFINE f == IF r.id \in DOMAIN orders THEN frameMessage(r.id) ELSE frameError("NotFound")
  <2>3. f \in Frames
    BY <2>1 DEF Frames, frameMessage, frameError
  <2>4. \/ f = frameMessage(r.id) /\ r.id \in 1 .. Len(orders)
        \/ f = frameError("NotFound") /\ r.id \notin 1 .. b
    <3>1. 1 .. b \subseteq 1 .. Len(orders)
      BY <1>0
    <3> QED BY <1>0, <3>1
  <2>5. out' = [out EXCEPT ![c] = <<f>>] /\ orders' = orders
    BY <2>2 DEF GetOrder, Write, storeVars
  <2> HIDE DEF f
  <2>6. AnswerTo(r, b, <<f>>, orders')
    BY <1>1, <2>3, <2>4, <2>5, SingleFrame DEF AnswerTo
  <2> QED BY <2>5, <2>6
<1>2. CASE r.method = "CreateOrder"
  <2>1. r.customer \in Customers \cup {Anyone} /\ r.key \in Keys \cup {NoKey}
    BY <1>2 DEF Reqs
  <2>2. CreateOrder(c, r.customer, r.key)
    BY <1>2 DEF dispatch
  <2>3. CASE r.customer = Anyone
    <3> DEFINE f == frameError("InvalidArgument")
    <3>1. f \in Frames
      BY DEF Frames, frameError
    <3>2. out' = [out EXCEPT ![c] = <<f>>]
      BY <2>2, <2>3 DEF CreateOrder, Write
    <3>3. AnswerTo(r, b, <<f>>, orders')
      BY <1>2, <2>3, <3>1, SingleFrame DEF AnswerTo
    <3> QED BY <3>2, <3>3
  <2>4. CASE r.customer # Anyone
    <3>1. \E n \in 1 .. Len(orders') :
             /\ out' = [out EXCEPT ![c] = <<frameMessage(n)>>]
             /\ orders'[n].key = r.key
             /\ r.key = NoKey => n > b /\ orders'[n].customer = r.customer
      <4>1. CASE r.key # NoKey /\ byIdempotencyKey[r.key] # 0
        <5> DEFINE n == byIdempotencyKey[r.key]
        <5>1. out' = [out EXCEPT ![c] = <<frameMessage(n)>>] /\ orders' = orders
          BY <2>2, <2>4, <4>1 DEF CreateOrder, Write, storeVars
        <5>2. n \in 1 .. Len(orders) /\ orders[n].key = r.key
          BY <1>0, <2>1, <4>1 DEF StoreInv
        <5> HIDE DEF n
        <5> QED BY <4>1, <5>1, <5>2
      <4>2. CASE ~ (r.key # NoKey /\ byIdempotencyKey[r.key] # 0)
        <5> DEFINE n == Len(orders) + 1
                   o == [customer |-> r.customer, key |-> r.key]
        <5>1. orders' = Append(orders, o) /\ out' = [out EXCEPT ![c] = <<frameMessage(n)>>]
          BY <2>2, <2>4, <4>2 DEF CreateOrder, Write
        <5>2. o \in OrderRecords
          BY <2>1, <2>4 DEF OrderRecords
        <5>3. n \in 1 .. Len(orders') /\ orders'[n] = o /\ n > b
          BY <1>0, <5>1, <5>2
        <5>4. orders'[n].key = r.key /\ orders'[n].customer = r.customer
          BY <5>3
        <5> HIDE DEF n, o
        <5> QED BY <5>1, <5>3, <5>4
      <4> QED BY <4>1, <4>2
    <3>2. PICK n \in 1 .. Len(orders') :
             /\ out' = [out EXCEPT ![c] = <<frameMessage(n)>>]
             /\ orders'[n].key = r.key
             /\ r.key = NoKey => n > b /\ orders'[n].customer = r.customer
      BY <3>1
    <3> DEFINE f == frameMessage(n)
    <3>3. f \in Frames /\ f.kind = "message" /\ f.id = n
      BY DEF frameMessage, Frames
    <3> HIDE DEF f
    <3>4. AnswerTo(r, b, <<f>>, orders')
      BY <1>2, <2>4, <3>2, <3>3, SingleFrame DEF AnswerTo
    <3> QED BY <3>2, <3>4 DEF f
  <2> QED BY <2>3, <2>4
<1>3. CASE r.method = "WatchOrders"
  <2> DEFINE ids == ListByCustomer(r.customer)
             fs == StreamOf(ids)
  <2>1. Listed(ids, r.customer, Len(orders))
    BY <1>0, ListUpToLists DEF ListByCustomer
  <2>2. out' = [out EXCEPT ![c] = fs] /\ orders' = orders
    BY <1>3 DEF dispatch, WatchOrders, Write, storeVars, StreamOf
  <2> HIDE DEF ids
  <2>3. /\ fs \in Seq(Frames) /\ fs # <<>> /\ fs[Len(fs)] = frameEnd
        /\ Snapshot(r, b, fs, orders)
    BY <2>1, StreamIsSnapshot
  <2> HIDE DEF fs, Snapshot
  <2>4. AnswerTo(r, b, fs, orders')
    BY <1>3, <2>2, <2>3 DEF AnswerTo
  <2> QED BY <2>2, <2>4
<1> QED BY <1>1, <1>2, <1>3 DEF dispatch

\* A frame that ends the call is the last of the answer, and nothing follows it.
LEMMA LastFrame ==
    ASSUME NEW r, NEW b, NEW os, NEW g, NEW p, NEW o, NEW fs,
           AnswerTo(r, b, fs, os), InFlight(g, p, o, fs), p # <<>>,
           ~ (r.method = "WatchOrders" /\ Head(p).kind = "message")
    PROVE  /\ Head(p) = fs[Len(fs)] /\ Len(g) = Len(fs) - 1
           /\ Tail(p) = <<>> /\ o = <<>>
<1>1. /\ g \in Seq(Nat) /\ p \in Seq(Frames) /\ o \in Seq(Frames) /\ fs \in Seq(Frames)
      /\ Len(g) \in Nat /\ Len(p) \in Nat /\ Len(o) \in Nat /\ Len(fs) \in Nat
      /\ Len(p) >= 1 /\ Head(p) = p[1] /\ Len(Tail(p)) = Len(p) - 1 /\ Tail(p) \in Seq(Frames)
  BY DEF InFlight
<1>2. Head(p) = fs[Len(g) + 1] /\ Len(g) + 1 <= Len(fs)
  BY <1>1 DEF InFlight
<1>3. Len(g) + 1 = Len(fs)
  <2>1. CASE r.method = "WatchOrders"
    <3>1. Snapshot(r, b, fs, os)
      BY <2>1 DEF AnswerTo
    <3>2. \A i \in 1 .. Len(fs) - 1 : fs[i].kind = "message"
      <4>1. \A x : frameMessage(x).kind = "message"
        BY DEF frameMessage
      <4>2. \A i \in 1 .. Len(fs) - 1 : fs[i] = frameMessage(fs[i].id)
        BY <3>1 DEF Snapshot
      <4> QED BY <4>1, <4>2
    <3>3. Len(g) + 1 \notin 1 .. Len(fs) - 1
      BY <1>2, <2>1, <3>2
    <3> QED BY <1>1, <1>2, <3>3
  <2>2. CASE r.method # "WatchOrders"
    <3>1. Len(fs) = 1
      BY <2>2 DEF AnswerTo
    <3> QED BY <1>1, <1>2, <3>1
  <2> QED BY <2>1, <2>2
<1>4. Len(p) = 1 /\ Len(o) = 0
  BY <1>1, <1>3 DEF InFlight
<1>5. Tail(p) = <<>> /\ o = <<>>
  <2>1. \A s \in Seq(Frames) : Len(s) = 0 => s = <<>>
    OBVIOUS
  <2> DEFINE t == Tail(p)
  <2>2. t \in Seq(Frames) /\ Len(t) = 0
    BY <1>1, <1>4
  <2> HIDE DEF t
  <2>3. t = <<>> /\ o = <<>>
    BY <1>1, <1>4, <2>1, <2>2
  <2> QED BY <2>3 DEF t
<1> QED BY <1>1, <1>2, <1>3, <1>5

LEMMA OrdersGrow ==
    ASSUME WireInv, StoreInv, StoreInv', [Next]_vars PROVE Grown(orders, orders')
<1>1. orders \in Seq(OrderRecords) /\ orders' \in Seq(OrderRecords)
  BY DEF StoreInv
<1>2. orders' = orders \/ \E o : orders' = Append(orders, o)
  BY DEF Next, handle, Serve, dispatch, GetOrder, CreateOrder, WatchOrders, FlushFrame,
     untrackConn, AcceptLoop, Accept, AcceptReturns, AcceptFails, AcceptBreaks,
     trackConn, Spawn, Close, Signal, CloseListener, CloseConns, Wait,
     Disconnect, Over, Dial, Read, Receive, ReceiveFails, Send, vars, storeVars
<1>3. CASE orders' = orders
  BY <1>1, <1>3 DEF Grown
<1>4. ASSUME NEW o, orders' = Append(orders, o) PROVE Grown(orders, orders')
  <2>1. Len(orders) \in Nat /\ Len(orders') = Len(orders) + 1
        /\ \A i \in 1 .. Len(orders) : orders'[i] = orders[i]
    BY <1>1, <1>4
  <2> QED BY <1>1, <2>1 DEF Grown
<1> QED BY <1>2, <1>3, <1>4

\* A client whose call and connection a step leaves alone.
LEMMA Bystander ==
    ASSUME NEW k \in Clients, WireInv, AnswerInv, Grown(orders, orders'),
           conn'[k] = conn[k], call'[k] = call[k], began'[k] = began[k], got'[k] = got[k],
           unread \subseteq unread',
           conn[k] # 0 => /\ replies'[conn[k]] = replies[conn[k]]
                          /\ requests'[conn[k]] = requests[conn[k]]
                          /\ out'[conn[k]] = out[conn[k]]
    PROVE  CallOK(k)'
<1>1. CallOK(k) /\ began[k] \in Nat
  BY DEF AnswerInv, ClientTypeOK
<1>2. Len(orders) \in Nat /\ Len(orders') \in Nat /\ Len(orders) <= Len(orders')
  BY DEF Grown
<1>3. began'[k] <= Len(orders') /\ (call'[k] = NoCall => got'[k] = <<>>)
  BY <1>1, <1>2 DEF CallOK
<1>4. ASSUME conn'[k] # 0, conn'[k] \notin unread' PROVE (Unanswered(k) \/ Answering(k))'
  <2>1. Unanswered(k) \/ Answering(k)
    BY <1>1, <1>4 DEF CallOK
  <2>2. Unanswered(k) => Unanswered(k)'
    BY <1>4 DEF Unanswered
  <2>3. ASSUME Answering(k) PROVE Answering(k)'
    <3>1. PICK fs : AnswerTo(call[k], began[k], fs, orders)
                    /\ InFlight(got[k], replies[conn[k]], out[conn[k]], fs)
      BY <2>3 DEF Answering
    <3>2. AnswerTo(call[k], began[k], fs, orders')
      BY <1>1, <3>1, AnswerStays
    <3> QED BY <1>4, <2>3, <3>1, <3>2 DEF Answering
  <2> QED BY <2>1, <2>2, <2>3
<1> QED BY <1>3, <1>4 DEF CallOK

\* The server's own steps touch no frame and no call.
LEMMA AnswerIdle ==
    ASSUME WireInv, AnswerInv, Grown(orders, orders'),
           UNCHANGED <<requests, replies, out, clientVars>>,
           \A c \in Conns : handler'[c] = "flush" => handler[c] = "flush"
    PROVE  AnswerInv'
<1>1. ClientTypeOK' /\ LinkInv'
  BY DEF AnswerInv, ClientTypeOK, LinkInv, clientVars
<1>2. \A k \in Clients : CallOK(k)'
  BY Bystander DEF clientVars
<1> QED BY <1>1, <1>2 DEF AnswerInv

LEMMA AnswerServe ==
    ASSUME WireInv, StoreInv, StoreInv', ServerInv, AnswerInv, Grown(orders, orders'),
           NEW c \in Conns, Serve(c)
    PROVE  AnswerInv'
<1> DEFINE r == Head(requests[c])
<1>1. /\ handler[c] = "read" /\ requests[c] # <<>> /\ dispatch(c, r)
      /\ requests' = [requests EXCEPT ![c] = Tail(requests[c])]
      /\ handler' = [handler EXCEPT ![c] = "flush"]
      /\ UNCHANGED <<replies, conn, call, began, got, dialled, unread>>
  BY DEF Serve, clientVars
<1>2. requests[c] \in Seq(Reqs) /\ r \in Reqs /\ requests \in [Conns -> Seq(Reqs)]
  BY <1>1 DEF WireInv
<1>3. c <= dialled /\ handler \in [Conns -> {"none", "read", "flush", "done"}]
  BY <1>1 DEF ServerInv, ServerTypeOK, QueueInv, Conns
<1>4. /\ out \in [Conns -> Seq(Frames)] /\ Len(orders) \in Nat
      /\ ClientTypeOK /\ LinkInv
  BY DEF AnswerInv, ClientTypeOK, StoreInv
<1> HIDE DEF r
<1>5. PICK fs : out' = [out EXCEPT ![c] = fs] /\ fs \in Seq(Frames) /\ fs # <<>>
  <2>1. 0 \in Nat /\ 0 <= Len(orders)
    BY <1>4
  <2>2. PICK fs : out' = [out EXCEPT ![c] = fs] /\ AnswerTo(r, 0, fs, orders')
    BY <1>1, <1>2, <2>1, dispatchAnswers
  <2> QED BY <2>2 DEF AnswerTo
<1>6. ClientTypeOK'
  BY <1>1, <1>4, <1>5 DEF ClientTypeOK
<1>7. \A d \in Conns : d # c => /\ out'[d] = out[d] /\ requests'[d] = requests[d]
                               /\ handler'[d] = handler[d]
  BY <1>1, <1>2, <1>3, <1>4, <1>5
<1>8. out'[c] = fs /\ requests'[c] = Tail(requests[c])
  BY <1>1, <1>2, <1>4, <1>5
<1>9. LinkInv'
  <2>1. ASSUME NEW d \in Conns
        PROVE  /\ d > dialled => requests'[d] = <<>> /\ replies'[d] = <<>> /\ out'[d] = <<>>
               /\ handler'[d] = "flush" => out'[d] # <<>>
    <3>1. CASE d = c
      BY <1>3, <1>4, <1>5, <1>8, <3>1 DEF ClientTypeOK, Conns, ServerInv, ServerTypeOK
    <3>2. CASE d # c
      BY <1>1, <1>4, <1>7, <3>2 DEF LinkInv
    <3> QED BY <3>1, <3>2
  <2> QED BY <1>1, <1>4, <2>1 DEF LinkInv
<1>10. ASSUME NEW k \in Clients PROVE CallOK(k)'
  <2>0. CallOK(k) /\ began[k] \in Nat /\ conn[k] \in 0 .. MaxConns
    BY DEF AnswerInv, ClientTypeOK, WireInv
  <2>1. CASE conn[k] # c
    <3>1. conn[k] # 0 => conn[k] \in Conns
      BY <2>0 DEF Conns
    <3> QED BY <1>1, <1>7, <2>1, <3>1, Bystander
  <2>2. CASE conn[k] = c
    <3>1. began'[k] <= Len(orders') /\ (call'[k] = NoCall => got'[k] = <<>>)
      <4>1. Len(orders) <= Len(orders') /\ Len(orders') \in Nat
        BY DEF Grown
      <4> QED BY <1>1, <1>4, <2>0, <4>1 DEF CallOK
    <3>2. ASSUME c \notin unread PROVE Answering(k)'
      <4>1. Unanswered(k) /\ call[k] # NoCall /\ requests[c] = <<call[k]>>
        BY <1>1, <1>3, <2>0, <2>2, <3>2 DEF CallOK, Answering, Unanswered, Conns
      <4>2. r = call[k] /\ requests'[c] = <<>>
        BY <1>8, <4>1 DEF r
      <4>3. PICK f : out' = [out EXCEPT ![c] = f] /\ AnswerTo(r, began[k], f, orders')
        BY <1>1, <1>2, <2>0, dispatchAnswers DEF CallOK
      <4>4. out'[c] = f /\ f \in Seq(Frames) /\ f # <<>>
        BY <1>4, <4>3 DEF AnswerTo
      <4>5. InFlight(<<>>, <<>>, f, f)
        BY <4>4, FlightEnds
      <4>6. got'[k] = <<>> /\ replies'[c] = <<>> /\ call'[k] = call[k] /\ began'[k] = began[k]
            /\ conn'[k] = c
        BY <1>1, <2>2, <4>1 DEF Unanswered
      <4>7. AnswerTo(call'[k], began'[k], f, orders') /\ InFlight(got'[k], replies'[c], out'[c], f)
        BY <4>2, <4>3, <4>4, <4>5, <4>6
      <4> QED BY <4>1, <4>2, <4>6, <4>7 DEF Answering
    <3> QED BY <1>1, <2>2, <3>1, <3>2 DEF CallOK
  <2> QED BY <2>1, <2>2
<1> QED BY <1>6, <1>9, <1>10 DEF AnswerInv

LEMMA AnswerFlush ==
    ASSUME WireInv, ServerInv, AnswerInv, Grown(orders, orders'), NEW c \in Conns, FlushFrame(c)
    PROVE  AnswerInv'
<1> DEFINE f == Head(out[c])
<1>1. /\ handler[c] = "flush"
      /\ replies' = [replies EXCEPT ![c] = Append(replies[c], f)]
      /\ out' = [out EXCEPT ![c] = Tail(out[c])]
      /\ handler' = [handler EXCEPT ![c] = IF Len(out[c]) = 1 THEN "read" ELSE "flush"]
      /\ UNCHANGED <<requests, conn, call, began, got, dialled, unread>>
  BY DEF FlushFrame, clientVars
<1>2. ClientTypeOK /\ LinkInv /\ handler \in [Conns -> {"none", "read", "flush", "done"}]
      /\ c <= dialled
  BY <1>1 DEF AnswerInv, ServerInv, ServerTypeOK, QueueInv, Conns
<1>3. /\ out \in [Conns -> Seq(Frames)] /\ replies \in [Conns -> Seq(Frames)]
      /\ out[c] \in Seq(Frames) /\ replies[c] \in Seq(Frames) /\ out[c] # <<>>
  BY <1>1, <1>2 DEF ClientTypeOK, LinkInv
<1>4. /\ f \in Frames /\ Tail(out[c]) \in Seq(Frames) /\ Append(replies[c], f) \in Seq(Frames)
      /\ Len(out[c]) # 1 => Tail(out[c]) # <<>>
  <2> HIDE DEF Frames
  <2>1. f \in Frames /\ Tail(out[c]) \in Seq(Frames) /\ Append(replies[c], f) \in Seq(Frames)
    BY <1>3
  <2> DEFINE t == Tail(out[c])
  <2>2. Len(out[c]) # 1 => Len(t) # 0
    BY <1>3
  <2> HIDE DEF t
  <2>3. Len(out[c]) # 1 => t # <<>>
    BY <2>2
  <2> QED BY <2>1, <2>3 DEF t
<1> HIDE DEF f
<1>5. ClientTypeOK'
  BY <1>1, <1>2, <1>3, <1>4 DEF ClientTypeOK
<1>6. /\ out'[c] = Tail(out[c]) /\ replies'[c] = Append(replies[c], f)
      /\ handler'[c] = IF Len(out[c]) = 1 THEN "read" ELSE "flush"
      /\ \A d \in Conns : d # c => /\ out'[d] = out[d] /\ replies'[d] = replies[d]
                                   /\ handler'[d] = handler[d]
  BY <1>1, <1>2, <1>3
<1>7. LinkInv'
  <2>1. ASSUME NEW d \in Conns
        PROVE  /\ d > dialled => requests'[d] = <<>> /\ replies'[d] = <<>> /\ out'[d] = <<>>
               /\ handler'[d] = "flush" => out'[d] # <<>>
    <3>1. CASE d = c
      <4>1. ~ (c > dialled)
        BY <1>2 DEF ServerInv, ServerTypeOK, Conns
      <4>2. Len(out[c]) = 1 => handler'[c] = "read"
        BY <1>6
      <4> QED BY <1>4, <1>6, <3>1, <4>1, <4>2
    <3>2. CASE d # c
      BY <1>1, <1>2, <1>6, <3>2 DEF LinkInv
    <3> QED BY <3>1, <3>2
  <2> QED BY <1>1, <1>2, <2>1 DEF LinkInv
<1>8. ASSUME NEW k \in Clients PROVE CallOK(k)'
  <2>0. CallOK(k) /\ began[k] \in Nat /\ conn[k] \in 0 .. MaxConns
    BY DEF AnswerInv, ClientTypeOK, WireInv
  <2>1. CASE conn[k] # c
    <3>1. conn[k] # 0 => conn[k] \in Conns
      BY <2>0 DEF Conns
    <3> QED BY <1>1, <1>6, <2>1, <3>1, Bystander
  <2>2. CASE conn[k] = c
    <3>1. began'[k] <= Len(orders') /\ (call'[k] = NoCall => got'[k] = <<>>)
      <4>1. Len(orders) <= Len(orders') /\ Len(orders') \in Nat /\ Len(orders) \in Nat
        BY DEF Grown
      <4> QED BY <1>1, <2>0, <4>1 DEF CallOK
    <3>2. ASSUME c \notin unread PROVE Answering(k)'
      <4>1. Answering(k)
        BY <1>3, <2>0, <2>2, <3>2 DEF CallOK, Unanswered, Conns
      <4>2. PICK fs : AnswerTo(call[k], began[k], fs, orders)
                      /\ InFlight(got[k], replies[c], out[c], fs)
        BY <2>2, <4>1 DEF Answering
      <4>3. AnswerTo(call[k], began[k], fs, orders')
        BY <2>0, <4>2, AnswerStays
      <4>4. InFlight(got[k], replies'[c], out'[c], fs)
        BY <1>3, <1>6, <4>2, FlightFlush DEF f
      <4>5. UNCHANGED <<requests, call, conn, began, got>>
        BY <1>1
      <4> QED BY <2>2, <4>1, <4>3, <4>4, <4>5 DEF Answering
    <3> QED BY <1>1, <2>2, <3>1, <3>2 DEF CallOK
  <2> QED BY <2>1, <2>2
<1> QED BY <1>5, <1>7, <1>8 DEF AnswerInv

LEMMA AnswerUntrack ==
    ASSUME WireInv, ServerInv, AnswerInv, Grown(orders, orders'), NEW c \in Conns, untrackConn(c)
    PROVE  AnswerInv'
<1>1. /\ handler' = [handler EXCEPT ![c] = "done"]
      /\ out' = [out EXCEPT ![c] = <<>>] /\ requests' = [requests EXCEPT ![c] = <<>>]
      /\ UNCHANGED <<replies, conn, call, began, got, dialled, unread>>
  BY DEF untrackConn, clientVars
<1>2. /\ ClientTypeOK /\ LinkInv /\ handler \in [Conns -> {"none", "read", "flush", "done"}]
      /\ out \in [Conns -> Seq(Frames)] /\ requests \in [Conns -> Seq(Reqs)]
  BY DEF AnswerInv, ServerInv, ServerTypeOK, ClientTypeOK, WireInv
<1>3. ClientTypeOK'
  <2>1. <<>> \in Seq(Frames)
    OBVIOUS
  <2>2. out' \in [Conns -> Seq(Frames)]
    BY <1>1, <1>2, <2>1
  <2> QED BY <1>1, <1>2, <2>2 DEF ClientTypeOK
<1>4. /\ out'[c] = <<>> /\ requests'[c] = <<>> /\ handler'[c] = "done"
      /\ \A d \in Conns : d # c => /\ out'[d] = out[d] /\ requests'[d] = requests[d]
                                   /\ handler'[d] = handler[d]
  BY <1>1, <1>2
<1>5. LinkInv'
  <2>1. ASSUME NEW d \in Conns
        PROVE  /\ d > dialled => requests'[d] = <<>> /\ replies'[d] = <<>> /\ out'[d] = <<>>
               /\ handler'[d] = "flush" => out'[d] # <<>>
    BY <1>1, <1>2, <1>4 DEF LinkInv
  <2> QED BY <1>1, <1>2, <2>1 DEF LinkInv
<1>6. ASSUME NEW k \in Clients PROVE CallOK(k)'
  <2>0. CallOK(k) /\ began[k] \in Nat /\ conn[k] \in 0 .. MaxConns
    BY DEF AnswerInv, ClientTypeOK, WireInv
  <2>1. CASE conn[k] # c
    <3>1. conn[k] # 0 => conn[k] \in Conns
      BY <2>0 DEF Conns
    <3> QED BY <1>1, <1>4, <2>1, <3>1, Bystander
  <2>2. CASE conn[k] = c
    <3>1. began'[k] <= Len(orders') /\ (call'[k] = NoCall => got'[k] = <<>>)
      <4>1. Len(orders) <= Len(orders') /\ Len(orders') \in Nat /\ Len(orders) \in Nat
        BY DEF Grown
      <4> QED BY <1>1, <2>0, <4>1 DEF CallOK
    <3>2. CASE Unanswered(k)
      <4>1. Unanswered(k)'
        BY <1>1, <1>4, <2>2, <3>2 DEF Unanswered
      <4> QED BY <3>1, <4>1 DEF CallOK
    <3>3. CASE Answering(k)
      <4>1. PICK fs : AnswerTo(call[k], began[k], fs, orders)
                      /\ InFlight(got[k], replies[c], out[c], fs)
        BY <2>2, <3>3 DEF Answering
      <4>2. AnswerTo(call[k], began[k], fs, orders')
        BY <2>0, <4>1, AnswerStays
      <4>3. InFlight(got[k], replies[c], out'[c], fs)
        BY <1>4, <4>1, FlightEnds
      <4>4. Answering(k)'
        BY <1>1, <1>4, <2>2, <3>3, <4>2, <4>3 DEF Answering
      <4> QED BY <3>1, <4>4 DEF CallOK
    <3>4. CASE c \in unread
      BY <1>1, <2>2, <3>1, <3>4 DEF CallOK
    <3> QED BY <2>0, <2>2, <3>2, <3>3, <3>4 DEF CallOK, Conns
  <2> QED BY <2>1, <2>2
<1> QED BY <1>3, <1>5, <1>6 DEF AnswerInv

LEMMA AnswerDial ==
    ASSUME WireInv, AnswerInv, Grown(orders, orders'), NEW k \in Clients, Dial(k)
    PROVE  AnswerInv'
<1> DEFINE n == dialled + 1
<1>1. /\ call[k] = NoCall /\ dialled' = n /\ conn' = [conn EXCEPT ![k] = n]
      /\ replies' = [c \in Conns |-> IF c = conn[k] THEN <<>> ELSE replies[c]]
      /\ UNCHANGED <<orders, requests, handler, out, call, began, got, unread>>
      /\ n \in Conns
  BY Constants DEF Dial, storeVars, handlerVars, WireInv, Conns
<1>2. /\ ClientTypeOK /\ LinkInv /\ dialled \in Nat /\ conn \in [Clients -> 0 .. MaxConns]
      /\ replies \in [Conns -> Seq(Frames)]
  BY Constants DEF AnswerInv, WireInv, ClientTypeOK
<1>3. ClientTypeOK'
  <2>1. <<>> \in Seq(Frames)
    OBVIOUS
  <2>2. replies' \in [Conns -> Seq(Frames)]
    BY <1>1, <1>2, <2>1
  <2> QED BY <1>1, <1>2, <2>2 DEF ClientTypeOK
<1>4. conn'[k] = n /\ \A l \in Clients : l # k => conn'[l] = conn[l]
  BY <1>1, <1>2
<1>5. \A l \in Clients : conn[l] \in Nat /\ conn[l] <= dialled /\ conn[l] # n
  BY <1>2 DEF LinkInv
<1>6. LinkInv'
  <2>1. ASSUME NEW l \in Clients PROVE conn'[l] <= dialled' /\ (call'[l] # NoCall => conn'[l] # 0)
    <3>1. CASE l = k
      BY <1>1, <1>2, <1>4, <3>1
    <3>2. CASE l # k
      BY <1>1, <1>2, <1>4, <1>5, <3>2 DEF LinkInv
    <3> QED BY <3>1, <3>2
  <2>2. \A l, m \in Clients : conn'[l] = conn'[m] /\ conn'[l] # 0 => l = m
    BY <1>2, <1>4, <1>5 DEF LinkInv
  <2>3. ASSUME NEW d \in Conns
        PROVE  /\ d > dialled' => requests'[d] = <<>> /\ replies'[d] = <<>> /\ out'[d] = <<>>
               /\ handler'[d] = "flush" => out'[d] # <<>>
    <3>1. d > dialled' => d > dialled
      BY <1>1, <1>2 DEF Conns
    <3> QED BY <1>1, <1>2, <3>1 DEF LinkInv
  <2> QED BY <2>1, <2>2, <2>3 DEF LinkInv
<1>7. ASSUME NEW l \in Clients PROVE CallOK(l)'
  <2>1. CASE l = k
    <3>1. CallOK(k)
      BY DEF AnswerInv
    <3>2. n > dialled
      BY <1>2
    <3>3. requests[n] = <<>> /\ replies[n] = <<>> /\ out[n] = <<>>
      BY <1>1, <1>2, <3>2 DEF LinkInv
    <3>4. Unanswered(k)'
      BY <1>1, <1>4, <3>1, <3>3 DEF Unanswered, CallOK
    <3> QED BY <1>1, <2>1, <3>1, <3>4 DEF CallOK
  <2>2. CASE l # k
    <3>1. conn[l] # 0 => conn[l] \in Conns /\ conn[l] # conn[k]
      BY <1>2, <2>2 DEF LinkInv, Conns
    <3> QED BY <1>1, <1>4, <2>2, <3>1, Bystander
  <2> QED BY <2>1, <2>2
<1> QED BY <1>3, <1>6, <1>7 DEF AnswerInv

LEMMA AnswerSend ==
    ASSUME WireInv, AnswerInv, StoreInv, Grown(orders, orders'),
           NEW k \in Clients, NEW r \in Requests[k], Send(k, r)
    PROVE  AnswerInv'
<1>1. /\ call[k] = NoCall /\ conn[k] # 0
      /\ requests' = [requests EXCEPT ![conn[k]] = Append(requests[conn[k]], r)]
      /\ call' = [call EXCEPT ![k] = r] /\ began' = [began EXCEPT ![k] = Len(orders)]
      /\ UNCHANGED <<orders, replies, handler, out, conn, got, dialled, unread>>
  BY DEF Send, storeVars, handlerVars
<1>2. /\ ClientTypeOK /\ LinkInv /\ dialled \in Nat /\ conn \in [Clients -> 0 .. MaxConns]
      /\ requests \in [Conns -> Seq(Reqs)] /\ Len(orders) \in Nat
  BY Constants DEF AnswerInv, WireInv, StoreInv
<1>3. r \in Reqs /\ r # NoCall /\ conn[k] \in Conns
  <2>1. r \in Reqs
    BY Constants
  <2>2. r.method # NoCall.method
    BY <2>1 DEF Reqs, NoCall
  <2> QED BY <1>1, <1>2, <2>1, <2>2 DEF Conns
<1>4. /\ call'[k] = r /\ began'[k] = Len(orders)
      /\ requests'[conn[k]] = Append(requests[conn[k]], r)
      /\ \A l \in Clients : l # k => call'[l] = call[l] /\ began'[l] = began[l]
      /\ \A d \in Conns : d # conn[k] => requests'[d] = requests[d]
  BY <1>1, <1>2, <1>3 DEF ClientTypeOK
<1>5. ClientTypeOK'
  BY <1>1, <1>2, <1>3 DEF ClientTypeOK
<1>6. LinkInv'
  <2>1. ~ (conn[k] > dialled)
    BY <1>2 DEF LinkInv
  <2>2. ASSUME NEW d \in Conns
        PROVE  /\ d > dialled' => requests'[d] = <<>> /\ replies'[d] = <<>> /\ out'[d] = <<>>
               /\ handler'[d] = "flush" => out'[d] # <<>>
    BY <1>1, <1>2, <1>4, <2>1 DEF LinkInv
  <2>3. \A l \in Clients : conn'[l] <= dialled' /\ (call'[l] # NoCall => conn'[l] # 0)
    BY <1>1, <1>2, <1>4 DEF LinkInv
  <2> QED BY <1>1, <1>2, <2>2, <2>3 DEF LinkInv
<1>7. ASSUME NEW l \in Clients PROVE CallOK(l)'
  <2>1. CASE l = k
    <3>1. CallOK(k)
      BY DEF AnswerInv
    <3>2. ASSUME conn[k] \notin unread PROVE Unanswered(k)'
      <4>1. Unanswered(k) /\ requests[conn[k]] = <<>>
        BY <1>1, <3>1, <3>2 DEF CallOK, Answering, Unanswered
      <4>2. requests'[conn[k]] = <<r>>
        BY <1>4, <4>1
      <4> QED BY <1>1, <1>3, <1>4, <4>1, <4>2 DEF Unanswered
    <3> QED BY <1>1, <1>2, <1>3, <1>4, <2>1, <3>1, <3>2 DEF CallOK
  <2>2. CASE l # k
    <3>1. conn[l] # 0 => conn[l] \in Conns /\ conn[l] # conn[k]
      BY <1>2, <2>2 DEF LinkInv, Conns
    <3> QED BY <1>1, <1>4, <2>2, <3>1, Bystander
  <2> QED BY <2>1, <2>2
<1> QED BY <1>5, <1>6, <1>7 DEF AnswerInv

LEMMA AnswerReceive ==
    ASSUME WireInv, AnswerInv, Grown(orders, orders'), NEW k \in Clients, Receive(k)
    PROVE  AnswerInv'
<1> DEFINE c == conn[k]
           f == Head(replies[c])
<1>1. /\ call[k] # NoCall /\ replies[c] # <<>>
      /\ replies' = [replies EXCEPT ![c] = Tail(replies[c])]
      /\ UNCHANGED <<orders, requests, handler, out, conn, dialled>>
      /\ \/ ~ Streamed(k, f) /\ Return(k) /\ UNCHANGED unread
         \/ /\ Streamed(k, f) /\ got' = [got EXCEPT ![k] = Append(got[k], f.id)]
            /\ UNCHANGED <<call, began, unread>>
         \/ Streamed(k, f) /\ Return(k) /\ unread' = unread \cup {c}
  BY DEF Receive, storeVars, handlerVars
<1>2. /\ ClientTypeOK /\ LinkInv /\ conn \in [Clients -> 0 .. MaxConns] /\ CallOK(k)
      /\ replies \in [Conns -> Seq(Frames)] /\ got \in [Clients -> Seq(Nat)]
      /\ call \in [Clients -> Reqs \cup {NoCall}] /\ began \in [Clients -> Nat]
  BY DEF AnswerInv, WireInv, ClientTypeOK
<1>3. c \in Conns /\ c # 0
  BY <1>1, <1>2 DEF LinkInv, Conns
<1>4. replies[c] \in Seq(Frames) /\ f \in Frames /\ Tail(replies[c]) \in Seq(Frames)
  <2> HIDE DEF Frames
  <2> QED BY <1>1, <1>2, <1>3
<1>5. Streamed(k, f) => f.id \in Nat /\ f = frameMessage(f.id)
  <2> HIDE DEF f
  <2> QED BY <1>4 DEF Streamed, Frames, frameMessage
<1> HIDE DEF c, f
<1>6. ClientTypeOK'
  <2>1. replies' \in [Conns -> Seq(Frames)]
    BY <1>1, <1>2, <1>4
  <2>2. CASE Return(k)
    <3>1. <<>> \in Seq(Nat)
      OBVIOUS
    <3> QED BY <1>1, <1>2, <2>1, <2>2, <3>1 DEF ClientTypeOK, Return
  <2>3. CASE Streamed(k, f) /\ got' = [got EXCEPT ![k] = Append(got[k], f.id)]
             /\ UNCHANGED <<call, began>>
    <3>1. Append(got[k], f.id) \in Seq(Nat)
      BY <1>2, <1>5, <2>3
    <3> QED BY <1>1, <1>2, <2>1, <2>3, <3>1 DEF ClientTypeOK
  <2> QED BY <1>1, <2>2, <2>3
<1>7. /\ replies'[c] = Tail(replies[c])
      /\ \A d \in Conns : d # c => replies'[d] = replies[d]
      /\ \A l \in Clients : l # k => call'[l] = call[l] /\ began'[l] = began[l] /\ got'[l] = got[l]
      /\ unread \subseteq unread'
  BY <1>1, <1>2, <1>3 DEF Return
<1>8. LinkInv'
  <2>1. ~ (c > dialled)
    <3>1. dialled \in Nat /\ c \in Nat /\ c <= dialled
      BY <1>2, Constants DEF LinkInv, WireInv, c
    <3> QED BY <3>1
  <2>2. ASSUME NEW d \in Conns
        PROVE  /\ d > dialled' => requests'[d] = <<>> /\ replies'[d] = <<>> /\ out'[d] = <<>>
               /\ handler'[d] = "flush" => out'[d] # <<>>
    BY <1>1, <1>2, <1>7, <2>1 DEF LinkInv
  <2>3. \A l \in Clients : conn'[l] <= dialled' /\ (call'[l] # NoCall => conn'[l] # 0)
    BY <1>1, <1>2, <1>3, <1>7 DEF LinkInv, c
  <2> QED BY <1>1, <1>2, <2>2, <2>3 DEF LinkInv
<1>9. ASSUME NEW l \in Clients, l # k PROVE CallOK(l)'
  <2>1. conn[l] # 0 => conn[l] \in Conns /\ conn[l] # c
    BY <1>2, <1>9 DEF LinkInv, Conns, c
  <2> QED BY <1>1, <1>7, <1>9, <2>1, Bystander
<1>10. ASSUME c \notin unread
       PROVE  /\ requests[c] = <<>>
              /\ \E fs : AnswerTo(call[k], began[k], fs, orders)
                         /\ InFlight(got[k], replies[c], out[c], fs)
  BY <1>1, <1>2, <1>3, <1>10 DEF CallOK, Unanswered, Answering, c
<1>11. CallOK(k)'
  <2>0. Len(orders) \in Nat
    BY DEF Grown
  <2>1. CASE ~ Streamed(k, f) /\ Return(k) /\ UNCHANGED unread
    <3>1. call'[k] = NoCall /\ began'[k] = 0 /\ got'[k] = <<>>
      BY <1>2, <2>1 DEF Return
    <3>2. ASSUME c \notin unread PROVE Unanswered(k)'
      <4>1. PICK fs : AnswerTo(call[k], began[k], fs, orders)
                      /\ InFlight(got[k], replies[c], out[c], fs)
        BY <1>10, <3>2
      <4>2. ~ (call[k].method = "WatchOrders" /\ Head(replies[c]).kind = "message")
        BY <2>1 DEF Streamed, f
      <4>3. Tail(replies[c]) = <<>> /\ out[c] = <<>>
        BY <1>1, <4>1, <4>2, LastFrame
      <4> QED BY <1>1, <1>7, <1>10, <3>1, <3>2, <4>3 DEF Unanswered, c
    <3> QED BY <1>1, <2>0, <2>1, <3>1, <3>2 DEF CallOK, c
  <2>2. CASE /\ Streamed(k, f) /\ got' = [got EXCEPT ![k] = Append(got[k], f.id)]
             /\ UNCHANGED <<call, began, unread>>
    <3>1. got'[k] = Append(got[k], f.id)
      BY <1>2, <2>2
    <3>2. ASSUME c \notin unread PROVE Answering(k)'
      <4>1. PICK fs : AnswerTo(call[k], began[k], fs, orders)
                      /\ InFlight(got[k], replies[c], out[c], fs)
        BY <1>10, <3>2
      <4>2. fs[Len(fs)] = frameEnd
        BY <2>2, <4>1 DEF Streamed, AnswerTo
      <4>3. InFlight(got'[k], replies'[c], out[c], fs)
        BY <1>1, <1>5, <1>7, <2>2, <3>1, <4>1, <4>2, FlightTake DEF f
      <4> QED BY <1>1, <1>10, <2>2, <3>2, <4>1, <4>3 DEF Answering, c
    <3> QED BY <1>1, <1>2, <2>2, <3>2 DEF CallOK, c
  <2>3. CASE Return(k) /\ unread' = unread \cup {c}
    <3>1. call'[k] = NoCall /\ began'[k] = 0 /\ got'[k] = <<>>
      BY <1>2, <2>3 DEF Return
    <3> QED BY <1>1, <2>0, <2>3, <3>1 DEF CallOK, c
  <2> QED BY <1>1, <2>1, <2>2, <2>3
<1> QED BY <1>6, <1>8, <1>9, <1>11 DEF AnswerInv

LEMMA AnswerFails ==
    ASSUME WireInv, AnswerInv, Grown(orders, orders'), NEW k \in Clients, ReceiveFails(k)
    PROVE  AnswerInv'
<1>1. /\ call[k] # NoCall /\ Return(k) /\ conn' = [conn EXCEPT ![k] = 0]
      /\ replies' = [replies EXCEPT ![conn[k]] = <<>>]
      /\ UNCHANGED <<orders, requests, handler, out, dialled, unread>>
  BY DEF ReceiveFails, storeVars, handlerVars
<1>2. /\ ClientTypeOK /\ LinkInv /\ conn \in [Clients -> 0 .. MaxConns] /\ dialled \in Nat
      /\ replies \in [Conns -> Seq(Frames)] /\ got \in [Clients -> Seq(Nat)]
      /\ call \in [Clients -> Reqs \cup {NoCall}] /\ began \in [Clients -> Nat]
      /\ Len(orders) \in Nat
  BY Constants DEF AnswerInv, WireInv, ClientTypeOK, Grown
<1>3. conn[k] \in Conns
  BY <1>1, <1>2 DEF LinkInv, Conns
<1>4. /\ conn'[k] = 0 /\ call'[k] = NoCall /\ began'[k] = 0 /\ got'[k] = <<>>
      /\ replies'[conn[k]] = <<>>
      /\ \A d \in Conns : d # conn[k] => replies'[d] = replies[d]
      /\ \A l \in Clients : l # k => /\ conn'[l] = conn[l] /\ call'[l] = call[l]
                                     /\ began'[l] = began[l] /\ got'[l] = got[l]
  BY <1>1, <1>2, <1>3 DEF Return
<1>5. ClientTypeOK'
  <2>1. <<>> \in Seq(Frames) /\ <<>> \in Seq(Nat)
    OBVIOUS
  <2>2. replies' \in [Conns -> Seq(Frames)]
    BY <1>1, <1>2, <2>1
  <2> QED BY <1>1, <1>2, <2>1, <2>2 DEF ClientTypeOK, Return
<1>6. LinkInv'
  <2>1. \A l \in Clients : conn'[l] <= dialled' /\ (call'[l] # NoCall => conn'[l] # 0)
    BY <1>1, <1>2, <1>4 DEF LinkInv
  <2>2. ASSUME NEW l \in Clients, NEW m \in Clients, conn'[l] = conn'[m], conn'[l] # 0
        PROVE  l = m
    <3>1. l # k /\ m # k
      BY <1>4, <2>2
    <3>2. conn[l] = conn[m] /\ conn[l] # 0
      BY <1>4, <2>2, <3>1
    <3> QED BY <1>2, <3>2 DEF LinkInv
  <2>3. ASSUME NEW d \in Conns
        PROVE  /\ d > dialled' => requests'[d] = <<>> /\ replies'[d] = <<>> /\ out'[d] = <<>>
               /\ handler'[d] = "flush" => out'[d] # <<>>
    BY <1>1, <1>2, <1>4 DEF LinkInv
  <2> QED BY <2>1, <2>2, <2>3 DEF LinkInv
<1>7. ASSUME NEW l \in Clients PROVE CallOK(l)'
  <2>1. CASE l = k
    BY <1>1, <1>2, <1>4, <2>1 DEF CallOK
  <2>2. CASE l # k
    <3>1. conn[l] # 0 => conn[l] \in Conns /\ conn[l] # conn[k]
      BY <1>2, <2>2 DEF LinkInv, Conns
    <3> QED BY <1>1, <1>4, <2>2, <3>1, Bystander
  <2> QED BY <2>1, <2>2
<1> QED BY <1>5, <1>6, <1>7 DEF AnswerInv

LEMMA AnswerStep ==
    WireInv /\ StoreInv /\ ServerInv /\ AnswerInv /\ [Next]_vars => AnswerInv'
<1> SUFFICES ASSUME WireInv, StoreInv, ServerInv, AnswerInv, [Next]_vars PROVE AnswerInv'
  OBVIOUS
<1>1. StoreInv' /\ Grown(orders, orders')
  BY StoreStep, OrdersGrow
<1>2. ASSUME NEW c \in Conns, handle(c) PROVE AnswerInv'
  BY <1>1, <1>2, AnswerServe, AnswerFlush, AnswerUntrack DEF handle
<1>3. ASSUME NEW k \in Clients, Dial(k) \/ Read(k) \/ \E r \in Requests[k] : Send(k, r)
      PROVE  AnswerInv'
  BY <1>1, <1>3, AnswerDial, AnswerReceive, AnswerFails, AnswerSend DEF Read
<1>4. CASE \/ AcceptLoop \/ AcceptBreaks \/ Close \/ (\E c \in Conns : Disconnect(c))
           \/ Over \/ UNCHANGED vars
  <2>1. UNCHANGED <<requests, replies, out, clientVars>>
    BY <1>4
    DEF AcceptLoop, Accept, AcceptReturns, AcceptFails, AcceptBreaks, trackConn, Spawn,
        Close, Signal, CloseListener, CloseConns, Wait, Disconnect, Over, vars, wireVars,
        handlerVars
  <2>2. \A c \in Conns : handler'[c] = "flush" => handler[c] = "flush"
    <3>1. UNCHANGED handler \/ \E a : handler' = [handler EXCEPT ![a] = "read"]
      BY <1>4
      DEF AcceptLoop, Accept, AcceptReturns, AcceptFails, AcceptBreaks, trackConn, Spawn,
          Close, Signal, CloseListener, CloseConns, Wait, Disconnect, Over, vars, handlerVars
    <3> QED BY <3>1 DEF ServerInv, ServerTypeOK
  <2> QED BY <1>1, <2>1, <2>2, AnswerIdle
<1> QED BY <1>2, <1>3, <1>4 DEF Next

\* Rpc.AnswersMatchUnlessUnread (wire_test.go:439, rpc.go:435-467) for any clients, requests,
\* connections and buffers, however clients give up, redial and retry: the frame that ends
\* a call answers that call, and what a stream delivered before it is one snapshot.
THEOREM AnswersAreRight == Spec => []AnswersMatchUnlessUnread
<1>1. Init => AnswerInv
  <2> SUFFICES ASSUME Init PROVE AnswerInv
    OBVIOUS
  <2>1. ClientTypeOK
    <3>1. \A S : <<>> \in Seq(S)
      OBVIOUS
    <3> QED BY <3>1 DEF Init, ClientTypeOK
  <2>2. LinkInv
    BY DEF Init, LinkInv
  <2>3. \A k \in Clients : CallOK(k)
    BY DEF Init, CallOK
  <2> QED BY <2>1, <2>2, <2>3 DEF AnswerInv
<1>2. AnswerInv /\ WireInv /\ StoreInv => AnswersMatchUnlessUnread
  <2> SUFFICES ASSUME AnswerInv, WireInv, StoreInv, NEW k \in Clients, Answered(k),
                      conn[k] \notin unread
               PROVE  RightAnswer(k, Head(replies[conn[k]]))
    BY DEF AnswersMatchUnlessUnread
  <2> DEFINE r == call[k]
             g == got[k]
             f == Head(replies[conn[k]])
  <2>1. r # NoCall /\ conn[k] # 0 /\ replies[conn[k]] # <<>> /\ CallOK(k)
    BY DEF AnswerInv, LinkInv, Answered
  <2>2. PICK fs : AnswerTo(r, began[k], fs, orders)
                  /\ InFlight(g, replies[conn[k]], out[conn[k]], fs)
    BY <2>1 DEF CallOK, Unanswered, Answering
  <2>3. ~ (r.method = "WatchOrders" /\ f.kind = "message")
    BY DEF Answered, Streamed
  <2>4. f = fs[Len(fs)] /\ Len(g) = Len(fs) - 1
    BY <2>1, <2>2, <2>3, LastFrame
  <2> HIDE DEF f
  <2>5. DOMAIN orders = 1 .. Len(orders) /\ g \in Seq(Nat) /\ DOMAIN g = 1 .. Len(g)
    BY DEF StoreInv, AnswerInv, ClientTypeOK
  <2>6. CASE r.method = "WatchOrders"
    <3>1. f = frameEnd /\ Snapshot(r, began[k], fs, orders)
      BY <2>2, <2>4, <2>6 DEF AnswerTo
    <3>2. PICK n \in began[k] .. Len(orders) :
            /\ \A i \in 1 .. Len(fs) - 1 :
                  /\ fs[i] = frameMessage(fs[i].id)
                  /\ fs[i].id \in 1 .. n /\ Wanted(r.customer, fs[i].id, orders)
                  /\ \A j \in 1 .. Len(fs) - 1 : i < j => fs[i].id < fs[j].id
            /\ \A m \in 1 .. n :
                  Wanted(r.customer, m, orders) => \E i \in 1 .. Len(fs) - 1 : fs[i].id = m
      BY <3>1 DEF Snapshot
    <3>3. \A i \in 1 .. Len(fs) - 1 : fs[i].id = g[i]
      <4>1. \A x : frameMessage(x).id = x
        BY DEF frameMessage
      <4>2. \A i \in 1 .. Len(fs) - 1 : fs[i] = frameMessage(g[i])
        BY <2>2, <2>4 DEF InFlight
      <4> QED BY <4>1, <4>2
    <3>4. ASSUME NEW i \in DOMAIN g, NEW j \in DOMAIN g, i < j PROVE g[i] < g[j]
      <4>1. i \in 1 .. Len(fs) - 1 /\ j \in 1 .. Len(fs) - 1
        BY <2>4, <2>5
      <4>2. fs[i].id < fs[j].id
        BY <3>2, <3>4, <4>1
      <4> QED BY <3>3, <4>1, <4>2
    <3>5. {g[i] : i \in DOMAIN g} = {i \in 1 .. n : r.customer \in {Anyone, orders[i].customer}}
      <4>1. ASSUME NEW i \in DOMAIN g
            PROVE  g[i] \in 1 .. n /\ r.customer \in {Anyone, orders[g[i]].customer}
        BY <2>4, <2>5, <3>2, <3>3 DEF Wanted
      <4>2. ASSUME NEW m \in 1 .. n, r.customer \in {Anyone, orders[m].customer}
            PROVE  \E i \in DOMAIN g : g[i] = m
        <5>1. Wanted(r.customer, m, orders)
          BY <4>2 DEF Wanted
        <5>2. PICK i \in 1 .. Len(fs) - 1 : fs[i].id = m
          BY <3>2, <5>1
        <5>3. i \in DOMAIN g /\ g[i] = m
          BY <2>4, <2>5, <3>3, <5>2
        <5> QED BY <5>3
      <4> QED BY <4>1, <4>2
    <3> QED BY <2>6, <3>1, <3>4, <3>5 DEF RightAnswer, f
  <2>7. CASE r.method # "WatchOrders"
    <3>1. f = fs[1]
      BY <2>2, <2>4, <2>7 DEF AnswerTo
    <3> QED BY <2>2, <2>5, <2>7, <3>1 DEF AnswerTo, RightAnswer, f
  <2> QED BY <2>6, <2>7
<1> QED BY <1>1, <1>2, WireInit, WireStep, StoreInit, StoreStep, ServerInit, ServerStep,
           AnswerStep, PTL DEF Spec
=============================================================================
