--------------------------- MODULE ConnectionsProofs ---------------------------
(***************************************************************************)
(* Proofs about TcpServer and Connections.  A server returns only when     *)
(* stopped and drops no client; a process with a pool runs its server as   *)
(* TcpServer specifies, which gives it these theorems; no put drops a      *)
(* connection that is pooled, and none is taken twice.                     *)
(***************************************************************************)
EXTENDS Connections, SequenceTheorems, TLAPS

-------------------------------------------------------------------------------
\* The server: run() returns only after it was stopped, and with every accepted
\* client in the pool.

\* What is queued stays queued when a handler is added, and is there then.
LEMMA QueuedInAppend ==
  ASSUME NEW S, NEW q \in Seq(S), NEW x \in S, NEW h,
         x = h \/ \E i \in DOMAIN q : q[i] = h
  PROVE  \E i \in DOMAIN Append(q, x) : Append(q, x)[i] = h
<1>1. CASE x = h
  <2>1. Len(q) + 1 \in DOMAIN Append(q, x) /\ Append(q, x)[Len(q) + 1] = h
    BY <1>1
  <2>2. QED
    BY <2>1
<1>2. CASE \E i \in DOMAIN q : q[i] = h
  <2>1. PICK i \in DOMAIN q : q[i] = h
    BY <1>2
  <2>2. i \in DOMAIN Append(q, x) /\ Append(q, x)[i] = h
    BY <2>1
  <2>3. QED
    BY <2>2
<1>3. QED
  BY <1>1, <1>2

\* What is queued and not called next stays queued.
LEMMA QueuedInTail ==
  ASSUME NEW S, NEW q \in Seq(S), q # <<>>, NEW h, Head(q) # h,
         \E i \in DOMAIN q : q[i] = h
  PROVE  \E i \in DOMAIN Tail(q) : Tail(q)[i] = h
<1>1. PICK i \in DOMAIN q : q[i] = h
  OBVIOUS
<1>2. i # 1 /\ i \in 1..Len(q)
  BY <1>1
<1>3. i - 1 \in DOMAIN Tail(q) /\ Tail(q)[i - 1] = h
  BY <1>1, <1>2
<1>4. QED
  BY <1>3

LEMMA InitIInv == Init => IInv
<1> SUFFICES ASSUME Init PROVE IInv
  OBVIOUS
<1>1. TypeOK
  <2> ready = <<>> /\ backlog = <<>> /\ stops = 0
    BY Zenon DEF Init
  <2>1. ready \in Seq(Handlers) /\ backlog \in Seq(Clients)
    OBVIOUS
  <2>2. stops \in 0..MaxStops
    BY MaxStopsAssumption
  <2>3. QED
    BY <2>1, <2>2, Zenon DEF Init, TypeOK
<1>2. QED
  BY <1>1 DEF Init, IInv, SignalWillStop, AcceptedWillBePooled, ReturnsOnlyIfStopped,
              AcceptedIsPooled

LEMMA HandlersTyped ==
  /\ StopAsked \in Handlers
  /\ \A e \in Errors : AcceptDone(e) \in Handlers
  /\ StopAsked # AcceptDone("none")
BY DEF StopAsked, AcceptDone, Handlers, Errors

\* async_accept: whatever its error, it is added to what is queued.
LEMMA AsyncAcceptQueues ==
  ASSUME NEW queue \in Seq(Handlers), AsyncAccept(queue)
  PROVE  /\ accepting' \in BOOLEAN
         /\ \/ ready' = queue
            \/ \E e \in Errors : ready' = Append(queue, AcceptDone(e))
BY DEF AsyncAccept, Errors

LEMMA HandleAcceptIInv ==
  IInv /\ run = "running" /\ ready # <<>> /\ HandleAccept => IInv'
<1> SUFFICES ASSUME IInv, run = "running", ready # <<>>, HandleAccept PROVE IInv'
  OBVIOUS
<1>1. TypeOK /\ SignalWillStop /\ AcceptedWillBePooled
  BY DEF IInv
<1>2. ready \in Seq(Handlers) /\ Tail(ready) \in Seq(Handlers)
  BY <1>1 DEF TypeOK
<1>3. UNCHANGED <<run, listening, peer, waiting, backlog, tried, stops>>
  BY DEF HandleAccept, environment
<1>4. /\ \/ ready' = Tail(ready)
         \/ \E e \in Errors : ready' = Append(Tail(ready), AcceptDone(e))
      /\ accepting' \in BOOLEAN /\ pooled' \in BOOLEAN
      /\ pooled \/ Head(ready) = AcceptDone("none") => pooled'
  <2>1. CASE Head(ready).e # "none"
    <3>1. ready' = Tail(ready) /\ UNCHANGED <<accepting, pooled>>
      BY <2>1, Zenon DEF HandleAccept
    <3>2. Head(ready) # AcceptDone("none")
      BY <2>1 DEF AcceptDone
    <3>3. QED
      BY <1>1, <3>1, <3>2, Zenon DEF TypeOK
  <2>2. CASE Head(ready).e = "none"
    <3>1. pooled' = TRUE /\ AsyncAccept(Tail(ready))
      BY <2>2, Zenon DEF HandleAccept
    <3>2. QED
      BY <1>2, <3>1, AsyncAcceptQueues, Zenon
  <2>3. QED
    BY <2>1, <2>2, Zenon
<1>5. ready' \in Seq(Handlers)
  BY <1>2, <1>4, HandlersTyped
<1>6. ASSUME NEW h, Queued(h), Head(ready) # h PROVE Queued(h)'
  <2>1. \E i \in DOMAIN Tail(ready) : Tail(ready)[i] = h
    BY <1>2, <1>6, QueuedInTail DEF Queued
  <2>2. QED
    BY <1>2, <1>4, <2>1, HandlersTyped, QueuedInAppend DEF Queued
<1>7. TypeOK'
  BY <1>1, <1>3, <1>4, <1>5, Zenon DEF TypeOK
<1>8. SignalWillStop'
  <2>1. Head(ready) # StopAsked
    BY DEF HandleAccept, StopAsked
  <2>2. QED
    BY <1>1, <1>3, <1>6, <2>1 DEF SignalWillStop
<1>9. AcceptedWillBePooled'
  BY <1>1, <1>3, <1>4, <1>6 DEF AcceptedWillBePooled
<1>10. ReturnsOnlyIfStopped' /\ AcceptedIsPooled'
  BY <1>3 DEF ReturnsOnlyIfStopped, AcceptedIsPooled
<1>11. QED
  BY <1>7, <1>8, <1>9, <1>10 DEF IInv

LEMMA HandleStopIInv ==
  IInv /\ run = "running" /\ ready # <<>> /\ HandleStop => IInv'
<1> SUFFICES ASSUME IInv, run = "running", ready # <<>>, HandleStop PROVE IInv'
  OBVIOUS
<1>1. TypeOK /\ AcceptedWillBePooled
  BY DEF IInv
<1>2. ready \in Seq(Handlers) /\ Tail(ready) \in Seq(Handlers)
  BY <1>1 DEF TypeOK
<1>3. /\ UNCHANGED <<run, peer, pooled, waiting, tried, stops>>
      /\ listening' = FALSE /\ accepting' = FALSE /\ backlog' = <<>>
  BY DEF HandleStop, environment
<1>4. ready' = Tail(ready) \/ ready' = Append(Tail(ready), AcceptDone("aborted"))
  BY Zenon DEF HandleStop
<1>5. ready' \in Seq(Handlers) /\ AcceptDone("aborted") \in Handlers
  <2>1. AcceptDone("aborted") \in Handlers
    BY HandlersTyped DEF Errors
  <2>2. QED
    BY <1>2, <1>4, <2>1
<1>6. TypeOK'
  <2>1. backlog' \in Seq(Clients)
    BY <1>3
  <2>2. QED
    BY <1>1, <1>3, <1>5, <2>1, Zenon DEF TypeOK
<1>7. AcceptedWillBePooled'
  <2>1. ASSUME Queued(AcceptDone("none")) PROVE Queued(AcceptDone("none"))'
    <3>1. Head(ready) # AcceptDone("none")
      BY DEF HandleStop, AcceptDone
    <3>2. \E i \in DOMAIN Tail(ready) : Tail(ready)[i] = AcceptDone("none")
      BY <1>2, <2>1, <3>1, QueuedInTail DEF Queued
    <3>3. AcceptDone("none")' = AcceptDone("none")
      BY DEF AcceptDone
    <3>4. QED
      BY <1>2, <1>4, <1>5, <3>2, <3>3, QueuedInAppend DEF Queued
  <2>2. QED
    BY <1>1, <1>3, <2>1 DEF AcceptedWillBePooled
<1>8. SignalWillStop' /\ ReturnsOnlyIfStopped' /\ AcceptedIsPooled'
  BY <1>3 DEF SignalWillStop, ReturnsOnlyIfStopped, AcceptedIsPooled
<1>9. QED
  BY <1>6, <1>7, <1>8 DEF IInv

\* A step that adds a handler, with those of the signals and of the accept.
LEMMA PostIInv ==
  ASSUME IInv, NEW h \in Handlers, ready' = Append(ready, h),
         UNCHANGED <<run, listening, pooled>>, TypeOK',
         run # "returned" \/ peer' = peer,
         peer' = peer \/ h = AcceptDone("none"),
         waiting' = waiting \/ h = StopAsked
  PROVE  IInv'
<1>1. ready \in Seq(Handlers)
  BY DEF IInv, TypeOK
<1>2. ASSUME NEW g, Queued(g) \/ g = h PROVE Queued(g)'
  BY <1>1, <1>2, QueuedInAppend DEF Queued
<1>3. SignalWillStop'
  BY <1>2 DEF IInv, SignalWillStop
<1>4. AcceptedWillBePooled'
  BY <1>2 DEF IInv, AcceptedWillBePooled
<1>5. ReturnsOnlyIfStopped' /\ AcceptedIsPooled'
  BY DEF IInv, ReturnsOnlyIfStopped, AcceptedIsPooled
<1>6. QED
  BY <1>3, <1>4, <1>5 DEF IInv

LEMMA NextIInv == IInv /\ [Next]_vars => IInv'
<1> SUFFICES ASSUME IInv, [Next]_vars PROVE IInv'
  OBVIOUS
<1>1. TypeOK /\ ready \in Seq(Handlers)
  BY DEF IInv, TypeOK
<1>2. CASE Handler
  BY <1>2, HandleAcceptIInv, HandleStopIInv DEF Handler
<1>3. CASE Run
  BY <1>1, <1>3 DEF Run, io, environment, IInv, TypeOK, SignalWillStop, AcceptedWillBePooled,
     ReturnsOnlyIfStopped, AcceptedIsPooled, Queued
<1>4. CASE RunReturns
  <2>1. ~Queued(StopAsked) /\ ~Queued(AcceptDone("none"))
    BY <1>4 DEF RunReturns, Queued
  <2>2. ~listening /\ (peer # NoClient => pooled)
    BY <1>4, <2>1 DEF RunReturns, IInv, SignalWillStop, AcceptedWillBePooled
  <2>3. QED
    BY <1>1, <1>4, <2>2 DEF RunReturns, io, environment, IInv, TypeOK, SignalWillStop,
       AcceptedWillBePooled, ReturnsOnlyIfStopped, AcceptedIsPooled
<1>5. CASE AcceptCompletes
  <2>1. Head(backlog) \in Clients /\ Tail(backlog) \in Seq(Clients)
    BY <1>1, <1>5 DEF AcceptCompletes, TypeOK
  <2>2. AcceptDone("none") \in Handlers
    BY HandlersTyped DEF Errors
  <2>3. TypeOK'
    <3>1. ready' \in Seq(Handlers)
      BY <1>1, <1>5, <2>2 DEF AcceptCompletes
    <3>2. QED
      BY <1>1, <1>5, <2>1, <3>1, Zenon DEF AcceptCompletes, TypeOK, environment
  <2>4. QED
    BY <1>5, <2>2, <2>3, PostIInv DEF AcceptCompletes
<1>6. CASE Stop
  <2>1. TypeOK'
    <3>1. ready' \in Seq(Handlers)
      BY <1>1, <1>6, HandlersTyped DEF Stop
    <3>2. stops' \in 0..MaxStops
      <4>1. stops \in 0..MaxStops /\ stops < MaxStops /\ stops' = stops + 1
        BY <1>1, <1>6, Zenon DEF Stop, TypeOK
      <4>2. QED
        BY <4>1, MaxStopsAssumption
    <3>3. QED
      BY <1>1, <1>6, <3>1, <3>2, Zenon DEF Stop, TypeOK
  <2>2. QED
    BY <1>6, <2>1, HandlersTyped, PostIInv DEF Stop
<1>7. CASE Signal
  <2>1. TypeOK'
    <3>1. ready' \in Seq(Handlers)
      BY <1>1, <1>7, HandlersTyped DEF Signal
    <3>2. QED
      BY <1>1, <1>7, <3>1, Zenon DEF Signal, TypeOK, environment
  <2>2. QED
    BY <1>7, <2>1, HandlersTyped, PostIInv DEF Signal
<1>8. ASSUME NEW client \in Clients, Connect(client) PROVE IInv'
  <2>1. UNCHANGED <<run, listening, accepting, ready, peer, pooled, waiting, stops>>
    BY <1>8, Zenon DEF Connect, io
  <2>2. backlog' \in Seq(Clients)
    <3>1. backlog \in Seq(Clients) /\ backlog' = Append(backlog, client)
      BY <1>1, <1>8, Zenon DEF Connect, TypeOK
    <3>2. QED
      BY <3>1
  <2>3. tried' \in SUBSET Clients
    BY <1>1, <1>8, Zenon DEF Connect, TypeOK
  <2>4. TypeOK'
    BY <1>1, <2>1, <2>2, <2>3, Zenon DEF TypeOK
  <2>5. QED
    BY <2>1, <2>4 DEF IInv, SignalWillStop, AcceptedWillBePooled, ReturnsOnlyIfStopped,
                      AcceptedIsPooled, Queued
<1>9. CASE UNCHANGED vars
  BY <1>1, <1>9 DEF vars, IInv, TypeOK, SignalWillStop, AcceptedWillBePooled,
     ReturnsOnlyIfStopped, AcceptedIsPooled, Queued
<1>10. QED
  BY <1>2, <1>3, <1>4, <1>5, <1>6, <1>7, <1>8, <1>9 DEF Next, Service, Environment

-------------------------------------------------------------------------------
(***************************************************************************)
(* The types of the state, that a handler that will close the acceptor is  *)
(* queued once the wait for a signal is over, and that one that will pool  *)
(* the accepted client is queued until it is pooled.                       *)
(***************************************************************************)
THEOREM Invariant == Spec => []IInv
  BY InitIInv, NextIInv, PTL DEF Spec

(***************************************************************************)
(* run() never returns before the server was stopped.                      *)
(***************************************************************************)
THEOREM NeverReturnsUnasked == Spec => []ReturnsOnlyIfStopped
<1>1. IInv => ReturnsOnlyIfStopped
  BY DEF IInv
<1>2. QED
  BY <1>1, Invariant, PTL

(***************************************************************************)
(* run() never returns with an accepted client that is not in the pool.    *)
(***************************************************************************)
THEOREM NoClientDropped == Spec => []AcceptedIsPooled
<1>1. IInv => AcceptedIsPooled
  BY DEF IInv
<1>2. QED
  BY <1>1, Invariant, PTL

-------------------------------------------------------------------------------
\* A process with a pool of connections.

USE NoClientAssumption, DialsAssumption, UnboundAssumption

LEMMA NodeStep ==
  ASSUME [NodeNext]_nodeVars
  PROVE  [Next]_vars
<1>1. CASE NodeHandler
  BY <1>1 DEF NodeHandler, Next, Service
<1>2. CASE NodeServer
  BY <1>2 DEF NodeServer, Next, Service
<1>3. ASSUME NEW d \in Dials, Dial(d) \/ Connects(d) \/ ConnectFails(d) \/ HandleConnect(d)
      PROVE  UNCHANGED vars
  BY <1>3 DEF Dial, Connects, ConnectFails, HandleConnect
<1>4. ASSUME NEW ep, Take(ep) \/ Erase(ep) PROVE UNCHANGED vars
  BY <1>4 DEF Take, Erase
<1>5. CASE Clear
  BY <1>5 DEF Clear
<1>6. CASE UNCHANGED nodeVars
  BY <1>6 DEF nodeVars
<1>7. QED
  BY <1>1, <1>2, <1>3, <1>4, <1>5, <1>6, Zenon DEF NodeNext

LEMMA NodeStepImplies == [NodeNext]_nodeVars => [Next]_vars
BY NodeStep

\* The server of a process with a pool and clients behaves as a tcp_server.
THEOREM NodeServes == NodeSpec => Spec
<1>1. NodeInit => Init
  BY DEF NodeInit
<1>2. QED
  BY <1>1, NodeStepImplies, PTL DEF NodeSpec, Spec

-------------------------------------------------------------------------------
Holds(q, h) == \E i \in DOMAIN q : q[i] = h

\* A handler is queued after a call or a post only if it was, or was posted.
LEMMA HeldBeforeTail ==
  ASSUME NEW S, NEW q \in Seq(S), NEW h, q # <<>>, Holds(Tail(q), h)
  PROVE  Holds(q, h)
<1>1. PICK i \in DOMAIN Tail(q) : Tail(q)[i] = h
  BY DEF Holds
<1>2. Tail(q)[i] = q[i + 1] /\ i + 1 \in DOMAIN q
  BY <1>1
<1>3. QED
  BY <1>1, <1>2 DEF Holds

LEMMA HeldBeforeAppend ==
  ASSUME NEW S, NEW q \in Seq(S), NEW h, NEW x \in S, x # h, Holds(Append(q, x), h)
  PROVE  Holds(q, h)
<1>1. PICK i \in DOMAIN Append(q, x) : Append(q, x)[i] = h
  BY DEF Holds
<1>2. i \in 1..Len(q) + 1 /\ Append(q, x)[Len(q) + 1] = x
  BY <1>1
<1>3. i \in DOMAIN q /\ Append(q, x)[i] = q[i]
  BY <1>1, <1>2
<1>4. QED
  BY <1>1, <1>3 DEF Holds

LEMMA AcceptsOneNext == IInv /\ AcceptsOne /\ [Next]_vars => AcceptsOne'
<1> SUFFICES ASSUME IInv, AcceptsOne, [Next]_vars PROVE AcceptsOne'
  OBVIOUS
<1> DEFINE done == AcceptDone("none")
<1>0. ready \in Seq(Handlers) /\ backlog \in Seq(Clients)
  BY DEF IInv, TypeOK
<1>1. /\ StopAsked \in Handlers /\ StopAsked # done
      /\ AcceptDone("aborted") \in Handlers /\ AcceptDone("aborted") # done
      /\ AcceptDone("already open") \in Handlers /\ AcceptDone("already open") # done
  BY HandlersTyped DEF Errors, AcceptDone
<1> DEFINE after == (accepting' => peer' = NoClient) /\ (Holds(ready', done) => peer' # NoClient)
<1>2. (accepting => peer = NoClient) /\ (Holds(ready, done) => peer # NoClient)
  BY DEF AcceptsOne, Queued, Holds
<1>3. SUFFICES after
  BY DEF AcceptsOne, Queued, Holds
<1> HIDE DEF done
<1>4. ASSUME ready # <<>>, HandleAccept, Head(ready).e # "none" PROVE after
  <2>1. ready' = Tail(ready) /\ UNCHANGED <<accepting, peer>>
    BY <1>4 DEF HandleAccept
  <2>2. QED
    BY <1>0, <1>1, <1>2, <1>4, <2>1, HeldBeforeTail
<1>5. ASSUME ready # <<>>, HandleAccept, Head(ready).e = "none" PROVE after
  <2>1. Head(ready) = done
    <3>1. Head(ready) \in Handlers /\ Head(ready).call = "handle_accept"
      BY <1>0, <1>5 DEF HandleAccept
    <3>2. Head(ready) = [call |-> Head(ready).call, e |-> Head(ready).e]
      BY <3>1 DEF Handlers
    <3>3. QED
      BY <1>5, <3>1, <3>2 DEF done, AcceptDone
  <2>2. Holds(ready, done)
    BY <1>0, <1>5, <2>1 DEF Holds
  <2>3. peer # NoClient
    BY <1>2, <2>2
  <2>4. accepting' = FALSE /\ peer' = peer
    BY <1>5, <2>3 DEF HandleAccept, AsyncAccept
  <2>5. QED
    BY <2>3, <2>4
<1>6. ASSUME ready # <<>>, HandleStop PROVE after
  <2>1. accepting' = FALSE /\ peer' = peer
    BY <1>6 DEF HandleStop
  <2>2. Tail(ready) \in Seq(Handlers)
    BY <1>0, <1>6
  <2>3. ready' = Tail(ready) \/ ready' = Append(Tail(ready), AcceptDone("aborted"))
    BY <1>6 DEF HandleStop
  <2>4. Holds(ready', done) => Holds(Tail(ready), done)
    <3>1. CASE ready' = Tail(ready)
      BY <3>1
    <3>2. CASE ready' = Append(Tail(ready), AcceptDone("aborted"))
      BY <1>1, <2>2, <3>2, HeldBeforeAppend
    <3>3. QED
      BY <2>3, <3>1, <3>2
  <2>5. Holds(ready', done) => Holds(ready, done)
    BY <1>0, <1>1, <1>6, <2>4, HeldBeforeTail
  <2>6. QED
    BY <1>2, <2>1, <2>5
<1>7. CASE AcceptCompletes
  <2>1. accepting' = FALSE /\ peer' \in Clients
    BY <1>0, <1>7 DEF AcceptCompletes
  <2>2. QED
    BY <2>1
<1>8. CASE Stop \/ Signal
  <2>1. ready' = Append(ready, StopAsked) /\ UNCHANGED <<accepting, peer>>
    BY <1>8 DEF Stop, Signal
  <2>2. QED
    BY <1>0, <1>1, <1>2, <2>1, HeldBeforeAppend
<1>9. CASE Run \/ RunReturns \/ \E client \in Clients : Connect(client)
  <2>1. UNCHANGED <<accepting, ready, peer>>
    BY <1>9 DEF Run, RunReturns, Connect, io
  <2>2. QED
    BY <1>2, <2>1
<1>10. CASE UNCHANGED vars
  BY <1>2, <1>10 DEF vars
<1>11. QED
  BY <1>4, <1>5, <1>6, <1>7, <1>8, <1>9, <1>10, Zenon DEF Next, Service, Environment, Handler

-------------------------------------------------------------------------------
\* What is queued once is queued once in what is left, and not at all if it
\* was the next; an entry of another kind adds none.
LEMMA OnceInTail ==
  ASSUME NEW S, NEW q \in Seq(S), q # <<>>, NEW h,
         \A i, j \in DOMAIN q : q[i] = h /\ q[j] = h => i = j
  PROVE  /\ \A i, j \in DOMAIN Tail(q) : Tail(q)[i] = h /\ Tail(q)[j] = h => i = j
         /\ Head(q) = h => ~Holds(Tail(q), h)
<1>1. \A i \in DOMAIN Tail(q) : i \in Nat /\ i # 0 /\ i + 1 \in DOMAIN q /\ Tail(q)[i] = q[i + 1]
  OBVIOUS
<1>2. 1 \in DOMAIN q /\ Head(q) = q[1]
  OBVIOUS
<1>3. \A i, j \in DOMAIN Tail(q) : Tail(q)[i] = h /\ Tail(q)[j] = h => i = j
  BY <1>1
<1>4. Head(q) = h => ~Holds(Tail(q), h)
  BY <1>1, <1>2 DEF Holds
<1>5. QED
  BY <1>3, <1>4

LEMMA OnceInAppend ==
  ASSUME NEW S, NEW q \in Seq(S), NEW h, NEW x \in S, x # h \/ ~Holds(q, h),
         \A i, j \in DOMAIN q : q[i] = h /\ q[j] = h => i = j
  PROVE  \A i, j \in DOMAIN Append(q, x) : Append(q, x)[i] = h /\ Append(q, x)[j] = h => i = j
<1>1. \A i \in DOMAIN Append(q, x) :
        (i \in DOMAIN q /\ Append(q, x)[i] = q[i]) \/ (i = Len(q) + 1 /\ Append(q, x)[i] = x)
  OBVIOUS
<1>2. QED
  BY <1>1 DEF Holds

LEMMA AcceptedOnceNext == IInv /\ AcceptsOne /\ AcceptedOnce /\ [Next]_vars => AcceptedOnce'
<1> SUFFICES ASSUME IInv, AcceptsOne, AcceptedOnce, [Next]_vars PROVE AcceptedOnce'
  OBVIOUS
<1> DEFINE done == AcceptDone("none")
           Once(q) == \A i, j \in DOMAIN q : q[i] = done /\ q[j] = done => i = j
           after == (peer' = NoClient \/ Holds(ready', done) => ~pooled') /\ Once(ready')
<1>0. /\ ready \in Seq(Handlers) /\ backlog \in Seq(Clients) /\ peer \in Clients \cup {NoClient}
      /\ AcceptsOne
  BY DEF IInv, TypeOK
<1>1. /\ StopAsked \in Handlers /\ StopAsked # done
      /\ AcceptDone("aborted") \in Handlers /\ AcceptDone("aborted") # done
      /\ AcceptDone("already open") \in Handlers /\ AcceptDone("already open") # done
      /\ done \in Handlers
  BY HandlersTyped DEF Errors, AcceptDone
<1>2. /\ peer = NoClient \/ Holds(ready, done) => ~pooled
      /\ Once(ready)
      /\ Holds(ready, done) => peer # NoClient
      /\ accepting => peer = NoClient
  BY <1>0 DEF AcceptedOnce, AcceptsOne, Queued, Holds
<1>3. SUFFICES after
  BY DEF AcceptedOnce, Queued, Holds
<1>4. ASSUME ready # <<>>
      PROVE  /\ Tail(ready) \in Seq(Handlers) /\ Once(Tail(ready))
             /\ Holds(Tail(ready), done) => Holds(ready, done) /\ Head(ready) # done
  <2>1. Once(Tail(ready)) /\ (Head(ready) = done => ~Holds(Tail(ready), done))
    <3> HIDE DEF done
    <3> QED
      BY <1>0, <1>2, <1>4, OnceInTail
  <2>2. Holds(Tail(ready), done) => Holds(ready, done)
    <3> HIDE DEF done
    <3> QED
      BY <1>0, <1>4, HeldBeforeTail
  <2>3. Tail(ready) \in Seq(Handlers)
    BY <1>0, <1>4
  <2>4. QED
    BY <2>1, <2>2, <2>3
\* Adding a handler of another kind to a queue adds no accept.
<1>5. ASSUME NEW q \in Seq(Handlers), NEW x \in Handlers, x # done, Once(q)
      PROVE  Once(Append(q, x)) /\ (Holds(Append(q, x), done) => Holds(q, done))
  <2> HIDE DEF done
  <2>1. QED
    BY <1>5, OnceInAppend, HeldBeforeAppend
<1> HIDE DEF done, Once
<1>6. ASSUME ready # <<>>, HandleAccept, Head(ready).e # "none" PROVE after
  <2>1. ready' = Tail(ready) /\ UNCHANGED <<peer, pooled>>
    BY <1>6 DEF HandleAccept
  <2>2. QED
    BY <1>2, <1>4, <1>6, <2>1
<1>7. ASSUME ready # <<>>, HandleAccept, Head(ready).e = "none" PROVE after
  <2>1. Head(ready) = done
    <3>1. Head(ready) \in Handlers /\ Head(ready).call = "handle_accept"
      BY <1>0, <1>7 DEF HandleAccept
    <3>2. Head(ready) = [call |-> Head(ready).call, e |-> Head(ready).e]
      BY <3>1 DEF Handlers
    <3>3. QED
      BY <1>7, <3>1, <3>2 DEF done, AcceptDone
  <2>2. Holds(ready, done)
    BY <1>0, <1>7, <2>1 DEF Holds
  <2>3. peer' = peer /\ peer # NoClient
    BY <1>2, <1>7, <2>2 DEF HandleAccept
  <2>4. ready' = Append(Tail(ready), AcceptDone("already open"))
    BY <1>7, <2>3 DEF HandleAccept, AsyncAccept
  <2>5. ~Holds(ready', done) /\ Once(ready')
    BY <1>1, <1>4, <1>5, <1>7, <2>1, <2>4
  <2>6. QED
    BY <2>3, <2>5
<1>8. ASSUME ready # <<>>, HandleStop PROVE after
  <2>1. UNCHANGED <<peer, pooled>>
    BY <1>8 DEF HandleStop
  <2>2. ready' = Tail(ready) \/ ready' = Append(Tail(ready), AcceptDone("aborted"))
    BY <1>8 DEF HandleStop
  <2>3. Once(ready') /\ (Holds(ready', done) => Holds(ready, done))
    BY <1>1, <1>4, <1>5, <1>8, <2>2
  <2>4. QED
    BY <1>2, <2>1, <2>3
<1>9. CASE AcceptCompletes
  <2>1. accepting /\ backlog # <<>> /\ peer' = Head(backlog) /\ ready' = Append(ready, done)
        /\ pooled' = pooled
    BY <1>9 DEF AcceptCompletes, done
  <2>2. peer = NoClient /\ ~pooled /\ ~Holds(ready, done)
    BY <1>2, <2>1
  <2>3. Once(ready')
    <3>1. \A i, j \in DOMAIN ready : ready[i] = done /\ ready[j] = done => i = j
      BY <1>2 DEF Once
    <3>2. \A i, j \in DOMAIN Append(ready, done) :
            Append(ready, done)[i] = done /\ Append(ready, done)[j] = done => i = j
      BY <1>0, <1>1, <2>2, <3>1, OnceInAppend
    <3>3. QED
      BY <2>1, <3>2 DEF Once
  <2>4. QED
    BY <2>1, <2>2, <2>3
<1>10. CASE Stop \/ Signal
  <2>1. ready' = Append(ready, StopAsked) /\ UNCHANGED <<peer, pooled>>
    BY <1>10 DEF Stop, Signal
  <2>2. QED
    BY <1>0, <1>1, <1>2, <1>5, <2>1
<1>11. CASE Run \/ RunReturns \/ (\E client \in Clients : Connect(client)) \/ UNCHANGED vars
  <2>1. UNCHANGED <<ready, peer, pooled>>
    BY <1>11 DEF Run, RunReturns, Connect, io, vars
  <2>2. QED
    BY <1>2, <2>1
<1>12. QED
  BY <1>6, <1>7, <1>8, <1>9, <1>10, <1>11, Zenon DEF Next, Service, Environment, Handler

-------------------------------------------------------------------------------
\* What may be in the pool: handled tcp_clients, and the server's one client.
LEMMA PutTyped ==
  ASSUME TypeOK, AcceptedOnce, PoolKeyed, NEW c, WasPut(c)
  PROVE  /\ c \in handled \/ c \in Clients
         /\ c \in handled => c \in Dials /\ c \notin Clients
         /\ c \in Clients => c = peer
BY DEF TypeOK, AcceptedOnce, PoolKeyed, WasPut

\* Who was put stays so, and keeps its endpoints.
LEMMA PutStays ==
  ASSUME NodeIInv, [NodeNext]_nodeVars
  PROVE  /\ \A c : WasPut(c) => WasPut(c)'
         /\ \A d \in handled : dial'[d] = dial[d] /\ ends'[d] = ends[d]
<1>1. TypeOK /\ AcceptsOne /\ AcceptedOnce /\ PoolKeyed
  BY DEF NodeIInv, IInv
<1>2. peer = NoClient => ~pooled
  BY <1>1 DEF AcceptedOnce
<1> DEFINE goal == /\ \A c : WasPut(c) => WasPut(c)'
                   /\ \A d \in handled : dial'[d] = dial[d] /\ ends'[d] = ends[d]
<1>3. CASE NodeHandler
  <2>1. UNCHANGED <<dial, ends, handled, peer>> /\ (pooled => pooled')
    BY <1>3 DEF NodeHandler, Handler, HandleAccept, HandleStop
  <2>2. QED
    BY <2>1 DEF WasPut
<1>4. CASE NodeServer
  <2>1. UNCHANGED <<dial, ends, handled, pooled>> /\ (peer' = peer \/ peer = NoClient)
    BY <1>1, <1>4 DEF NodeServer, AcceptCompletes, AcceptsOne, RunReturns, Environment, Run, Stop,
       Signal, Connect
  <2>2. QED
    BY <1>2, <2>1 DEF WasPut
<1>5. ASSUME NEW d \in Dials, Dial(d) \/ Connects(d) \/ ConnectFails(d) PROVE goal
  <2>1. UNCHANGED <<handled, peer, pooled>> /\ dial[d] \in {"none", "connecting"}
    BY <1>5 DEF Dial, Connects, ConnectFails, vars
  <2>2. d \notin handled
    BY <1>1, <2>1 DEF PoolKeyed
  <2>3. \A o \in Dials : o # d => dial'[o] = dial[o] /\ ends'[o] = ends[o]
    BY <1>1, <1>5 DEF Dial, Connects, ConnectFails, PoolKeyed
  <2>4. handled \subseteq Dials
    BY <1>1 DEF PoolKeyed
  <2>5. QED
    BY <2>1, <2>2, <2>3, <2>4 DEF WasPut
<1>6. ASSUME NEW d \in Dials, HandleConnect(d) PROVE goal
  BY <1>6 DEF HandleConnect, WasPut, vars
<1>7. ASSUME NEW ep, Take(ep) \/ Erase(ep) PROVE goal
  BY <1>7 DEF Take, Erase, WasPut, vars
<1>8. CASE Clear
  BY <1>8 DEF Clear, WasPut, vars
<1>9. CASE UNCHANGED nodeVars
  BY <1>9 DEF nodeVars, vars, WasPut
<1>10. QED
  BY <1>3, <1>4, <1>5, <1>6, <1>7, <1>8, <1>9, Zenon DEF NodeNext

\* A step that changes no endpoints of what was put changes none of its keys.
LEMMA KeysStay ==
  ASSUME TypeOK, AcceptedOnce, PoolKeyed, NEW c, WasPut(c),
         \A d \in handled : dial'[d] = dial[d] /\ ends'[d] = ends[d]
  PROVE  /\ LocalEndpoint(c)' = LocalEndpoint(c)
         /\ (c \in Connected)' <=> c \in Connected
         /\ \A o : WasPut(o) => (SameWay(c, o)' <=> SameWay(c, o))
<1>1. c \in handled \/ c \in Clients
  BY PutTyped
<1>2. handled \subseteq Dials
  BY DEF PoolKeyed
<1>3. LocalEndpoint(c)' = LocalEndpoint(c)
  BY <1>1, <1>2 DEF LocalEndpoint
<1>4. (c \in Connected)' <=> c \in Connected
  BY <1>1, <1>2 DEF Connected
<1>5. ASSUME NEW o, WasPut(o) PROVE SameWay(c, o)' <=> SameWay(c, o)
  <2>1. o \in handled \/ o \in Clients
    BY <1>5, PutTyped
  <2>2. QED
    BY <1>1, <1>2, <2>1 DEF SameWay
<1>6. QED
  BY <1>3, <1>4, <1>5

\* What another displaced stays accounted for by it.
LEMMA DisplacedStays ==
  ASSUME TypeOK, AcceptedOnce, PoolKeyed, PooledIsKept,
         NEW x \in put, x \in Connected', ~InBox(x), WasPut(x),
         \A d \in handled : dial'[d] = dial[d] /\ ends'[d] = ends[d],
         \A c : WasPut(c) => WasPut(c)'
  PROVE  \E o \in Dials \cup Clients :
           /\ WasPut(o)' /\ LocalEndpoint(o)' = LocalEndpoint(x)'
           /\ o # x /\ ~SameWay(x, o)'
<1>1. x \in Connected
  BY KeysStay
<1>2. PICK o \in Dials \cup Clients :
        WasPut(o) /\ LocalEndpoint(o) = LocalEndpoint(x) /\ o # x /\ ~SameWay(x, o)
  BY <1>1 DEF PooledIsKept
<1>3. LocalEndpoint(o)' = LocalEndpoint(o) /\ LocalEndpoint(x)' = LocalEndpoint(x)
  BY <1>2, KeysStay
<1>4. ~SameWay(x, o)'
  BY <1>2, KeysStay
<1>5. QED
  BY <1>2, <1>3, <1>4

\* The connections put are handled tcp_clients, or clients the server accepted.
PutIsPut == \A x \in put : WasPut(x)

\* Sockets that are not open before a step are not open after it, but for one
\* that connects.
LEMMA ApartKept ==
  ASSUME OpenApart, UNCHANGED <<dial, ends>>, handled \subseteq handled',
         \A d \in Dials : InBox(d)' => InBox(d) \/ d \notin handled
  PROVE  OpenApart'
<1>1. \A d \in Dials : Open(d)' => Open(d)
  BY DEF Open
<1>2. QED
  BY <1>1 DEF OpenApart

-------------------------------------------------------------------------------
\* A put leaves the key to one of two connections that differ, and the other is
\* the one that is lost.
LEMMA PutKeeps ==
  ASSUME TypeOK, AcceptedOnce, EndsKnown, OpenApart, PoolKeyed, PutIsPut, PooledIsKept,
         NEW c \in Dials \cup Clients, Put(c), UNCHANGED <<dial, ends, peer>>,
         c \notin handled, WasPut(c)', \A x : WasPut(x) => WasPut(x)',
         handled' = handled \cup ({c} \cap Dials),
         c \in Dials => dial[c] \in {"connected", "failed"}
  PROVE  PoolKeyed' /\ PutIsPut' /\ PooledIsKept' /\ OpenApart'
<1> DEFINE ep == LocalEndpoint(c)
<1>1. Connected' = Connected /\ \A x, o : SameWay(x, o)' <=> SameWay(x, o)
  BY DEF Connected, SameWay
<1>2. \A x : LocalEndpoint(x)' = LocalEndpoint(x)
  BY DEF LocalEndpoint
<1>3. PICK kept \in {c} \cup {box[e] : e \in DOMAIN box \cap {ep}} :
        box' = [e \in DOMAIN box \cup {ep} |-> IF e = ep THEN kept ELSE box[e]]
  BY DEF Put
<1>4. put' = put \cup {c}
  BY DEF Put
<1>5. \A e \in DOMAIN box : WasPut(box[e]) /\ LocalEndpoint(box[e]) = e
  BY DEF PoolKeyed
<1>6. handled \subseteq Dials
  BY DEF PoolKeyed
<1> HIDE DEF ep
<1>7. /\ \A x : InBox(x)' => InBox(x) \/ x = c
      /\ \A x : InBox(x) => InBox(x)' \/ (ep \in DOMAIN box /\ x = box[ep] /\ kept = c)
      /\ InBox(c)' \/ (ep \in DOMAIN box /\ kept = box[ep])
  BY <1>3 DEF InBox
<1>8. PoolKeyed'
  <2>1. ASSUME NEW e \in DOMAIN box' PROVE (WasPut(box[e]) /\ LocalEndpoint(box[e]) = e)'
    <3>1. PICK x : x = box'[e]
      OBVIOUS
    <3>2. WasPut(x)' /\ LocalEndpoint(x) = e
      BY <1>3, <1>5, <3>1 DEF ep
    <3>3. QED
      BY <1>2, <3>1, <3>2 DEF WasPut, LocalEndpoint
  <2>2. put' \subseteq handled' \cup Clients
    BY <1>4 DEF PoolKeyed
  <2>3. handled' \in SUBSET {d \in Dials : dial'[d] \in {"connected", "failed"}}
    BY DEF PoolKeyed
  <2>4. QED
    BY <2>1, <2>2, <2>3 DEF PoolKeyed
<1>9. PutIsPut'
  BY <1>4 DEF PutIsPut
\* The two under one key are not both clients of the server, and not two
\* sockets that are open and connected to the same endpoint.
<1>10. ASSUME ep \in DOMAIN box, NEW o, o = box[ep], o # c, c \in Connected \/ o \in Connected
       PROVE  /\ WasPut(o) /\ LocalEndpoint(o) = ep /\ o \in Dials \cup Clients
              /\ ~SameWay(c, o) /\ ~SameWay(o, c)
  <2>1. WasPut(o) /\ LocalEndpoint(o) = ep /\ InBox(o)
    BY <1>5, <1>10 DEF InBox
  <2>2. (o \in handled \/ o \in Clients) /\ (o \in Clients => o = peer)
    BY <2>1, PutTyped
  <2>3. c \in Clients => c = peer
    BY <1>6 DEF WasPut
  <2>4. ~(c \in Clients /\ o \in Clients)
    BY <1>10, <2>2, <2>3
  <2>5. ASSUME c \in Dials, o \in Dials, ends[c].remote = ends[o].remote PROVE FALSE
    <3>1. dial[c] = "connected" \/ dial[o] = "connected"
      BY <1>10, <2>5 DEF Connected
    <3>2. dial[c] = "connected" /\ dial[o] = "connected"
      BY <2>5, <3>1 DEF EndsKnown
    <3>3. Open(c) /\ Open(o)
      BY <2>1, <3>2 DEF Open
    <3>4. ends[c] # ends[o]
      BY <1>10, <2>5, <3>3 DEF OpenApart
    <3>5. ends[c].local = ends[o].local
      BY <2>1, <2>5 DEF LocalEndpoint, ep
    <3>6. ends[c] \in [local : Keys, remote : Remotes \cup {Unbound}]
          /\ ends[o] \in [local : Keys, remote : Remotes \cup {Unbound}]
      BY <2>5 DEF PoolKeyed
    <3>7. QED
      BY <2>5, <3>4, <3>5, <3>6
  <2>6. QED
    BY <1>6, <2>1, <2>2, <2>4, <2>5 DEF SameWay
<1>11. ASSUME NEW x \in put' \cap Connected', ~InBox(x)'
       PROVE  \E o \in Dials \cup Clients :
                /\ WasPut(o)' /\ LocalEndpoint(o)' = LocalEndpoint(x)'
                /\ o # x /\ ~SameWay(x, o)'
  <2>1. CASE x = c
    <3>1. ep \in DOMAIN box /\ kept = box[ep]
      BY <1>7, <1>11, <2>1
    <3>2. box[ep] # c
      BY <1>3, <1>11, <2>1, <3>1 DEF InBox
    <3>3. WasPut(box[ep]) /\ LocalEndpoint(box[ep]) = ep /\ box[ep] \in Dials \cup Clients
          /\ ~SameWay(c, box[ep])
      BY <1>1, <1>10, <1>11, <2>1, <3>1, <3>2
    <3>4. QED
      BY <1>1, <1>2, <2>1, <3>2, <3>3 DEF ep
  <2>2. CASE x # c /\ InBox(x)
    <3>1. ep \in DOMAIN box /\ x = box[ep]
      BY <1>7, <1>11, <2>2
    <3>2. LocalEndpoint(x) = ep /\ ~SameWay(x, c)
      BY <1>1, <1>10, <1>11, <2>2, <3>1
    <3>3. QED
      BY <1>1, <1>2, <2>2, <3>2 DEF ep
  <2>3. CASE x # c /\ ~InBox(x)
    <3>1. x \in put
      BY <1>4, <1>11, <2>3
    <3>2. x \in Connected /\ WasPut(x)
      BY <1>1, <1>11, <3>1 DEF PutIsPut
    <3>3. QED
      BY <1>1, <2>3, <3>1, <3>2, DisplacedStays
  <2>4. QED
    BY <2>1, <2>2, <2>3
<1>12. OpenApart'
  BY <1>7, ApartKept
<1>13. QED
  BY <1>8, <1>9, <1>11, <1>12 DEF PooledIsKept

\* Taking out what is under some keys, all of it no longer put, keeps the rest.
LEMMA RemoveKeeps ==
  ASSUME TypeOK, AcceptedOnce, OpenApart, PoolKeyed, PutIsPut, PooledIsKept,
         NEW eps, box' = Without(eps), put' = put \ {box[ep] : ep \in DOMAIN box \cap eps},
         UNCHANGED <<dial, ends, handled, peer, pooled>>
  PROVE  PoolKeyed' /\ PutIsPut' /\ PooledIsKept' /\ OpenApart'
<1>1. /\ Connected' = Connected /\ \A x : WasPut(x)' <=> WasPut(x)
      /\ \A x : LocalEndpoint(x)' = LocalEndpoint(x)
  BY DEF Connected, WasPut, LocalEndpoint
<1>2. DOMAIN box' = DOMAIN box \ eps /\ \A e \in DOMAIN box' : box'[e] = box[e]
  BY DEF Without
<1>3. PoolKeyed'
  BY <1>1, <1>2 DEF PoolKeyed
<1>4. PutIsPut'
  BY <1>1 DEF PutIsPut
<1>5. ASSUME NEW x \in put' \cap Connected', ~InBox(x)'
      PROVE  \E o \in Dials \cup Clients :
               /\ WasPut(o)' /\ LocalEndpoint(o)' = LocalEndpoint(x)'
               /\ o # x /\ ~SameWay(x, o)'
  <2>1. x \in put /\ WasPut(x)
    BY <1>5 DEF PutIsPut
  <2>2. ~InBox(x)
    <3>1. \A ep \in DOMAIN box \cap eps : box[ep] # x
      BY <1>5
    <3>2. QED
      BY <1>2, <1>5, <3>1 DEF InBox
  <2>3. QED
    BY <1>1, <1>5, <2>1, <2>2, DisplacedStays
<1>6. OpenApart'
  BY <1>2, ApartKept DEF InBox
<1>7. QED
  BY <1>3, <1>4, <1>5, <1>6 DEF PooledIsKept

\* Whoever leaves the pool and what was put in it alone.
LEMMA LeaveKeeps ==
  ASSUME TypeOK, AcceptedOnce, PoolKeyed, PutIsPut, PooledIsKept,
         UNCHANGED <<handled, box, put>>,
         dial' \in [Dials -> {"none", "connecting", "connected", "failed"}],
         ends' \in [Dials -> [local : Keys, remote : Remotes \cup {Unbound}]],
         \A d \in handled : dial'[d] = dial[d] /\ ends'[d] = ends[d],
         \A c : WasPut(c) => WasPut(c)'
  PROVE  PoolKeyed' /\ PutIsPut' /\ PooledIsKept'
<1>1. PoolKeyed'
  <2>1. \A e \in DOMAIN box : WasPut(box[e])' /\ LocalEndpoint(box[e])' = e
    BY KeysStay DEF PoolKeyed
  <2>2. handled' \in SUBSET {d \in Dials : dial'[d] \in {"connected", "failed"}}
    BY DEF PoolKeyed
  <2>3. QED
    BY <2>1, <2>2 DEF PoolKeyed
<1>2. PutIsPut'
  BY DEF PutIsPut
<1>3. ASSUME NEW x \in put' \cap Connected', ~InBox(x)'
      PROVE  \E o \in Dials \cup Clients :
               /\ WasPut(o)' /\ LocalEndpoint(o)' = LocalEndpoint(x)'
               /\ o # x /\ ~SameWay(x, o)'
  <2>1. x \in put /\ WasPut(x) /\ ~InBox(x)
    BY <1>3 DEF PutIsPut, InBox
  <2>2. QED
    BY <1>3, <2>1, DisplacedStays
<1>4. QED
  BY <1>1, <1>2, <1>3 DEF PooledIsKept

LEMMA PoolNext ==
  NodeIInv /\ PutIsPut /\ [NodeNext]_nodeVars
    => PoolKeyed' /\ PutIsPut' /\ PooledIsKept' /\ OpenApart' /\ EndsKnown'
<1> SUFFICES ASSUME NodeIInv, PutIsPut, [NodeNext]_nodeVars
             PROVE  PoolKeyed' /\ PutIsPut' /\ PooledIsKept' /\ OpenApart' /\ EndsKnown'
  OBVIOUS
<1> DEFINE goal == PoolKeyed' /\ PutIsPut' /\ PooledIsKept' /\ OpenApart' /\ EndsKnown'
<1>1. TypeOK /\ AcceptsOne /\ AcceptedOnce /\ EndsKnown /\ OpenApart /\ PoolKeyed /\ PooledIsKept
  BY DEF NodeIInv, IInv
<1>2. /\ \A c : WasPut(c) => WasPut(c)'
      /\ \A d \in handled : dial'[d] = dial[d] /\ ends'[d] = ends[d]
  BY PutStays
<1>3. handled \subseteq Dials /\ (peer = NoClient => ~pooled)
  BY <1>1 DEF PoolKeyed, AcceptedOnce
<1>e. UNCHANGED <<dial, ends>> => EndsKnown'
  BY <1>1 DEF EndsKnown
\* Whoever leaves the sockets and the pool alone.
<1>u. ASSUME UNCHANGED <<dial, ends, handled, box, put>> PROVE goal
  <2>1. OpenApart'
    BY <1>1, <1>u, ApartKept DEF InBox
  <2>2. dial' \in [Dials -> {"none", "connecting", "connected", "failed"}]
        /\ ends' \in [Dials -> [local : Keys, remote : Remotes \cup {Unbound}]]
    BY <1>1, <1>u DEF PoolKeyed
  <2>3. PoolKeyed' /\ PutIsPut' /\ PooledIsKept'
    BY <1>1, <1>2, <1>u, <2>2, LeaveKeeps
  <2>4. QED
    BY <1>e, <1>u, <2>1, <2>3
<1>4. CASE NodeHandler
  <2>1. UNCHANGED <<dial, ends, handled, peer>>
    BY <1>4 DEF NodeHandler, Handler, HandleAccept, HandleStop
  <2>2. CASE Head(ready) = AcceptDone("none")
    <3>1. ready # <<>> /\ ready \in Seq(Handlers) /\ peer \in Clients \cup {NoClient}
      BY <1>1, <1>4 DEF NodeHandler, Handler, TypeOK
    <3>2. Queued(AcceptDone("none"))
      BY <2>2, <3>1 DEF Queued
    <3>3. peer \in Clients /\ peer \notin Dials
      BY <1>1, <3>1, <3>2 DEF AcceptsOne
    <3>4. Put(peer)
      BY <1>4, <2>2 DEF NodeHandler
    <3>5. pooled' = TRUE
      <4>1. Head(ready).call = "handle_accept" /\ Head(ready).e = "none"
        BY <2>2 DEF AcceptDone
      <4>2. HandleAccept
        BY <1>4, <4>1 DEF NodeHandler, Handler, HandleStop
      <4>3. QED
        BY <4>1, <4>2 DEF HandleAccept
    <3>6. \A x : x = peer => WasPut(x)'
      BY <2>1, <3>5 DEF WasPut
    <3>7. peer \notin handled /\ handled' = handled \cup ({peer} \cap Dials)
      BY <1>3, <2>1, <3>3
    <3>8. PICK c : c = peer
      OBVIOUS
    <3>9. PoolKeyed' /\ PutIsPut' /\ PooledIsKept' /\ OpenApart'
      BY <1>1, <1>2, <2>1, <3>3, <3>4, <3>6, <3>7, <3>8, PutKeeps
    <3>10. QED
      BY <1>e, <2>1, <3>9
  <2>3. CASE Head(ready) # AcceptDone("none")
    BY <1>4, <1>u, <2>1, <2>3 DEF NodeHandler, pool
  <2>4. QED
    BY <2>2, <2>3
<1>5. CASE NodeServer
  BY <1>5, <1>u DEF NodeServer, pool
<1>6. ASSUME NEW d \in Dials, Dial(d) \/ Connects(d) \/ ConnectFails(d) PROVE goal
  <2>1. UNCHANGED <<handled, box, put>> /\ dial[d] \in {"none", "connecting"}
    BY <1>6 DEF Dial, Connects, ConnectFails, pool
  <2>2. d \notin handled
    BY <1>1, <2>1 DEF PoolKeyed
  <2>3. /\ dial \in [Dials -> {"none", "connecting", "connected", "failed"}]
        /\ ends \in [Dials -> [local : Keys, remote : Remotes \cup {Unbound}]]
    BY <1>1 DEF PoolKeyed
  <2>4. dial' \in [Dials -> {"none", "connecting", "connected", "failed"}]
    BY <1>6, <2>3 DEF Dial, Connects, ConnectFails
  <2>5. PICK way \in [local : Keys, remote : Remotes \cup {Unbound}] :
          /\ ends' = [ends EXCEPT ![d] = way]
          /\ dial'[d] = "connected" =>
               /\ way.local \in Locals /\ way.remote \in Remotes
               /\ \A o \in Dials : Open(o) => ends[o] # way
          /\ dial'[d] # "connected" => way.remote = Unbound
    <3>1. CASE Dial(d)
      <4>1. ends' = [ends EXCEPT ![d] = ends[d]] /\ dial'[d] = "connecting" /\ dial[d] = "none"
        BY <2>3, <3>1 DEF Dial
      <4>2. ends[d].remote = Unbound
        BY <1>1, <4>1 DEF EndsKnown
      <4>3. QED
        BY <2>3, <4>1, <4>2
    <3>2. CASE Connects(d)
      <4>1. PICK way \in [local : Locals, remote : Remotes] :
              (\A o \in Dials : Open(o) => ends[o] # way) /\ ends' = [ends EXCEPT ![d] = way]
        BY <3>2 DEF Connects
      <4>2. way \in [local : Keys, remote : Remotes \cup {Unbound}]
        BY DEF Keys
      <4>3. dial'[d] = "connected"
        BY <2>3, <3>2 DEF Connects
      <4>4. QED
        BY <4>1, <4>2, <4>3
    <3>3. CASE ConnectFails(d)
      <4>1. PICK ep \in Locals \cup {Unbound} : ends' = [ends EXCEPT ![d].local = ep]
        BY <3>3 DEF ConnectFails
      <4>2. ends[d].remote = Unbound /\ dial'[d] = "failed"
        BY <1>1, <2>3, <3>3 DEF ConnectFails, EndsKnown
      <4>3. ends' = [ends EXCEPT ![d] = [local |-> ep, remote |-> Unbound]]
        <5>1. ends[d] = [local |-> ends[d].local, remote |-> Unbound]
          BY <2>3, <4>2
        <5>2. [ends[d] EXCEPT !.local = ep] = [local |-> ep, remote |-> Unbound]
          BY <5>1
        <5>3. QED
          BY <4>1, <5>2
      <4>4. [local |-> ep, remote |-> Unbound] \in [local : Keys, remote : Remotes \cup {Unbound}]
        BY DEF Keys
      <4>5. QED
        BY <4>2, <4>3, <4>4
    <3>4. QED
      BY <1>6, <3>1, <3>2, <3>3
  <2>6. /\ \A o \in Dials : o # d => dial'[o] = dial[o] /\ ends'[o] = ends[o]
        /\ ends'[d] = way
    BY <1>6, <2>3, <2>5 DEF Dial, Connects, ConnectFails
  <2>7. ends' \in [Dials -> [local : Keys, remote : Remotes \cup {Unbound}]]
    BY <2>3, <2>5
  <2>8. PoolKeyed' /\ PutIsPut' /\ PooledIsKept'
    BY <1>1, <1>2, <2>1, <2>4, <2>7, LeaveKeeps
  <2>9. EndsKnown'
    BY <1>1, <2>5, <2>6 DEF EndsKnown
  <2>10. OpenApart'
    <3>1. \A o \in Dials : o # d => (Open(o)' <=> Open(o))
      BY <2>1, <2>6 DEF Open, InBox
    <3>2. Open(d)' => \A o \in Dials : Open(o) => ends[o] # way
      BY <2>5 DEF Open
    <3>3. QED
      BY <1>1, <2>6, <3>1, <3>2 DEF OpenApart
  <2>11. QED
    BY <2>8, <2>9, <2>10
<1>7. ASSUME NEW d \in Dials, HandleConnect(d) PROVE goal
  <2>1. UNCHANGED <<peer, dial, ends>> /\ Put(d) /\ handled' = handled \cup {d} /\ d \notin handled
        /\ dial[d] \in {"connected", "failed"}
    BY <1>7 DEF HandleConnect, vars
  <2>2. WasPut(d)' /\ handled' = handled \cup ({d} \cap Dials)
    BY <2>1 DEF WasPut
  <2>3. PoolKeyed' /\ PutIsPut' /\ PooledIsKept' /\ OpenApart'
    BY <1>1, <1>2, <2>1, <2>2, PutKeeps
  <2>4. QED
    BY <1>e, <2>1, <2>3
<1>8. ASSUME NEW ep, Take(ep) \/ Erase(ep) PROVE goal
  <2>1. UNCHANGED <<dial, ends, handled, peer, pooled>> /\ box' = Without({ep})
        /\ put' = put \ {box[ep]} /\ ep \in DOMAIN box
    BY <1>8 DEF Take, Erase, vars
  <2>2. {box[e] : e \in DOMAIN box \cap {ep}} = {box[ep]}
    BY <2>1
  <2>3. PoolKeyed' /\ PutIsPut' /\ PooledIsKept' /\ OpenApart'
    BY <1>1, <2>1, <2>2, RemoveKeeps
  <2>4. QED
    BY <1>e, <2>1, <2>3
<1>9. CASE Clear
  <2>1. UNCHANGED <<dial, ends, handled, peer, pooled>> /\ DOMAIN box' = {} /\ put' = {}
    BY <1>9 DEF Clear, vars, Without
  <2>2. PoolKeyed'
    BY <1>1, <2>1 DEF PoolKeyed
  <2>3. OpenApart'
    BY <1>1, <2>1, ApartKept DEF InBox
  <2>4. QED
    BY <1>e, <2>1, <2>2, <2>3 DEF PooledIsKept, PutIsPut
<1>10. CASE UNCHANGED nodeVars
  BY <1>10, <1>u DEF nodeVars
<1>11. QED
  BY <1>4, <1>5, <1>6, <1>7, <1>8, <1>9, <1>10, Zenon DEF NodeNext

LEMMA NodeInitIInv == NodeInit => NodeIInv /\ PutIsPut
<1> SUFFICES ASSUME NodeInit PROVE NodeIInv /\ PutIsPut
  OBVIOUS
<1>1. IInv
  BY InitIInv DEF NodeInit
<1>2. AcceptsOne /\ AcceptedOnce
  <2>1. ready = <<>> /\ peer = NoClient /\ pooled = FALSE
    BY DEF NodeInit, Init
  <2>2. ~Queued(AcceptDone("none"))
    BY <2>1 DEF Queued
  <2>3. QED
    BY <2>1, <2>2 DEF AcceptsOne, AcceptedOnce
<1>3. /\ DOMAIN box = {} /\ put = {} /\ handled = {} /\ dial = [d \in Dials |-> "none"]
      /\ ends = [d \in Dials |-> [local |-> Unbound, remote |-> Unbound]]
  BY DEF NodeInit
<1>4. PoolKeyed
  BY <1>3 DEF PoolKeyed, Keys
<1>5. PooledIsKept /\ PutIsPut
  BY <1>3 DEF PooledIsKept, PutIsPut
<1>6. EndsKnown /\ OpenApart
  BY <1>3 DEF EndsKnown, OpenApart, Open
<1>7. QED
  BY <1>1, <1>2, <1>4, <1>5, <1>6 DEF NodeIInv

LEMMA NodeNextIInv == NodeIInv /\ PutIsPut /\ [NodeNext]_nodeVars => NodeIInv' /\ PutIsPut'
BY NodeStepImplies, NextIInv, AcceptsOneNext, AcceptedOnceNext, PoolNext DEF NodeIInv

\* A connection that was made is in the pool until it is taken out or another
\* that leads elsewhere was put under its local endpoint, whatever the number of
\* clients, of tcp_clients and of threads that use the pool.
THEOREM NoPutDropsAnother == NodeSpec => []PooledIsKept
<1>1. NodeIInv => PooledIsKept
  BY DEF NodeIInv
<1>2. QED
  BY <1>1, NodeInitIInv, NodeNextIInv, PTL DEF NodeSpec

-------------------------------------------------------------------------------
\* A connection that was not put before may be put.
LEMMA PutPutsOnce ==
  ASSUME NEW c, Put(c), PutOnce, ~WasPut(c), WasPut(c)',
         \A x : WasPut(x) => WasPut(x)'
  PROVE  PutOnce'
<1>1. taken' = taken
  BY DEF Put
<1>2. \A x : InBox(x)' => x = c \/ InBox(x)
  BY DEF Put, InBox
<1>3. QED
  BY <1>1, <1>2 DEF PutOnce

\* Taking out what is under some keys leaves nothing that was not there.
LEMMA RemoveLeaves ==
  ASSUME NEW eps, box' = Without(eps)
  PROVE  \A x : InBox(x)' => \E ep \in DOMAIN box \ eps : box[ep] = x
BY DEF Without, InBox

LEMMA PutOnceNext == TakenIInv /\ [NodeNext]_nodeVars => PutOnce'
<1> SUFFICES ASSUME TakenIInv, [NodeNext]_nodeVars PROVE PutOnce'
  OBVIOUS
<1>1. PoolKeyed /\ AcceptsOne /\ TypeOK /\ AcceptedOnce /\ PutOnce
  BY DEF TakenIInv, NodeIInv, IInv
<1>2. handled \subseteq Dials /\ (peer = NoClient => ~pooled)
  BY <1>1 DEF PoolKeyed, AcceptedOnce
<1>s. \A x : WasPut(x) => WasPut(x)'
  BY PutStays DEF TakenIInv
\* Whoever leaves the pool alone may set the server's socket once, and pool it.
<1>u. ASSUME UNCHANGED <<box, taken>> PROVE PutOnce'
  <2>1. \A x : InBox(x)' <=> InBox(x)
    BY <1>u DEF InBox
  <2>2. QED
    BY <1>1, <1>s, <1>u, <2>1 DEF PutOnce
<1>3. CASE NodeHandler
  <2>1. peer' = peer /\ handled' = handled /\ (pooled => pooled')
    BY <1>3 DEF NodeHandler, Handler, HandleAccept, HandleStop
  <2>3. CASE Head(ready) = AcceptDone("none")
    <3>1. ready # <<>> /\ ready \in Seq(Handlers) /\ peer \in Clients \cup {NoClient}
      BY <1>1, <1>3 DEF NodeHandler, Handler, TypeOK
    <3>2. Queued(AcceptDone("none"))
      BY <2>3, <3>1 DEF Queued
    <3>3. peer \in Clients /\ ~pooled
      BY <1>1, <3>1, <3>2 DEF AcceptsOne, AcceptedOnce
    <3>4. Put(peer)
      BY <1>3, <2>3 DEF NodeHandler
    <3>5. pooled' = TRUE
      <4>1. Head(ready).call = "handle_accept" /\ Head(ready).e = "none"
        BY <2>3 DEF AcceptDone
      <4>2. HandleAccept
        BY <1>3, <4>1 DEF NodeHandler, Handler, HandleStop
      <4>3. QED
        BY <4>1, <4>2 DEF HandleAccept
    <3>6. ~WasPut(peer) /\ (\A x : x = peer => WasPut(x)')
      BY <1>2, <2>1, <3>3, <3>5 DEF WasPut
    <3>7. QED
      BY <1>1, <1>s, <3>4, <3>6, PutPutsOnce
  <2>4. CASE Head(ready) # AcceptDone("none")
    BY <1>3, <1>u, <2>4 DEF NodeHandler, pool
  <2>5. QED
    BY <2>3, <2>4
<1>4. CASE NodeServer
  BY <1>4, <1>u DEF NodeServer, pool
<1>5. ASSUME NEW d \in Dials, Dial(d) \/ Connects(d) \/ ConnectFails(d) PROVE PutOnce'
  BY <1>5, <1>u DEF Dial, Connects, ConnectFails, pool
<1>6. ASSUME NEW d \in Dials, HandleConnect(d) PROVE PutOnce'
  <2>1. Put(d) /\ d \notin handled /\ handled' = handled \cup {d} /\ UNCHANGED <<peer, pooled>>
    BY <1>6 DEF HandleConnect, vars
  <2>2. d # peer \/ ~pooled
    BY <1>1, <1>2 DEF TypeOK
  <2>3. ~WasPut(d) /\ WasPut(d)'
    BY <2>1, <2>2 DEF WasPut
  <2>4. QED
    BY <1>1, <1>s, <2>1, <2>3, PutPutsOnce
<1>7. ASSUME NEW ep, Take(ep) PROVE PutOnce'
  <2> DEFINE c == box[ep]
  <2>1. ep \in DOMAIN box /\ box' = Without({ep}) /\ taken' = [taken EXCEPT ![c] = @ + 1]
        /\ UNCHANGED <<handled, peer, pooled>>
    BY <1>7 DEF Take, vars
  <2>2. \A e \in DOMAIN box : WasPut(box[e]) /\ LocalEndpoint(box[e]) = e
    BY <1>1 DEF PoolKeyed
  <2>3. c \in Dials \cup Clients
    BY <1>1, <2>1, <2>2, PutTyped
  <2>4. taken[c] = 0 /\ WasPut(c) /\ taken \in [Dials \cup Clients -> {0, 1}]
    BY <1>1, <2>1, <2>3 DEF PutOnce, InBox
  <2>5. \A e \in DOMAIN box \ {ep} : box[e] # c
    BY <2>1, <2>2
  <2>6. \A x : InBox(x)' => x # c /\ InBox(x)
    BY <2>1, <2>5, RemoveLeaves DEF InBox
  <2> HIDE DEF c
  <2>8. taken' \in [Dials \cup Clients -> {0, 1}] /\ taken'[c] = 1
        /\ \A x \in Dials \cup Clients : x # c => taken'[x] = taken[x]
    BY <2>1, <2>3, <2>4
  <2>9. QED
    BY <1>1, <1>s, <2>4, <2>6, <2>8 DEF PutOnce
<1>8. ASSUME NEW ep, Erase(ep) PROVE PutOnce'
  <2>1. box' = Without({ep}) /\ UNCHANGED <<taken, handled, peer, pooled>>
    BY <1>8 DEF Erase, vars
  <2>2. \A x : (InBox(x)' => InBox(x)) /\ (WasPut(x) => WasPut(x)')
    BY <2>1, RemoveLeaves DEF InBox, WasPut
  <2>3. QED
    BY <1>1, <2>1, <2>2 DEF PutOnce
<1>9. CASE Clear
  <2>1. box' = Without(DOMAIN box) /\ UNCHANGED <<taken, handled, peer, pooled>>
    BY <1>9 DEF Clear, vars
  <2>2. \A x : (InBox(x)' => InBox(x)) /\ (WasPut(x) => WasPut(x)')
    BY <2>1, RemoveLeaves DEF InBox, WasPut
  <2>3. QED
    BY <1>1, <2>1, <2>2 DEF PutOnce
<1>10. CASE UNCHANGED nodeVars
  BY <1>10, <1>u DEF nodeVars, vars, WasPut
<1>11. QED
  BY <1>3, <1>4, <1>5, <1>6, <1>7, <1>8, <1>9, <1>10, Zenon DEF NodeNext

LEMMA NodeInitTaken == NodeInit => TakenIInv /\ PutIsPut
<1> SUFFICES ASSUME NodeInit PROVE TakenIInv /\ PutIsPut
  OBVIOUS
<1>1. DOMAIN box = {} /\ taken = [c \in Dials \cup Clients |-> 0]
  BY DEF NodeInit
<1>2. PutOnce
  BY <1>1 DEF PutOnce, InBox
<1>3. QED
  BY <1>2, NodeInitIInv DEF TakenIInv

\* take() gives a connection to one caller, and the pool no longer has it,
\* whatever handlers and threads put and take around it: none is put twice.
THEOREM TakenOnce == NodeSpec => []TakenByOne
<1>1. TakenIInv => TakenByOne
  <2> SUFFICES ASSUME TakenIInv, NEW c \in Dials \cup Clients
               PROVE  taken[c] <= 1 /\ (taken[c] = 1 => \A ep \in DOMAIN box : box[ep] # c)
    BY DEF TakenByOne
  <2>1. QED
    BY DEF TakenIInv, PutOnce, InBox
<1>2. TakenIInv /\ PutIsPut /\ [NodeNext]_nodeVars => TakenIInv' /\ PutIsPut'
  BY NodeNextIInv, PutOnceNext DEF TakenIInv
<1>3. QED
  BY <1>1, <1>2, NodeInitTaken, PTL DEF NodeSpec
===============================================================================
