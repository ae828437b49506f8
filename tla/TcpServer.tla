------------------------------- MODULE TcpServer -------------------------------
(***************************************************************************)
(* tcp_server (net/tcp_server.h): one acceptor, one wait for a signal and  *)
(* the handlers the io_service runs for them, one at a time, in run().     *)
(* Clients connect, signals arrive and other threads call stop() between   *)
(* any two handlers and before run().  The io_service, the acceptor and    *)
(* the signal_set are Boost.Asio's: they are modelled as tcp_server uses   *)
(* them.                                                                   *)
(***************************************************************************)
EXTENDS Naturals, Sequences

CONSTANTS
  Clients,   \* the programs that connect to the server
  NoClient,  \* a socket that is not open
  MaxStops   \* bound on the calls of stop()

ASSUME NoClientAssumption == NoClient \notin Clients
ASSUME MaxStopsAssumption == MaxStops \in Nat

VARIABLES
  run,        \* run(): "not called", "running" or "returned"
  listening,  \* _acceptor is open
  accepting,  \* an async_accept waits for a client
  peer,       \* who the socket of the connection c is connected to
  pooled,     \* c is in the connection_pool
  waiting,    \* an async_wait of _signals is outstanding
  ready,      \* the handlers the io_service is to call, in order
  backlog,    \* the clients that are connected and not accepted, in order
  tried,      \* the clients that have connected so far
  stops       \* how often stop() was called

io == <<accepting, ready>>
environment == <<tried, stops>>
vars == <<run, listening, accepting, peer, pooled, waiting, ready, backlog, tried, stops>>

\* A handler with, for handle_accept, its error_code.
AcceptDone(e) == [call |-> "handle_accept", e |-> e]
StopAsked == [call |-> "handle_stop", e |-> "none"]
Errors == {"none", "aborted", "already open", "bad descriptor"}
Handlers == [call : {"handle_accept", "handle_stop"}, e : Errors]

\* async_accept(c->socket(), handle_accept): fails at once if the socket is in
\* use or the acceptor closed.  queue is what is ready but for that.
AsyncAccept(queue) ==
  LET e == IF peer # NoClient THEN "already open"
           ELSE IF ~listening THEN "bad descriptor" ELSE "none"
  IN IF e = "none"
     THEN accepting' = TRUE /\ ready' = queue
     ELSE accepting' = FALSE /\ ready' = Append(queue, AcceptDone(e))

\* Mutant: the constructor does not register for the signals.
InitNoSignals ==
  /\ run = "not called" /\ listening = TRUE /\ accepting = TRUE
  /\ peer = NoClient /\ pooled = FALSE /\ waiting = FALSE
  /\ ready = <<>> /\ backlog = <<>> /\ tried = {} /\ stops = 0

\* The constructor: waits for a signal, listens and accepts into a new c.
Init ==
  /\ run = "not called" /\ listening = TRUE /\ accepting = TRUE
  /\ peer = NoClient /\ pooled = FALSE /\ waiting = TRUE
  /\ ready = <<>> /\ backlog = <<>> /\ tried = {} /\ stops = 0

-------------------------------------------------------------------------------
\* Mutant: a handler called after the server was stopped does nothing.
HandleAcceptIfListening ==
  /\ Head(ready).call = "handle_accept"
  /\ IF Head(ready).e # "none" \/ ~listening
     THEN ready' = Tail(ready) /\ UNCHANGED <<accepting, pooled>>
     ELSE pooled' = TRUE /\ AsyncAccept(Tail(ready))
  /\ UNCHANGED <<run, listening, peer, waiting, backlog, environment>>

\* Mutant: each accept is into a new connection.
HandleAcceptAnew ==
  /\ Head(ready).call = "handle_accept"
  /\ ready' = Tail(ready)
  /\ IF Head(ready).e # "none"
     THEN UNCHANGED <<accepting, peer, pooled>>
     ELSE pooled' = TRUE /\ peer' = NoClient /\ accepting' = listening
  /\ UNCHANGED <<run, listening, waiting, backlog, environment>>

\* handle_accept(c, e)
HandleAccept ==
  /\ Head(ready).call = "handle_accept"
  /\ IF Head(ready).e # "none"
     THEN ready' = Tail(ready) /\ UNCHANGED <<accepting, pooled>>
     ELSE pooled' = TRUE /\ AsyncAccept(Tail(ready))
  /\ UNCHANGED <<run, listening, peer, waiting, backlog, environment>>

\* Mutant: the acceptor stays open.
HandleStopKeepsListening ==
  /\ Head(ready).call = "handle_stop"
  /\ ready' = Tail(ready)
  /\ UNCHANGED <<run, listening, accepting, peer, pooled, waiting, backlog, environment>>

\* handle_stop(): closing the acceptor cancels the accept that waits and drops
\* the clients not accepted.
HandleStop ==
  /\ Head(ready).call = "handle_stop"
  /\ listening' = FALSE
  /\ accepting' = FALSE
  /\ ready' = IF accepting THEN Append(Tail(ready), AcceptDone("aborted")) ELSE Tail(ready)
  /\ backlog' = <<>>
  /\ UNCHANGED <<run, peer, pooled, waiting, environment>>

\* The io_service calls the next handler.
Handler == run = "running" /\ ready # <<>> /\ (HandleAccept \/ HandleStop)

\* run() is called.
Run ==
  /\ run = "not called"
  /\ run' = "running"
  /\ UNCHANGED <<listening, io, peer, pooled, waiting, backlog, environment>>

\* _io_service.run() has no handler to call and no operation outstanding.
RunReturns ==
  /\ run = "running"
  /\ ready = <<>> /\ ~accepting /\ ~waiting
  /\ run' = "returned"
  /\ UNCHANGED <<listening, io, peer, pooled, waiting, backlog, environment>>

\* The accept that waits takes the first client of the backlog.
AcceptCompletes ==
  /\ run = "running" /\ accepting /\ backlog # <<>>
  /\ accepting' = FALSE
  /\ peer' = Head(backlog)
  /\ backlog' = Tail(backlog)
  /\ ready' = Append(ready, AcceptDone("none"))
  /\ UNCHANGED <<run, listening, pooled, waiting, environment>>

-------------------------------------------------------------------------------
\* stop(), from any thread: posts a call of handle_stop.
Stop ==
  /\ stops < MaxStops
  /\ stops' = stops + 1
  /\ ready' = Append(ready, StopAsked)
  /\ UNCHANGED <<run, listening, accepting, peer, pooled, waiting, backlog, tried>>

\* SIGINT, SIGTERM or SIGQUIT; without an async_wait it has no effect.
Signal ==
  /\ waiting
  /\ waiting' = FALSE
  /\ ready' = Append(ready, StopAsked)
  /\ UNCHANGED <<run, listening, accepting, peer, pooled, backlog, environment>>

\* A client connects to the listening socket.
Connect(client) ==
  /\ listening /\ client \notin tried
  /\ tried' = tried \cup {client}
  /\ backlog' = Append(backlog, client)
  /\ UNCHANGED <<run, listening, io, peer, pooled, waiting, stops>>

\* What the io_service's loop does is done as long as run() runs; nobody need
\* connect, send a signal, call stop() or call run().
Service == Handler \/ AcceptCompletes \/ RunReturns
Environment == Run \/ Stop \/ Signal \/ \E client \in Clients : Connect(client)
Next == Service \/ Environment

Spec == Init /\ [][Next]_vars /\ WF_vars(Service)

-------------------------------------------------------------------------------
TypeOK ==
  /\ run \in {"not called", "running", "returned"}
  /\ listening \in BOOLEAN /\ accepting \in BOOLEAN
  /\ pooled \in BOOLEAN /\ waiting \in BOOLEAN
  /\ peer \in Clients \cup {NoClient}
  /\ ready \in Seq(Handlers)
  /\ backlog \in Seq(Clients) /\ tried \in SUBSET Clients
  /\ stops \in 0..MaxStops

(***************************************************************************)
(* run() returns only after the server was stopped: the one wait for a     *)
(* signal keeps the io_service busy, whatever becomes of the accepts.      *)
(***************************************************************************)
ReturnsOnlyIfStopped == run = "returned" => ~listening

(***************************************************************************)
(* A client that was accepted is in the connection_pool when run()         *)
(* returns, also one whose accept completed before the acceptor was closed *)
(* and whose handler was called after.                                     *)
(***************************************************************************)
AcceptedIsPooled == run = "returned" /\ peer # NoClient => pooled

(***************************************************************************)
(* A signal ends run(): the handlers cancelled by handle_stop are all      *)
(* called, and start no operation that would not end.                      *)
(***************************************************************************)
SignalEndsRun == run = "running" /\ ~waiting ~> run = "returned"

(***************************************************************************)
(* "While the tcp_server is running, there is always at least one          *)
(* asynchronous operation outstanding: the asynchronous accept call        *)
(* waiting for new incoming connections" (tcp_server.h:95), here for as    *)
(* long as it was not stopped.                                             *)
(***************************************************************************)
AcceptOutstanding ==
  run = "running" /\ listening =>
    accepting \/ \E i \in DOMAIN ready : ready[i].call = "handle_accept"

(***************************************************************************)
(* "The tcp_server is stopped by cancelling all outstanding asynchronous   *)
(* operations. Once all operations have finished the io_service::run()     *)
(* call will exit" (tcp_server.h:117): a call of stop() ends run().        *)
(***************************************************************************)
StopEndsRun == run = "running" /\ stops > 0 ~> run = "returned"

-------------------------------------------------------------------------------
\* The inductive invariant behind the first two properties.
Queued(handler) == \E i \in DOMAIN ready : ready[i] = handler

\* The wait for a signal ends in a call of handle_stop, which closes the acceptor.
SignalWillStop == listening => waiting \/ Queued(StopAsked)

\* An accepted client is pooled, or the handler that will do it is to be called.
AcceptedWillBePooled == peer # NoClient => pooled \/ Queued(AcceptDone("none"))

IInv ==
  /\ TypeOK
  /\ SignalWillStop
  /\ AcceptedWillBePooled
  /\ ReturnsOnlyIfStopped
  /\ AcceptedIsPooled
===============================================================================
