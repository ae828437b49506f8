------------------------------ MODULE Connections ------------------------------
(***************************************************************************)
(* A process that serves with a tcp_server and connects to other servers   *)
(* with tcp_clients (net/tcp_client.h), each run by a thread of its own.   *)
(* All of them put their connections in the one connection_pool of the     *)
(* process (net/connection_pool.h), under the local endpoint of the        *)
(* socket, and any thread may take them out.  The pool's container is a    *)
(* blocking_concurrent_box of another library: each call of it is one      *)
(* step, and a put to a key in use may keep either connection.             *)
(***************************************************************************)
EXTENDS TcpServer

CONSTANTS
  Dials,     \* the tcp_clients of the process
  Locals,    \* the endpoints a socket that connects may be bound to
  Remotes,   \* the endpoints the hosts of the tcp_clients resolve to
  Listening, \* the endpoint of the tcp_server, where all it accepts arrive
  Unbound    \* no endpoint: of a socket that is not bound, or not connected

ASSUME DialsAssumption == Dials \cap Clients = {}
ASSUME UnboundAssumption == Unbound \notin Locals \cup Remotes \cup {Listening}

VARIABLES
  dial,     \* how far the connect of each tcp_client is
  ends,     \* the local and the remote endpoint of each one's socket
  handled,  \* the tcp_clients whose handle_connect was called
  box,      \* _connections: the connection pooled under each endpoint
  put,      \* the connections put in the pool and not yet removed by a caller
  taken     \* how often take() returned each connection

pool == <<box, put, taken>>
nodeVars == <<vars, dial, ends, handled, box, put, taken>>

Keys == Locals \cup {Listening, Unbound}

\* A connection accepted by the server is named by its client, one that was
\* asked for by its tcp_client.
Connected == {d \in Dials : dial[d] = "connected"} \cup Clients

NodeInit ==
  /\ Init
  /\ dial = [d \in Dials |-> "none"] /\ handled = {}
  /\ ends = [d \in Dials |-> [local |-> Unbound, remote |-> Unbound]]
  /\ box = [ep \in {} |-> NoClient] /\ put = {}
  /\ taken = [c \in Dials \cup Clients |-> 0]

-------------------------------------------------------------------------------
\* conn->socket().local_endpoint()
LocalEndpoint(c) == IF c \in Clients THEN Listening ELSE ends[c].local

\* put(conn)
Put(c) ==
  LET ep == LocalEndpoint(c) IN
  /\ \E kept \in {c} \cup {box[e] : e \in DOMAIN box \cap {ep}} :
       box' = [e \in DOMAIN box \cup {ep} |-> IF e = ep THEN kept ELSE box[e]]
  /\ put' = put \cup {c}
  /\ UNCHANGED taken

Without(eps) == [e \in DOMAIN box \ eps |-> box[e]]

\* Mutant: take() leaves the connection for the next caller.
TakeCopy(ep) ==
  /\ ep \in DOMAIN box
  /\ put' = put \ {box[ep]}
  /\ taken' = [taken EXCEPT ![box[ep]] = @ + 1]
  /\ UNCHANGED <<box, dial, ends, handled, vars>>

\* take(ep); without a connection under ep it returns a null pointer.
Take(ep) ==
  /\ ep \in DOMAIN box
  /\ box' = Without({ep})
  /\ put' = put \ {box[ep]}
  /\ taken' = [taken EXCEPT ![box[ep]] = @ + 1]
  /\ UNCHANGED <<dial, ends, handled, vars>>

\* erase(ep)
Erase(ep) ==
  /\ ep \in DOMAIN box
  /\ box' = Without({ep})
  /\ put' = put \ {box[ep]}
  /\ UNCHANGED <<taken, dial, ends, handled, vars>>

\* clear()
Clear ==
  /\ box # Without(DOMAIN box)
  /\ box' = Without(DOMAIN box)
  /\ put' = {}
  /\ UNCHANGED <<taken, dial, ends, handled, vars>>

-------------------------------------------------------------------------------
\* The constructor of tcp_client: if the host resolves, it connects.
Dial(d) ==
  /\ dial[d] = "none"
  /\ dial' = [dial EXCEPT ![d] = "connecting"]
  /\ UNCHANGED <<ends, handled, pool, vars>>

InBox(c) == \E ep \in DOMAIN box : box[ep] = c

\* The socket is open, for all the others know: a handler will be passed the
\* connection, or the pool has it.
Open(d) == dial[d] = "connected" /\ (d \notin handled \/ InBox(d))

\* async_connect has connected to an endpoint of the host.  TCP keeps apart two
\* open sockets by both their endpoints: one of the two may be the same.
Connects(d) ==
  /\ dial[d] = "connecting"
  /\ dial' = [dial EXCEPT ![d] = "connected"]
  /\ \E way \in [local : Locals, remote : Remotes] :
       /\ \A o \in Dials : Open(o) => ends[o] # way
       /\ ends' = [ends EXCEPT ![d] = way]
  /\ UNCHANGED <<handled, pool, vars>>

\* It has tried them all: the socket may still be bound, to what is in use again.
ConnectFails(d) ==
  /\ dial[d] = "connecting"
  /\ dial' = [dial EXCEPT ![d] = "failed"]
  /\ \E ep \in Locals \cup {Unbound} : ends' = [ends EXCEPT ![d].local = ep]
  /\ UNCHANGED <<handled, pool, vars>>

\* handle_connect(c, e), once: an error leads where success does.
HandleConnect(d) ==
  /\ dial[d] \in {"connected", "failed"} /\ d \notin handled
  /\ handled' = handled \cup {d}
  /\ Put(d)
  /\ UNCHANGED <<dial, ends, vars>>

\* A handler of the server; a successful accept puts the connection.
NodeHandler ==
  /\ Handler
  /\ IF Head(ready) = AcceptDone("none") THEN Put(peer) ELSE UNCHANGED pool
  /\ UNCHANGED <<dial, ends, handled>>

\* What else the io_service of the server and its environment do.
NodeServer ==
  /\ AcceptCompletes \/ RunReturns \/ Environment
  /\ UNCHANGED <<dial, ends, handled, pool>>

NodeNext ==
  \/ NodeHandler \/ NodeServer
  \/ \E d \in Dials :
       Dial(d) \/ Connects(d) \/ ConnectFails(d) \/ HandleConnect(d)
  \/ \E ep \in Keys : Take(ep) \/ Erase(ep)
  \/ Clear

NodeSpec == NodeInit /\ [][NodeNext]_nodeVars /\ WF_vars(Service)

-------------------------------------------------------------------------------
\* The connections that were put, which no handler will put again.
WasPut(c) == c \in handled \/ (c = peer /\ pooled)

\* Two connections to the same other end: those the server accepts count as one,
\* and one that failed leads nowhere.
SameWay(c, o) ==
  \/ c \in Clients /\ o \in Clients
  \/ c \in Dials /\ o \in Dials /\ ends[c].remote = ends[o].remote

(***************************************************************************)
(* A connection that was made, accepted or asked for, stays in the pool    *)
(* until a caller takes, erases or clears it, unless another was put that  *)
(* leads elsewhere and has the same local endpoint, which alone is the key *)
(* (connection_pool.h:28).  Whatever threads put, and failed connects too, *)
(* two connections to one remote endpoint do not displace each other, nor  *)
(* do two that the server accepted: it accepts one.                        *)
(***************************************************************************)
PooledIsKept ==
  \A c \in put \cap Connected :
    \/ InBox(c)
    \/ \E o \in Dials \cup Clients :
         /\ WasPut(o) /\ LocalEndpoint(o) = LocalEndpoint(c)
         /\ o # c /\ ~SameWay(c, o)

(***************************************************************************)
(* take() gives a connection to one caller, and the pool no longer has it. *)
(***************************************************************************)
TakenByOne ==
  \A c \in Dials \cup Clients :
    taken[c] <= 1 /\ (taken[c] = 1 => \A ep \in DOMAIN box : box[ep] # c)

(***************************************************************************)
(* "An error occurred. Log it and return" (tcp_client.h:47): a connect     *)
(* that failed leaves no connection in the pool.                           *)
(***************************************************************************)
FailedIsNotPooled == put \subseteq Connected

-------------------------------------------------------------------------------
\* The inductive invariant behind PooledIsKept.

\* The server accepts one connection: its socket is in use from then on.
AcceptsOne ==
  /\ accepting => peer = NoClient
  /\ Queued(AcceptDone("none")) => peer # NoClient

\* The server is told of one accept, once.
AcceptedOnce ==
  /\ peer = NoClient \/ Queued(AcceptDone("none")) => ~pooled
  /\ \A i, j \in DOMAIN ready :
       ready[i] = AcceptDone("none") /\ ready[j] = AcceptDone("none") => i = j

\* The other end of a socket is known if it was connected.
EndsKnown ==
  \A d \in Dials :
    /\ dial[d] = "connected" => ends[d].local \in Locals /\ ends[d].remote \in Remotes
    /\ dial[d] # "connected" => ends[d].remote = Unbound

\* No two sockets are open with the same two endpoints.
OpenApart == \A d, o \in Dials : Open(d) /\ Open(o) /\ d # o => ends[d] # ends[o]

\* Each key is that of the connection under it.
PoolKeyed ==
  /\ dial \in [Dials -> {"none", "connecting", "connected", "failed"}]
  /\ handled \in SUBSET {d \in Dials : dial[d] \in {"connected", "failed"}}
  /\ put \subseteq handled \cup Clients
  /\ ends \in [Dials -> [local : Keys, remote : Remotes \cup {Unbound}]]
  /\ \A ep \in DOMAIN box : WasPut(box[ep]) /\ LocalEndpoint(box[ep]) = ep

NodeIInv ==
  IInv /\ AcceptsOne /\ AcceptedOnce /\ EndsKnown /\ OpenApart /\ PoolKeyed /\ PooledIsKept

\* What TakenByOne needs besides.
PutOnce ==
  /\ taken \in [Dials \cup Clients -> {0, 1}]
  /\ \A c \in Dials \cup Clients : taken[c] = 1 \/ InBox(c) => WasPut(c)
  /\ \A c \in Dials \cup Clients : taken[c] = 1 => ~InBox(c)

TakenIInv == NodeIInv /\ PutOnce
===============================================================================
