------------------------------ MODULE ProtoServer ------------------------------
(***************************************************************************)
(* The life of a ProtoServer (RegistryServer, RDMAServer and NodeServer    *)
(* are such servers): the application thread that starts and stops it, the *)
(* thread that runs it, and clients that send a request and wait for the   *)
(* answer.  The application stops a server before it deletes it.           *)
(*                                                                         *)
(* ZeroMQ: a request waits at the socket until it is received; once the    *)
(* context is being destroyed, recv and send fail with ETERM, and the call *)
(* that destroys it returns when its socket has been closed.               *)
(*                                                                         *)
(* A definition introduced by "Fault:" is no part of the specification: it *)
(* is the definition after it with a mistake, to show that a property      *)
(* notices the mistake.                                                    *)
(***************************************************************************)
EXTENDS Sequences

CONSTANTS
  Clients,  \* each with at most one request under way
  NoClient  \* no request is handled

ASSUME ClientsAssumption == NoClient \notin Clients

VARIABLES
  mpc,      \* where the application thread is
  spc,      \* where the server thread is
  started,  \* startServer has returned true
  joined,   \* *m_thread is not joinable any more
  running,  \* ProtoServer::m_running
  kill,     \* Thread::m_kill
  ctx,      \* *m_pCtx
  sock,     \* *m_pSock
  inbox,    \* the clients whose requests wait at the socket, in order
  current,  \* the client whose request is handled
  client    \* client[c]: what the client does

main   == <<mpc, started, joined, ctx>>
server == <<spc, sock, current>>
flags  == <<running, kill>>
vars   == <<main, server, flags, inbox, client>>

Init ==
  /\ mpc = "new" /\ spc = "none"
  /\ started = FALSE /\ joined = FALSE
  /\ running = FALSE /\ kill = FALSE
  /\ ctx = "none" /\ sock = "none"
  /\ inbox = << >> /\ current = NoClient
  /\ client = [c \in Clients |-> "idle"]

-----------------------------------------------------------------------------
(***************************************************************************)
(* startServer.                                                            *)
(***************************************************************************)
StartServer ==
  /\ mpc = "new"
  /\ ctx' = "open" /\ sock' = "open"
  /\ spc' = "bind"
  /\ mpc' = "starting"
  /\ UNCHANGED <<started, joined, flags, inbox, current, client>>

\* The loop that waits for the thread ends when it runs, or when it has given up.
StartDone ==
  /\ mpc = "starting" /\ running
  /\ mpc' = "started" /\ started' = TRUE
  /\ UNCHANGED <<joined, ctx, server, flags, inbox, client>>

StartFailed ==
  /\ mpc = "starting" /\ ~running /\ kill
  /\ mpc' = "failed"
  /\ UNCHANGED <<started, joined, ctx, server, flags, inbox, client>>

-----------------------------------------------------------------------------
(***************************************************************************)
(* run, in the server thread.                                              *)
(***************************************************************************)
Bind ==
  /\ spc = "bind"
  /\ spc' = "loop"
  /\ UNCHANGED <<main, sock, current, flags, inbox, client>>

\* Fault: the thread ends without saying so.
BindFailsSilently ==
  /\ spc = "bind"
  /\ spc' = "exited"
  /\ UNCHANGED <<main, sock, current, flags, inbox, client>>

\* The port is in use: stop() ...
BindFails ==
  /\ spc = "bind"
  /\ kill' = TRUE
  /\ spc' = "give_up"
  /\ UNCHANGED <<main, sock, current, running, inbox, client>>

\* ... and return, before or after startServer, stopServer and delete in the other thread.
GiveUp ==
  /\ spc = "give_up"
  /\ spc' = "exited"
  /\ UNCHANGED <<main, sock, current, flags, inbox, client>>

\* The loop ends with while (!killed()), where the socket is open, or with break ...
LeaveLoop ==
  /\ (spc = "loop" /\ kill) \/ spc = "leave"
  /\ spc' = "exited"
  /\ UNCHANGED <<main, sock, current, flags, inbox, client>>

\* ... or goes on.
EnterLoop ==
  /\ spc = "loop" /\ ~kill
  /\ spc' = "mark"
  /\ UNCHANGED <<main, sock, current, flags, inbox, client>>

MarkRunning ==
  /\ spc = "mark"
  /\ running' = TRUE
  /\ spc' = "receive"
  /\ UNCHANGED <<main, sock, current, kill, inbox, client>>

Receive ==
  /\ spc = "receive" /\ ctx = "open" /\ inbox # << >>
  /\ current' = Head(inbox)
  /\ inbox' = Tail(inbox)
  /\ spc' = "handle"
  /\ UNCHANGED <<main, sock, flags, client>>

\* receive returns false: a message that cannot be parsed ends the server thread.
ReceiveFails ==
  /\ spc = "receive" /\ ctx = "open" /\ inbox # << >>
  /\ inbox' = Tail(inbox)
  /\ spc' = "leave"
  /\ UNCHANGED <<main, sock, current, flags, client>>

\* Fault: the loop goes on after the socket has been closed.
ReceiveTermGoesOn ==
  /\ spc = "receive" /\ ctx = "terminating"
  /\ sock' = "closed"
  /\ spc' = "mark"
  /\ UNCHANGED <<main, current, flags, inbox, client>>

\* recv throws ETERM: the socket is closed and the thread leaves the loop.
ReceiveTerm ==
  /\ spc = "receive" /\ ctx = "terminating"
  /\ sock' = "closed"
  /\ spc' = "leave"
  /\ UNCHANGED <<main, current, flags, inbox, client>>

Handle ==
  /\ spc = "handle"
  /\ spc' = "send"
  /\ UNCHANGED <<main, sock, current, flags, inbox, client>>

\* Fault: the answer is built and not sent.
SendNothing ==
  /\ spc = "send"
  /\ spc' = "loop"
  /\ UNCHANGED <<main, sock, current, flags, inbox, client>>

\* send, whose failure with ETERM is logged only.
Send ==
  /\ spc = "send"
  /\ client' = IF ctx = "open" THEN [client EXCEPT ![current] = "idle"] ELSE client
  /\ spc' = "loop"
  /\ UNCHANGED <<main, sock, current, flags, inbox>>

-----------------------------------------------------------------------------
(***************************************************************************)
(* stopServer, whether startServer returned true or false: if (m_running), *)
(* and otherwise it returns without a join.                                *)
(***************************************************************************)
StopServer ==
  /\ mpc \in {"started", "failed"} /\ running
  /\ running' = FALSE
  /\ mpc' = "stop"
  /\ UNCHANGED <<started, joined, ctx, server, kill, inbox, client>>

StopNotRunning ==
  /\ mpc \in {"started", "failed"} /\ ~running
  /\ mpc' = "stopped"
  /\ UNCHANGED <<started, joined, ctx, server, flags, inbox, client>>

Stop ==
  /\ mpc = "stop"
  /\ kill' = TRUE
  /\ mpc' = "close_context"
  /\ UNCHANGED <<started, joined, ctx, server, running, inbox, client>>

CloseContext ==
  /\ mpc = "close_context"
  /\ ctx' = "terminating"
  /\ mpc' = "wait"
  /\ UNCHANGED <<started, joined, server, flags, inbox, client>>

\* Fault: the thread is not waited for.
ContextClosedNoJoin ==
  /\ mpc = "wait" /\ sock = "closed"
  /\ ctx' = "gone"
  /\ mpc' = "stopped"
  /\ UNCHANGED <<started, joined, server, flags, inbox, client>>

ContextClosed ==
  /\ mpc = "wait" /\ sock = "closed"
  /\ ctx' = "gone"
  /\ mpc' = "join"
  /\ UNCHANGED <<started, joined, server, flags, inbox, client>>

Join ==
  /\ mpc = "join" /\ spc = "exited"
  /\ mpc' = "stopped" /\ joined' = TRUE
  /\ UNCHANGED <<started, ctx, server, flags, inbox, client>>

(***************************************************************************)
(* delete, after stopServer.  ~ProtoSocket has nothing to close: bind has  *)
(* failed, or the thread has closed the socket.  ~Thread deletes the       *)
(* std::thread: if it is joinable that ends the process (std::terminate).  *)
(***************************************************************************)
Delete ==
  /\ mpc = "stopped"
  /\ mpc' = IF joined THEN "deleted" ELSE "terminated"
  /\ spc' = IF joined THEN spc ELSE "exited"
  /\ UNCHANGED <<started, joined, ctx, sock, current, flags, inbox, client>>

-----------------------------------------------------------------------------
\* ProtoClient::send: the request is sent, and the client waits for the answer.
SendRequest(c) ==
  /\ client[c] = "idle"
  /\ client' = [client EXCEPT ![c] = "waiting"]
  /\ inbox' = Append(inbox, c)
  /\ UNCHANGED <<main, server, flags>>

MainStep ==
  StartDone \/ StartFailed \/ Stop \/ CloseContext \/ ContextClosed \/ Join

ServerStep ==
  \/ Bind \/ BindFails \/ GiveUp \/ LeaveLoop \/ EnterLoop \/ MarkRunning
  \/ Receive \/ ReceiveFails \/ ReceiveTerm \/ Handle \/ Send

Next ==
  \/ StartServer \/ StopServer \/ StopNotRunning \/ Delete
  \/ MainStep
  \/ ServerStep
  \/ \E c \in Clients : SendRequest(c)

Spec == Init /\ [][Next]_vars

\* Both threads are scheduled, and handlers return.  Nothing makes the application
\* start, stop or delete the server, or a client send a request.
FairSpec == Spec /\ WF_vars(MainStep) /\ WF_vars(ServerStep)

-----------------------------------------------------------------------------
\* A client has at most one request at the socket, and the server thread never uses the
\* socket after it has been deleted, whenever the context is destroyed.
TypeOK ==
  /\ mpc \in {"new", "starting", "started", "failed", "stop", "close_context", "wait",
              "join", "stopped", "deleted", "terminated"}
  /\ spc \in {"none", "bind", "give_up", "loop", "mark", "receive", "handle", "send",
             "leave", "exited"}
  /\ started \in BOOLEAN /\ joined \in BOOLEAN
  /\ running \in BOOLEAN /\ kill \in BOOLEAN
  /\ ctx \in {"none", "open", "terminating", "gone"}
  /\ sock \in {"none", "open", "closed"}
  /\ inbox \in Seq(Clients) /\ current \in Clients \cup {NoClient}
  /\ client \in [Clients -> {"idle", "waiting"}]
  /\ \A i, j \in DOMAIN inbox : inbox[i] = inbox[j] => i = j
  /\ spc \in {"mark", "receive", "handle", "send"} => sock = "open"

(***************************************************************************)
(* When stopServer of a server that was started has returned, its thread   *)
(* has ended, so that no handler is at work, and deleting the server does  *)
(* not end the process.  Nothing of this holds when startServer returned   *)
(* false: the thread was not waited for, and Delete terminates.            *)
(***************************************************************************)
StoppedHasEnded ==
  started => /\ mpc \in {"stopped", "deleted"} => spc = "exited"
             /\ mpc # "terminated"

\* startServer returns, with true or with false, although it only polls two flags
\* that the server thread sets.
StartReturns == mpc = "starting" ~> mpc \in {"started", "failed"}

\* A request is answered unless the server is stopped or its thread has ended.
RequestAnswered ==
  \A c \in Clients : client[c] = "waiting" /\ spc # "none" ~> client[c] = "idle" \/ kill \/ spc = "exited"

(***************************************************************************)
(* "recv() throws ETERM when the zmq context is destroyed": the thread     *)
(* closes its socket, and stopServer gets past closeContext.               *)
(***************************************************************************)
ContextIsDestroyed == ctx = "terminating" ~> ctx = "gone"

================================================================================
