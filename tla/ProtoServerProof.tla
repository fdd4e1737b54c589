--------------------------- MODULE ProtoServerProof ---------------------------
(***************************************************************************)
(* Theorems about ProtoServer: the socket is not used after it was closed, *)
(* and stopServer of a server that was started returns only when the       *)
(* thread has ended.                                                       *)
(***************************************************************************)
EXTENDS ProtoServer, SequenceTheorems, TLAPS

(***************************************************************************)
(* The requests.  Whoever waits at the socket, or is being handled, waits  *)
(* for an answer and has sent nothing else.                                *)
(***************************************************************************)
RequestsInv ==
  /\ \A i \in DOMAIN inbox : client[inbox[i]] = "waiting"
  /\ spc \in {"handle", "send"} =>
       /\ current \in Clients /\ client[current] = "waiting"
       /\ \A i \in DOMAIN inbox : inbox[i] # current

(***************************************************************************)
(* The threads.  Before stopServer only a thread that gives up sets        *)
(* m_kill, and it never marks the server as running; the socket is closed  *)
(* by the thread, on its way out.                                          *)
(***************************************************************************)
ThreadsInv ==
  /\ mpc = "new" <=> spc = "none"
  /\ mpc = "new" => ~kill /\ sock = "none"
  /\ mpc # "new" => sock # "none"
  /\ sock = "closed" => spc \in {"leave", "exited"}
  /\ kill /\ mpc = "starting" => spc \in {"give_up", "exited"}

(***************************************************************************)
(* What startServer returned, and what stopServer makes of it: the thread  *)
(* of a server that was started is joined, since m_running stays true      *)
(* until stopServer; the thread of another one is not.                     *)
(***************************************************************************)
StopInv ==
  /\ mpc = "started" => running
  /\ mpc = "failed" => ~running /\ spc \in {"give_up", "exited"}
  /\ mpc \in {"new", "starting", "failed"} => ~started
  /\ mpc \in {"stopped", "deleted", "terminated"} /\ started => joined
  /\ joined => spc = "exited"
  /\ mpc = "terminated" => ~joined

IInv == TypeOK /\ RequestsInv /\ ThreadsInv /\ StopInv

LEMMA InitInv == Init => IInv
<1>1. Init => inbox \in Seq(Clients)
  BY DEF Init
<1>2. Init => TypeOK
  <2>1. Init => /\ running \in BOOLEAN /\ kill \in BOOLEAN
                /\ started \in BOOLEAN /\ joined \in BOOLEAN
    BY Zenon DEF Init
  <2> QED
    BY <1>1, <2>1 DEF Init, TypeOK
<1>3. Init => RequestsInv /\ ThreadsInv /\ StopInv
  BY DEF Init, RequestsInv, ThreadsInv, StopInv
<1> QED
  BY <1>2, <1>3 DEF IInv

\* A request is put behind those that wait.
LEMMA SendRequestInv ==
  ASSUME IInv, NEW c \in Clients, SendRequest(c)
  PROVE  IInv'
<1> USE DEF IInv, TypeOK, RequestsInv
<1>1. /\ inbox' \in Seq(Clients) /\ Len(inbox') = Len(inbox) + 1
      /\ \A i \in DOMAIN inbox : i \in DOMAIN inbox' /\ inbox'[i] = inbox[i]
      /\ inbox'[Len(inbox) + 1] = c
      /\ \A i \in DOMAIN inbox' : i \in DOMAIN inbox \/ i = Len(inbox) + 1
  BY AppendProperties DEF SendRequest
<1>2. \A i \in DOMAIN inbox : inbox[i] # c
  BY DEF SendRequest
<1>3. \A i, j \in DOMAIN inbox' : inbox'[i] = inbox'[j] => i = j
  BY <1>1, <1>2
<1>4. client' \in [Clients -> {"idle", "waiting"}]
  BY DEF SendRequest
<1>5. TypeOK'
  BY <1>1, <1>3, <1>4 DEF SendRequest, main, server, flags
<1>6. RequestsInv'
  <2>1. \A i \in DOMAIN inbox' : client'[inbox'[i]] = "waiting"
    BY <1>1 DEF SendRequest
  <2>2. ASSUME spc' \in {"handle", "send"}
        PROVE  /\ current' \in Clients /\ client'[current'] = "waiting"
               /\ \A i \in DOMAIN inbox' : inbox'[i] # current'
    BY <1>1, <2>2 DEF SendRequest, server
  <2> QED
    BY <2>1, <2>2
<1>7. ThreadsInv' /\ StopInv'
  BY DEF SendRequest, main, server, flags, ThreadsInv, StopInv
<1> QED
  BY <1>5, <1>6, <1>7

\* receive takes the request that waits longest, whether it can be parsed or not.
LEMMA TailInv ==
  ASSUME IInv, inbox # << >>, inbox' = Tail(inbox)
  PROVE  /\ inbox' \in Seq(Clients) /\ Head(inbox) \in Clients
         /\ \A i, j \in DOMAIN inbox' : inbox'[i] = inbox'[j] => i = j
         /\ \A i \in DOMAIN inbox' : client[inbox'[i]] = "waiting" /\ inbox'[i] # Head(inbox)
         /\ client[Head(inbox)] = "waiting"
<1> USE DEF IInv, TypeOK, RequestsInv
<1>1. /\ inbox' \in Seq(Clients) /\ Head(inbox) \in Clients
      /\ Len(inbox') = Len(inbox) - 1 /\ Head(inbox) = inbox[1]
      /\ \A i \in 1 .. Len(inbox') : inbox'[i] = inbox[i + 1]
  BY HeadTailProperties
<1>2. Len(inbox) \in Nat /\ Len(inbox) # 0 /\ DOMAIN inbox = 1 .. Len(inbox)
  BY EmptySeq, LenProperties
<1>3. DOMAIN inbox' = 1 .. Len(inbox')
  BY <1>1, LenProperties
<1>4. 1 \in DOMAIN inbox /\ \A i \in DOMAIN inbox' : i + 1 \in DOMAIN inbox /\ i + 1 # 1
  BY <1>1, <1>2, <1>3
<1> QED
  BY <1>1, <1>2, <1>3, <1>4

LEMMA ReceiveInv ==
  ASSUME IInv, Receive \/ ReceiveFails
  PROVE  IInv'
<1>1. inbox # << >> /\ inbox' = Tail(inbox) /\ spc = "receive" /\ client' = client
  BY DEF Receive, ReceiveFails
<1>2. /\ inbox' \in Seq(Clients) /\ Head(inbox) \in Clients
      /\ \A i, j \in DOMAIN inbox' : inbox'[i] = inbox'[j] => i = j
      /\ \A i \in DOMAIN inbox' : client[inbox'[i]] = "waiting" /\ inbox'[i] # Head(inbox)
      /\ client[Head(inbox)] = "waiting"
  BY <1>1, TailInv
<1>3. TypeOK'
  BY <1>1, <1>2 DEF IInv, TypeOK, Receive, ReceiveFails, main, flags
<1>4. RequestsInv'
  BY <1>1, <1>2 DEF RequestsInv, Receive, ReceiveFails
<1>5. ThreadsInv' /\ StopInv'
  BY <1>1 DEF IInv, ThreadsInv, StopInv, Receive, ReceiveFails, main, flags
<1> QED
  BY <1>3, <1>4, <1>5 DEF IInv

\* The answer goes to a client that has no other request.
LEMMA SendInv ==
  ASSUME IInv, Send
  PROVE  IInv'
<1> USE DEF IInv, TypeOK, RequestsInv, Send
<1>1. TypeOK'
  BY DEF main, flags
<1>2. RequestsInv'
  OBVIOUS
<1>3. ThreadsInv' /\ StopInv'
  BY DEF ThreadsInv, StopInv, main, flags
<1> QED
  BY <1>1, <1>2, <1>3

\* Steps that leave requests and clients alone.
LEMMA ThreadStepInv ==
  ASSUME IInv, UNCHANGED <<inbox, client>>,
         \/ StartServer \/ StopServer \/ StopNotRunning \/ Delete \/ MainStep \/ Bind \/ BindFails
         \/ GiveUp \/ LeaveLoop \/ EnterLoop \/ MarkRunning \/ ReceiveTerm \/ Handle
  PROVE  IInv'
<1> USE DEF IInv, main, server, flags
<1>1. CASE StartServer \/ StopServer \/ StopNotRunning
  <2>1. running' \in BOOLEAN /\ kill' \in BOOLEAN /\ started' \in BOOLEAN /\ joined' \in BOOLEAN
    BY <1>1, Zenon DEF TypeOK, StartServer, StopServer, StopNotRunning
  <2>2. TypeOK'
    BY <1>1, <2>1 DEF TypeOK, ThreadsInv, StartServer, StopServer, StopNotRunning
  <2>3. RequestsInv'
    BY <1>1 DEF RequestsInv, StartServer, StopServer, StopNotRunning
  <2>4. ThreadsInv'
    BY <1>1 DEF TypeOK, ThreadsInv, StartServer, StopServer, StopNotRunning
  <2>5. StopInv'
    BY <1>1 DEF TypeOK, ThreadsInv, StopInv, StartServer, StopServer, StopNotRunning
  <2> QED
    BY <2>2, <2>3, <2>4, <2>5
<1>2. CASE StartDone \/ StartFailed \/ Stop
  <2>1. running' \in BOOLEAN /\ kill' \in BOOLEAN /\ started' \in BOOLEAN /\ joined' \in BOOLEAN
    BY <1>2, Zenon DEF TypeOK, StartDone, StartFailed, Stop
  <2>2. TypeOK'
    BY <1>2, <2>1 DEF TypeOK, ThreadsInv, StartDone, StartFailed, Stop
  <2>3. RequestsInv'
    BY <1>2 DEF RequestsInv, StartDone, StartFailed, Stop
  <2>4. ThreadsInv'
    BY <1>2 DEF TypeOK, ThreadsInv, StartDone, StartFailed, Stop
  <2>5. StopInv'
    BY <1>2 DEF TypeOK, ThreadsInv, StopInv, StartDone, StartFailed, Stop
  <2> QED
    BY <2>2, <2>3, <2>4, <2>5
<1>3. CASE CloseContext \/ ContextClosed \/ Join
  <2>1. running' \in BOOLEAN /\ kill' \in BOOLEAN /\ started' \in BOOLEAN /\ joined' \in BOOLEAN
    BY <1>3, Zenon DEF TypeOK, CloseContext, ContextClosed, Join
  <2>2. TypeOK'
    BY <1>3, <2>1 DEF TypeOK, ThreadsInv, CloseContext, ContextClosed, Join
  <2>3. RequestsInv'
    BY <1>3 DEF RequestsInv, CloseContext, ContextClosed, Join
  <2>4. ThreadsInv'
    BY <1>3 DEF TypeOK, ThreadsInv, CloseContext, ContextClosed, Join
  <2>5. StopInv'
    BY <1>3 DEF TypeOK, ThreadsInv, StopInv, CloseContext, ContextClosed, Join
  <2> QED
    BY <2>2, <2>3, <2>4, <2>5
<1>4. CASE Delete
  <2>1. running' \in BOOLEAN /\ kill' \in BOOLEAN /\ started' \in BOOLEAN /\ joined' \in BOOLEAN
    BY <1>4, Zenon DEF TypeOK, Delete
  <2>2. TypeOK'
    BY <1>4, <2>1 DEF TypeOK, ThreadsInv, Delete
  <2>3. RequestsInv'
    BY <1>4 DEF RequestsInv, Delete
  <2>4. ThreadsInv'
    BY <1>4 DEF TypeOK, ThreadsInv, Delete
  <2>5. StopInv'
    BY <1>4 DEF TypeOK, ThreadsInv, StopInv, Delete
  <2> QED
    BY <2>2, <2>3, <2>4, <2>5
<1>5. CASE Bind \/ BindFails \/ GiveUp
  <2>1. running' \in BOOLEAN /\ kill' \in BOOLEAN /\ started' \in BOOLEAN /\ joined' \in BOOLEAN
    BY <1>5, Zenon DEF TypeOK, Bind, BindFails, GiveUp
  <2>2. TypeOK'
    BY <1>5, <2>1 DEF TypeOK, ThreadsInv, Bind, BindFails, GiveUp
  <2>3. RequestsInv'
    BY <1>5 DEF RequestsInv, Bind, BindFails, GiveUp
  <2>4. ThreadsInv'
    BY <1>5 DEF TypeOK, ThreadsInv, Bind, BindFails, GiveUp
  <2>5. StopInv'
    BY <1>5 DEF TypeOK, ThreadsInv, StopInv, Bind, BindFails, GiveUp
  <2> QED
    BY <2>2, <2>3, <2>4, <2>5
<1>6. CASE LeaveLoop \/ EnterLoop
  <2>1. running' \in BOOLEAN /\ kill' \in BOOLEAN /\ started' \in BOOLEAN /\ joined' \in BOOLEAN
    BY <1>6, Zenon DEF TypeOK, LeaveLoop, EnterLoop
  <2>2. TypeOK'
    BY <1>6, <2>1 DEF TypeOK, ThreadsInv, LeaveLoop, EnterLoop
  <2>3. RequestsInv'
    BY <1>6 DEF RequestsInv, LeaveLoop, EnterLoop
  <2>4. ThreadsInv'
    BY <1>6 DEF TypeOK, ThreadsInv, LeaveLoop, EnterLoop
  <2>5. StopInv'
    BY <1>6 DEF TypeOK, ThreadsInv, StopInv, LeaveLoop, EnterLoop
  <2> QED
    BY <2>2, <2>3, <2>4, <2>5
<1>7. CASE MarkRunning \/ ReceiveTerm \/ Handle
  <2>1. running' \in BOOLEAN /\ kill' \in BOOLEAN /\ started' \in BOOLEAN /\ joined' \in BOOLEAN
    BY <1>7, Zenon DEF TypeOK, MarkRunning, ReceiveTerm, Handle
  <2>2. TypeOK'
    BY <1>7, <2>1 DEF TypeOK, ThreadsInv, MarkRunning, ReceiveTerm, Handle
  <2>3. RequestsInv'
    BY <1>7 DEF RequestsInv, MarkRunning, ReceiveTerm, Handle
  <2>4. ThreadsInv'
    BY <1>7 DEF TypeOK, ThreadsInv, MarkRunning, ReceiveTerm, Handle
  <2>5. StopInv'
    BY <1>7 DEF TypeOK, ThreadsInv, StopInv, MarkRunning, ReceiveTerm, Handle
  <2> QED
    BY <2>2, <2>3, <2>4, <2>5
<1> QED
  BY <1>1, <1>2, <1>3, <1>4, <1>5, <1>6, <1>7 DEF MainStep

LEMMA InductiveStep == IInv /\ [Next]_vars => IInv'
<1> SUFFICES ASSUME IInv, [Next]_vars PROVE IInv'
  OBVIOUS
<1>1. CASE \E c \in Clients : SendRequest(c)
  BY <1>1, SendRequestInv
<1>2. CASE Receive \/ ReceiveFails
  BY <1>2, ReceiveInv
<1>3. CASE Send
  BY <1>3, SendInv
<1>4. CASE StartServer \/ StopServer \/ StopNotRunning \/ Delete \/ MainStep
  <2>1. UNCHANGED <<inbox, client>>
    BY <1>4 DEF StartServer, StopServer, StopNotRunning, Delete, MainStep, StartDone, StartFailed,
                Stop, CloseContext, ContextClosed, Join
  <2> QED
    BY <1>4, <2>1, ThreadStepInv
<1>5. CASE \/ Bind \/ BindFails \/ GiveUp \/ LeaveLoop \/ EnterLoop
           \/ MarkRunning \/ ReceiveTerm \/ Handle
  <2>1. UNCHANGED <<inbox, client>>
    BY <1>5 DEF Bind, BindFails, GiveUp, LeaveLoop, EnterLoop, MarkRunning, ReceiveTerm, Handle
  <2> QED
    BY <1>5, <2>1, ThreadStepInv
<1>6. CASE UNCHANGED vars
  BY <1>6 DEF IInv, TypeOK, RequestsInv, ThreadsInv, StopInv, vars, main, server, flags
<1> QED
  BY <1>1, <1>2, <1>3, <1>4, <1>5, <1>6 DEF Next, ServerStep

\* The inductive invariant.
THEOREM Invariance == Spec => []IInv
  BY InitInv, InductiveStep, PTL DEF Spec

\* Requests are not duplicated and the thread uses no socket that it has closed.
THEOREM TypeCorrect == Spec => []TypeOK
<1>1. IInv => TypeOK
  BY DEF IInv
<1> QED
  BY <1>1, Invariance, PTL

\* When stopServer of a server that was started has returned, its thread has ended, and
\* deleting the server does not end the process.
THEOREM Stopped == Spec => []StoppedHasEnded
<1>1. IInv => StoppedHasEnded
  BY DEF IInv, StopInv, StoppedHasEnded
<1> QED
  BY <1>1, Invariance, PTL

================================================================================
