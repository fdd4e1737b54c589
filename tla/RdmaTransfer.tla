----------------------------- MODULE RdmaTransfer -----------------------------
(***************************************************************************)
(* Data transfer of RDMAClient and RDMAServer over connected queue pairs:  *)
(* one-sided requests, send and receive, multicast, with RDMAManagerRC or  *)
(* RDMAManagerUD.  Each node is one thread.  The network cards are         *)
(* external:                                                               *)
(*   - a queue pair executes its requests in order; a signaled one puts a  *)
(*     completion into the send CQ, and polling it frees the slots of the  *)
(*     send queue up to that request;                                      *)
(*   - RC: a request that fails, or a message that meets no receive buffer *)
(*     (rnr_retry = 0), puts an error completion, signaled or not, and the *)
(*     queue pair is in error: what follows completes with an error too;   *)
(*   - UD and multicast: a message may be lost, and is lost if it meets no *)
(*     receive buffer.                                                     *)
(* What is written, read, added or swapped is left out: one-sided requests *)
(* differ in nothing else.                                                 *)
(*                                                                         *)
(* "Fault:" marks a faulty variant of the definition after it.             *)
(***************************************************************************)
EXTENDS Integers, Sequences, FiniteSets

CONSTANTS
  Clients, Servers,  \* every client is connected to every server
  Group,             \* a multicast group
  Ops,               \* Ops[n]: what the application on node n uses
  Shared,            \* in the place of the peer: the one queue pair of a UD manager
  MaxWR,             \* Config::RDMA_MAX_WR
  MaxCalls,          \* bound on all calls but receives and polls
  MaxReceives,       \* bound on the receive buffers
  MaxFaults          \* bound on the requests that fail

Nodes == Clients \cup Servers

ASSUME ConstantsAssumption ==
  /\ MaxWR \in Nat \ {0} /\ Group # Shared /\ {Group, Shared} \cap Nodes = {}
  /\ Ops \in [Nodes -> SUBSET {"access", "request", "send", "mcast", "receive"}]
  /\ \A n \in Servers : Ops[n] \cap {"access", "request"} = {}

Peers(n) == IF n \in Clients THEN Servers ELSE Clients
QPs == UNION {{<<n, m>> : m \in Peers(n) \cup {Group, Shared}} : n \in Nodes}

VARIABLES
  transport,   \* the manager all nodes were built with
  sq,          \* sq[q]: the requests whose slots in the send queue are taken
  rq,          \* rq[q]: the posted receive buffers, each with the peer it was posted for
  rcq,         \* rcq[q]: the receive CQ: whether each completion is one of success
  bad,         \* the queue pairs in error
  call,        \* call[n]: the signaled request that n waits for, or the last result
  m_countWR,   \* of each node
  mcast,       \* mcast[n]: whether n is in the group: "out", "in", or "left"
  crashed,     \* nodes that used multicast objects that do not exist (any more)
  calls, receives, faults,  \* counters for the bounds
  used,        \* history: used[n]: the peers n has posted requests to
  heard,       \* history: heard[n]: with UD, the peers n has received from
  miscounted,  \* history: the nodes with a request that was counted and not posted
  unread       \* history: filled buffers less receives reported, per node and peer

queue   == <<sq, rq, rcq, bad>>
history == <<used, heard, miscounted, unread>>
vars    == <<transport, queue, call, m_countWR, mcast, crashed, calls, receives, faults, history>>

\* A node that waits for a completion of q, and one that does not: its last request
\* returned ok.
Waiting(q, clean) == [st |-> "waits", q |-> q, clean |-> clean]
Returned(ok) == [st |-> IF ok THEN "true" ELSE "false", q |-> <<Shared, Shared>>, clean |-> FALSE]
Waits(n) == call[n].st = "waits"

Init ==
  /\ transport \in {"rc", "ud"}
  /\ sq = [q \in QPs |-> << >>] /\ bad = {}
  /\ rq = [q \in QPs |-> << >>] /\ rcq = [q \in QPs |-> << >>]
  /\ call = [n \in Nodes |-> Returned(TRUE)] /\ m_countWR = [n \in Nodes |-> 0]
  /\ mcast = [n \in Nodes |-> "out"] /\ crashed = {}
  /\ calls = 0 /\ receives = 0 /\ faults = 0
  /\ used = [n \in Nodes |-> {}] /\ heard = [n \in Nodes |-> {}] /\ miscounted = {}
  /\ unread = [q \in QPs |-> 0]

\* m_qps[conn_key]: with UD all connections have the same queue pair; a group has its own.
QP(n, m) == IF transport = "ud" /\ m # Group THEN <<n, Shared>> ELSE <<n, m>>

-----------------------------------------------------------------------------
(***************************************************************************)
(* Posting a request.                                                      *)
(***************************************************************************)
\* Fault: the limit is noticed one request late.
LateSignaled(n, signaled) ==
  IF m_countWR[n] = MaxWR THEN [signaled |-> TRUE, count |-> 0]
  ELSE [signaled |-> signaled, count |-> m_countWR[n] + 1]

\* RDMAClient starts over when the limit is reached, RDMAServer with every signaled one.
CheckSignaled(n, signaled) ==
  LET count == m_countWR[n] + 1
      sig == signaled \/ count % MaxWR = 0
  IN [signaled |-> sig,
      count |-> IF count % MaxWR = 0 \/ (n \in Servers /\ sig) THEN 0 ELSE count]

\* Fault: the request is posted without the flag.
UnflaggedRequest(op, m, signaled) == [op |-> op, to |-> m, signaled |-> FALSE, st |-> "posted"]

WorkRequest(op, m, signaled) == [op |-> op, to |-> m, signaled |-> signaled, st |-> "posted"]

\* ibv_post_send, refused if the queue is full; a signaled request is then waited for.
PostSend(n, op, m, signaled, wait) ==
  LET q == QP(n, m)
      clean == \A i \in DOMAIN sq[q] : ~sq[q][i].signaled
  IN /\ calls' = calls + 1
     /\ used' = [used EXCEPT ![n] = @ \cup {m}]
     /\ IF Len(sq[q]) = MaxWR
        THEN /\ miscounted' = miscounted \cup {n}
             /\ call' = [call EXCEPT ![n] = Returned(FALSE)]
             /\ UNCHANGED sq
        ELSE /\ UNCHANGED miscounted
             /\ sq' = [sq EXCEPT ![q] = Append(@, WorkRequest(op, m, signaled))]
             /\ call' = [call EXCEPT ![n] = IF signaled /\ wait
                                            THEN Waiting(q, clean) ELSE Returned(TRUE)]
     /\ UNCHANGED <<transport, rq, rcq, bad, mcast, crashed, receives, faults, heard, unread>>

Calls(n, op) == op \in Ops[n] /\ ~Waits(n) /\ n \notin crashed /\ calls < MaxCalls

\* The one-sided requests of RDMAManagerRC.
RemoteAccess(n, m, signaled, wait) == PostSend(n, "access", m, signaled, wait)
RemoteFetchAndAdd(n, m, signaled) == PostSend(n, "access", m, signaled, TRUE)
RemoteCompareAndSwap(n, m, signaled) == PostSend(n, "access", m, signaled, TRUE)

\* write, read, fetchAndAdd and compareAndSwap of a client.
Access(n, m, signaled) ==
  LET s == CheckSignaled(n, signaled) IN
  /\ Calls(n, "access") /\ m \in Peers(n) /\ transport = "rc"
  /\ m_countWR' = [m_countWR EXCEPT ![n] = s.count]
  /\ \/ RemoteAccess(n, m, s.signaled, TRUE)
     \/ RemoteFetchAndAdd(n, m, s.signaled)
     \/ RemoteCompareAndSwap(n, m, s.signaled)

\* What a manager does not support returns false.
Unsupported(n, op) ==
  /\ Calls(n, op)
  /\ calls' = calls + 1
  /\ call' = [call EXCEPT ![n] = Returned(FALSE)]
  /\ UNCHANGED <<transport, queue, mcast, crashed, receives, faults, used, heard, unread>>

\* With UD none of them is, but the request has been counted.
AccessUD(n, signaled) ==
  /\ transport = "ud" /\ Unsupported(n, "access")
  /\ m_countWR' = [m_countWR EXCEPT ![n] = CheckSignaled(n, signaled).count]
  /\ miscounted' = miscounted \cup {n}

\* requestRead: signaled, not counted and not waited for; pollSend takes the completion.
RequestRead(n, m) ==
  /\ Calls(n, "request") /\ m \in Peers(n) /\ transport = "rc"
  /\ RemoteAccess(n, m, TRUE, FALSE)
  /\ UNCHANGED m_countWR

\* The peer is that of the queue pair with RC, and named in the request with UD.
SendRC(n, m, signaled) == transport = "rc" /\ PostSend(n, "send", m, signaled, TRUE)
SendUD(n, m, signaled) == transport = "ud" /\ PostSend(n, "send", m, signaled, TRUE)

Send(n, m, signaled) ==
  LET s == CheckSignaled(n, signaled) IN
  /\ Calls(n, "send") /\ m \in Peers(n)
  /\ m_countWR' = [m_countWR EXCEPT ![n] = s.count]
  /\ SendRC(n, m, s.signaled) \/ SendUD(n, m, s.signaled)

-----------------------------------------------------------------------------
(***************************************************************************)
(* Taking completions.                                                     *)
(***************************************************************************)
\* The requests with a completion in the send CQ, and the one polled next.
Completed(q) ==
  {i \in DOMAIN sq[q] : sq[q][i].st = "failed" \/ (sq[q][i].st = "ok" /\ sq[q][i].signaled)}
First(q) == CHOOSE i \in Completed(q) : \A j \in Completed(q) : i <= j

\* ibv_poll_cq on a send CQ: the slots up to the completed request are free.
TakeCompletion(q) ==
  /\ Completed(q) # {}
  /\ sq' = [sq EXCEPT ![q] = SubSeq(@, First(q) + 1, Len(@))]
  /\ UNCHANGED <<rq, rcq, bad>>

\* Fault: the status of the completion is not looked at.
IgnoreStatus(q) == TRUE

\* What a signaled call returns, with the first completion it finds.
Result(q) == sq[q][First(q)].st = "ok"

WaitedCall(n) ==
  /\ Waits(n)
  /\ TakeCompletion(call[n].q)
  /\ call' = [call EXCEPT ![n] = Returned(Result(call[n].q))]
  /\ UNCHANGED <<transport, m_countWR, mcast, crashed, calls, receives, faults, history>>

PollSend(n, m) ==
  /\ ~Waits(n) /\ m \in Peers(n) /\ n \in Clients
  /\ TakeCompletion(QP(n, m))
  /\ UNCHANGED <<transport, call, m_countWR, mcast, crashed, calls, receives, faults, history>>

Hear(n, m) == heard' = IF transport = "ud" THEN [heard EXCEPT ![n] = @ \cup {m}] ELSE heard

\* receive and receiveMCast: ibv_post_recv.
PostReceive(n, m) ==
  LET q == QP(n, m) IN
  /\ "receive" \in Ops[n] /\ ~Waits(n) /\ n \notin crashed
  /\ receives < MaxReceives /\ Len(rq[q]) < MaxWR
  /\ receives' = receives + 1
  /\ Hear(n, m)
  /\ IF q \in bad THEN rcq' = [rcq EXCEPT ![q] = Append(@, FALSE)] /\ UNCHANGED rq
     ELSE rq' = [rq EXCEPT ![q] = Append(@, m)] /\ UNCHANGED rcq
  /\ UNCHANGED <<transport, sq, bad, call, m_countWR, mcast, crashed, calls, faults, used,
                 miscounted, unread>>

Receive(n, m) == m \in Peers(n) /\ PostReceive(n, m)

\* Fault: the completion of a send is taken for one of a receive.
PollSendCQ(n, m) ==
  LET q == QP(n, m) IN
  /\ rcq[q] # << >> \/ Completed(q) # {}
  /\ rcq' = [rcq EXCEPT ![q] = IF @ = << >> THEN @ ELSE Tail(@)]
  /\ unread' = IF rcq[q] = << >> \/ Head(rcq[q])
               THEN [unread EXCEPT ![<<n, m>>] = @ - 1] ELSE unread

\* The loop of pollReceive and pollReceiveMCast: true for a completion of success.
PollCQ(n, m) ==
  LET q == QP(n, m) IN
  /\ rcq[q] # << >>
  /\ rcq' = [rcq EXCEPT ![q] = Tail(@)]
  /\ unread' = IF Head(rcq[q]) THEN [unread EXCEPT ![<<n, m>>] = @ - 1] ELSE unread

PollReceive(n, m) ==
  /\ ~Waits(n) /\ n \notin crashed
  /\ PollCQ(n, m)
  /\ Hear(n, m)
  /\ UNCHANGED <<transport, sq, rq, bad, call, m_countWR, mcast, crashed, calls, receives,
                 faults, used, miscounted>>

-----------------------------------------------------------------------------
(***************************************************************************)
(* Multicast, with UD only; sends are not counted by checkSignaled.        *)
(***************************************************************************)
\* A client does not join a group it has an address for, and leaving keeps the address.
MayJoin(n) == n \in Servers \/ mcast[n] = "out"

\* The queue of n for the group as it is created, or when it has been destroyed.
NoGroupQueue(n) ==
  /\ sq' = [sq EXCEPT ![<<n, Group>>] = << >>]
  /\ rq' = [rq EXCEPT ![<<n, Group>>] = << >>]
  /\ rcq' = [rcq EXCEPT ![<<n, Group>>] = << >>]

\* A join that fails leaves no address.  A server that joins twice loses its first queue.
JoinMCastGroup(n) ==
  /\ Calls(n, "mcast") /\ transport = "ud" /\ MayJoin(n)
  /\ calls' = calls + 1
  /\ \/ mcast' = [mcast EXCEPT ![n] = "in"] /\ NoGroupQueue(n)
     \/ UNCHANGED <<mcast, sq, rq, rcq>>
  /\ UNCHANGED <<transport, bad, call, m_countWR, crashed, receives, faults, history>>

LeaveMCastGroup(n) ==
  /\ Calls(n, "mcast") /\ transport = "ud" /\ mcast[n] = "in"
  /\ calls' = calls + 1
  /\ \/ mcast' = [mcast EXCEPT ![n] = "left"] /\ NoGroupQueue(n)
     \/ UNCHANGED <<mcast, sq, rq, rcq>>
  /\ UNCHANGED <<transport, bad, call, m_countWR, crashed, receives, faults, history>>

SendMCast(n, signaled) ==
  /\ Calls(n, "mcast") /\ mcast[n] = "in"
  /\ PostSend(n, "mcast", Group, signaled, TRUE)
  /\ UNCHANGED m_countWR

ReceiveMCast(n) == mcast[n] = "in" /\ PostReceive(n, Group)

PollReceiveMCast(n) == mcast[n] = "in" /\ PollReceive(n, Group)

MCastRC(n) ==
  /\ transport = "rc" /\ Unsupported(n, "mcast")
  /\ UNCHANGED <<m_countWR, miscounted>>

\* There is an address, but nothing behind it: a client looks for the address first,
\* a server makes one.
DanglingAddress(n) == mcast[n] = "left" \/ (n \in Servers /\ mcast[n] = "out")

\* Any call for the group then uses objects that were destroyed or never made.
UseDangling(n) ==
  /\ Calls(n, "mcast") /\ transport = "ud" /\ DanglingAddress(n)
  /\ crashed' = crashed \cup {n}
  /\ calls' = calls + 1
  /\ UNCHANGED <<transport, queue, call, m_countWR, mcast, receives, faults, history>>

-----------------------------------------------------------------------------
(***************************************************************************)
(* The network cards (external).                                           *)
(***************************************************************************)
Pending(q) == {i \in DOMAIN sq[q] : sq[q][i].st = "posted"}
Turn(q) == CHOOSE i \in Pending(q) : \A j \in Pending(q) : i <= j
Current(q) == sq[q][Turn(q)]

Complete(q, st) ==
  /\ sq' = [sq EXCEPT ![q][Turn(q)].st = st]
  /\ UNCHANGED <<transport, call, m_countWR, mcast, crashed, calls, receives, used, heard,
                 miscounted>>

\* The messages that arrive at the queue pairs of D, each in the buffer posted first.
Deliver(D) ==
  /\ rq' = [d \in QPs |-> IF d \in D THEN Tail(rq[d]) ELSE rq[d]]
  /\ rcq' = [d \in QPs |-> IF d \in D THEN Append(rcq[d], TRUE) ELSE rcq[d]]
  /\ unread' = [e \in QPs |-> unread[e] + Cardinality({d \in D : e = <<d[1], Head(rq[d])>>})]

\* The queue pairs a message of q may arrive at.
Open(q) ==
  LET r == Current(q)
      at == CASE r.op = "send" /\ transport = "rc" -> {<<r.to, q[1]>>}
              [] r.op = "send" /\ transport = "ud" -> {<<r.to, Shared>>}
              [] r.op = "mcast" -> {<<n, Group>> : n \in {k \in Nodes : mcast[k] = "in"}}
              [] OTHER -> {}
  IN {d \in at : d \notin bad /\ rq[d] # << >>}

Execute(q) ==
  /\ Pending(q) # {} /\ q \notin bad
  /\ transport = "rc" /\ Current(q).op = "send" => Open(q) # {}
  /\ \E D \in SUBSET Open(q) : (transport = "rc" => D = Open(q)) /\ Deliver(D)
  /\ Complete(q, "ok")
  /\ UNCHANGED <<bad, faults>>

\* RC: no receive buffer, or any other reason.  The receives of q complete with errors.
FailRequest(q) ==
  /\ Pending(q) # {} /\ q \notin bad /\ transport = "rc"
  /\ IF Current(q).op = "send" /\ Open(q) = {} THEN UNCHANGED faults
     ELSE faults < MaxFaults /\ faults' = faults + 1
  /\ Complete(q, "failed")
  /\ bad' = bad \cup {q}
  /\ rcq' = [rcq EXCEPT ![q] = @ \o [i \in DOMAIN rq[q] |-> FALSE]]
  /\ rq' = [rq EXCEPT ![q] = << >>]
  /\ UNCHANGED unread

Flush(q) ==
  /\ Pending(q) # {} /\ q \in bad
  /\ Complete(q, "failed")
  /\ UNCHANGED <<rq, rcq, bad, faults, unread>>

Card(q) == Execute(q) \/ FailRequest(q) \/ Flush(q)

Request(n) ==
  \/ \E m \in Peers(n), signaled \in BOOLEAN : Access(n, m, signaled) \/ Send(n, m, signaled)
  \/ \E m \in Peers(n) : RequestRead(n, m) \/ Receive(n, m) \/ PollSend(n, m) \/ PollReceive(n, m)
  \/ \E signaled \in BOOLEAN : AccessUD(n, signaled) \/ SendMCast(n, signaled)
  \/ JoinMCastGroup(n) \/ LeaveMCastGroup(n) \/ ReceiveMCast(n) \/ PollReceiveMCast(n)
  \/ MCastRC(n) \/ UseDangling(n)

Next == (\E n \in Nodes : Request(n) \/ WaitedCall(n)) \/ (\E q \in QPs : Card(q))

Spec == Init /\ [][Next]_vars

\* Cards work, and a thread that waits for a completion polls.  No node must call anything.
FairSpec == Spec /\ (\A n \in Nodes : WF_vars(WaitedCall(n))) /\ (\A q \in QPs : WF_vars(Card(q)))

-----------------------------------------------------------------------------
\* The queues are within their capacity; requests are executed in order; the request a
\* node waits for is the last it has posted.
TypeOK ==
  /\ transport \in {"rc", "ud"} /\ bad \subseteq QPs /\ crashed \subseteq Nodes
  /\ \A n \in Nodes : m_countWR[n] \in 0 .. MaxWR - 1 /\ mcast[n] \in {"out", "in", "left"}
  /\ \A q \in QPs :
       /\ Len(sq[q]) <= MaxWR /\ Len(rq[q]) <= MaxWR
       /\ \A i, j \in DOMAIN sq[q] : i < j /\ sq[q][i].st = "posted" => sq[q][j].st = "posted"
  /\ \A n \in Nodes : Waits(n) => sq[call[n].q] # << >>

(***************************************************************************)
(* A signaled call that returns true tells that its request, the last of   *)
(* the queue, and all unsignaled ones before it have been executed with    *)
(* success; BufferWriter relies on it for the payload.  It holds if no     *)
(* other completion was to come when it was called, as of a requestRead.   *)
(***************************************************************************)
TrueMeansAllBefore ==
  [][\A n \in Nodes :
       LET q == call[n].q IN
       call[n].clean /\ call'[n].st = "true" => Pending(q) = {} /\ q \notin bad]_vars

(***************************************************************************)
(* No node finds its send queue full that talks to one peer, or uses UD,   *)
(* as long as the queue pair is not in error, every completion was taken   *)
(* and every request that was counted was posted.  Multicast sends are not *)
(* counted.                                                                *)
(***************************************************************************)
NeverFullAlone ==
  \A n \in Nodes : \A m \in Peers(n) :
    LET q == QP(n, m) IN
    Len(sq[q]) = MaxWR /\ ~Waits(n) =>
      \/ q \in bad \/ n \in miscounted \/ \E i \in DOMAIN sq[q] : sq[q][i].signaled
      \/ transport = "rc" /\ Cardinality(used[n]) > 1

(***************************************************************************)
(* When pollReceive for a peer has returned true, a buffer posted for it   *)
(* holds a message; with UD only if the node receives from one peer, since *)
(* all share a queue pair and its CQ.                                      *)
(***************************************************************************)
PolledIsFilled ==
  \A n \in Nodes : \A m \in Peers(n) \cup {Group} :
    transport = "rc" \/ m = Group \/ Cardinality(heard[n] \ {Group}) <= 1 => unread[<<n, m>>] >= 0

\* A signaled call returns, with true or with false, although it polls without a timeout.
WaitedReturns == \A n \in Nodes : Waits(n) ~> ~Waits(n)

================================================================================
