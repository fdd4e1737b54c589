----------------------------- MODULE RdmaConnect -----------------------------
(***************************************************************************)
(* Connection set-up: RDMAClient::connect, createManagementQueue and       *)
(* remoteAlloc on one side, RDMAServer::connectQueue and connectMgmtQueue  *)
(* on the other, over the tables of RDMAManagerRC or RDMAManagerUD.        *)
(* Several clients connect to several servers, end and come back, and      *)
(* every call of verbs and sockets may fail.                               *)
(*                                                                         *)
(* A queue pair is known to the card by its number and to the manager by a *)
(* connection key; what goes over the network is the number, and the key   *)
(* of the server's queue for the management request.                       *)
(*                                                                         *)
(* "Fault:" marks a faulty variant of the definition after it.             *)
(***************************************************************************)
EXTENDS Naturals, Sequences

CONSTANTS
  Clients, Servers,
  NodeID,     \* NodeID[s]: the id the application gives to server s
  Calls,      \* the calls made: connect, with a management queue or not, and remoteAlloc
  None,       \* nothing, nobody
  MaxCalls,   \* bound on the calls and the restarts of all clients
  MaxFaults   \* bound on the calls of verbs and sockets that fail

ASSUME SetsAssumption == /\ Clients \cap Servers = {} /\ None \notin Clients \cup Servers
                         /\ NodeID \in [Servers -> Nat]
                         /\ \A s, t \in Servers : NodeID[s] = NodeID[t] => s = t
                         /\ Calls \subseteq [srv : Servers, mgmt : BOOLEAN, mem : BOOLEAN]
                         /\ MaxCalls \in Nat /\ MaxFaults \in Nat

VARIABLES
  transport,  \* the manager all of them were built with
  mgr,        \* mgr[n]: the tables of the RDMAManager of n
  card,       \* card[n]: the queue pairs of n's network card, by number
  pc, call,   \* what client c is doing, and for which call
  clients,    \* RDMAClient::m_clients
  addr,       \* addr[c][q][s]: m_addr and m_mgmt_addr, keys of c's queue pairs
  nodeAddr,   \* RDMAClient::m_nodeIDsIBaddr
  inbox,      \* inbox[s]: the requests at the socket of s
  answer,     \* answer[c]: the answer that waits for c
  queues,     \* RDMAServer::m_addr
  mgmtOf,     \* RDMAServer::m_addr2mgmtAddr
  down,       \* servers that have crashed
  calls, faults,  \* counters for the two bounds
  joined,     \* history: the servers a connect of c has returned true for
  spoiled,    \* history: those with an attempt that failed halfway or a blank answer
  blanked     \* history: the servers that gave a blank answer for a data queue

client == <<pc, call, clients, addr, nodeAddr, calls, joined, spoiled>>
server == <<inbox, queues, mgmtOf, down, blanked>>
vars   == <<transport, mgr, card, client, server, answer, faults>>

Put(f, x, v) == [y \in DOMAIN f \cup {x} |-> IF y = x THEN v ELSE f[y]]

Nowhere == [lid |-> None, num |-> 0]
NewManager == [lastConnKey |-> 0, qps |-> << >>, lconns |-> << >>, rconns |-> << >>,
               connected |-> {}, udqp |-> 0, udqpMgmt |-> 0,
               unready |-> {}]  \* history: the queue pairs of UD that failed to become ready
CallOf(d) == [srv |-> d.srv, mgmt |-> d.mgmt, mem |-> d.mem, queue |-> "data",
              server_connkey |-> 0]
NoCall == CallOf([srv |-> None, mgmt |-> FALSE, mem |-> FALSE])
NoAddr == [data |-> << >>, mgmt |-> << >>]
Blank  == [lid |-> None, num |-> 0, key |-> 0]   \* a response in which nothing was set

ASSUME NoneAssumption == None # Blank

Init ==
  /\ transport \in {"rc", "ud"}
  /\ mgr = [n \in Clients \cup Servers |-> NewManager]
  /\ card = [n \in Clients \cup Servers |-> << >>]
  /\ pc = [c \in Clients |-> "idle"] /\ call = [c \in Clients |-> NoCall]
  /\ clients = [c \in Clients |-> {}] /\ addr = [c \in Clients |-> NoAddr]
  /\ nodeAddr = [c \in Clients |-> << >>]
  /\ inbox = [s \in Servers |-> << >>] /\ answer = [c \in Clients |-> None]
  /\ queues = [s \in Servers |-> << >>] /\ mgmtOf = [s \in Servers |-> << >>]
  /\ down = {} /\ blanked = {} /\ calls = 0 /\ faults = 0
  /\ joined = [c \in Clients |-> {}] /\ spoiled = [c \in Clients |-> {}]

-----------------------------------------------------------------------------
(***************************************************************************)
(* initQP and connectQP of the two managers: the set of their outcomes.    *)
(***************************************************************************)
Made(state) == [state |-> state, to |-> Nowhere]

\* The calls of verbs on a card with the queue pairs h.
CreateQP(h) == Append(h, Made("reset"))
ModifyQPToInit(h, q) == [h EXCEPT ![q].state = "init"]
ModifyQPToRTR(h, q, conn) == [h EXCEPT ![q] = [state |-> "rtr", to |-> conn]]
ModifyQPToRTS(h, q) == [h EXCEPT ![q].state = "rts"]

\* The queue pairs in the tables of manager m; one that was never entered stays.
DestroyQPs(m, h) ==
  [q \in DOMAIN h |-> IF q \in {m.udqp, m.udqpMgmt} \/ \E k \in DOMAIN m.qps : m.qps[k] = q
                      THEN Made("destroyed") ELSE h[q]]

\* createQP, nextConnKey, setQP and setLocalConnData; a failure of createCQ or createQP
\* leaves no trace, one of modifyQPToInit has used up a key.
InitQPRC(m, h) ==
  LET k == m.lastConnKey
      q == Len(h) + 1
      keyed == [m EXCEPT !.lastConnKey = k + 1]
  IN {[st |-> "ok", key |-> k, card |-> ModifyQPToInit(CreateQP(h), q),
       mgr |-> [keyed EXCEPT !.qps = Put(@, k, q), !.lconns = Put(@, k, q)]],
      [st |-> "fail", key |-> k, card |-> h, mgr |-> m],
      [st |-> "fail", key |-> k, card |-> CreateQP(h), mgr |-> keyed]}

\* createQP with UD, and the three calls that make it ready, which need no peer.
ReadyQPUD(h) == Append(h, Made("rts"))

\* One queue pair for all connections, and one for their management.  The number that is
\* told to peers is that of the first also for the second: without a first one, a null
\* pointer is followed.  Once created, a queue pair is taken again even if one of the
\* calls that make it ready to send has failed (it is then called "reset").
InitQPUD(m, h, mgmt) ==
  LET k == m.lastConnKey
      q == Len(h) + 1
      own == IF mgmt THEN m.udqpMgmt ELSE m.udqp
      keyed == [m EXCEPT !.lastConnKey = k + 1]
      Kept(mm) == IF mgmt THEN [mm EXCEPT !.udqpMgmt = q] ELSE [mm EXCEPT !.udqp = q]
      made == Kept(keyed)
      lame == Kept([keyed EXCEPT !.unready = @ \cup {q}])
      Enter(mm, qq) == [mm EXCEPT !.qps = Put(@, k, qq), !.lconns = Put(@, k, mm.udqp)]
  IN IF own # 0 THEN {[st |-> "ok", key |-> k, card |-> h, mgr |-> Enter(keyed, own)]}
     ELSE {[st |-> "fail", key |-> k, card |-> h, mgr |-> keyed]} \cup
          IF made.udqp = 0 THEN {[st |-> "crash", key |-> k, card |-> h, mgr |-> keyed]}
          ELSE {[st |-> "ok", key |-> k, card |-> ReadyQPUD(h), mgr |-> Enter(made, q)],
                [st |-> "fail", key |-> k, card |-> CreateQP(h), mgr |-> lame]}

InitQP(n, mgmt) == IF transport = "rc" THEN InitQPRC(mgr[n], card[n])
                   ELSE InitQPUD(mgr[n], card[n], mgmt)

SetRemoteConnData(m, k, conn) == [m EXCEPT !.rconns = Put(@, k, conn)]

\* A key is connected once.
ConnectQPRC(m, h, k) ==
  LET q == m.qps[k]
      rtr == ModifyQPToRTR(h, q, m.rconns[k])
  IN {[st |-> "ok", card |-> ModifyQPToRTS(rtr, q), mgr |-> [m EXCEPT !.connected = @ \cup {k}]],
      [st |-> "fail", card |-> h, mgr |-> m],
      [st |-> "fail", card |-> rtr, mgr |-> m]}

\* The address handle of the peer is made, which is asked of the card and not checked.
ConnectQPUD(m, h, k) ==
  {[st |-> "ok", card |-> h, mgr |-> [m EXCEPT !.connected = @ \cup {k}]]}

ConnectQP(m, h, k) ==
  IF k \in m.connected THEN {[st |-> "ok", card |-> h, mgr |-> m]}
  ELSE IF transport = "rc" THEN ConnectQPRC(m, h, k) ELSE ConnectQPUD(m, h, k)

\* A call that fails, within the bound.
Outcome(ok) == /\ ok \/ faults < MaxFaults
               /\ faults' = IF ok THEN faults ELSE faults + 1

Install(n, r) == mgr' = [mgr EXCEPT ![n] = r.mgr] /\ card' = [card EXCEPT ![n] = r.card]

-----------------------------------------------------------------------------
(***************************************************************************)
(* The client.  connect and createManagementQueue take the same steps:     *)
(* initQP, exchange of the numbers, connectQP; call.queue says for which   *)
(* of the two queue pairs.                                                 *)
(***************************************************************************)
\* resize fills the gaps with the address of key 0.
SetNodeAddr(a, i, k) ==
  [j \in 1 .. (IF Len(a) > i THEN Len(a) ELSE i + 1) |->
     IF j = i + 1 THEN k ELSE IF j <= Len(a) THEN a[j] ELSE 0]

\* connect returns true; remoteAlloc, remoteFree and remoteAllocSegments then send their
\* own request.
Succeed(c, cl) ==
  /\ IF cl.mem THEN UNCHANGED <<joined, nodeAddr>>
     ELSE /\ joined' = [joined EXCEPT ![c] = @ \cup {cl.srv}]
          /\ nodeAddr' = [nodeAddr EXCEPT ![c] =
                            SetNodeAddr(@, NodeID[cl.srv], addr[c].data[cl.srv])]
  /\ pc' = [pc EXCEPT ![c] = IF cl.mem THEN "ask" ELSE "idle"]
  /\ call' = [call EXCEPT ![c] = IF cl.mem THEN [cl EXCEPT !.queue = "mem"] ELSE NoCall]

\* The call goes on, or ends with false; what was created and stored stays.
GoTo(c, where, cl) ==
  /\ pc' = [pc EXCEPT ![c] = where]
  /\ call' = [call EXCEPT ![c] = cl]
  /\ UNCHANGED <<joined, nodeAddr>>
Fail(c) == Outcome(FALSE) /\ GoTo(c, "idle", NoCall)

Spoil(c, bad) == spoiled' = IF bad THEN [spoiled EXCEPT ![c] = @ \cup {call[c].srv}] ELSE spoiled

Call(c, cl) ==
  /\ pc[c] = "idle" /\ calls < MaxCalls
  /\ calls' = calls + 1
  /\ IF cl.srv \in clients[c] THEN Succeed(c, cl)  \* isConnected
     ELSE GoTo(c, "open", cl)
  /\ UNCHANGED <<transport, mgr, card, clients, addr, spoiled, server, answer, faults>>

\* Fault: the management request carries the number of the data queue.
DataNumber(m, queue, k, c) == m.qps[IF queue = "data" THEN k ELSE addr[c].data[call[c].srv]]

\* The number sent: from the local connection data, and from getQPNum for management.
QPNumber(m, queue, k, c) == IF queue = "data" THEN m.lconns[k] ELSE m.qps[k]

Request(c, queue, num, key) ==
  [from |-> c, queue |-> queue, num |-> num, server_connkey |-> key]

\* initQP; for the data queue the socket is opened, and stored in m_clients before
\* anything has been exchanged; the request is sent.
OpenQueue(c) ==
  LET cl == call[c] IN
  /\ pc[c] = "open"
  /\ \E r \in InitQP(c, cl.queue = "mgmt") :
       /\ Install(c, r)
       /\ IF r.st # "ok" THEN /\ Fail(c) /\ Spoil(c, cl.queue = "mgmt")
                              /\ UNCHANGED <<addr, clients, inbox>>
          ELSE /\ addr' = [addr EXCEPT ![c][cl.queue] = Put(@, cl.srv, r.key)]
               /\ \/ /\ cl.queue = "data" /\ Fail(c)            \* ProtoClient::connect
                     /\ UNCHANGED <<clients, inbox, spoiled>>
                  \/ /\ clients' = [clients EXCEPT ![c] = @ \cup {cl.srv}]
                     /\ Fail(c) /\ Spoil(c, TRUE)               \* ProtoClient::send
                     /\ UNCHANGED inbox
                  \/ /\ clients' = [clients EXCEPT ![c] = @ \cup {cl.srv}]
                     /\ Outcome(TRUE) /\ GoTo(c, "wait", cl)
                     /\ inbox' = [inbox EXCEPT ![cl.srv] = Append(@,
                          Request(c, cl.queue, QPNumber(r.mgr, cl.queue, r.key, c),
                                  cl.server_connkey))]
                     /\ UNCHANGED spoiled
  /\ UNCHANGED <<transport, calls, queues, mgmtOf, down, blanked, answer>>

\* The answer is put into the manager's table, and the queue pair connected.
Answered(c, k, a) ==
  ConnectQP(SetRemoteConnData(mgr[c], k, [lid |-> a.lid, num |-> a.num]), card[c], k)

\* The management queue comes after the data queue.
ReceiveConn(c) ==
  LET a == answer[c]
      cl == call[c]
  IN /\ pc[c] = "wait" /\ a # None /\ cl.queue # "mem"
     /\ answer' = [answer EXCEPT ![c] = None]
     /\ \/ Fail(c) /\ Spoil(c, TRUE) /\ UNCHANGED <<mgr, card>>
        \/ \E r \in Answered(c, addr[c][cl.queue][cl.srv], a) :
             /\ Install(c, r)
             /\ Spoil(c, r.st # "ok" \/ a = Blank)
             /\ IF r.st # "ok" THEN Fail(c)
                ELSE /\ Outcome(TRUE)
                     /\ IF cl.queue = "data" /\ cl.mgmt
                        THEN GoTo(c, "open", [cl EXCEPT !.queue = "mgmt", !.server_connkey = a.key])
                        ELSE Succeed(c, cl)
     /\ UNCHANGED <<transport, clients, addr, calls, server>>

\* Sixteen elements of an empty field are read from a blank answer: the process may end.
ReadBlank(c) ==
  /\ pc[c] = "wait" /\ answer[c] = Blank
  /\ answer' = [answer EXCEPT ![c] = None]
  /\ GoTo(c, "crashed", NoCall)
  /\ UNCHANGED <<transport, mgr, card, clients, addr, calls, spoiled, server, faults>>

\* remoteAlloc, remoteFree, remoteAllocSegments: the request, and its answer.
AskMemory(c) ==
  /\ pc[c] = "ask"
  /\ \/ Fail(c) /\ UNCHANGED inbox
     \/ /\ Outcome(TRUE) /\ GoTo(c, "wait", call[c])
        /\ inbox' = [inbox EXCEPT ![call[c].srv] = Append(@, Request(c, "mem", 0, 0))]
  /\ UNCHANGED <<transport, mgr, card, clients, addr, calls, spoiled, queues, mgmtOf, down,
                 blanked, answer>>

ReceiveMemory(c) ==
  /\ pc[c] = "wait" /\ answer[c] # None /\ call[c].queue = "mem"
  /\ answer' = [answer EXCEPT ![c] = None]
  /\ Fail(c) \/ (Outcome(TRUE) /\ GoTo(c, "idle", NoCall))
  /\ UNCHANGED <<transport, mgr, card, clients, addr, calls, spoiled, server>>

\* Fault: the addresses outlive the manager they belong to.
KeepAddr(c) ==
  clients' = [clients EXCEPT ![c] = {}] /\ UNCHANGED <<addr, nodeAddr>>

ForgetConnections(c) ==
  /\ clients' = [clients EXCEPT ![c] = {}]
  /\ addr' = [addr EXCEPT ![c] = NoAddr]
  /\ nodeAddr' = [nodeAddr EXCEPT ![c] = << >>]

\* destroyManager, with destroyQPs.
DestroyManager(c) ==
  /\ mgr' = [mgr EXCEPT ![c] = NewManager]
  /\ card' = [card EXCEPT ![c] = DestroyQPs(mgr[c], @)]

\* The client is deleted, or its process has ended; a new one starts.
Restart(c) ==
  /\ pc[c] \in {"idle", "crashed"} /\ mgr[c] # NewManager /\ calls < MaxCalls
  /\ calls' = calls + 1
  /\ DestroyManager(c)
  /\ pc' = [pc EXCEPT ![c] = "idle"]
  /\ ForgetConnections(c)
  /\ joined' = [joined EXCEPT ![c] = {}] /\ spoiled' = [spoiled EXCEPT ![c] = {}]
  /\ UNCHANGED <<transport, call, server, answer, faults>>

-----------------------------------------------------------------------------
(***************************************************************************)
(* The server: handle, in its one thread and under m_connLock.             *)
(***************************************************************************)
\* Fault: a handler that fails answers nothing.
NoResponse(ok, s, m, k) == IF ok THEN [lid |-> s, num |-> m.lconns[k], key |-> k] ELSE None

\* Fault: the key is sent for the number.
KeyResponse(ok, s, m, k) == IF ok THEN [lid |-> s, num |-> k, key |-> k] ELSE Blank

\* The result of connectQueue and connectMgmtQueue is ignored: after a failure the
\* response is sent as it was created.
Response(ok, s, m, k) == IF ok THEN [lid |-> s, num |-> m.lconns[k], key |-> k] ELSE Blank

\* Fault: the management queue is entered for the data queue connected last.
LastQueue(s, key, k) ==
  Put(mgmtOf[s], IF queues[s] = << >> THEN key ELSE queues[s][Len(queues[s])], k)

\* Under the key the client was told with its data queue.
MgmtTable(s, key, k) == Put(mgmtOf[s], key, k)

\* connectQueue and connectMgmtQueue.
HandleConnect(s) ==
  /\ inbox[s] # << >> /\ Head(inbox[s]).queue # "mem" /\ s \notin down
  /\ LET q == Head(inbox[s])
         Reply(ok, m, k) ==
           /\ answer' = [answer EXCEPT ![q.from] = Response(ok, s, m, k)]
           /\ blanked' = IF ok \/ q.queue = "mgmt" THEN blanked ELSE blanked \cup {s}
           /\ UNCHANGED down
     IN \E r \in InitQP(s, q.queue = "mgmt") :
        IF r.st # "ok"
        THEN /\ Outcome(r.st = "crash") /\ Install(s, r)
             /\ IF r.st = "crash" THEN down' = down \cup {s} /\ UNCHANGED <<answer, blanked>>
                ELSE Reply(FALSE, r.mgr, r.key)
             /\ UNCHANGED <<queues, mgmtOf>>
        ELSE LET m == SetRemoteConnData(r.mgr, r.key, [lid |-> q.from, num |-> q.num])
             IN \E l \in ConnectQP(m, r.card, r.key) :
                /\ Outcome(l.st = "ok") /\ Install(s, l)
                /\ Reply(l.st = "ok", l.mgr, r.key)
                /\ IF q.queue = "data"
                   THEN queues' = [queues EXCEPT ![s] = Append(@, r.key)] /\ UNCHANGED mgmtOf
                   ELSE /\ mgmtOf' = [mgmtOf EXCEPT ![s] = MgmtTable(s, q.server_connkey, r.key)]
                        /\ UNCHANGED queues
  /\ inbox' = [inbox EXCEPT ![s] = Tail(@)]
  /\ UNCHANGED <<transport, client>>

\* requestMemoryResource, releaseMemoryResource and the segments of a NodeServer: their
\* effect on the memory is that of RdmaMem and Registry.
HandleMemory(s) ==
  /\ inbox[s] # << >> /\ Head(inbox[s]).queue = "mem" /\ s \notin down
  /\ answer' = [answer EXCEPT ![Head(inbox[s]).from] = [lid |-> s, num |-> 0, key |-> 0]]
  /\ inbox' = [inbox EXCEPT ![s] = Tail(@)]
  /\ UNCHANGED <<transport, mgr, card, client, queues, mgmtOf, down, blanked, faults>>

ClientStep(c) ==
  OpenQueue(c) \/ ReceiveConn(c) \/ ReadBlank(c) \/ AskMemory(c) \/ ReceiveMemory(c)

ServerStep(s) == HandleConnect(s) \/ HandleMemory(s)

Next ==
  \/ \E c \in Clients : ClientStep(c) \/ Restart(c) \/ \E d \in Calls : Call(c, CallOf(d))
  \/ \E s \in Servers : ServerStep(s)

Spec == Init /\ [][Next]_vars

\* Calls that were begun go on, and the server thread handles what it is sent.
FairSpec == Spec /\ (\A c \in Clients : WF_vars(ClientStep(c)))
                 /\ (\A s \in Servers : WF_vars(ServerStep(s)))

-----------------------------------------------------------------------------
Conns == [lid : Clients \cup Servers \cup {None}, num : Nat]

\* The tables of a manager have the same keys, all below m_lastConnKey, and name queue
\* pairs the card has.
TypeOK ==
  /\ transport \in {"rc", "ud"} /\ down \subseteq Servers /\ faults \in 0 .. MaxFaults
  /\ \A n \in Clients \cup Servers :
       /\ DOMAIN mgr[n].qps \subseteq 0 .. mgr[n].lastConnKey - 1
       /\ DOMAIN mgr[n].qps = DOMAIN mgr[n].lconns
       /\ mgr[n].connected \subseteq DOMAIN mgr[n].rconns
       /\ DOMAIN mgr[n].rconns \subseteq DOMAIN mgr[n].qps
       /\ \A k \in DOMAIN mgr[n].qps : mgr[n].qps[k] \in DOMAIN card[n]
       /\ \A k \in DOMAIN mgr[n].rconns : mgr[n].rconns[k] \in Conns
       /\ \A q \in DOMAIN card[n] :
            /\ card[n][q].state \in {"reset", "init", "rtr", "rts", "destroyed"}
            /\ card[n][q].to \in Conns
  /\ \A c \in Clients :
       /\ pc[c] \in {"idle", "open", "wait", "ask", "crashed"}
       /\ clients[c] \subseteq DOMAIN addr[c].data
       /\ \A q \in {"data", "mgmt"}, s \in Servers :
            s \in DOMAIN addr[c][q] => addr[c][q][s] \in DOMAIN mgr[c].qps

\* Where the data sent with key k of n goes.
Route(n, k) == IF transport = "rc" THEN card[n][mgr[n].qps[k]].to ELSE mgr[n].rconns[k]

\* Key k of n is connected and its queue pair ready to send, but for a queue pair of UD
\* that failed to become ready when it was created and is used nevertheless.
Ready(n, k) ==
  LET q == mgr[n].qps[k] IN
  k \in mgr[n].connected /\ (q \in mgr[n].unready \/ card[n][q].state = "rts")

PairedWith(c, s) ==
  LET k == addr[c].data[s] IN
  /\ Ready(c, k) /\ Route(c, k).lid = s
  /\ Route(c, nodeAddr[c][NodeID[s] + 1]).lid = s
  /\ \E i \in DOMAIN queues[s] :
       /\ Ready(s, queues[s][i])
       /\ mgr[s].qps[queues[s][i]] = Route(c, k).num
       /\ Route(s, queues[s][i]) = [lid |-> c, num |-> mgr[c].qps[k]]

(***************************************************************************)
(* When connect has returned true, the client's queue pair for the server  *)
(* leads to one the server lists in getQueues, which leads back, and so    *)
(* does the node id, although ids are given in any order and their table   *)
(* is filled with key 0: whatever other clients do, and after attempts     *)
(* that failed before the socket was stored.  Both queue pairs are ready   *)
(* to send, except one of RDMAManagerUD whose modifyQPToInit, RTR or RTS   *)
(* has failed: initQP hands it out from then on without another try.       *)
(***************************************************************************)
Paired == \A c \in Clients : \A s \in joined[c] \ spoiled[c] : PairedWith(c, s)

(***************************************************************************)
(* getMgmtQueue(q) of the server leads to the client q leads to, and to    *)
(* the queue pair this client keeps for management, whatever fails, as     *)
(* long as the server gave no blank answer (a blank one names key 0).      *)
(***************************************************************************)
MgmtLeadsBack ==
  \A s \in Servers \ blanked : \A k \in DOMAIN mgmtOf[s] :
    LET to == mgr[s].rconns[k]
        mto == mgr[s].rconns[mgmtOf[s][k]]
        c == to.lid
    IN /\ mto.lid = c
       /\ \/ card[c][to.num].state = "destroyed"   \* of a client that has ended
          \/ /\ s \in DOMAIN addr[c].mgmt
             /\ mgr[c].lconns[addr[c].data[s]] = to.num
             /\ mgr[c].qps[addr[c].mgmt[s]] = mto.num

(***************************************************************************)
(* RC: no two queue pairs lead to the same one, whatever was tried again   *)
(* and whoever ended in between.                                           *)
(***************************************************************************)
NoSharedPeer ==
  transport = "rc" =>
    \A n1, n2 \in Clients \cup Servers :
      \A q1 \in DOMAIN card[n1], q2 \in DOMAIN card[n2] :
        card[n1][q1].to = card[n2][q2].to /\ card[n1][q1].to.num # 0 => n1 = n2 /\ q1 = q2

\* connect returns, or the process has ended, as long as no server has crashed.
ConnectReturns ==
  \A c \in Clients : pc[c] \notin {"idle", "crashed"} ~> pc[c] \in {"idle", "crashed"} \/ down # {}

================================================================================
