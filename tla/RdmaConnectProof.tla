--------------------------- MODULE RdmaConnectProof ----------------------------
(***************************************************************************)
(* Theorems about RdmaConnect, for any number of clients and servers, any  *)
(* number of calls and restarts and any number of faults.                  *)
(***************************************************************************)
EXTENDS RdmaConnect, SequenceTheorems, TLAPS

Nodes == Clients \cup Servers

-----------------------------------------------------------------------------
(***************************************************************************)
(* One node: the tables m of its manager, the queue pairs h of its card.   *)
(***************************************************************************)
\* The functions from some of the keys in K to S.
Tables(K, S) == UNION {[D -> S] : D \in SUBSET K}

States == {"reset", "init", "rtr", "rts", "destroyed"}
QueuePairs == [state : States, to : Conns]
Managers == [lastConnKey : Nat, qps : Tables(Nat, Nat), lconns : Tables(Nat, Nat),
             rconns : Tables(Nat, Conns), connected : SUBSET Nat, udqp : Nat, udqpMgmt : Nat,
             unready : SUBSET Nat]

\* A queue pair the card has, and that was not destroyed.
Alive(h, q) == q \in 1 .. Len(h) /\ h[q].state # "destroyed"

\* The keys of the tables are below m_lastConnKey; what they name is there; what is
\* connected is so with the data that was stored for it.
TablesOK(m, h) ==
  /\ DOMAIN m.qps \subseteq 0 .. m.lastConnKey - 1 /\ DOMAIN m.lconns = DOMAIN m.qps
  /\ m.connected \subseteq DOMAIN m.rconns /\ DOMAIN m.rconns \subseteq DOMAIN m.qps
  /\ \A k \in DOMAIN m.qps : Alive(h, m.qps[k])

\* With RC every key has a queue pair of its own.
OwnQPs(t, m, h) ==
  t = "rc" =>
    /\ m.udqp = 0 /\ m.udqpMgmt = 0
    /\ \A k \in DOMAIN m.qps : m.lconns[k] = m.qps[k]
    /\ \A j, k \in DOMAIN m.qps : m.qps[j] = m.qps[k] => j = k
    /\ \A k \in m.connected : h[m.qps[k]] = [state |-> "rts", to |-> m.rconns[k]]

\* With UD all of them share two.
SharedQPs(m, h) ==
  (m.udqp # 0 => Alive(h, m.udqp)) /\ (m.udqpMgmt # 0 => Alive(h, m.udqpMgmt))

\* They are ready, but for those that failed to become so.
Usable(m, h, q) == q \in m.unready \/ h[q].state = "rts"
UsableQPs(t, m, h) ==
  t # "rc" =>
    /\ m.udqp # 0 => Usable(m, h, m.udqp)
    /\ m.udqpMgmt # 0 => Usable(m, h, m.udqpMgmt)
    /\ \A k \in DOMAIN m.qps : Usable(m, h, m.qps[k])

\* With the manager for transport t.
NodeOK(t, m, h) ==
  /\ m \in Managers /\ h \in Seq(QueuePairs) /\ TablesOK(m, h)
  /\ OwnQPs(t, m, h) /\ SharedQPs(m, h) /\ UsableQPs(t, m, h)

\* The tables m may become m2 without a restart.
Grown(m, m2) ==
  /\ \A k \in DOMAIN m.qps :
       k \in DOMAIN m2.qps /\ m2.qps[k] = m.qps[k] /\ m2.lconns[k] = m.lconns[k]
  /\ \A k \in DOMAIN m.rconns : k \in DOMAIN m2.rconns /\ m2.rconns[k] = m.rconns[k]
  /\ m.connected \subseteq m2.connected

\* What a card keeps in any case.
CardGrown(h, h2) ==
  /\ Len(h) <= Len(h2)
  /\ \A q \in 1 .. Len(h) : h[q].state = "destroyed" => h2[q].state = "destroyed"

\* No queue pair of h2 leads where it did not in h, but for q, which may lead to conn.
LeadsAsBefore(h, h2, q, conn) ==
  \A p \in 1 .. Len(h2) :
    \/ p \in 1 .. Len(h) /\ h2[p].to = h[p].to
    \/ h2[p].to.num = 0
    \/ p = q /\ h2[p].to = conn

\* initQP ends with st, key k, the tables m2 and the card h2 (mgmt: for a management queue).
Initialised(t, m, h, mgmt, st, k, m2, h2) ==
  /\ NodeOK(t, m2, h2) /\ Grown(m, m2) /\ CardGrown(h, h2) /\ LeadsAsBefore(h, h2, 0, Nowhere)
  /\ m2.rconns = m.rconns /\ m2.connected = m.connected
  /\ k \in Nat /\ k \notin DOMAIN m.qps /\ st \in {"ok", "fail", "crash"}
  /\ st = "ok" =>
       /\ k \in DOMAIN m2.qps
       /\ ~ mgmt => m2.lconns[k] = m2.qps[k]
       /\ t = "rc" => m2.qps[k] = Len(h) + 1 /\ Len(h2) = Len(h) + 1

\* connectQP of key k with the peer conn ends with st, the tables m2 and the card h2.
Connected(t, m, h, k, conn, st, m2, h2) ==
  /\ NodeOK(t, m2, h2) /\ Grown(m, m2) /\ CardGrown(h, h2)
  /\ LeadsAsBefore(h, h2, m.qps[k], conn) /\ Len(h2) = Len(h)
  /\ m2.qps = m.qps /\ m2.lconns = m.lconns
  /\ DOMAIN m2.rconns = DOMAIN m.rconns \cup {k} /\ m2.rconns[k] = conn
  /\ st \in {"ok", "fail"} /\ (st = "ok" => k \in m2.connected)

-----------------------------------------------------------------------------
(***************************************************************************)
(* The inductive invariant.  Its parts are about one client or one request *)
(* each, and take as parameters what they are about: client c, with call   *)
(* cl at p, sockets sv, addresses ad, servers joined js, tables m, answer  *)
(* a; server s, with queues qs and tables ms.                              *)
(***************************************************************************)
CallRecords == [srv : Servers \cup {None}, mgmt : BOOLEAN, mem : BOOLEAN,
                queue : {"data", "mgmt", "mem"}, server_connkey : Nat]
Places == {"idle", "open", "wait", "ask", "crashed"}
Addresses == [data : Tables(Servers, Nat), mgmt : Tables(Servers, Nat)]
Requests == [from : Clients, queue : {"data", "mgmt", "mem"}, num : Nat, server_connkey : Nat]
Answers == [lid : Servers \cup {None}, num : Nat, key : Nat]

TypeInv ==
  /\ transport \in {"rc", "ud"} /\ faults \in 0 .. MaxFaults
  /\ DOMAIN mgr = Nodes /\ DOMAIN card = Nodes
  /\ pc \in [Clients -> Places]
  /\ call \in [Clients -> CallRecords] /\ clients \in [Clients -> SUBSET Servers]
  /\ addr \in [Clients -> Addresses] /\ nodeAddr \in [Clients -> Seq(Nat)]
  /\ joined \in [Clients -> SUBSET Servers] /\ spoiled \in [Clients -> SUBSET Servers]
  /\ inbox \in [Servers -> Seq(Requests)] /\ answer \in [Clients -> Answers \cup {None}]
  /\ queues \in [Servers -> Seq(Nat)] /\ mgmtOf \in [Servers -> Tables(Nat, Nat)]
  /\ down \subseteq Servers /\ blanked \subseteq Servers

NodesInv == \A n \in Nodes : NodeOK(transport, mgr[n], card[n])

\* The keys a client has for its servers.
KeysOK(ad, m) ==
  /\ \A s \in DOMAIN ad.data : ad.data[s] \in DOMAIN m.qps /\ m.lconns[ad.data[s]] = m.qps[ad.data[s]]
  /\ \A s \in DOMAIN ad.mgmt : ad.mgmt[s] \in DOMAIN m.qps
  /\ \A s, t \in DOMAIN ad.data : ad.data[s] = ad.data[t] => s = t
  /\ \A s \in DOMAIN ad.data, t \in DOMAIN ad.mgmt : ad.data[s] # ad.mgmt[t]

\* Where a call is, and what was stored so far.
CallOK(p, cl, sv, ad, js, m) ==
  /\ p \in {"open", "wait", "ask"} => cl.srv \in Servers
  /\ p = "open" => cl.queue \in {"data", "mgmt"}
  /\ p = "ask" => cl.queue = "mem"
  /\ p = "open" /\ cl.queue = "data" => cl.srv \notin sv
  /\ p = "open" /\ cl.queue = "mgmt" => cl.srv \in sv /\ cl.srv \notin DOMAIN ad.mgmt
  /\ p = "wait" /\ cl.queue = "data" =>
       /\ cl.srv \in sv /\ cl.srv \notin js /\ cl.srv \notin DOMAIN ad.mgmt
       /\ ad.data[cl.srv] \notin DOMAIN m.rconns
  /\ p = "wait" /\ cl.queue = "mgmt" =>
       cl.srv \in DOMAIN ad.mgmt /\ ad.mgmt[cl.srv] \notin DOMAIN m.rconns

\* The node ids na lead to the keys of the servers that were joined.
IdsOK(na, js, ad) ==
  \A s \in js : NodeID[s] + 1 \in 1 .. Len(na) /\ na[NodeID[s] + 1] = ad.data[s]

\* What a client has stored.
StoredOK(sv, ad, js, m, na) ==
  /\ sv \subseteq DOMAIN ad.data /\ DOMAIN ad.mgmt \subseteq sv /\ js \subseteq sv
  /\ KeysOK(ad, m) /\ IdsOK(na, js, ad)

ClientOK(p, cl, sv, ad, js, m, na) == StoredOK(sv, ad, js, m, na) /\ CallOK(p, cl, sv, ad, js, m)

ClientsInv ==
  \A c \in Clients :
    ClientOK(pc[c], call[c], clients[c], addr[c], joined[c], mgr[c], nodeAddr[c])

\* The queue pair of the client for s.
DataQP(ad, m, s) == m.qps[ad.data[s]]

\* A request r at s is one the client waits for.
RequestOK(r, s, p, cl, a, ad, m) ==
  /\ p = "wait" /\ cl.srv = s /\ cl.queue = r.queue /\ a = None
  /\ r.queue = "data" => r.num = DataQP(ad, m, s)
  /\ r.queue = "mgmt" => r.num = m.qps[ad.mgmt[s]] /\ r.server_connkey = cl.server_connkey
  /\ r.queue = "mem" => r.num = 0

\* The request of a client is with the server, or the answer with the client.
RequestsInv ==
  /\ \A s \in Servers : \A i \in 1 .. Len(inbox[s]) :
       LET c == inbox[s][i].from
       IN RequestOK(inbox[s][i], s, pc[c], call[c], answer[c], addr[c], mgr[c])
  /\ \A s, t \in Servers : \A i \in 1 .. Len(inbox[s]), j \in 1 .. Len(inbox[t]) :
       inbox[s][i].from = inbox[t][j].from => s = t /\ i = j

\* Key k of the server is connected with queue pair num of client c, and is in getQueues.
ServerEnd(qs, ms, k, c, num) ==
  /\ \E i \in 1 .. Len(qs) : qs[i] = k
  /\ k \in ms.connected /\ ms.rconns[k] = [lid |-> c, num |-> num]

\* The answer to a request for a data queue tells of one that leads back, or it is blank.
AnswerOK(c, a, p, cl, ad, m, qs, ms, bl) ==
  /\ p = "wait" /\ cl.srv \in Servers
  /\ cl.queue = "data" =>
       IF a = Blank THEN cl.srv \in bl
       ELSE /\ a.lid = cl.srv /\ ServerEnd(qs, ms, a.key, c, DataQP(ad, m, cl.srv))
            /\ ms.qps[a.key] = a.num

AnswersInv ==
  \A c \in Clients : answer[c] # None =>
    AnswerOK(c, answer[c], pc[c], call[c], addr[c], mgr[c],
             queues[call[c].srv], mgr[call[c].srv], blanked)

\* The queue pair of c for s leads to one of s that leads back.
Linked(c, s, ad, m, qs, ms) ==
  /\ ad.data[s] \in m.connected /\ m.rconns[ad.data[s]].lid = s
  /\ \E j \in ms.connected : /\ ServerEnd(qs, ms, j, c, DataQP(ad, m, s))
                             /\ ms.qps[j] = m.rconns[ad.data[s]].num

\* The answer for s has not been received, or could not be read.
Unfinished(s, p, cl, js) ==
  s \notin js /\ (p = "crashed" \/ (p = "wait" /\ cl.queue = "data" /\ cl.srv = s))

LinksInv ==
  \A c \in Clients : \A s \in clients[c] \ spoiled[c] :
    \/ Unfinished(s, pc[c], call[c], joined[c])
    \/ Linked(c, s, addr[c], mgr[c], queues[s], mgr[s])

\* The queue pair to of the card h is gone, or it is still the one for s, and mto the one
\* for management.
LeadsBack(s, h, ad, m, to, mto) ==
  /\ to \in 1 .. Len(h)
  /\ \/ h[to].state = "destroyed"
     \/ s \in DOMAIN ad.mgmt /\ m.lconns[ad.data[s]] = to /\ m.qps[ad.mgmt[s]] = mto

\* Key k of the server and its management queue mk.
EntryOK(k, mk, ms) ==
  /\ k \in DOMAIN ms.rconns /\ mk \in DOMAIN ms.rconns
  /\ ms.rconns[k].lid \in Clients /\ ms.rconns[mk].lid = ms.rconns[k].lid

\* The management request of c names the key of the server's queue for c.
MgmtCallOK(c, s, p, cl, ad, m, ms) ==
  p \in {"open", "wait"} /\ cl.queue = "mgmt" /\ cl.srv = s =>
    /\ cl.server_connkey \in DOMAIN ms.rconns
    /\ ms.rconns[cl.server_connkey] = [lid |-> c, num |-> DataQP(ad, m, s)]

MgmtInv ==
  \A s \in Servers \ blanked :
    /\ \A k \in DOMAIN mgmtOf[s] :
         /\ EntryOK(k, mgmtOf[s][k], mgr[s])
         /\ LET c == mgr[s].rconns[k].lid
            IN LeadsBack(s, card[c], addr[c], mgr[c], mgr[s].rconns[k].num,
                         mgr[s].rconns[mgmtOf[s][k]].num)
    /\ \A c \in Clients : MgmtCallOK(c, s, pc[c], call[c], addr[c], mgr[c], mgr[s])

\* Some queue pair of N, with the cards cd, leads to number num of node n.
Taken(cd, N, n, num) ==
  \E x \in N : \E q \in 1 .. Len(cd[x]) : cd[x][q].to = [lid |-> n, num |-> num]

\* A queue pair leads to one of the other side; no two to the same.
LeadOver ==
  \A n \in Nodes : \A q \in 1 .. Len(card[n]) :
    card[n][q].to.num # 0 =>
      /\ card[n][q].to.lid \in Nodes /\ (n \in Clients <=> card[n][q].to.lid \in Servers)
      /\ card[n][q].to.num <= Len(card[card[n][q].to.lid])
LeadApart ==
  \A n1, n2 \in Nodes : \A q1 \in 1 .. Len(card[n1]), q2 \in 1 .. Len(card[n2]) :
    card[n1][q1].to = card[n2][q2].to /\ card[n1][q1].to.num # 0 => n1 = n2 /\ q1 = q2
LeadAcross == LeadOver /\ LeadApart

\* None leads yet to one that a request or an answer tells of.
RequestsNew ==
  \A s \in Servers : \A i \in 1 .. Len(inbox[s]) :
    inbox[s][i].num # 0 => /\ inbox[s][i].num <= Len(card[inbox[s][i].from])
                           /\ ~ Taken(card, Servers, inbox[s][i].from, inbox[s][i].num)
AnswersNew ==
  \A c \in Clients : answer[c] # None /\ answer[c].num # 0 =>
    /\ answer[c].lid \in Servers /\ answer[c].num <= Len(card[answer[c].lid])
    /\ ~ Taken(card, Clients, answer[c].lid, answer[c].num)
    /\ \A d \in Clients : d # c /\ answer[d] # None =>
         ~ (answer[d].lid = answer[c].lid /\ answer[d].num = answer[c].num)

PeersInv == transport = "rc" => LeadAcross /\ RequestsNew /\ AnswersNew

IInv ==
  TypeInv /\ NodesInv /\ ClientsInv /\ RequestsInv /\ AnswersInv /\ LinksInv /\ MgmtInv /\ PeersInv

-----------------------------------------------------------------------------
(***************************************************************************)
(* Tables and the tables of a node.                                        *)
(***************************************************************************)
\* A table stays one.
LEMMA PutType ==
  ASSUME NEW K, NEW S, NEW f \in Tables(K, S), NEW x \in K, NEW v \in S
  PROVE  Put(f, x, v) \in Tables(K, S)
<1>1. PICK D \in SUBSET K : f \in [D -> S]
  BY DEF Tables
<1>2. Put(f, x, v) \in [D \cup {x} -> S]
  BY <1>1 DEF Put
<1>3. D \cup {x} \in SUBSET K
  OBVIOUS
<1>. QED
  BY <1>2, <1>3 DEF Tables

\* A table has values for its keys.
LEMMA TableFacts ==
  ASSUME NEW K, NEW S, NEW f \in Tables(K, S)
  PROVE  DOMAIN f \subseteq K /\ \A x \in DOMAIN f : f[x] \in S
BY DEF Tables

\* The empty table is one.
LEMMA NoTable ==
  ASSUME NEW K, NEW S
  PROVE  << >> \in Tables(K, S) /\ DOMAIN << >> = {}
<1>1. << >> \in [{} -> S]
  OBVIOUS
<1>2. {} \in SUBSET K
  OBVIOUS
<1>. QED
  BY <1>1, <1>2 DEF Tables

\* Nothing is at Nowhere.
LEMMA NowhereFacts == Nowhere \in Conns /\ Nowhere.num = 0 /\ Nowhere.lid = None
BY DEF Nowhere, Conns

\* What initQP puts on a card.
LEMMA MadeFacts ==
  ASSUME NEW st \in States
  PROVE  Made(st) \in QueuePairs /\ Made(st).state = st /\ Made(st).to = Nowhere
BY NowhereFacts DEF Made, QueuePairs

\* A card with a queue pair more.
LEMMA AppendFacts ==
  ASSUME NEW h \in Seq(QueuePairs), NEW e \in QueuePairs
  PROVE  /\ Append(h, e) \in Seq(QueuePairs) /\ Len(Append(h, e)) = Len(h) + 1 /\ Len(h) \in Nat
         /\ Append(h, e)[Len(h) + 1] = e
         /\ \A q \in 1 .. Len(h) : Append(h, e)[q] = h[q]
OBVIOUS

\* The parts of the tables.
LEMMA ManagerFacts ==
  ASSUME NEW m \in Managers
  PROVE  /\ m.lastConnKey \in Nat /\ m.qps \in Tables(Nat, Nat) /\ m.lconns \in Tables(Nat, Nat)
         /\ m.rconns \in Tables(Nat, Conns) /\ m.connected \in SUBSET Nat
         /\ m.udqp \in Nat /\ m.udqpMgmt \in Nat /\ m.unready \in SUBSET Nat
BY DEF Managers

\* Taking the next key.
LEMMA KeyedOK ==
  ASSUME NEW m, NEW h, NodeOK(transport, m, h)
  PROVE  LET m2 == [m EXCEPT !.lastConnKey = m.lastConnKey + 1] IN
         /\ NodeOK(transport, m2, h)
         /\ m2.qps = m.qps /\ m2.lconns = m.lconns /\ m2.rconns = m.rconns
         /\ m2.connected = m.connected /\ m2.udqp = m.udqp /\ m2.udqpMgmt = m.udqpMgmt
         /\ m2.lastConnKey = m.lastConnKey + 1 /\ m2.unready = m.unready
<1>. DEFINE m2 == [m EXCEPT !.lastConnKey = m.lastConnKey + 1]
<1>1. m \in Managers /\ m.lastConnKey \in Nat
  BY ManagerFacts DEF NodeOK
<1>2. /\ m2.qps = m.qps /\ m2.lconns = m.lconns /\ m2.rconns = m.rconns
      /\ m2.connected = m.connected /\ m2.udqp = m.udqp /\ m2.udqpMgmt = m.udqpMgmt
      /\ m2.lastConnKey = m.lastConnKey + 1 /\ m2.unready = m.unready
  BY <1>1 DEF Managers
<1>3. m2 \in Managers
  BY <1>1 DEF Managers
<1>. HIDE DEF m2
<1>4. TablesOK(m2, h) /\ OwnQPs(transport, m2, h) /\ SharedQPs(m2, h)
  BY <1>1, <1>2 DEF NodeOK, TablesOK, OwnQPs, SharedQPs
<1>5. UsableQPs(transport, m2, h)
  BY <1>2 DEF NodeOK, UsableQPs, Usable
<1>6. NodeOK(transport, m2, h)
  BY <1>1, <1>3, <1>4, <1>5 DEF NodeOK
<1>. QED
  BY <1>2, <1>6 DEF m2

\* A queue pair is noted as not ready.
LEMMA UnreadyOK ==
  ASSUME NEW m, NEW h, NEW q \in Nat, NodeOK(transport, m, h)
  PROVE  LET m2 == [m EXCEPT !.unready = @ \cup {q}] IN
         /\ NodeOK(transport, m2, h) /\ q \in m2.unready
         /\ m2.qps = m.qps /\ m2.lconns = m.lconns /\ m2.rconns = m.rconns
         /\ m2.connected = m.connected /\ m2.udqp = m.udqp /\ m2.udqpMgmt = m.udqpMgmt
         /\ m2.lastConnKey = m.lastConnKey
<1>. DEFINE m2 == [m EXCEPT !.unready = @ \cup {q}]
<1>1. m \in Managers /\ h \in Seq(QueuePairs)
  BY DEF NodeOK
<1>2. /\ m2.qps = m.qps /\ m2.lconns = m.lconns /\ m2.rconns = m.rconns
      /\ m2.connected = m.connected /\ m2.udqp = m.udqp /\ m2.udqpMgmt = m.udqpMgmt
      /\ m2.lastConnKey = m.lastConnKey /\ m2.unready = m.unready \cup {q}
  BY <1>1 DEF Managers
<1>3. m2 \in Managers
  BY <1>1 DEF Managers
<1>. HIDE DEF m2
<1>4. TablesOK(m2, h) /\ OwnQPs(transport, m2, h) /\ SharedQPs(m2, h)
  BY <1>1, <1>2 DEF NodeOK, TablesOK, OwnQPs, SharedQPs
<1>5. UsableQPs(transport, m2, h)
  BY <1>2 DEF NodeOK, UsableQPs, Usable
<1>6. NodeOK(transport, m2, h)
  BY <1>1, <1>3, <1>4, <1>5 DEF NodeOK
<1>. QED
  BY <1>2, <1>6 DEF m2

\* A queue pair more on the card.
LEMMA MoreQPs ==
  ASSUME NEW m, NEW h, NEW e \in QueuePairs, NodeOK(transport, m, h)
  PROVE  NodeOK(transport, m, Append(h, e))
<1>. DEFINE h2 == Append(h, e)
<1>1. /\ h2 \in Seq(QueuePairs) /\ Len(h2) = Len(h) + 1 /\ Len(h) \in Nat
      /\ \A q \in 1 .. Len(h) : h2[q] = h[q]
  BY AppendFacts DEF NodeOK
<1>. HIDE DEF h2
<1>2. \A q : Alive(h, q) => Alive(h2, q) /\ h2[q] = h[q]
  BY <1>1 DEF Alive
<1>3. TablesOK(m, h2) /\ SharedQPs(m, h2)
  BY <1>2 DEF NodeOK, TablesOK, SharedQPs
<1>4. OwnQPs(transport, m, h2)
  <2>1. \A k \in m.connected : k \in DOMAIN m.qps /\ Alive(h, m.qps[k])
    BY DEF NodeOK, TablesOK
  <2>. QED
    BY <1>2, <2>1 DEF NodeOK, OwnQPs
<1>5. UsableQPs(transport, m, h2)
  BY <1>2 DEF NodeOK, TablesOK, SharedQPs, UsableQPs, Usable
<1>. QED
  BY <1>1, <1>3, <1>4, <1>5 DEF NodeOK, h2

\* m2 has the keys of m.
SameKeys(m, m2) ==
  /\ m2.qps = m.qps /\ m2.lconns = m.lconns /\ m2.rconns = m.rconns
  /\ m2.connected = m.connected /\ m2.lastConnKey = m.lastConnKey

\* A queue pair is kept as the one for all connections, or for their management.
LEMMA KeptOK ==
  ASSUME NEW m, NEW h, NEW q, NodeOK(transport, m, h), Alive(h, q), Usable(m, h, q), transport # "rc"
  PROVE  /\ NodeOK(transport, [m EXCEPT !.udqp = q], h) /\ SameKeys(m, [m EXCEPT !.udqp = q])
         /\ NodeOK(transport, [m EXCEPT !.udqpMgmt = q], h) /\ SameKeys(m, [m EXCEPT !.udqpMgmt = q])
<1>1. q \in Nat /\ m \in Managers
  BY LenProperties DEF Alive, NodeOK
<1>2. ASSUME NEW m2 \in Managers, SameKeys(m, m2), m2.unready = m.unready,
             m2.udqp \in {m.udqp, q}, m2.udqpMgmt \in {m.udqpMgmt, q}
      PROVE  NodeOK(transport, m2, h)
  <2>1. TablesOK(m2, h) /\ SharedQPs(m2, h) /\ OwnQPs(transport, m2, h)
    BY <1>2 DEF SameKeys, NodeOK, TablesOK, SharedQPs, OwnQPs
  <2>2. UsableQPs(transport, m2, h)
    BY <1>2 DEF SameKeys, NodeOK, UsableQPs, Usable
  <2>. QED
    BY <2>1, <2>2 DEF NodeOK
<1>3. NodeOK(transport, [m EXCEPT !.udqp = q], h) /\ SameKeys(m, [m EXCEPT !.udqp = q])
  <2>. DEFINE m2 == [m EXCEPT !.udqp = q]
  <2>1. /\ m2 \in Managers /\ SameKeys(m, m2) /\ m2.udqp = q /\ m2.udqpMgmt = m.udqpMgmt
        /\ m2.unready = m.unready
    BY <1>1 DEF Managers, SameKeys
  <2>. HIDE DEF m2
  <2>2. NodeOK(transport, m2, h)
    BY <1>2, <2>1
  <2>. QED
    BY <2>1, <2>2 DEF m2
<1>4. NodeOK(transport, [m EXCEPT !.udqpMgmt = q], h) /\ SameKeys(m, [m EXCEPT !.udqpMgmt = q])
  <2>. DEFINE m2 == [m EXCEPT !.udqpMgmt = q]
  <2>1. /\ m2 \in Managers /\ SameKeys(m, m2) /\ m2.udqpMgmt = q /\ m2.udqp = m.udqp
        /\ m2.unready = m.unready
    BY <1>1 DEF Managers, SameKeys
  <2>. HIDE DEF m2
  <2>2. NodeOK(transport, m2, h)
    BY <1>2, <2>1
  <2>. QED
    BY <2>1, <2>2 DEF m2
<1>. QED
  BY <1>3, <1>4

\* setQP and setLocalConnData for a new key.
Entered(m, k, q, l) == [m EXCEPT !.qps = Put(@, k, q), !.lconns = Put(@, k, l)]

\* m2 is m with the key k for queue pair q, whose number is told as l.
WithKey(m, k, q, l, m2) ==
  /\ Grown(m, m2) /\ k \in DOMAIN m2.qps /\ m2.qps[k] = q /\ m2.lconns[k] = l
  /\ m2.rconns = m.rconns /\ m2.connected = m.connected

\* It leaves the node in order, if the key is the one just taken and, with RC, the queue
\* pair is nobody else's.
LEMMA EnteredOK ==
  ASSUME NEW m, NEW h, NEW k, NEW q, NEW l \in Nat,
         NodeOK(transport, m, h), k \in 0 .. m.lastConnKey - 1, k \notin DOMAIN m.qps, Alive(h, q),
         transport = "rc" => l = q /\ \A j \in DOMAIN m.qps : m.qps[j] # q,
         transport # "rc" => Usable(m, h, q)
  PROVE  NodeOK(transport, Entered(m, k, q, l), h) /\ WithKey(m, k, q, l, Entered(m, k, q, l))
<1>0. q \in Nat /\ k \in Nat /\ m \in Managers
  BY LenProperties, ManagerFacts DEF Alive, NodeOK
<1>. DEFINE a == Put(m.qps, k, q)
            b == Put(m.lconns, k, l)
            m1 == [m EXCEPT !.qps = a]
            m2 == [m1 EXCEPT !.lconns = b]
<1>a. a \in Tables(Nat, Nat) /\ b \in Tables(Nat, Nat)
  BY <1>0, ManagerFacts, PutType
<1>b. Entered(m, k, q, l) = m2
  BY DEF Entered
<1>2. DOMAIN m.lconns = DOMAIN m.qps
  BY DEF NodeOK, TablesOK
<1>c. /\ DOMAIN a = DOMAIN m.qps \cup {k} /\ a[k] = q
      /\ \A y \in DOMAIN m.qps : a[y] = m.qps[y]
  BY DEF Put
<1>d. /\ DOMAIN b = DOMAIN m.qps \cup {k} /\ b[k] = l
      /\ \A y \in DOMAIN m.qps : b[y] = m.lconns[y]
  BY <1>2 DEF Put
<1>. HIDE DEF a, b
<1>e. /\ m1 \in Managers /\ m1.qps = a /\ m1.lconns = m.lconns
      /\ m1.rconns = m.rconns /\ m1.connected = m.connected
      /\ m1.udqp = m.udqp /\ m1.udqpMgmt = m.udqpMgmt /\ m1.unready = m.unready /\ m1.lastConnKey = m.lastConnKey
  BY <1>0, <1>a DEF Managers
<1>. HIDE DEF m1
<1>1. /\ m2 \in Managers /\ m2.qps = a /\ m2.lconns = b
      /\ m2.rconns = m.rconns /\ m2.connected = m.connected
      /\ m2.udqp = m.udqp /\ m2.udqpMgmt = m.udqpMgmt /\ m2.unready = m.unready /\ m2.lastConnKey = m.lastConnKey
  BY <1>a, <1>e DEF Managers
<1>. HIDE DEF m2
<1>3. /\ DOMAIN m2.qps = DOMAIN m.qps \cup {k} /\ m2.qps[k] = q
      /\ \A y \in DOMAIN m.qps : m2.qps[y] = m.qps[y]
  BY <1>1, <1>c
<1>4. /\ DOMAIN m2.lconns = DOMAIN m.qps \cup {k} /\ m2.lconns[k] = l
      /\ \A y \in DOMAIN m.qps : m2.lconns[y] = m.lconns[y]
  BY <1>1, <1>d
<1>5. TablesOK(m2, h)
  BY <1>1, <1>3, <1>4 DEF NodeOK, TablesOK
<1>6. OwnQPs(transport, m2, h)
  <2>. SUFFICES ASSUME transport = "rc"
                PROVE  /\ m2.udqp = 0 /\ m2.udqpMgmt = 0
                       /\ \A i \in DOMAIN m2.qps : m2.lconns[i] = m2.qps[i]
                       /\ \A j, i \in DOMAIN m2.qps : m2.qps[j] = m2.qps[i] => j = i
                       /\ \A i \in m2.connected :
                            h[m2.qps[i]] = [state |-> "rts", to |-> m2.rconns[i]]
    BY DEF OwnQPs
  <2>1. \A i \in m.connected : i \in DOMAIN m.qps
    BY DEF NodeOK, TablesOK
  <2>2. /\ m.udqp = 0 /\ m.udqpMgmt = 0
        /\ \A i \in DOMAIN m.qps : m.lconns[i] = m.qps[i]
        /\ \A j, i \in DOMAIN m.qps : m.qps[j] = m.qps[i] => j = i
        /\ \A i \in m.connected : h[m.qps[i]] = [state |-> "rts", to |-> m.rconns[i]]
    BY DEF NodeOK, OwnQPs
  <2>. QED
    BY <1>1, <1>3, <1>4, <2>1, <2>2
<1>7. SharedQPs(m2, h)
  BY <1>1 DEF NodeOK, SharedQPs
<1>8. Grown(m, m2)
  BY <1>1, <1>3, <1>4 DEF Grown
<1>9. NodeOK(transport, m2, h)
  <2>1. UsableQPs(transport, m2, h)
    BY <1>1, <1>3 DEF NodeOK, UsableQPs, Usable
  <2>. QED
    BY <1>1, <1>5, <1>6, <1>7, <2>1 DEF NodeOK
<1>. QED
  BY <1>1, <1>3, <1>4, <1>8, <1>9, <1>b DEF WithKey

\* What a card with a queue pair more has kept.
LEMMA CardAppend ==
  ASSUME NEW h \in Seq(QueuePairs), NEW st \in States
  PROVE  /\ CardGrown(h, Append(h, Made(st))) /\ LeadsAsBefore(h, Append(h, Made(st)), 0, Nowhere)
         /\ Len(Append(h, Made(st))) = Len(h) + 1 /\ Len(h) \in Nat
         /\ st # "destroyed" => Alive(Append(h, Made(st)), Len(h) + 1)
<1>. DEFINE e == Made(st)
            h2 == Append(h, e)
<1>1. e \in QueuePairs /\ e.state = st /\ e.to.num = 0
  BY MadeFacts, NowhereFacts
<1>. HIDE DEF e
<1>2. /\ Len(h2) = Len(h) + 1 /\ Len(h) \in Nat /\ h2[Len(h) + 1] = e
      /\ \A q \in 1 .. Len(h) : h2[q] = h[q]
  BY <1>1, AppendFacts
<1>. HIDE DEF h2
<1>3. CardGrown(h, h2)
  BY <1>2 DEF CardGrown
<1>4. LeadsAsBefore(h, h2, 0, Nowhere)
  <2>. SUFFICES ASSUME NEW p \in 1 .. Len(h2)
                PROVE  (p \in 1 .. Len(h) /\ h2[p].to = h[p].to) \/ h2[p].to.num = 0
    BY DEF LeadsAsBefore
  <2>1. p \in 1 .. Len(h) \/ p = Len(h) + 1
    BY <1>2
  <2>. QED
    BY <1>1, <1>2, <2>1
<1>5. st # "destroyed" => Alive(h2, Len(h) + 1)
  BY <1>1, <1>2 DEF Alive
<1>. QED
  BY <1>2, <1>3, <1>4, <1>5 DEF h2, e

\* What a card that stays as it is has kept.
LEMMA CardSame ==
  ASSUME NEW h \in Seq(QueuePairs), NEW q, NEW conn
  PROVE  CardGrown(h, h) /\ LeadsAsBefore(h, h, q, conn) /\ Len(h) \in Nat
BY DEF CardGrown, LeadsAsBefore

\* RDMAManagerRC::initQP.
LEMMA InitRC ==
  ASSUME NEW m, NEW h, NEW mgmt, NodeOK(transport, m, h), transport = "rc", NEW r \in InitQPRC(m, h)
  PROVE  Initialised(transport, m, h, mgmt, r.st, r.key, r.mgr, r.card)
<1>. DEFINE k == m.lastConnKey
            q == Len(h) + 1
            keyed == [m EXCEPT !.lastConnKey = k + 1]
            reset == Append(h, Made("reset"))
            ready == Append(h, Made("init"))
            m2 == Entered(keyed, k, q, q)
<1>1. /\ NodeOK(transport, keyed, h) /\ keyed.qps = m.qps /\ keyed.lconns = m.lconns
      /\ keyed.rconns = m.rconns /\ keyed.connected = m.connected /\ keyed.lastConnKey = k + 1
  BY KeyedOK
<1>2. ModifyQPToInit(CreateQP(h), q) = ready
  <2>. DEFINE e == Made("reset")
  <2>1. e \in QueuePairs /\ h \in Seq(QueuePairs)
    BY MadeFacts DEF NodeOK, States
  <2>2. [e EXCEPT !.state = "init"] = Made("init")
    BY DEF Made
  <2>. HIDE DEF e
  <2>3. [Append(h, e) EXCEPT ![q].state = "init"] = Append(h, [e EXCEPT !.state = "init"])
    <3>. DEFINE x == [e EXCEPT !.state = "init"]
                a == Append(h, e)
                b == [a EXCEPT ![q] = x]
                c == Append(h, x)
    <3>1. x \in QueuePairs
      BY <2>1 DEF QueuePairs, States
    <3>2. /\ a \in Seq(QueuePairs) /\ Len(a) = q /\ a[q] = e /\ q \in 1 .. Len(a)
          /\ \A i \in 1 .. Len(h) : a[i] = h[i]
      BY <2>1
    <3>3. [Append(h, e) EXCEPT ![q].state = "init"] = b
      BY <3>2
    <3>. HIDE DEF x
    <3>4. /\ c \in Seq(QueuePairs) /\ Len(c) = q /\ c[q] = x
          /\ \A i \in 1 .. Len(h) : c[i] = h[i]
      BY <2>1, <3>1
    <3>. HIDE DEF a
    <3>5. /\ b \in Seq(QueuePairs) /\ Len(b) = q /\ b[q] = x
          /\ \A i \in 1 .. Len(a) : i # q => b[i] = a[i]
      BY <3>1, <3>2
    <3>. HIDE DEF b, c
    <3>6. \A i \in 1 .. Len(b) : b[i] = c[i]
      <4>. SUFFICES ASSUME NEW i \in 1 .. Len(b) PROVE b[i] = c[i]
        OBVIOUS
      <4>1. i = q \/ i \in 1 .. Len(h)
        BY <2>1, <3>5
      <4>. QED
        BY <3>2, <3>4, <3>5, <4>1
    <3>7. b = c
      BY <3>4, <3>5, <3>6, SeqEqual
    <3>. QED
      BY <3>3, <3>7 DEF b, c, a, x
  <2>. QED
    BY <2>2, <2>3 DEF ModifyQPToInit, CreateQP, e
<1>3. \/ r = [st |-> "ok", key |-> k, card |-> ready, mgr |-> m2]
      \/ r = [st |-> "fail", key |-> k, card |-> h, mgr |-> m]
      \/ r = [st |-> "fail", key |-> k, card |-> reset, mgr |-> keyed]
  BY <1>2 DEF InitQPRC, Entered, CreateQP
<1>4. k \in Nat /\ k \notin DOMAIN m.qps /\ h \in Seq(QueuePairs) /\ Len(h) \in Nat /\ q \in Nat
  BY ManagerFacts DEF NodeOK, TablesOK
<1>. HIDE DEF k, keyed
<1>5. /\ CardGrown(h, ready) /\ LeadsAsBefore(h, ready, 0, Nowhere)
      /\ Len(ready) = Len(h) + 1 /\ Alive(ready, q)
      /\ CardGrown(h, reset) /\ LeadsAsBefore(h, reset, 0, Nowhere)
  BY <1>4, CardAppend DEF States
<1>6. CardGrown(h, h) /\ LeadsAsBefore(h, h, 0, Nowhere)
  BY <1>4, CardSame
<1>7. NodeOK(transport, keyed, ready) /\ NodeOK(transport, keyed, reset)
  BY <1>1, MadeFacts, MoreQPs DEF States
<1>8. \A j \in DOMAIN keyed.qps : keyed.qps[j] # q
  BY <1>1, <1>4 DEF NodeOK, TablesOK, Alive
<1>. HIDE DEF ready, reset, q
<1>9. k \in 0 .. keyed.lastConnKey - 1 /\ k \notin DOMAIN keyed.qps
  BY <1>1, <1>4
<1>10. NodeOK(transport, m2, ready) /\ WithKey(keyed, k, q, q, m2)
  BY <1>4, <1>5, <1>7, <1>8, <1>9, EnteredOK
<1>. HIDE DEF m2
<1>11. Grown(m, m) /\ Grown(m, keyed) /\ Grown(m, m2)
  BY <1>1, <1>10 DEF Grown, WithKey
<1>12. Initialised(transport, m, h, mgmt, "ok", k, m2, ready)
  BY <1>1, <1>4, <1>5, <1>10, <1>11 DEF Initialised, WithKey, q
<1>13. Initialised(transport, m, h, mgmt, "fail", k, m, h)
  BY <1>4, <1>6, <1>11 DEF Initialised
<1>14. Initialised(transport, m, h, mgmt, "fail", k, keyed, reset)
  BY <1>1, <1>4, <1>5, <1>7, <1>11 DEF Initialised
<1>. QED
  BY <1>3, <1>12, <1>13, <1>14

\* RDMAManagerUD::initQP.
LEMMA InitUD ==
  ASSUME NEW m, NEW h, NEW mgmt \in BOOLEAN, NodeOK(transport, m, h), transport # "rc",
         NEW r \in InitQPUD(m, h, mgmt)
  PROVE  Initialised(transport, m, h, mgmt, r.st, r.key, r.mgr, r.card)
<1>. DEFINE k == m.lastConnKey
            q == Len(h) + 1
            own == IF mgmt THEN m.udqpMgmt ELSE m.udqp
            keyed == [m EXCEPT !.lastConnKey = k + 1]
            noted == [keyed EXCEPT !.unready = @ \cup {q}]
            made == IF mgmt THEN [keyed EXCEPT !.udqpMgmt = q] ELSE [keyed EXCEPT !.udqp = q]
            lame == IF mgmt THEN [noted EXCEPT !.udqpMgmt = q] ELSE [noted EXCEPT !.udqp = q]
            reset == Append(h, Made("reset"))
            ready == Append(h, Made("rts"))
            mo == Entered(keyed, k, own, keyed.udqp)
            mq == Entered(made, k, q, made.udqp)
<1>1. /\ NodeOK(transport, keyed, h) /\ keyed.qps = m.qps /\ keyed.lconns = m.lconns
      /\ keyed.rconns = m.rconns /\ keyed.connected = m.connected /\ keyed.lastConnKey = k + 1
      /\ keyed.udqp = m.udqp /\ keyed.udqpMgmt = m.udqpMgmt /\ keyed.unready = m.unready
  BY KeyedOK
<1>2. \/ own # 0 /\ r = [st |-> "ok", key |-> k, card |-> h, mgr |-> mo]
      \/ r = [st |-> "fail", key |-> k, card |-> h, mgr |-> keyed]
      \/ r = [st |-> "crash", key |-> k, card |-> h, mgr |-> keyed]
      \/ r = [st |-> "ok", key |-> k, card |-> ready, mgr |-> mq]
      \/ r = [st |-> "fail", key |-> k, card |-> reset, mgr |-> lame]
  BY DEF InitQPUD, Entered, ReadyQPUD, CreateQP
<1>3. k \in Nat /\ k \notin DOMAIN m.qps /\ h \in Seq(QueuePairs) /\ Len(h) \in Nat /\ q \in Nat
  BY ManagerFacts DEF NodeOK, TablesOK
<1>4. keyed.udqp \in Nat
  BY <1>1, ManagerFacts DEF NodeOK
<1>. HIDE DEF k, keyed
<1>5. /\ CardGrown(h, ready) /\ LeadsAsBefore(h, ready, 0, Nowhere) /\ Alive(ready, q)
      /\ CardGrown(h, reset) /\ LeadsAsBefore(h, reset, 0, Nowhere) /\ Alive(reset, q)
      /\ ready[q].state = "rts"
  BY <1>3, CardAppend, MadeFacts, AppendFacts DEF States
<1>6. CardGrown(h, h) /\ LeadsAsBefore(h, h, 0, Nowhere)
  BY <1>3, CardSame
<1>7. NodeOK(transport, keyed, ready) /\ NodeOK(transport, keyed, reset)
  BY <1>1, MadeFacts, MoreQPs DEF States
<1>. HIDE DEF ready, reset, q
<1>8. /\ NodeOK(transport, made, ready) /\ (~ mgmt => made.udqp = q)
      /\ made.qps = m.qps /\ made.lconns = m.lconns /\ made.rconns = m.rconns
      /\ made.connected = m.connected /\ made.lastConnKey = k + 1 /\ Usable(made, ready, q)
  <2>1. made = [keyed EXCEPT !.udqpMgmt = q] \/ made = [keyed EXCEPT !.udqp = q]
    OBVIOUS
  <2>2. NodeOK(transport, made, ready) /\ SameKeys(keyed, made)
    <3>. DEFINE a == [keyed EXCEPT !.udqpMgmt = q]
                b == [keyed EXCEPT !.udqp = q]
    <3>1. Usable(keyed, ready, q)
      BY <1>5 DEF Usable
    <3>2. NodeOK(transport, a, ready) /\ SameKeys(keyed, a) /\ NodeOK(transport, b, ready) /\ SameKeys(keyed, b)
      BY <1>5, <1>7, <3>1, KeptOK
    <3>3. made = a \/ made = b
      BY <2>1
    <3>. HIDE DEF a, b, made
    <3>. QED
      BY <3>2, <3>3
  <2>3. ~ mgmt => made.udqp = q
    BY <1>1 DEF NodeOK, Managers
  <2>. HIDE DEF made
  <2>. QED
    BY <1>1, <1>5, <2>2, <2>3 DEF SameKeys, Usable
<1>8a. /\ NodeOK(transport, lame, reset)
       /\ lame.qps = m.qps /\ lame.lconns = m.lconns /\ lame.rconns = m.rconns
       /\ lame.connected = m.connected
  <2>1. lame = [noted EXCEPT !.udqpMgmt = q] \/ lame = [noted EXCEPT !.udqp = q]
    OBVIOUS
  <2>2. /\ NodeOK(transport, noted, reset) /\ q \in noted.unready
        /\ noted.qps = m.qps /\ noted.lconns = m.lconns /\ noted.rconns = m.rconns
        /\ noted.connected = m.connected
    BY <1>1, <1>3, <1>7, UnreadyOK
  <2>. DEFINE a == [noted EXCEPT !.udqpMgmt = q]
              b == [noted EXCEPT !.udqp = q]
  <2>3. lame = a \/ lame = b
    BY <2>1
  <2>. HIDE DEF noted, lame
  <2>4. Usable(noted, reset, q)
    BY <2>2 DEF Usable
  <2>5. NodeOK(transport, a, reset) /\ SameKeys(noted, a) /\ NodeOK(transport, b, reset) /\ SameKeys(noted, b)
    BY <1>5, <2>2, <2>4, KeptOK
  <2>. HIDE DEF a, b
  <2>. QED
    BY <2>2, <2>3, <2>5 DEF SameKeys
<1>9. made.udqp \in Nat
  BY <1>8, ManagerFacts DEF NodeOK
<1>. HIDE DEF made, lame
<1>10. /\ k \in 0 .. keyed.lastConnKey - 1 /\ k \notin DOMAIN keyed.qps
       /\ k \in 0 .. made.lastConnKey - 1 /\ k \notin DOMAIN made.qps
  BY <1>1, <1>3, <1>8
<1>11. NodeOK(transport, mq, ready) /\ WithKey(made, k, q, made.udqp, mq)
  BY <1>5, <1>8, <1>9, <1>10, EnteredOK
<1>. HIDE DEF mq
<1>12. ASSUME own # 0
       PROVE  NodeOK(transport, mo, h) /\ WithKey(keyed, k, own, keyed.udqp, mo)
  <2>1. Alive(h, own) /\ Usable(m, h, own)
    BY <1>12 DEF NodeOK, SharedQPs, UsableQPs
  <2>2. Usable(keyed, h, own)
    BY <1>1, <2>1 DEF Usable
  <2>. HIDE DEF own
  <2>. QED
    BY <1>1, <1>4, <1>10, <2>1, <2>2, EnteredOK
<1>13. own # 0 => (~ mgmt => own = keyed.udqp)
  BY <1>1
<1>. HIDE DEF mo, own
<1>14. /\ Grown(m, keyed) /\ Grown(m, lame) /\ Grown(m, mq) /\ (own # 0 => Grown(m, mo))
  BY <1>1, <1>8, <1>8a, <1>11, <1>12 DEF Grown, WithKey
<1>15. own # 0 => Initialised(transport, m, h, mgmt, "ok", k, mo, h)
  BY <1>1, <1>3, <1>6, <1>12, <1>13, <1>14 DEF Initialised, WithKey
<1>16. Initialised(transport, m, h, mgmt, "fail", k, keyed, h) /\ Initialised(transport, m, h, mgmt, "crash", k, keyed, h)
  BY <1>1, <1>3, <1>6, <1>14 DEF Initialised
<1>17. Initialised(transport, m, h, mgmt, "ok", k, mq, ready)
  BY <1>3, <1>5, <1>8, <1>11, <1>14 DEF Initialised, WithKey
<1>18. Initialised(transport, m, h, mgmt, "fail", k, lame, reset)
  BY <1>3, <1>5, <1>8a, <1>14 DEF Initialised
<1>. QED
  BY <1>2, <1>15, <1>16, <1>17, <1>18

\* initQP of either manager.
LEMMA InitQPOK ==
  ASSUME NEW n, NEW mgmt \in BOOLEAN, NodeOK(transport, mgr[n], card[n]), NEW r \in InitQP(n, mgmt)
  PROVE  Initialised(transport, mgr[n], card[n], mgmt, r.st, r.key, r.mgr, r.card)
BY InitRC, InitUD DEF InitQP

\* h2 is the card h with q changed to e.
Changed(h, q, e, h2) ==
  /\ h2 \in Seq(QueuePairs) /\ Len(h2) = Len(h) /\ h2[q] = e
  /\ \A p \in 1 .. Len(h) : p # q => h2[p] = h[p]
  /\ CardGrown(h, h2) /\ LeadsAsBefore(h, h2, q, e.to)
  /\ \A p : Alive(h, p) => Alive(h2, p)

\* A queue pair of the card is changed to e.
LEMMA CardChanged ==
  ASSUME NEW h \in Seq(QueuePairs), NEW q, Alive(h, q), NEW e \in QueuePairs, e.state # "destroyed"
  PROVE  Changed(h, q, e, [h EXCEPT ![q] = e])
<1>. DEFINE h2 == [h EXCEPT ![q] = e]
<1>1. /\ h2 \in Seq(QueuePairs) /\ Len(h2) = Len(h) /\ h2[q] = e /\ Len(h) \in Nat
      /\ \A p \in 1 .. Len(h) : p # q => h2[p] = h[p]
  BY DEF Alive
<1>. HIDE DEF h2
<1>2. CardGrown(h, h2)
  BY <1>1 DEF CardGrown, Alive
<1>3. LeadsAsBefore(h, h2, q, e.to)
  BY <1>1 DEF LeadsAsBefore
<1>4. \A p : Alive(h, p) => Alive(h2, p)
  BY <1>1 DEF Alive
<1>. QED
  BY <1>1, <1>2, <1>3, <1>4 DEF h2, Changed

\* setRemoteConnData and the mark that a key is connected: only those two tables change.
LEMMA RemoteFacts ==
  ASSUME NEW m, NEW h, NodeOK(transport, m, h), NEW k \in DOMAIN m.qps, k \notin DOMAIN m.rconns,
         NEW conn \in Conns
  PROVE  \E m1 \in Managers :
           /\ SetRemoteConnData(m, k, conn) = m1
           /\ m1.lastConnKey = m.lastConnKey /\ m1.qps = m.qps /\ m1.lconns = m.lconns
           /\ m1.connected = m.connected /\ m1.udqp = m.udqp /\ m1.udqpMgmt = m.udqpMgmt /\ m1.unready = m.unready
           /\ DOMAIN m1.rconns = DOMAIN m.rconns \cup {k} /\ m1.rconns[k] = conn
           /\ \A j \in DOMAIN m.rconns : m1.rconns[j] = m.rconns[j]
<1>. DEFINE a == Put(m.rconns, k, conn)
            m1 == [m EXCEPT !.rconns = a]
<1>1. m \in Managers /\ m.rconns \in Tables(Nat, Conns) /\ k \in Nat
  BY ManagerFacts, TableFacts DEF NodeOK, TablesOK
<1>2. a \in Tables(Nat, Conns)
  BY <1>1, PutType
<1>3. /\ DOMAIN a = DOMAIN m.rconns \cup {k} /\ a[k] = conn
      /\ \A j \in DOMAIN m.rconns : a[j] = m.rconns[j]
  BY DEF Put
<1>4. SetRemoteConnData(m, k, conn) = m1
  BY DEF SetRemoteConnData
<1>. HIDE DEF a
<1>5. /\ m1 \in Managers /\ m1.rconns = a
      /\ m1.lastConnKey = m.lastConnKey /\ m1.qps = m.qps /\ m1.lconns = m.lconns
      /\ m1.connected = m.connected /\ m1.udqp = m.udqp /\ m1.udqpMgmt = m.udqpMgmt /\ m1.unready = m.unready
  BY <1>1, <1>2 DEF Managers
<1>. HIDE DEF m1
<1>. QED
  BY <1>3, <1>4, <1>5

\* connectQP, after setRemoteConnData, of a key that has no remote data yet.
LEMMA ConnectOK ==
  ASSUME NEW m, NEW h, NodeOK(transport, m, h), NEW k \in DOMAIN m.qps, k \notin DOMAIN m.rconns,
         NEW conn \in Conns, NEW r \in ConnectQP(SetRemoteConnData(m, k, conn), h, k)
  PROVE  Connected(transport, m, h, k, conn, r.st, r.mgr, r.card)
<1>1. PICK m1 \in Managers :
        /\ SetRemoteConnData(m, k, conn) = m1
        /\ m1.lastConnKey = m.lastConnKey /\ m1.qps = m.qps /\ m1.lconns = m.lconns
        /\ m1.connected = m.connected /\ m1.udqp = m.udqp /\ m1.udqpMgmt = m.udqpMgmt /\ m1.unready = m.unready
        /\ DOMAIN m1.rconns = DOMAIN m.rconns \cup {k} /\ m1.rconns[k] = conn
        /\ \A j \in DOMAIN m.rconns : m1.rconns[j] = m.rconns[j]
  BY RemoteFacts
<1>. DEFINE q == m.qps[k]
            m2 == [m1 EXCEPT !.connected = @ \cup {k}]
            rtr == [h EXCEPT ![q] = [state |-> "rtr", to |-> conn]]
            rts == [h EXCEPT ![q] = [state |-> "rts", to |-> conn]]
<1>2. /\ m \in Managers /\ h \in Seq(QueuePairs) /\ Alive(h, q) /\ k \in Nat /\ k \notin m.connected
      /\ \A j \in m.connected : j \in DOMAIN m.rconns /\ j \in DOMAIN m.qps
  BY ManagerFacts, TableFacts DEF NodeOK, TablesOK
<1>3. /\ m2 \in Managers /\ m2.connected = m.connected \cup {k}
      /\ m2.lastConnKey = m1.lastConnKey /\ m2.qps = m1.qps /\ m2.lconns = m1.lconns
      /\ m2.rconns = m1.rconns /\ m2.udqp = m1.udqp /\ m2.udqpMgmt = m1.udqpMgmt /\ m2.unready = m1.unready
  BY <1>1, <1>2 DEF Managers
<1>4. /\ rtr \in Seq(QueuePairs) /\ Len(rtr) = Len(h)
      /\ \A p \in 1 .. Len(h) : p # q => rtr[p] = h[p]
      /\ CardGrown(h, rtr) /\ LeadsAsBefore(h, rtr, q, conn)
      /\ \A p : Alive(h, p) => Alive(rtr, p)
  <2>. DEFINE e == [state |-> "rtr", to |-> conn]
  <2>1. e \in QueuePairs /\ e.state # "destroyed" /\ e.to = conn
    BY DEF QueuePairs, States
  <2>. HIDE DEF e, q
  <2>2. Changed(h, q, e, [h EXCEPT ![q] = e])
    BY <1>2, <2>1, CardChanged
  <2>. QED
    BY <2>1, <2>2 DEF Changed, e
<1>5. /\ rts \in Seq(QueuePairs) /\ Len(rts) = Len(h) /\ rts[q] = [state |-> "rts", to |-> conn]
      /\ \A p \in 1 .. Len(h) : p # q => rts[p] = h[p]
      /\ CardGrown(h, rts) /\ LeadsAsBefore(h, rts, q, conn)
      /\ \A p : Alive(h, p) => Alive(rts, p)
  <2>. DEFINE e == [state |-> "rts", to |-> conn]
  <2>1. e \in QueuePairs /\ e.state # "destroyed" /\ e.to = conn
    BY DEF QueuePairs, States
  <2>. HIDE DEF e, q
  <2>2. Changed(h, q, e, [h EXCEPT ![q] = e])
    BY <1>2, <2>1, CardChanged
  <2>. QED
    BY <2>1, <2>2 DEF Changed, e
<1>6. ModifyQPToRTR(h, q, m1.rconns[k]) = rtr /\ ModifyQPToRTS(rtr, q) = rts
  BY <1>1, <1>2 DEF ModifyQPToRTR, ModifyQPToRTS, Alive
<1>7. \/ transport = "rc" /\ r = [st |-> "ok", card |-> rts, mgr |-> m2]
      \/ transport = "rc" /\ r = [st |-> "fail", card |-> h, mgr |-> m1]
      \/ transport = "rc" /\ r = [st |-> "fail", card |-> rtr, mgr |-> m1]
      \/ transport # "rc" /\ r = [st |-> "ok", card |-> h, mgr |-> m2]
  <2>1. r \in ConnectQP(m1, h, k) /\ k \notin m1.connected
    BY <1>1, <1>2
  <2>2. CASE transport = "rc"
    <3>1. r \in ConnectQPRC(m1, h, k)
      BY <2>1, <2>2 DEF ConnectQP
    <3>. HIDE DEF rtr, rts, m2
    <3>. QED
      BY <1>1, <1>6, <2>2, <3>1 DEF ConnectQPRC, m2
  <2>3. CASE transport # "rc"
    BY <2>1, <2>3 DEF ConnectQP, ConnectQPUD
  <2>. QED
    BY <2>2, <2>3
<1>8. CardGrown(h, h) /\ LeadsAsBefore(h, h, q, conn)
  BY <1>2, CardSame
<1>. HIDE DEF m2, rtr, rts, q
<1>9. TablesOK(m1, h) /\ TablesOK(m1, rtr) /\ TablesOK(m2, h) /\ TablesOK(m2, rts)
  BY <1>1, <1>3, <1>4, <1>5 DEF NodeOK, TablesOK
<1>10. SharedQPs(m1, h) /\ SharedQPs(m1, rtr) /\ SharedQPs(m2, h) /\ SharedQPs(m2, rts)
  BY <1>1, <1>3, <1>4, <1>5 DEF NodeOK, SharedQPs
<1>11. OwnQPs(transport, m1, h) /\ OwnQPs(transport, m1, rtr) /\ OwnQPs(transport, m2, rts)
  <2>. SUFFICES ASSUME transport = "rc"
                PROVE  OwnQPs(transport, m1, h) /\ OwnQPs(transport, m1, rtr) /\ OwnQPs(transport, m2, rts)
    BY DEF OwnQPs
  <2>1. /\ m.udqp = 0 /\ m.udqpMgmt = 0
        /\ \A i \in DOMAIN m.qps : m.lconns[i] = m.qps[i]
        /\ \A j, i \in DOMAIN m.qps : m.qps[j] = m.qps[i] => j = i
        /\ \A i \in m.connected : h[m.qps[i]] = [state |-> "rts", to |-> m.rconns[i]]
    BY DEF NodeOK, OwnQPs
  <2>2. \A i \in m.connected : i # k /\ m.qps[i] \in 1 .. Len(h) /\ m.qps[i] # q
    BY <1>2, <2>1 DEF NodeOK, TablesOK, Alive, q
  <2>3. \A i \in m.connected :
          /\ h[m1.qps[i]] = [state |-> "rts", to |-> m1.rconns[i]]
          /\ rtr[m1.qps[i]] = [state |-> "rts", to |-> m1.rconns[i]]
          /\ rts[m2.qps[i]] = [state |-> "rts", to |-> m2.rconns[i]]
    BY <1>1, <1>2, <1>3, <1>4, <1>5, <2>1, <2>2
  <2>4. rts[m2.qps[k]] = [state |-> "rts", to |-> m2.rconns[k]]
    BY <1>1, <1>3, <1>5 DEF q
  <2>. QED
    BY <1>1, <1>3, <2>1, <2>3, <2>4 DEF OwnQPs
<1>12. transport = "rc" => NodeOK(transport, m1, h) /\ NodeOK(transport, m1, rtr) /\ NodeOK(transport, m2, rts)
  BY <1>2, <1>3, <1>4, <1>5, <1>9, <1>10, <1>11 DEF NodeOK, UsableQPs
<1>13. transport # "rc" => NodeOK(transport, m2, h)
  <2>1. UsableQPs(transport, m2, h)
    BY <1>1, <1>3 DEF NodeOK, UsableQPs, Usable
  <2>. QED
    BY <1>2, <1>3, <1>9, <1>10, <2>1 DEF NodeOK, OwnQPs
<1>14. Grown(m, m1) /\ Grown(m, m2)
  BY <1>1, <1>3 DEF Grown
<1>15. transport = "rc" => Connected(transport, m, h, k, conn, "ok", m2, rts)
  BY <1>1, <1>3, <1>5, <1>12, <1>14 DEF Connected, q
<1>16. transport = "rc" =>
         /\ Connected(transport, m, h, k, conn, "fail", m1, h)
         /\ Connected(transport, m, h, k, conn, "fail", m1, rtr)
  BY <1>1, <1>4, <1>8, <1>12, <1>14 DEF Connected, q
<1>17. transport # "rc" => Connected(transport, m, h, k, conn, "ok", m2, h)
  BY <1>1, <1>3, <1>8, <1>13, <1>14 DEF Connected, q
<1>. QED
  BY <1>7, <1>15, <1>16, <1>17

\* destroyManager: the tables are empty, the queue pairs they named destroyed.
LEMMA DestroyOK ==
  ASSUME NEW m, NEW h, NodeOK(transport, m, h)
  PROVE  /\ NodeOK(transport, NewManager, DestroyQPs(m, h)) /\ CardGrown(h, DestroyQPs(m, h))
         /\ LeadsAsBefore(h, DestroyQPs(m, h), 0, Nowhere)
         /\ Len(DestroyQPs(m, h)) = Len(h)
         /\ \A k \in DOMAIN m.qps : DestroyQPs(m, h)[m.qps[k]].state = "destroyed"
<1>. DEFINE d == Made("destroyed")
            h2 == DestroyQPs(m, h)
<1>1. d \in QueuePairs /\ d.state = "destroyed" /\ d.to.num = 0
  BY MadeFacts, NowhereFacts DEF States
<1>2. h \in Seq(QueuePairs) /\ Len(h) \in Nat /\ DOMAIN h = 1 .. Len(h)
  BY LenProperties DEF NodeOK
<1>3. /\ h2 \in [1 .. Len(h) -> QueuePairs]
      /\ \A q \in 1 .. Len(h) : h2[q] = d \/ h2[q] = h[q]
      /\ \A q \in 1 .. Len(h) : (\E k \in DOMAIN m.qps : m.qps[k] = q) => h2[q] = d
  <2>. HIDE DEF d
  <2>1. h2 = [q \in 1 .. Len(h) |->
                IF q \in {m.udqp, m.udqpMgmt} \/ \E k \in DOMAIN m.qps : m.qps[k] = q
                THEN d ELSE h[q]]
    BY <1>2 DEF DestroyQPs, d
  <2>2. \A q \in 1 .. Len(h) : h[q] \in QueuePairs
    BY <1>2
  <2>. QED
    BY <1>1, <2>1, <2>2
<1>. HIDE DEF d, h2
<1>4. h2 \in Seq(QueuePairs) /\ Len(h2) = Len(h)
  BY <1>2, <1>3
<1>5. CardGrown(h, h2)
  BY <1>1, <1>2, <1>3, <1>4 DEF CardGrown
<1>6. LeadsAsBefore(h, h2, 0, Nowhere)
  BY <1>1, <1>2, <1>3, <1>4 DEF LeadsAsBefore
<1>7. \A k \in DOMAIN m.qps : h2[m.qps[k]].state = "destroyed"
  BY <1>1, <1>3 DEF NodeOK, TablesOK, Alive
<1>8. NodeOK(transport, NewManager, h2)
  <2>1. NewManager \in Managers
    <3>1. << >> \in Tables(Nat, Nat) /\ << >> \in Tables(Nat, Conns)
      BY NoTable
    <3>. QED
      BY <3>1 DEF NewManager, Managers
  <2>2. /\ DOMAIN NewManager.qps = {} /\ DOMAIN NewManager.lconns = {}
        /\ DOMAIN NewManager.rconns = {} /\ NewManager.connected = {}
        /\ NewManager.udqp = 0 /\ NewManager.udqpMgmt = 0
    BY DEF NewManager
  <2>. QED
    BY <1>4, <2>1, <2>2 DEF NodeOK, TablesOK, OwnQPs, SharedQPs, UsableQPs
<1>. QED
  BY <1>4, <1>5, <1>6, <1>7, <1>8 DEF h2

-----------------------------------------------------------------------------
(***************************************************************************)
(* The initial states.                                                     *)
(***************************************************************************)
LEMMA InitInv == Init => IInv
<1>. SUFFICES ASSUME Init PROVE IInv
  OBVIOUS
<1>1. NewManager \in Managers /\ NodeOK(transport, NewManager, << >>)
  <2>1. << >> \in Tables(Nat, Nat) /\ << >> \in Tables(Nat, Conns)
    BY NoTable
  <2>2. NewManager \in Managers
    BY <2>1 DEF NewManager, Managers
  <2>3. /\ DOMAIN NewManager.qps = {} /\ DOMAIN NewManager.lconns = {}
        /\ DOMAIN NewManager.rconns = {} /\ NewManager.connected = {}
        /\ NewManager.udqp = 0 /\ NewManager.udqpMgmt = 0
    BY DEF NewManager
  <2>4. << >> \in Seq(QueuePairs)
    OBVIOUS
  <2>. QED
    BY <2>2, <2>3, <2>4 DEF NodeOK, TablesOK, OwnQPs, SharedQPs, UsableQPs
<1>2. TypeInv
  <2>1. NoCall \in CallRecords
    BY DEF NoCall, CallOf, CallRecords
  <2>2. NoAddr \in Addresses
    <3>1. << >> \in Tables(Servers, Nat)
      BY NoTable
    <3>. QED
      BY <3>1 DEF NoAddr, Addresses
  <2>3. << >> \in Tables(Nat, Nat)
    BY NoTable
  <2>4. 0 \in 0 .. MaxFaults
    BY SetsAssumption
  <2>5. /\ transport \in {"rc", "ud"} /\ faults \in 0 .. MaxFaults
        /\ DOMAIN mgr = Nodes /\ DOMAIN card = Nodes
    BY <2>4 DEF Init, Nodes
  <2>6. /\ pc \in [Clients -> Places]
        /\ call \in [Clients -> CallRecords] /\ clients \in [Clients -> SUBSET Servers]
        /\ addr \in [Clients -> Addresses] /\ nodeAddr \in [Clients -> Seq(Nat)]
        /\ joined \in [Clients -> SUBSET Servers] /\ spoiled \in [Clients -> SUBSET Servers]
    BY <2>1, <2>2 DEF Init, Places
  <2>7. /\ inbox \in [Servers -> Seq(Requests)] /\ answer \in [Clients -> Answers \cup {None}]
        /\ queues \in [Servers -> Seq(Nat)] /\ mgmtOf \in [Servers -> Tables(Nat, Nat)]
        /\ down \subseteq Servers /\ blanked \subseteq Servers
    BY <2>3 DEF Init
  <2>. QED
    BY <2>5, <2>6, <2>7 DEF TypeInv
<1>3. NodesInv
  BY <1>1 DEF NodesInv, Init, Nodes
<1>4. ClientsInv
  <2>. SUFFICES ASSUME NEW c \in Clients
                PROVE  ClientOK("idle", NoCall, {}, NoAddr, {}, NewManager, << >>)
    BY DEF ClientsInv, Init
  <2>1. DOMAIN NoAddr.data = {} /\ DOMAIN NoAddr.mgmt = {}
    BY DEF NoAddr
  <2>. QED
    BY <2>1 DEF ClientOK, StoredOK, KeysOK, CallOK, IdsOK
<1>5. RequestsInv /\ AnswersInv /\ LinksInv
  BY DEF RequestsInv, AnswersInv, LinksInv, Init
<1>6. MgmtInv
  BY DEF MgmtInv, MgmtCallOK, Init
<1>7. PeersInv
  BY DEF PeersInv, LeadAcross, LeadOver, LeadApart, RequestsNew, AnswersNew, Init, Nodes
<1>. QED
  BY <1>2, <1>3, <1>4, <1>5, <1>6, <1>7 DEF IInv

-----------------------------------------------------------------------------
(***************************************************************************)
(* What stays true while tables and queues grow.                           *)
(***************************************************************************)
\* m_addr of a server is only added to.
QueuesGrown(qs, qs2) ==
  /\ qs \in Seq(Nat) /\ qs2 \in Seq(Nat) /\ Len(qs) <= Len(qs2)
  /\ \A i \in 1 .. Len(qs) : qs2[i] = qs[i]

\* The keys of a client stay in order while its tables grow.
LEMMA KeysGrow ==
  ASSUME NEW ad, NEW m, NEW m2, KeysOK(ad, m), Grown(m, m2)
  PROVE  KeysOK(ad, m2)
BY DEF KeysOK, Grown

\* The server's end of a connection stays while its tables and queues grow.
LEMMA ServerEndGrow ==
  ASSUME NEW t, NEW qs, NEW qs2, NEW ms, NEW h, NEW ms2, NEW k, NEW c, NEW num,
         ServerEnd(qs, ms, k, c, num), NodeOK(t, ms, h), Grown(ms, ms2), QueuesGrown(qs, qs2)
  PROVE  ServerEnd(qs2, ms2, k, c, num) /\ ms2.qps[k] = ms.qps[k]
<1>1. k \in ms.connected /\ k \in DOMAIN ms.rconns /\ k \in DOMAIN ms.qps
  BY DEF ServerEnd, NodeOK, TablesOK
<1>2. \E i \in 1 .. Len(qs2) : qs2[i] = k
  BY DEF ServerEnd, QueuesGrown
<1>. QED
  BY <1>1, <1>2 DEF ServerEnd, Grown

\* A client and a server that are linked stay so.
LEMMA LinkGrow ==
  ASSUME NEW t, NEW c, NEW s, NEW ad, NEW ad2, NEW m, NEW h, NEW m2,
         NEW qs, NEW qs2, NEW ms, NEW hs, NEW ms2,
         Linked(c, s, ad, m, qs, ms), ad2.data[s] = ad.data[s],
         NodeOK(t, m, h), Grown(m, m2), NodeOK(t, ms, hs), Grown(ms, ms2), QueuesGrown(qs, qs2)
  PROVE  Linked(c, s, ad2, m2, qs2, ms2)
<1>1. PICK j \in ms.connected : /\ ServerEnd(qs, ms, j, c, DataQP(ad, m, s))
                                /\ ms.qps[j] = m.rconns[ad.data[s]].num
  BY DEF Linked
<1>2. ServerEnd(qs2, ms2, j, c, DataQP(ad, m, s)) /\ ms2.qps[j] = ms.qps[j]
  BY <1>1, ServerEndGrow
<1>3. ad.data[s] \in m.connected /\ ad.data[s] \in DOMAIN m.rconns /\ ad.data[s] \in DOMAIN m.qps
  BY DEF Linked, NodeOK, TablesOK
<1>4. /\ ad.data[s] \in m2.connected /\ m2.rconns[ad.data[s]] = m.rconns[ad.data[s]]
      /\ m2.qps[ad.data[s]] = m.qps[ad.data[s]]
  BY <1>3 DEF Grown
<1>5. j \in ms2.connected
  BY <1>1 DEF Grown
<1>6. DataQP(ad2, m2, s) = DataQP(ad, m, s)
  BY <1>4 DEF DataQP
<1>. QED
  BY <1>1, <1>2, <1>4, <1>5, <1>6 DEF Linked

-----------------------------------------------------------------------------
(***************************************************************************)
(* Where queue pairs lead.                                                 *)
(***************************************************************************)
\* A step after which no queue pair leads where it did not, but for q of node x, which
\* may lead to conn.
Leads(x, q, conn) ==
  /\ \A n \in Nodes : Len(card[n]) \in Nat /\ Len(card'[n]) \in Nat /\ Len(card[n]) <= Len(card'[n])
  /\ \A n \in Nodes : \A p \in 1 .. Len(card'[n]) :
       card'[n][p].to.num # 0 =>
         \/ p \in 1 .. Len(card[n]) /\ card'[n][p].to = card[n][p].to
         \/ n = x /\ p = q /\ card'[n][p].to = conn

\* A step that changes only the card of x.
LEMMA LeadsFrom ==
  ASSUME NodesInv, NEW x \in Nodes, NEW q, NEW conn, NodeOK(transport, mgr'[x], card'[x]),
         \A n \in Nodes : n # x => card'[n] = card[n],
         CardGrown(card[x], card'[x]), LeadsAsBefore(card[x], card'[x], q, conn)
  PROVE  Leads(x, q, conn)
<1>1. \A n \in Nodes : Len(card[n]) \in Nat
  BY LenProperties DEF NodesInv, NodeOK
<1>2. Len(card'[x]) \in Nat
  BY LenProperties DEF NodeOK
<1>3. Len(card[x]) <= Len(card'[x])
  BY DEF CardGrown
<1>. QED
  BY <1>1, <1>2, <1>3 DEF Leads, LeadsAsBefore

\* Queue pairs lead to the other side, no two to the same one, if that goes for the new one.
LEMMA AcrossStep ==
  ASSUME LeadAcross, NEW x \in Nodes, NEW q, NEW conn, Leads(x, q, conn),
         conn.num # 0 => /\ conn.lid \in Nodes /\ (x \in Clients <=> conn.lid \in Servers)
                         /\ conn.num \in Nat /\ conn.num <= Len(card[conn.lid])
                         /\ \A n \in Nodes : \A p \in 1 .. Len(card[n]) : card[n][p].to # conn,
         \A n \in Nodes : \A p \in 1 .. Len(card[n]) : card[n][p].to.num \in Nat
  PROVE  LeadAcross'
<1>1. ASSUME NEW n \in Nodes, NEW p \in 1 .. Len(card'[n]), card'[n][p].to.num # 0
      PROVE  /\ card'[n][p].to.lid \in Nodes /\ (n \in Clients <=> card'[n][p].to.lid \in Servers)
             /\ card'[n][p].to.num <= Len(card'[card'[n][p].to.lid])
  <2>1. CASE p \in 1 .. Len(card[n]) /\ card'[n][p].to = card[n][p].to
    <3>1. /\ card[n][p].to.lid \in Nodes /\ (n \in Clients <=> card[n][p].to.lid \in Servers)
          /\ card[n][p].to.num <= Len(card[card[n][p].to.lid]) /\ card[n][p].to.num \in Nat
      BY <1>1, <2>1 DEF LeadAcross, LeadOver
    <3>. QED
      BY <2>1, <3>1 DEF Leads
  <2>2. CASE n = x /\ card'[n][p].to = conn
    BY <1>1, <2>2 DEF Leads
  <2>. QED
    BY <1>1, <2>1, <2>2 DEF Leads
<1>2. ASSUME NEW n1 \in Nodes, NEW n2 \in Nodes,
             NEW q1 \in 1 .. Len(card'[n1]), NEW q2 \in 1 .. Len(card'[n2]),
             card'[n1][q1].to = card'[n2][q2].to, card'[n1][q1].to.num # 0
      PROVE  n1 = n2 /\ q1 = q2
  <2>1. \/ q1 \in 1 .. Len(card[n1]) /\ card'[n1][q1].to = card[n1][q1].to
        \/ n1 = x /\ q1 = q /\ card'[n1][q1].to = conn
    BY <1>2 DEF Leads
  <2>2. \/ q2 \in 1 .. Len(card[n2]) /\ card'[n2][q2].to = card[n2][q2].to
        \/ n2 = x /\ q2 = q /\ card'[n2][q2].to = conn
    BY <1>2 DEF Leads
  <2>3. CASE q1 \in 1 .. Len(card[n1]) /\ card'[n1][q1].to = card[n1][q1].to
             /\ q2 \in 1 .. Len(card[n2]) /\ card'[n2][q2].to = card[n2][q2].to
    <3>1. card[n1][q1].to = card[n2][q2].to /\ card[n1][q1].to.num # 0
      BY <1>2, <2>3
    <3>. QED
      BY <2>3, <3>1 DEF LeadAcross, LeadApart
  <2>. QED
    BY <1>2, <2>1, <2>2, <2>3
<1>3. LeadOver'
  BY <1>1 DEF LeadOver
<1>4. LeadApart'
  BY <1>2 DEF LeadApart
<1>. QED
  BY <1>3, <1>4 DEF LeadAcross

\* A number nobody leads to stays so, unless it is the new one's.
LEMMA NotTakenStep ==
  ASSUME NEW N \in SUBSET Nodes, NEW n, NEW num, num # 0, ~ Taken(card, N, n, num),
         NEW x, NEW q, NEW conn, Leads(x, q, conn),
         x \in N => conn # [lid |-> n, num |-> num]
  PROVE  ~ Taken(card', N, n, num)
<1>. SUFFICES ASSUME NEW y \in N, NEW p \in 1 .. Len(card'[y]),
                     card'[y][p].to = [lid |-> n, num |-> num]
              PROVE  FALSE
  BY DEF Taken
<1>1. card'[y][p].to.num # 0 /\ y \in Nodes
  OBVIOUS
<1>2. \/ p \in 1 .. Len(card[y]) /\ card'[y][p].to = card[y][p].to
      \/ y = x /\ p = q /\ card'[y][p].to = conn
  BY <1>1 DEF Leads
<1>. QED
  BY <1>2 DEF Taken

\* A number beyond those of node n is nobody's.
LEMMA NewNotTaken ==
  ASSUME LeadAcross, NEW N \in SUBSET Nodes, NEW n \in Nodes, NEW num \in Nat,
         Len(card[n]) \in Nat, num > Len(card[n])
  PROVE  ~ Taken(card, N, n, num)
<1>. SUFFICES ASSUME NEW y \in N, NEW p \in 1 .. Len(card[y]),
                     card[y][p].to = [lid |-> n, num |-> num]
              PROVE  FALSE
  BY DEF Taken
<1>1. y \in Nodes /\ card[y][p].to.num = num /\ card[y][p].to.lid = n /\ num # 0
  OBVIOUS
<1>2. num <= Len(card[n])
  BY <1>1 DEF LeadAcross, LeadOver
<1>. QED
  BY <1>2

-----------------------------------------------------------------------------
(***************************************************************************)
(* Steps of a client.                                                      *)
(***************************************************************************)
\* What a step of c leaves alone.
OnlyClient(c) ==
  /\ transport' = transport /\ queues' = queues /\ mgmtOf' = mgmtOf
  /\ blanked' = blanked /\ down' = down
  /\ \A n \in Nodes : n # c => mgr'[n] = mgr[n] /\ card'[n] = card[n]
  /\ \A d \in Clients : d # c =>
       /\ pc'[d] = pc[d] /\ call'[d] = call[d] /\ clients'[d] = clients[d] /\ addr'[d] = addr[d]
       /\ nodeAddr'[d] = nodeAddr[d] /\ joined'[d] = joined[d] /\ spoiled'[d] = spoiled[d]
       /\ answer'[d] = answer[d]

\* What it adds to the inboxes: the request c then waits for, with a number just created.
SentOK(c) ==
  \A s \in Servers : \A i \in 1 .. Len(inbox'[s]) :
    \/ i \in 1 .. Len(inbox[s]) /\ inbox'[s][i] = inbox[s][i]
    \/ /\ s = call[c].srv /\ i = Len(inbox[s]) + 1 /\ inbox'[s][i].from = c
       /\ RequestOK(inbox'[s][i], s, pc'[c], call'[c], answer'[c], addr'[c], mgr'[c])
       /\ transport = "rc" /\ inbox'[s][i].num # 0 =>
            inbox'[s][i].num = Len(card[c]) + 1 /\ Len(card[c]) + 1 <= Len(card'[c])

\* The two sides are different nodes.
LEMMA Sides ==
  /\ \A c \in Clients : c \in Nodes /\ c \notin Servers /\ c # None
  /\ \A s \in Servers : s \in Nodes /\ s \notin Clients /\ s # None
BY SetsAssumption DEF Nodes

\* A client that does not wait, or has its answer, has no request on its way.
LEMMA NoRequest ==
  ASSUME RequestsInv, NEW c, pc[c] # "wait" \/ answer[c] # None
  PROVE  \A s \in Servers : \A i \in 1 .. Len(inbox[s]) : inbox[s][i].from # c
BY DEF RequestsInv, RequestOK

\* A request in an inbox.
LEMMA RequestType ==
  ASSUME TypeInv, NEW s \in Servers, NEW i \in 1 .. Len(inbox[s])
  PROVE  /\ inbox[s][i] \in Requests /\ inbox[s][i].from \in Clients /\ inbox[s][i].num \in Nat
         /\ inbox[s][i].server_connkey \in Nat /\ inbox[s][i].queue \in {"data", "mgmt", "mem"}
<1>1. inbox[s] \in Seq(Requests)
  BY DEF TypeInv
<1>2. inbox[s][i] \in Requests
  BY <1>1
<1>. QED
  BY <1>2 DEF Requests

\* The requests on their way, after a step of client c.
LEMMA ClientRequests ==
  ASSUME TypeInv, RequestsInv, NEW c \in Clients, OnlyClient(c), SentOK(c),
         \A s \in Servers : \A i \in 1 .. Len(inbox[s]) : inbox[s][i].from # c
  PROVE  RequestsInv'
<1>1. ASSUME NEW s \in Servers, NEW i \in 1 .. Len(inbox'[s])
      PROVE  LET d == inbox'[s][i].from
             IN RequestOK(inbox'[s][i], s, pc'[d], call'[d], answer'[d], addr'[d], mgr'[d])
  <2>1. CASE i \in 1 .. Len(inbox[s]) /\ inbox'[s][i] = inbox[s][i]
    <3>. DEFINE d == inbox[s][i].from
    <3>1. d # c /\ d \in Clients /\ d \in Nodes
      BY <2>1, Sides, RequestType
    <3>2. RequestOK(inbox[s][i], s, pc[d], call[d], answer[d], addr[d], mgr[d])
      BY <2>1 DEF RequestsInv
    <3>. QED
      BY <2>1, <3>1, <3>2 DEF OnlyClient
  <2>2. CASE /\ inbox'[s][i].from = c
             /\ RequestOK(inbox'[s][i], s, pc'[c], call'[c], answer'[c], addr'[c], mgr'[c])
    BY <2>2
  <2>. QED
    BY <2>1, <2>2 DEF SentOK
<1>2. ASSUME NEW s \in Servers, NEW t \in Servers,
             NEW i \in 1 .. Len(inbox'[s]), NEW j \in 1 .. Len(inbox'[t]),
             inbox'[s][i].from = inbox'[t][j].from
      PROVE  s = t /\ i = j
  <2>1. \/ i \in 1 .. Len(inbox[s]) /\ inbox'[s][i] = inbox[s][i]
        \/ s = call[c].srv /\ i = Len(inbox[s]) + 1 /\ inbox'[s][i].from = c
    BY DEF SentOK
  <2>2. \/ j \in 1 .. Len(inbox[t]) /\ inbox'[t][j] = inbox[t][j]
        \/ t = call[c].srv /\ j = Len(inbox[t]) + 1 /\ inbox'[t][j].from = c
    BY DEF SentOK
  <2>3. CASE i \in 1 .. Len(inbox[s]) /\ inbox'[s][i] = inbox[s][i]
             /\ j \in 1 .. Len(inbox[t]) /\ inbox'[t][j] = inbox[t][j]
    <3>1. inbox[s][i].from = inbox[t][j].from
      BY <1>2, <2>3
    <3>. QED
      BY <2>3, <3>1 DEF RequestsInv
  <2>. QED
    BY <1>2, <2>1, <2>2, <2>3
<1>. QED
  BY <1>1, <1>2 DEF RequestsInv

\* The peers, after a step of c: it connects at most with the one its answer told of.
LEMMA ClientPeers ==
  ASSUME TypeInv, NodesInv, PeersInv, NEW c \in Clients, OnlyClient(c), SentOK(c), TypeInv',
         answer'[c] = None,
         \A s \in Servers : \A i \in 1 .. Len(inbox[s]) : inbox[s][i].from # c,
         NEW q, NEW conn, Leads(c, q, conn),
         conn.num # 0 => answer[c] # None /\ conn = [lid |-> answer[c].lid, num |-> answer[c].num]
  PROVE  PeersInv'
<1>. SUFFICES ASSUME transport = "rc" PROVE LeadAcross' /\ RequestsNew' /\ AnswersNew'
  BY DEF PeersInv, OnlyClient
<1>1. LeadAcross /\ RequestsNew /\ AnswersNew
  BY DEF PeersInv
<1>2. \A n \in Nodes : \A p \in 1 .. Len(card[n]) : card[n][p].to.num \in Nat
  <2>. SUFFICES ASSUME NEW n \in Nodes, NEW p \in 1 .. Len(card[n]) PROVE card[n][p].to.num \in Nat
    OBVIOUS
  <2>1. card[n] \in Seq(QueuePairs)
    BY DEF NodesInv, NodeOK
  <2>2. card[n][p] \in QueuePairs
    BY <2>1
  <2>. QED
    BY <2>2 DEF QueuePairs, Conns
<1>3. ASSUME conn.num # 0
      PROVE  /\ conn.lid \in Servers /\ conn.num \in Nat /\ conn.num <= Len(card[conn.lid])
             /\ ~ Taken(card, Clients, conn.lid, conn.num)
             /\ answer[c] # None /\ answer[c].num # 0
             /\ conn.lid = answer[c].lid /\ conn.num = answer[c].num
             /\ conn = [lid |-> conn.lid, num |-> conn.num]
  <2>1. /\ answer[c] # None /\ answer[c].num # 0 /\ conn.lid = answer[c].lid
        /\ conn.num = answer[c].num /\ conn = [lid |-> conn.lid, num |-> conn.num]
    BY <1>3
  <2>2. answer[c].num \in Nat
    BY <2>1 DEF TypeInv, Answers
  <2>. QED
    BY <1>1, <2>1, <2>2 DEF AnswersNew
<1>4. LeadAcross'
  <2>1. ASSUME conn.num # 0, NEW n \in Nodes, NEW p \in 1 .. Len(card[n]), card[n][p].to = conn
        PROVE  FALSE
    <3>1. n \notin Clients
      BY <1>3, <2>1 DEF Taken
    <3>2. n \in Clients
      BY <1>1, <1>3, <2>1 DEF LeadAcross, LeadOver
    <3>. QED
      BY <3>1, <3>2
  <2>2. conn.num # 0 => /\ conn.lid \in Nodes /\ (c \in Clients <=> conn.lid \in Servers)
                        /\ conn.num \in Nat /\ conn.num <= Len(card[conn.lid])
                        /\ \A n \in Nodes : \A p \in 1 .. Len(card[n]) : card[n][p].to # conn
    BY <1>3, <2>1, Sides
  <2>3. c \in Nodes
    BY Sides
  <2>. QED
    BY <1>1, <1>2, <2>2, <2>3, AcrossStep
<1>5. Clients \in SUBSET Nodes /\ Servers \in SUBSET Nodes /\ c \notin Servers /\ c \in Nodes
  BY Sides DEF Nodes
<1>6. RequestsNew'
  <2>. SUFFICES ASSUME NEW s \in Servers, NEW i \in 1 .. Len(inbox'[s]), inbox'[s][i].num # 0
                PROVE  /\ inbox'[s][i].num <= Len(card'[inbox'[s][i].from])
                       /\ ~ Taken(card', Servers, inbox'[s][i].from, inbox'[s][i].num)
    BY DEF RequestsNew
  <2>1. CASE i \in 1 .. Len(inbox[s]) /\ inbox'[s][i] = inbox[s][i]
    <3>. DEFINE d == inbox[s][i].from
                num == inbox[s][i].num
    <3>1. d \in Clients /\ d # c /\ d \in Nodes /\ num \in Nat /\ num # 0
      BY <2>1, Sides, RequestType
    <3>2. num <= Len(card[d]) /\ ~ Taken(card, Servers, d, num)
      BY <1>1, <2>1, <3>1 DEF RequestsNew
    <3>. HIDE DEF d, num
    <3>3. ~ Taken(card', Servers, d, num)
      BY <1>5, <3>1, <3>2, NotTakenStep
    <3>4. num <= Len(card'[d])
      BY <3>1, <3>2 DEF OnlyClient
    <3>. QED
      BY <2>1, <3>3, <3>4 DEF d, num
  <2>2. CASE inbox'[s][i].from = c /\ inbox'[s][i].num = Len(card[c]) + 1
             /\ Len(card[c]) + 1 <= Len(card'[c])
    <3>. DEFINE num == Len(card[c]) + 1
    <3>1. Len(card[c]) \in Nat /\ num \in Nat /\ num # 0 /\ num > Len(card[c])
      BY <1>5 DEF Leads
    <3>. HIDE DEF num
    <3>2. ~ Taken(card, Servers, c, num)
      BY <1>1, <1>5, <3>1, NewNotTaken
    <3>3. ~ Taken(card', Servers, c, num)
      BY <1>5, <3>1, <3>2, NotTakenStep
    <3>. QED
      BY <2>2, <3>3 DEF num
  <2>. QED
    BY <2>1, <2>2 DEF SentOK
<1>7. AnswersNew'
  <2>. SUFFICES ASSUME NEW d \in Clients, answer'[d] # None, answer'[d].num # 0
                PROVE  /\ answer'[d].lid \in Servers /\ answer'[d].num <= Len(card'[answer'[d].lid])
                       /\ ~ Taken(card', Clients, answer'[d].lid, answer'[d].num)
                       /\ \A e \in Clients : e # d /\ answer'[e] # None =>
                            ~ (answer'[e].lid = answer'[d].lid /\ answer'[e].num = answer'[d].num)
    BY DEF AnswersNew
  <2>1. d # c /\ answer'[d] = answer[d]
    BY DEF OnlyClient
  <2>. DEFINE n == answer[d].lid
              num == answer[d].num
  <2>2. /\ n \in Servers /\ num <= Len(card[n]) /\ ~ Taken(card, Clients, n, num) /\ num # 0
        /\ \A e \in Clients : e # d /\ answer[e] # None => ~ (answer[e].lid = n /\ answer[e].num = num)
    BY <1>1, <2>1 DEF AnswersNew
  <2>3. conn # [lid |-> n, num |-> num]
    <3>. SUFFICES ASSUME conn = [lid |-> n, num |-> num] PROVE FALSE
      OBVIOUS
    <3>1. conn.num # 0 /\ conn.lid = n /\ conn.num = num
      BY <2>2
    <3>. HIDE DEF n, num
    <3>. QED
      BY <1>3, <2>1, <2>2, <3>1
  <2>. HIDE DEF n, num
  <2>4. ~ Taken(card', Clients, n, num)
    BY <1>5, <2>2, <2>3, NotTakenStep
  <2>5. num <= Len(card'[n])
    BY <2>2, Sides DEF OnlyClient
  <2>6. \A e \in Clients : e # d /\ answer'[e] # None => ~ (answer'[e].lid = n /\ answer'[e].num = num)
    BY <2>2 DEF OnlyClient
  <2>. QED
    BY <2>1, <2>2, <2>4, <2>5, <2>6 DEF n, num
<1>. QED
  BY <1>4, <1>6, <1>7

\* The answers that wait for other clients are not touched.
LEMMA ClientAnswers ==
  ASSUME AnswersInv, NEW c \in Clients, OnlyClient(c), answer'[c] = None
  PROVE  AnswersInv'
<1>. SUFFICES ASSUME NEW d \in Clients, answer'[d] # None
              PROVE  AnswerOK(d, answer'[d], pc'[d], call'[d], addr'[d], mgr'[d],
                              queues'[call'[d].srv], mgr'[call'[d].srv], blanked')
  BY DEF AnswersInv
<1>1. d # c /\ d \in Nodes
  BY Sides
<1>2. /\ answer'[d] = answer[d] /\ pc'[d] = pc[d] /\ call'[d] = call[d] /\ addr'[d] = addr[d]
      /\ mgr'[d] = mgr[d] /\ queues' = queues /\ blanked' = blanked
  BY <1>1 DEF OnlyClient
<1>3. AnswerOK(d, answer[d], pc[d], call[d], addr[d], mgr[d],
               queues[call[d].srv], mgr[call[d].srv], blanked)
  BY <1>2 DEF AnswersInv
<1>4. mgr'[call[d].srv] = mgr[call[d].srv]
  BY <1>3, Sides DEF AnswerOK, OnlyClient
<1>. QED
  BY <1>2, <1>3, <1>4

\* The links of other clients are not touched.
LEMMA ClientLinks ==
  ASSUME TypeInv, LinksInv, NEW c \in Clients, OnlyClient(c), TypeInv',
         \A s \in clients'[c] \ spoiled'[c] :
           \/ Unfinished(s, pc'[c], call'[c], joined'[c])
           \/ Linked(c, s, addr'[c], mgr'[c], queues[s], mgr[s])
  PROVE  LinksInv'
<1>. SUFFICES ASSUME NEW d \in Clients, NEW s \in clients'[d] \ spoiled'[d]
              PROVE  \/ Unfinished(s, pc'[d], call'[d], joined'[d])
                     \/ Linked(d, s, addr'[d], mgr'[d], queues'[s], mgr'[s])
  BY DEF LinksInv
<1>1. s \in Servers
  BY DEF TypeInv
<1>2. mgr'[s] = mgr[s] /\ queues'[s] = queues[s]
  BY <1>1, Sides DEF OnlyClient
<1>3. CASE d = c
  BY <1>2, <1>3
<1>4. CASE d # c
  <2>1. /\ pc'[d] = pc[d] /\ call'[d] = call[d] /\ joined'[d] = joined[d] /\ addr'[d] = addr[d]
        /\ mgr'[d] = mgr[d] /\ clients'[d] = clients[d] /\ spoiled'[d] = spoiled[d]
    BY <1>4, Sides DEF OnlyClient
  <2>2. \/ Unfinished(s, pc[d], call[d], joined[d])
        \/ Linked(d, s, addr[d], mgr[d], queues[s], mgr[s])
    BY <2>1 DEF LinksInv
  <2>. QED
    BY <1>2, <2>1, <2>2
<1>. QED
  BY <1>3, <1>4

\* The servers' management tables, as long as what leads back to c goes on to do so.
LEMMA ClientMgmt ==
  ASSUME TypeInv, MgmtInv, NEW c \in Clients, OnlyClient(c),
         \A s \in Servers : \A to, mto :
           LeadsBack(s, card[c], addr[c], mgr[c], to, mto) =>
             LeadsBack(s, card'[c], addr'[c], mgr'[c], to, mto),
         \A s \in Servers \ blanked :
           MgmtCallOK(c, s, pc'[c], call'[c], addr'[c], mgr'[c], mgr[s])
  PROVE  MgmtInv'
<1>. SUFFICES ASSUME NEW s \in Servers, s \notin blanked'
              PROVE  /\ \A k \in DOMAIN mgmtOf'[s] :
                          /\ EntryOK(k, mgmtOf'[s][k], mgr'[s])
                          /\ LET d == mgr'[s].rconns[k].lid
                             IN LeadsBack(s, card'[d], addr'[d], mgr'[d], mgr'[s].rconns[k].num,
                                          mgr'[s].rconns[mgmtOf'[s][k]].num)
                     /\ \A d \in Clients :
                          MgmtCallOK(d, s, pc'[d], call'[d], addr'[d], mgr'[d], mgr'[s])
  BY DEF MgmtInv
<1>1. s \notin blanked /\ mgmtOf'[s] = mgmtOf[s] /\ mgr'[s] = mgr[s]
  BY Sides DEF OnlyClient
<1>2. ASSUME NEW k \in DOMAIN mgmtOf[s]
      PROVE  /\ EntryOK(k, mgmtOf[s][k], mgr[s])
             /\ LET d == mgr[s].rconns[k].lid
                IN LeadsBack(s, card'[d], addr'[d], mgr'[d], mgr[s].rconns[k].num,
                             mgr[s].rconns[mgmtOf[s][k]].num)
  <2>. DEFINE d == mgr[s].rconns[k].lid
              to == mgr[s].rconns[k].num
              mto == mgr[s].rconns[mgmtOf[s][k]].num
  <2>1. EntryOK(k, mgmtOf[s][k], mgr[s]) /\ LeadsBack(s, card[d], addr[d], mgr[d], to, mto)
    BY <1>1 DEF MgmtInv
  <2>2. d \in Clients /\ d \in Nodes
    BY <2>1, Sides DEF EntryOK
  <2>. HIDE DEF d, to, mto
  <2>3. CASE d = c
    BY <2>1, <2>3 DEF d, to, mto
  <2>4. CASE d # c
    <3>1. card'[d] = card[d] /\ addr'[d] = addr[d] /\ mgr'[d] = mgr[d]
      BY <2>2, <2>4 DEF OnlyClient
    <3>. QED
      BY <2>1, <3>1 DEF d, to, mto
  <2>. QED
    BY <2>3, <2>4
<1>3. ASSUME NEW d \in Clients
      PROVE  MgmtCallOK(d, s, pc'[d], call'[d], addr'[d], mgr'[d], mgr[s])
  <2>1. CASE d = c
    BY <1>1, <2>1
  <2>2. CASE d # c
    <3>1. pc'[d] = pc[d] /\ call'[d] = call[d] /\ addr'[d] = addr[d] /\ mgr'[d] = mgr[d]
      BY <2>2, Sides DEF OnlyClient
    <3>2. MgmtCallOK(d, s, pc[d], call[d], addr[d], mgr[d], mgr[s])
      BY <1>1 DEF MgmtInv
    <3>. QED
      BY <3>1, <3>2
  <2>. QED
    BY <2>1, <2>2
<1>. QED
  BY <1>1, <1>2, <1>3

\* All parts together, for a step of client c.
LEMMA ClientStepInv ==
  ASSUME IInv, NEW c \in Clients, OnlyClient(c), TypeInv', answer'[c] = None, SentOK(c),
         \A s \in Servers : \A i \in 1 .. Len(inbox[s]) : inbox[s][i].from # c,
         NodeOK(transport, mgr'[c], card'[c]),
         ClientOK(pc'[c], call'[c], clients'[c], addr'[c], joined'[c], mgr'[c], nodeAddr'[c]),
         \A s \in clients'[c] \ spoiled'[c] :
           \/ Unfinished(s, pc'[c], call'[c], joined'[c])
           \/ Linked(c, s, addr'[c], mgr'[c], queues[s], mgr[s]),
         \A s \in Servers : \A to, mto :
           LeadsBack(s, card[c], addr[c], mgr[c], to, mto) =>
             LeadsBack(s, card'[c], addr'[c], mgr'[c], to, mto),
         \A s \in Servers \ blanked :
           MgmtCallOK(c, s, pc'[c], call'[c], addr'[c], mgr'[c], mgr[s]),
         NEW q, NEW conn, Leads(c, q, conn),
         conn.num # 0 => answer[c] # None /\ conn = [lid |-> answer[c].lid, num |-> answer[c].num]
  PROVE  IInv'
<1>1. NodesInv'
  BY DEF IInv, NodesInv, OnlyClient
<1>2. ClientsInv'
  <2>. SUFFICES ASSUME NEW d \in Clients
                PROVE  ClientOK(pc'[d], call'[d], clients'[d], addr'[d], joined'[d], mgr'[d],
                                nodeAddr'[d])
    BY DEF ClientsInv
  <2>1. ClientOK(pc[d], call[d], clients[d], addr[d], joined[d], mgr[d], nodeAddr[d])
    BY DEF IInv, ClientsInv
  <2>2. d # c => /\ pc'[d] = pc[d] /\ call'[d] = call[d] /\ clients'[d] = clients[d]
                 /\ addr'[d] = addr[d] /\ joined'[d] = joined[d] /\ mgr'[d] = mgr[d]
                 /\ nodeAddr'[d] = nodeAddr[d]
    BY Sides DEF OnlyClient
  <2>. QED
    BY <2>1, <2>2
<1>3. RequestsInv'
  BY ClientRequests DEF IInv
<1>4. AnswersInv'
  BY ClientAnswers DEF IInv
<1>5. LinksInv'
  BY ClientLinks DEF IInv
<1>6. MgmtInv'
  BY ClientMgmt DEF IInv
<1>7. PeersInv'
  BY ClientPeers DEF IInv
<1>. QED
  BY <1>1, <1>2, <1>3, <1>4, <1>5, <1>6, <1>7 DEF IInv

\* A fault is counted within the bound.
LEMMA OutcomeType ==
  ASSUME TypeInv, NEW ok \in BOOLEAN, Outcome(ok)
  PROVE  faults' \in 0 .. MaxFaults
BY SetsAssumption DEF TypeInv, Outcome

\* A step of c that changes no tables, sockets or addresses.
LEMMA QuietStep ==
  ASSUME IInv, NEW c \in Clients,
         UNCHANGED <<transport, mgr, card, clients, addr, spoiled, queues, mgmtOf, down, blanked>>,
         NEW p \in Places, NEW cl \in CallRecords, NEW js \in SUBSET Servers, NEW na \in Seq(Nat),
         pc' = [pc EXCEPT ![c] = p], call' = [call EXCEPT ![c] = cl],
         joined' = [joined EXCEPT ![c] = js], nodeAddr' = [nodeAddr EXCEPT ![c] = na],
         answer' = [answer EXCEPT ![c] = None],
         inbox' \in [Servers -> Seq(Requests)], faults' \in 0 .. MaxFaults,
         pc[c] # "wait" \/ answer[c] # None,
         SentOK(c), ClientOK(p, cl, clients[c], addr[c], js, mgr[c], na),
         \A s \in clients[c] \ spoiled[c] :
           Unfinished(s, p, cl, js) \/ Linked(c, s, addr[c], mgr[c], queues[s], mgr[s]),
         \A s \in Servers \ blanked : MgmtCallOK(c, s, p, cl, addr[c], mgr[c], mgr[s])
  PROVE  IInv'
<1>1. TypeInv
  BY DEF IInv
<1>2. /\ pc'[c] = p /\ call'[c] = cl /\ joined'[c] = js /\ nodeAddr'[c] = na /\ answer'[c] = None
      /\ \A d \in Clients : d # c =>
           /\ pc'[d] = pc[d] /\ call'[d] = call[d] /\ joined'[d] = joined[d]
           /\ nodeAddr'[d] = nodeAddr[d] /\ answer'[d] = answer[d]
  BY <1>1 DEF TypeInv
<1>3. OnlyClient(c)
  BY <1>2 DEF OnlyClient
<1>4. TypeInv'
  <2>1. /\ pc' \in [Clients -> Places] /\ call' \in [Clients -> CallRecords]
        /\ joined' \in [Clients -> SUBSET Servers] /\ nodeAddr' \in [Clients -> Seq(Nat)]
        /\ answer' \in [Clients -> Answers \cup {None}]
    BY <1>1 DEF TypeInv
  <2>. QED
    BY <1>1, <2>1 DEF TypeInv
<1>5. \A s \in Servers : \A i \in 1 .. Len(inbox[s]) : inbox[s][i].from # c
  BY NoRequest DEF IInv
<1>6. c \in Nodes /\ NodeOK(transport, mgr[c], card[c])
  BY Sides DEF IInv, NodesInv
<1>7. Leads(c, 0, Nowhere)
  <2>1. CardGrown(card[c], card[c]) /\ LeadsAsBefore(card[c], card[c], 0, Nowhere)
    BY <1>6, CardSame DEF NodeOK
  <2>. QED
    BY <1>6, <2>1, LeadsFrom DEF IInv
<1>8. Nowhere.num = 0
  BY NowhereFacts
<1>9. ClientOK(pc'[c], call'[c], clients'[c], addr'[c], joined'[c], mgr'[c], nodeAddr'[c])
  BY <1>2
<1>10. \A s \in clients'[c] \ spoiled'[c] :
         \/ Unfinished(s, pc'[c], call'[c], joined'[c])
         \/ Linked(c, s, addr'[c], mgr'[c], queues[s], mgr[s])
  BY <1>2
<1>11. \A s \in Servers \ blanked :
         MgmtCallOK(c, s, pc'[c], call'[c], addr'[c], mgr'[c], mgr[s])
  BY <1>2
<1>12. \A s \in Servers : \A to, mto :
         LeadsBack(s, card[c], addr[c], mgr[c], to, mto) =>
           LeadsBack(s, card'[c], addr'[c], mgr'[c], to, mto)
  OBVIOUS
<1>13. NodeOK(transport, mgr'[c], card'[c]) /\ answer'[c] = None
  BY <1>2, <1>6
<1>. QED
  BY <1>3, <1>4, <1>5, <1>7, <1>8, <1>9, <1>10, <1>11, <1>12, <1>13, ClientStepInv

\* The table of node ids after the id of s was entered.
LEMMA IdsSet ==
  ASSUME NEW na \in Seq(Nat), NEW js \in SUBSET Servers, NEW s \in Servers, NEW ad,
         ad.data[s] \in Nat, IdsOK(na, js, ad)
  PROVE  /\ SetNodeAddr(na, NodeID[s], ad.data[s]) \in Seq(Nat)
         /\ IdsOK(SetNodeAddr(na, NodeID[s], ad.data[s]), js \cup {s}, ad)
<1>. DEFINE i == NodeID[s]
            k == ad.data[s]
            n == IF Len(na) > i THEN Len(na) ELSE i + 1
            b == [j \in 1 .. n |-> IF j = i + 1 THEN k ELSE IF j <= Len(na) THEN na[j] ELSE 0]
<1>1. i \in Nat /\ Len(na) \in Nat /\ \A t \in Servers : NodeID[t] \in Nat /\ (NodeID[t] = i => t = s)
  BY SetsAssumption
<1>2. SetNodeAddr(na, i, k) = b
  BY DEF SetNodeAddr
<1>. HIDE DEF i, k
<1>3. n \in Nat /\ Len(na) <= n /\ i + 1 \in 1 .. n
  BY <1>1
<1>. HIDE DEF n
<1>4. \A j \in 1 .. n : b[j] = IF j = i + 1 THEN k ELSE IF j <= Len(na) THEN na[j] ELSE 0
  OBVIOUS
<1>5. b \in [1 .. n -> Nat]
  <2>1. \A j \in 1 .. n : j <= Len(na) => na[j] \in Nat
    BY <1>1, <1>3
  <2>. QED
    BY <2>1 DEF k
<1>. HIDE DEF b
<1>6. b \in Seq(Nat) /\ Len(b) = n
  BY <1>3, <1>5
<1>7. IdsOK(b, js \cup {s}, ad)
  <2>. SUFFICES ASSUME NEW t \in js \cup {s}
                PROVE  NodeID[t] + 1 \in 1 .. Len(b) /\ b[NodeID[t] + 1] = ad.data[t]
    BY DEF IdsOK
  <2>1. CASE t = s
    BY <1>3, <1>4, <1>6, <2>1 DEF i, k
  <2>2. CASE t # s
    <3>1. NodeID[t] + 1 \in 1 .. Len(na) /\ na[NodeID[t] + 1] = ad.data[t]
      BY <2>2 DEF IdsOK
    <3>2. NodeID[t] + 1 \in 1 .. n /\ NodeID[t] + 1 # i + 1 /\ NodeID[t] + 1 <= Len(na)
      BY <1>1, <1>3, <2>2, <3>1
    <3>. QED
      BY <1>4, <1>6, <3>1, <3>2
  <2>. QED
    BY <2>1, <2>2
<1>. QED
  BY <1>2, <1>6, <1>7 DEF i, k

\* connect returns true, or remoteAlloc goes on, with the tables m.
Succeeded(c, m) ==
  \E p \in {"idle", "ask"}, cl \in CallRecords, js \in SUBSET Servers, na \in Seq(Nat) :
    /\ pc' = [pc EXCEPT ![c] = p] /\ call' = [call EXCEPT ![c] = cl]
    /\ joined' = [joined EXCEPT ![c] = js] /\ nodeAddr' = [nodeAddr EXCEPT ![c] = na]
    /\ ClientOK(p, cl, clients[c], addr[c], js, m, na)

\* connect returns true for a server whose socket is stored.
LEMMA SucceedEffect ==
  ASSUME TypeInv, NEW c \in Clients, NEW cl \in CallRecords, Succeed(c, cl),
         cl.srv \in clients[c], NEW m \in Managers,
         StoredOK(clients[c], addr[c], joined[c], m, nodeAddr[c])
  PROVE  Succeeded(c, m)
<1>. DEFINE s == cl.srv
            sv == clients[c]
            ad == addr[c]
            js0 == joined[c]
            na0 == nodeAddr[c]
<1>1. /\ s \in sv /\ sv \subseteq Servers /\ s \in Servers /\ js0 \in SUBSET Servers /\ na0 \in Seq(Nat)
      /\ cl.mem \in BOOLEAN
  BY DEF TypeInv, CallRecords
<1>2. /\ sv \subseteq DOMAIN ad.data /\ DOMAIN ad.mgmt \subseteq sv /\ js0 \subseteq sv
      /\ KeysOK(ad, m) /\ IdsOK(na0, js0, ad)
  BY DEF StoredOK
<1>3. ad.data[s] \in Nat
  <2>1. ad.data[s] \in DOMAIN m.qps
    BY <1>1, <1>2 DEF KeysOK
  <2>. QED
    BY <2>1, ManagerFacts, TableFacts
<1>4. CASE cl.mem
  <2>. DEFINE cl2 == [cl EXCEPT !.queue = "mem"]
  <2>1. cl2 \in CallRecords /\ cl2.srv = s /\ cl2.queue = "mem"
    BY DEF CallRecords
  <2>2. /\ pc' = [pc EXCEPT ![c] = "ask"] /\ call' = [call EXCEPT ![c] = cl2]
        /\ joined' = joined /\ nodeAddr' = nodeAddr
    BY <1>4 DEF Succeed
  <2>3. joined' = [joined EXCEPT ![c] = js0] /\ nodeAddr' = [nodeAddr EXCEPT ![c] = na0]
    BY <2>2 DEF TypeInv
  <2>. HIDE DEF cl2
  <2>4. CallOK("ask", cl2, sv, ad, js0, m)
    BY <1>1, <2>1 DEF CallOK
  <2>5. ClientOK("ask", cl2, sv, ad, js0, m, na0)
    BY <1>2, <2>4 DEF ClientOK, StoredOK
  <2>. QED
    BY <1>1, <2>1, <2>2, <2>3, <2>5 DEF Succeeded
<1>5. CASE ~ cl.mem
  <2>. DEFINE js == js0 \cup {s}
              na == SetNodeAddr(na0, NodeID[s], ad.data[s])
  <2>1. /\ pc' = [pc EXCEPT ![c] = "idle"] /\ call' = [call EXCEPT ![c] = NoCall]
        /\ joined' = [joined EXCEPT ![c] = js] /\ nodeAddr' = [nodeAddr EXCEPT ![c] = na]
    BY <1>5 DEF Succeed
  <2>2. NoCall \in CallRecords
    BY DEF NoCall, CallOf, CallRecords
  <2>3. na \in Seq(Nat) /\ IdsOK(na, js, ad)
    BY <1>1, <1>2, <1>3, IdsSet
  <2>. HIDE DEF na
  <2>4. CallOK("idle", NoCall, sv, ad, js, m)
    BY DEF CallOK
  <2>5. ClientOK("idle", NoCall, sv, ad, js, m, na)
    BY <1>1, <1>2, <2>3, <2>4 DEF ClientOK, StoredOK
  <2>. QED
    BY <1>1, <2>1, <2>2, <2>3, <2>5 DEF Succeeded
<1>. QED
  BY <1>1, <1>4, <1>5

\* Nothing is sent.
LEMMA SentNothing ==
  ASSUME NEW c, UNCHANGED inbox
  PROVE  SentOK(c)
BY DEF SentOK

\* A client that does not wait has no answer.
LEMMA NoAnswer ==
  ASSUME AnswersInv, TypeInv, NEW c \in Clients, pc[c] # "wait"
  PROVE  answer[c] = None /\ answer = [answer EXCEPT ![c] = None]
BY DEF AnswersInv, AnswerOK, TypeInv

\* Between its calls, and after the answer for the data queue, a client is linked.
LEMMA LinksNow ==
  ASSUME LinksInv, NEW c \in Clients, pc[c] # "crashed", pc[c] # "wait" \/ call[c].queue # "data"
  PROVE  \A s \in clients[c] \ spoiled[c] : Linked(c, s, addr[c], mgr[c], queues[s], mgr[s])
BY DEF LinksInv, Unfinished

\* The state of one client.
LEMMA ClientFacts ==
  ASSUME IInv, NEW c \in Clients
  PROVE  /\ TypeInv /\ pc[c] \in Places /\ call[c] \in CallRecords /\ clients[c] \in SUBSET Servers
         /\ addr[c] \in Addresses /\ nodeAddr[c] \in Seq(Nat) /\ joined[c] \in SUBSET Servers
         /\ spoiled[c] \in SUBSET Servers /\ answer[c] \in Answers \cup {None}
         /\ inbox \in [Servers -> Seq(Requests)] /\ faults \in 0 .. MaxFaults
         /\ joined = [joined EXCEPT ![c] = joined[c]]
         /\ nodeAddr = [nodeAddr EXCEPT ![c] = nodeAddr[c]]
         /\ c \in Nodes /\ NodeOK(transport, mgr[c], card[c]) /\ mgr[c] \in Managers
         /\ ClientOK(pc[c], call[c], clients[c], addr[c], joined[c], mgr[c], nodeAddr[c])
<1>1. TypeInv
  BY DEF IInv
<1>2. c \in Nodes /\ NodeOK(transport, mgr[c], card[c]) /\ mgr[c] \in Managers
  BY Sides DEF IInv, NodesInv, NodeOK
<1>3. ClientOK(pc[c], call[c], clients[c], addr[c], joined[c], mgr[c], nodeAddr[c])
  BY DEF IInv, ClientsInv
<1>. QED
  BY <1>1, <1>2, <1>3 DEF TypeInv

\* A call that ends leaves the client in order.
LEMMA Ended ==
  ASSUME NEW p0, NEW cl0, NEW sv, NEW ad, NEW js, NEW m, NEW na, NEW p, NEW cl,
         ClientOK(p0, cl0, sv, ad, js, m, na), CallOK(p, cl, sv, ad, js, m)
  PROVE  ClientOK(p, cl, sv, ad, js, m, na)
BY DEF ClientOK

\* A client without a call.
LEMMA NoCallFacts ==
  NoCall \in CallRecords /\ NoCall.queue = "data" /\ NoCall.srv = None
BY DEF NoCall, CallOf, CallRecords

\* connect or remoteAlloc is called.
LEMMA CallInv ==
  ASSUME IInv, NEW c \in Clients, NEW d \in Calls, Call(c, CallOf(d))
  PROVE  IInv'
<1>. DEFINE cl == CallOf(d)
<1>1. cl \in CallRecords /\ cl.srv \in Servers /\ cl.queue = "data"
  BY SetsAssumption DEF CallOf, CallRecords
<1>2. /\ pc[c] = "idle"
      /\ IF cl.srv \in clients[c] THEN Succeed(c, cl) ELSE GoTo(c, "open", cl)
      /\ UNCHANGED <<transport, mgr, card, clients, addr, spoiled, queues, mgmtOf, down, blanked>>
      /\ UNCHANGED <<inbox, answer, faults>>
  BY DEF Call, server
<1>. HIDE DEF cl
<1>3. answer' = [answer EXCEPT ![c] = None]
  BY <1>2, NoAnswer DEF IInv
<1>4. SentOK(c)
  BY <1>2, SentNothing
<1>5. \A s \in clients[c] \ spoiled[c] : Linked(c, s, addr[c], mgr[c], queues[s], mgr[s])
  BY <1>2, LinksNow DEF IInv
<1>6. inbox' \in [Servers -> Seq(Requests)] /\ faults' \in 0 .. MaxFaults
  BY <1>2, ClientFacts
<1>7. CASE cl.srv \in clients[c]
  <2>a. Succeed(c, cl)
    BY <1>2, <1>7
  <2>b. /\ TypeInv /\ mgr[c] \in Managers
        /\ StoredOK(clients[c], addr[c], joined[c], mgr[c], nodeAddr[c])
    BY ClientFacts DEF ClientOK
  <2>c. Succeeded(c, mgr[c])
    BY <1>1, <1>7, <2>a, <2>b, SucceedEffect
  <2>1. PICK p \in {"idle", "ask"}, cl2 \in CallRecords, js \in SUBSET Servers, na \in Seq(Nat) :
          /\ pc' = [pc EXCEPT ![c] = p] /\ call' = [call EXCEPT ![c] = cl2]
          /\ joined' = [joined EXCEPT ![c] = js] /\ nodeAddr' = [nodeAddr EXCEPT ![c] = na]
          /\ ClientOK(p, cl2, clients[c], addr[c], js, mgr[c], na)
    BY <2>c DEF Succeeded
  <2>2. p \in Places
    BY DEF Places
  <2>3. \A s \in Servers \ blanked : MgmtCallOK(c, s, p, cl2, addr[c], mgr[c], mgr[s])
    BY DEF MgmtCallOK
  <2>. QED
    BY <1>2, <1>3, <1>4, <1>5, <1>6, <2>1, <2>2, <2>3, QuietStep
<1>8. CASE cl.srv \notin clients[c]
  <2>1. /\ pc' = [pc EXCEPT ![c] = "open"] /\ call' = [call EXCEPT ![c] = cl]
        /\ joined' = [joined EXCEPT ![c] = joined[c]]
        /\ nodeAddr' = [nodeAddr EXCEPT ![c] = nodeAddr[c]]
    BY <1>2, <1>8, ClientFacts DEF GoTo
  <2>2. CallOK("open", cl, clients[c], addr[c], joined[c], mgr[c])
    BY <1>1, <1>8 DEF CallOK
  <2>3. ClientOK("open", cl, clients[c], addr[c], joined[c], mgr[c], nodeAddr[c])
    BY <2>2, Ended, ClientFacts
  <2>4. "open" \in Places /\ joined[c] \in SUBSET Servers /\ nodeAddr[c] \in Seq(Nat)
    BY ClientFacts DEF Places
  <2>5. \A s \in Servers \ blanked : MgmtCallOK(c, s, "open", cl, addr[c], mgr[c], mgr[s])
    BY <1>1 DEF MgmtCallOK
  <2>. QED
    BY <1>1, <1>2, <1>3, <1>4, <1>5, <1>6, <2>1, <2>3, <2>4, <2>5, QuietStep
<1>. QED
  BY <1>7, <1>8

\* The process ends while it reads a blank answer.
LEMMA ReadBlankInv ==
  ASSUME IInv, NEW c \in Clients, ReadBlank(c)
  PROVE  IInv'
<1>1. /\ pc[c] = "wait" /\ answer[c] # None /\ answer' = [answer EXCEPT ![c] = None]
      /\ UNCHANGED <<transport, mgr, card, clients, addr, spoiled, queues, mgmtOf, down, blanked>>
      /\ UNCHANGED <<inbox, faults>>
  BY NoneAssumption DEF ReadBlank, server
<1>2. /\ pc' = [pc EXCEPT ![c] = "crashed"] /\ call' = [call EXCEPT ![c] = NoCall]
      /\ joined' = [joined EXCEPT ![c] = joined[c]]
      /\ nodeAddr' = [nodeAddr EXCEPT ![c] = nodeAddr[c]]
  BY ClientFacts DEF ReadBlank, GoTo
<1>3. SentOK(c)
  BY <1>1, SentNothing
<1>4. inbox' \in [Servers -> Seq(Requests)] /\ faults' \in 0 .. MaxFaults
  BY <1>1, ClientFacts
<1>5. CallOK("crashed", NoCall, clients[c], addr[c], joined[c], mgr[c])
  BY DEF CallOK
<1>6. ClientOK("crashed", NoCall, clients[c], addr[c], joined[c], mgr[c], nodeAddr[c])
  BY <1>5, Ended, ClientFacts
<1>7. /\ "crashed" \in Places /\ joined[c] \in SUBSET Servers /\ nodeAddr[c] \in Seq(Nat)
      /\ NoCall \in CallRecords
  BY ClientFacts, NoCallFacts DEF Places
<1>8. \A s \in clients[c] \ spoiled[c] :
        \/ Unfinished(s, "crashed", NoCall, joined[c])
        \/ Linked(c, s, addr[c], mgr[c], queues[s], mgr[s])
  BY DEF IInv, LinksInv, Unfinished
<1>9. \A s \in Servers \ blanked : MgmtCallOK(c, s, "crashed", NoCall, addr[c], mgr[c], mgr[s])
  BY DEF MgmtCallOK
<1>. QED
  BY <1>1, <1>2, <1>3, <1>4, <1>6, <1>7, <1>8, <1>9, QuietStep

\* The answer of the memory request.
LEMMA ReceiveMemoryInv ==
  ASSUME IInv, NEW c \in Clients, ReceiveMemory(c)
  PROVE  IInv'
<1>1. /\ pc[c] = "wait" /\ answer[c] # None /\ answer' = [answer EXCEPT ![c] = None]
      /\ call[c].queue = "mem"
      /\ UNCHANGED <<transport, mgr, card, clients, addr, spoiled, queues, mgmtOf, down, blanked>>
      /\ UNCHANGED inbox
  BY DEF ReceiveMemory, server
<1>2. /\ pc' = [pc EXCEPT ![c] = "idle"] /\ call' = [call EXCEPT ![c] = NoCall]
      /\ joined' = [joined EXCEPT ![c] = joined[c]]
      /\ nodeAddr' = [nodeAddr EXCEPT ![c] = nodeAddr[c]]
  BY ClientFacts DEF ReceiveMemory, GoTo, Fail
<1>3. SentOK(c)
  BY <1>1, SentNothing
<1>4. inbox' \in [Servers -> Seq(Requests)] /\ faults' \in 0 .. MaxFaults
  <2>1. Outcome(TRUE) \/ Outcome(FALSE)
    BY DEF ReceiveMemory, Fail
  <2>. QED
    BY <1>1, <2>1, OutcomeType, ClientFacts
<1>5. CallOK("idle", NoCall, clients[c], addr[c], joined[c], mgr[c])
  BY DEF CallOK
<1>6. ClientOK("idle", NoCall, clients[c], addr[c], joined[c], mgr[c], nodeAddr[c])
  BY <1>5, Ended, ClientFacts
<1>7. /\ "idle" \in Places /\ joined[c] \in SUBSET Servers /\ nodeAddr[c] \in Seq(Nat)
      /\ NoCall \in CallRecords
  BY ClientFacts, NoCallFacts DEF Places
<1>8. \A s \in clients[c] \ spoiled[c] : Linked(c, s, addr[c], mgr[c], queues[s], mgr[s])
  BY <1>1, LinksNow DEF IInv
<1>9. \A s \in Servers \ blanked : MgmtCallOK(c, s, "idle", NoCall, addr[c], mgr[c], mgr[s])
  BY DEF MgmtCallOK
<1>. QED
  BY <1>1, <1>2, <1>3, <1>4, <1>6, <1>7, <1>8, <1>9, QuietStep

\* A request is sent to the server of the call.
LEMMA SentOne ==
  ASSUME TypeInv, NEW c \in Clients, call[c].srv \in Servers, NEW r \in Requests, r.from = c,
         inbox' = [inbox EXCEPT ![call[c].srv] = Append(@, r)],
         RequestOK(r, call[c].srv, pc'[c], call'[c], answer'[c], addr'[c], mgr'[c]),
         transport = "rc" /\ r.num # 0 =>
           r.num = Len(card[c]) + 1 /\ Len(card[c]) + 1 <= Len(card'[c])
  PROVE  SentOK(c) /\ inbox' \in [Servers -> Seq(Requests)]
<1>. DEFINE s == call[c].srv
            b == inbox[s]
            b2 == Append(b, r)
<1>1. b \in Seq(Requests) /\ inbox \in [Servers -> Seq(Requests)]
  BY DEF TypeInv
<1>2. /\ b2 \in Seq(Requests) /\ Len(b2) = Len(b) + 1 /\ Len(b) \in Nat /\ b2[Len(b) + 1] = r
      /\ \A i \in 1 .. Len(b) : b2[i] = b[i]
  BY <1>1
<1>. HIDE DEF b2
<1>3. inbox' = [inbox EXCEPT ![s] = b2]
  BY DEF b2
<1>4. /\ inbox' \in [Servers -> Seq(Requests)] /\ inbox'[s] = b2
      /\ \A t \in Servers : t # s => inbox'[t] = inbox[t]
  BY <1>1, <1>2, <1>3
<1>5. SentOK(c)
  <2>. SUFFICES ASSUME NEW t \in Servers, NEW i \in 1 .. Len(inbox'[t])
                PROVE  \/ i \in 1 .. Len(inbox[t]) /\ inbox'[t][i] = inbox[t][i]
                       \/ /\ t = s /\ i = Len(inbox[t]) + 1 /\ inbox'[t][i].from = c
                          /\ RequestOK(inbox'[t][i], t, pc'[c], call'[c], answer'[c], addr'[c],
                                       mgr'[c])
                          /\ transport = "rc" /\ inbox'[t][i].num # 0 =>
                               /\ inbox'[t][i].num = Len(card[c]) + 1
                               /\ Len(card[c]) + 1 <= Len(card'[c])
    BY DEF SentOK
  <2>1. CASE t # s
    BY <1>4, <2>1
  <2>2. CASE t = s
    <3>1. i \in 1 .. Len(b) \/ i = Len(b) + 1
      BY <1>2, <1>4, <2>2
    <3>2. CASE i \in 1 .. Len(b)
      BY <1>2, <1>4, <2>2, <3>2
    <3>3. CASE i = Len(b) + 1
      <4>1. inbox'[t][i] = r
        BY <1>2, <1>4, <2>2, <3>3
      <4>. QED
        BY <2>2, <3>3, <4>1
    <3>. QED
      BY <3>1, <3>2, <3>3
  <2>. QED
    BY <2>1, <2>2
<1>. QED
  BY <1>4, <1>5

\* The memory request is sent, or fails.
LEMMA AskMemoryInv ==
  ASSUME IInv, NEW c \in Clients, AskMemory(c)
  PROVE  IInv'
<1>1. /\ pc[c] = "ask"
      /\ UNCHANGED <<transport, mgr, card, clients, addr, spoiled, queues, mgmtOf, down, blanked>>
      /\ UNCHANGED answer
  BY DEF AskMemory
<1>2. answer' = [answer EXCEPT ![c] = None] /\ answer[c] = None
  BY <1>1, NoAnswer DEF IInv
<1>3. \A s \in clients[c] \ spoiled[c] : Linked(c, s, addr[c], mgr[c], queues[s], mgr[s])
  BY <1>1, LinksNow DEF IInv
<1>4. TypeInv /\ joined[c] \in SUBSET Servers /\ nodeAddr[c] \in Seq(Nat)
  BY ClientFacts
<1>5. call[c] \in CallRecords /\ call[c].srv \in Servers /\ call[c].queue = "mem"
  BY <1>1, ClientFacts DEF ClientOK, CallOK
<1>6. faults' \in 0 .. MaxFaults
  <2>1. Outcome(TRUE) \/ Outcome(FALSE)
    BY DEF AskMemory, Fail
  <2>. QED
    BY <1>4, <2>1, OutcomeType
<1>7. CASE Fail(c) /\ UNCHANGED inbox
  <2>1. /\ pc' = [pc EXCEPT ![c] = "idle"] /\ call' = [call EXCEPT ![c] = NoCall]
        /\ joined' = [joined EXCEPT ![c] = joined[c]]
        /\ nodeAddr' = [nodeAddr EXCEPT ![c] = nodeAddr[c]]
    BY <1>7, ClientFacts DEF GoTo, Fail
  <2>2. SentOK(c) /\ inbox' \in [Servers -> Seq(Requests)]
    BY <1>7, SentNothing, ClientFacts
  <2>3. CallOK("idle", NoCall, clients[c], addr[c], joined[c], mgr[c])
    BY DEF CallOK
  <2>4. ClientOK("idle", NoCall, clients[c], addr[c], joined[c], mgr[c], nodeAddr[c])
    BY <2>3, Ended, ClientFacts
  <2>5. "idle" \in Places /\ NoCall \in CallRecords
    BY NoCallFacts DEF Places
  <2>6. \A s \in Servers \ blanked : MgmtCallOK(c, s, "idle", NoCall, addr[c], mgr[c], mgr[s])
    BY DEF MgmtCallOK
  <2>. QED
    BY <1>1, <1>2, <1>3, <1>4, <1>6, <2>1, <2>2, <2>4, <2>5, <2>6, QuietStep
<1>8. CASE /\ GoTo(c, "wait", call[c])
           /\ inbox' = [inbox EXCEPT ![call[c].srv] = Append(@, Request(c, "mem", 0, 0))]
  <2>1. /\ pc' = [pc EXCEPT ![c] = "wait"] /\ call' = [call EXCEPT ![c] = call[c]]
        /\ joined' = [joined EXCEPT ![c] = joined[c]]
        /\ nodeAddr' = [nodeAddr EXCEPT ![c] = nodeAddr[c]]
    BY <1>8, ClientFacts DEF GoTo
  <2>. DEFINE r == Request(c, "mem", 0, 0)
  <2>2. r \in Requests /\ r.from = c /\ r.queue = "mem" /\ r.num = 0
    BY DEF Request, Requests
  <2>. HIDE DEF r
  <2>3. pc'[c] = "wait" /\ call'[c] = call[c] /\ answer'[c] = None
    BY <1>1, <1>2, <1>4, <2>1 DEF TypeInv
  <2>4. RequestOK(r, call[c].srv, pc'[c], call'[c], answer'[c], addr'[c], mgr'[c])
    BY <1>5, <2>2, <2>3 DEF RequestOK
  <2>5. inbox' = [inbox EXCEPT ![call[c].srv] = Append(@, r)]
    BY <1>8 DEF r
  <2>6. SentOK(c) /\ inbox' \in [Servers -> Seq(Requests)]
    BY <1>4, <1>5, <2>2, <2>4, <2>5, SentOne
  <2>7. CallOK("wait", call[c], clients[c], addr[c], joined[c], mgr[c])
    BY <1>5 DEF CallOK
  <2>8. ClientOK("wait", call[c], clients[c], addr[c], joined[c], mgr[c], nodeAddr[c])
    BY <2>7, Ended, ClientFacts
  <2>9. "wait" \in Places
    BY DEF Places
  <2>10. \A s \in Servers \ blanked : MgmtCallOK(c, s, "wait", call[c], addr[c], mgr[c], mgr[s])
    BY <1>5 DEF MgmtCallOK
  <2>. QED
    BY <1>1, <1>2, <1>3, <1>4, <1>5, <1>6, <2>1, <2>6, <2>8, <2>9, <2>10, QuietStep
<1>. QED
  BY <1>7, <1>8 DEF AskMemory

\* The client ends: its queue pairs are destroyed, its tables are those of a new one.
LEMMA RestartInv ==
  ASSUME IInv, NEW c \in Clients, Restart(c)
  PROVE  IInv'
<1>. DEFINE h == DestroyQPs(mgr[c], card[c])
<1>1. /\ pc[c] \in {"idle", "crashed"} /\ pc[c] # "wait"
      /\ mgr' = [mgr EXCEPT ![c] = NewManager] /\ card' = [card EXCEPT ![c] = h]
      /\ pc' = [pc EXCEPT ![c] = "idle"] /\ clients' = [clients EXCEPT ![c] = {}]
      /\ addr' = [addr EXCEPT ![c] = NoAddr] /\ nodeAddr' = [nodeAddr EXCEPT ![c] = << >>]
      /\ joined' = [joined EXCEPT ![c] = {}] /\ spoiled' = [spoiled EXCEPT ![c] = {}]
      /\ UNCHANGED <<transport, call, answer, faults, inbox, queues, mgmtOf, down, blanked>>
  BY DEF Restart, DestroyManager, ForgetConnections, server
<1>2. /\ TypeInv /\ c \in Nodes /\ NodeOK(transport, mgr[c], card[c])
      /\ ClientOK(pc[c], call[c], clients[c], addr[c], joined[c], mgr[c], nodeAddr[c])
  BY ClientFacts
<1>3. /\ NodeOK(transport, NewManager, h) /\ CardGrown(card[c], h)
      /\ LeadsAsBefore(card[c], h, 0, Nowhere) /\ Len(h) = Len(card[c])
      /\ \A k \in DOMAIN mgr[c].qps : h[mgr[c].qps[k]].state = "destroyed"
  BY <1>2, DestroyOK
<1>. HIDE DEF h
<1>4. /\ mgr'[c] = NewManager /\ card'[c] = h /\ pc'[c] = "idle" /\ clients'[c] = {}
      /\ addr'[c] = NoAddr /\ nodeAddr'[c] = << >> /\ joined'[c] = {} /\ spoiled'[c] = {}
      /\ call'[c] = call[c]
  BY <1>1, <1>2 DEF TypeInv
<1>5. answer'[c] = None
  BY <1>1, NoAnswer DEF IInv
<1>6. OnlyClient(c)
  <2>1. \A n \in Nodes : n # c => mgr'[n] = mgr[n] /\ card'[n] = card[n]
    BY <1>1, <1>2 DEF TypeInv
  <2>2. \A d \in Clients : d # c =>
          /\ pc'[d] = pc[d] /\ call'[d] = call[d] /\ clients'[d] = clients[d] /\ addr'[d] = addr[d]
          /\ nodeAddr'[d] = nodeAddr[d] /\ joined'[d] = joined[d] /\ spoiled'[d] = spoiled[d]
          /\ answer'[d] = answer[d]
    BY <1>1, <1>2 DEF TypeInv
  <2>. QED
    BY <1>1, <2>1, <2>2 DEF OnlyClient
<1>7. TypeInv'
  <2>1. NoAddr \in Addresses
    <3>1. << >> \in Tables(Servers, Nat)
      BY NoTable
    <3>. QED
      BY <3>1 DEF NoAddr, Addresses
  <2>2. "idle" \in Places /\ << >> \in Seq(Nat) /\ {} \in SUBSET Servers
    BY DEF Places
  <2>3. DOMAIN mgr' = Nodes /\ DOMAIN card' = Nodes
    BY <1>1, <1>2 DEF TypeInv
  <2>4. /\ pc' \in [Clients -> Places] /\ clients' \in [Clients -> SUBSET Servers]
        /\ addr' \in [Clients -> Addresses] /\ nodeAddr' \in [Clients -> Seq(Nat)]
        /\ joined' \in [Clients -> SUBSET Servers] /\ spoiled' \in [Clients -> SUBSET Servers]
    BY <1>1, <1>2, <2>1, <2>2 DEF TypeInv
  <2>. QED
    BY <1>1, <1>2, <2>3, <2>4 DEF TypeInv
<1>8. \A s \in Servers : \A i \in 1 .. Len(inbox[s]) : inbox[s][i].from # c
  BY <1>1, NoRequest DEF IInv
<1>9. SentOK(c)
  BY <1>1, SentNothing
<1>10. Leads(c, 0, Nowhere)
  BY <1>2, <1>3, <1>4, <1>6, LeadsFrom DEF IInv, OnlyClient
<1>11. Nowhere.num = 0
  BY NowhereFacts
<1>12. ClientOK(pc'[c], call'[c], clients'[c], addr'[c], joined'[c], mgr'[c], nodeAddr'[c])
  <2>1. DOMAIN NoAddr.data = {} /\ DOMAIN NoAddr.mgmt = {}
    BY DEF NoAddr
  <2>2. ClientOK("idle", call[c], {}, NoAddr, {}, NewManager, << >>)
    BY <2>1 DEF ClientOK, StoredOK, KeysOK, CallOK, IdsOK
  <2>. QED
    BY <1>4, <2>2
<1>13. \A s \in clients'[c] \ spoiled'[c] :
         \/ Unfinished(s, pc'[c], call'[c], joined'[c])
         \/ Linked(c, s, addr'[c], mgr'[c], queues[s], mgr[s])
  BY <1>4
<1>14. \A s \in Servers \ blanked :
         MgmtCallOK(c, s, pc'[c], call'[c], addr'[c], mgr'[c], mgr[s])
  BY <1>4 DEF MgmtCallOK
<1>15. ASSUME NEW s \in Servers, NEW to, NEW mto, LeadsBack(s, card[c], addr[c], mgr[c], to, mto)
       PROVE  LeadsBack(s, card'[c], addr'[c], mgr'[c], to, mto)
  <2>1. to \in 1 .. Len(h)
    BY <1>3, <1>15 DEF LeadsBack
  <2>2. h[to].state = "destroyed"
    <3>1. CASE card[c][to].state = "destroyed"
      BY <1>3, <1>15, <3>1 DEF LeadsBack, CardGrown
    <3>2. CASE s \in DOMAIN addr[c].mgmt /\ mgr[c].lconns[addr[c].data[s]] = to
      <4>1. s \in DOMAIN addr[c].data
        BY <1>2, <3>2 DEF ClientOK, StoredOK
      <4>2. addr[c].data[s] \in DOMAIN mgr[c].qps /\ mgr[c].qps[addr[c].data[s]] = to
        BY <1>2, <3>2, <4>1 DEF ClientOK, StoredOK, KeysOK
      <4>. QED
        BY <1>3, <4>2
    <3>. QED
      BY <1>15, <3>1, <3>2 DEF LeadsBack
  <2>. QED
    BY <1>4, <2>1, <2>2 DEF LeadsBack
<1>16. NodeOK(transport, mgr'[c], card'[c])
  BY <1>3, <1>4
<1>. QED
  BY <1>5, <1>6, <1>7, <1>8, <1>9, <1>10, <1>11, <1>12, <1>13, <1>14, <1>15, <1>16, ClientStepInv

\* The variables of client c after a step.
Becomes(c, p, cl, js, na, sv, ad, sp) ==
  /\ p \in Places /\ cl \in CallRecords /\ js \in SUBSET Servers /\ na \in Seq(Nat)
  /\ sv \in SUBSET Servers /\ ad \in Addresses /\ sp \in SUBSET Servers
  /\ pc' = [pc EXCEPT ![c] = p] /\ call' = [call EXCEPT ![c] = cl]
  /\ joined' = [joined EXCEPT ![c] = js] /\ nodeAddr' = [nodeAddr EXCEPT ![c] = na]
  /\ clients' = [clients EXCEPT ![c] = sv] /\ addr' = [addr EXCEPT ![c] = ad]
  /\ spoiled' = [spoiled EXCEPT ![c] = sp] /\ answer' = [answer EXCEPT ![c] = None]

\* Its tables and its card, with queue pair q that may lead to conn, and what was sent.
TablesBecome(c, m, h, q, conn) ==
  /\ \/ mgr' = [mgr EXCEPT ![c] = m] /\ card' = [card EXCEPT ![c] = h]
     \/ UNCHANGED <<mgr, card>> /\ m = mgr[c] /\ h = card[c]
  /\ NodeOK(transport, m, h) /\ CardGrown(card[c], h) /\ LeadsAsBefore(card[c], h, q, conn)
  /\ conn.num # 0 => answer[c] # None /\ conn = [lid |-> answer[c].lid, num |-> answer[c].num]
  /\ inbox' \in [Servers -> Seq(Requests)] /\ faults' \in 0 .. MaxFaults
  /\ UNCHANGED <<transport, queues, mgmtOf, down, blanked>>

\* A step of c in which its tables grow.
LEMMA TablesStep ==
  ASSUME IInv, NEW c \in Clients, NEW m, NEW h, NEW q, NEW conn, TablesBecome(c, m, h, q, conn),
         NEW p, NEW cl, NEW js, NEW na, NEW sv, NEW ad, NEW sp,
         Becomes(c, p, cl, js, na, sv, ad, sp),
         pc[c] # "wait" \/ answer[c] # None,
         SentOK(c), ClientOK(p, cl, sv, ad, js, m, na),
         \A s \in sv \ sp : Unfinished(s, p, cl, js) \/ Linked(c, s, ad, m, queues[s], mgr[s]),
         \A s \in Servers : \A to, mto :
           LeadsBack(s, card[c], addr[c], mgr[c], to, mto) => LeadsBack(s, h, ad, m, to, mto),
         \A s \in Servers \ blanked : MgmtCallOK(c, s, p, cl, ad, m, mgr[s])
  PROVE  IInv'
<1>. USE DEF TablesBecome, Becomes
<1>1. TypeInv /\ c \in Nodes
  BY ClientFacts
<1>2. /\ pc'[c] = p /\ call'[c] = cl /\ joined'[c] = js /\ nodeAddr'[c] = na /\ answer'[c] = None
      /\ clients'[c] = sv /\ addr'[c] = ad /\ spoiled'[c] = sp
      /\ \A d \in Clients : d # c =>
           /\ pc'[d] = pc[d] /\ call'[d] = call[d] /\ joined'[d] = joined[d]
           /\ nodeAddr'[d] = nodeAddr[d] /\ answer'[d] = answer[d]
           /\ clients'[d] = clients[d] /\ addr'[d] = addr[d] /\ spoiled'[d] = spoiled[d]
  BY <1>1 DEF TypeInv
<1>3. /\ mgr'[c] = m /\ card'[c] = h /\ DOMAIN mgr' = Nodes /\ DOMAIN card' = Nodes
      /\ \A n \in Nodes : n # c => mgr'[n] = mgr[n] /\ card'[n] = card[n]
  BY <1>1 DEF TypeInv
<1>4. OnlyClient(c)
  BY <1>2, <1>3 DEF OnlyClient
<1>5. TypeInv'
  <2>1. /\ pc' \in [Clients -> Places] /\ call' \in [Clients -> CallRecords]
        /\ joined' \in [Clients -> SUBSET Servers] /\ nodeAddr' \in [Clients -> Seq(Nat)]
    BY <1>1 DEF TypeInv
  <2>2. /\ answer' \in [Clients -> Answers \cup {None}] /\ clients' \in [Clients -> SUBSET Servers]
        /\ addr' \in [Clients -> Addresses] /\ spoiled' \in [Clients -> SUBSET Servers]
    BY <1>1 DEF TypeInv
  <2>. QED
    BY <1>1, <1>3, <2>1, <2>2 DEF TypeInv
<1>6. \A s \in Servers : \A i \in 1 .. Len(inbox[s]) : inbox[s][i].from # c
  BY NoRequest DEF IInv
<1>7. NodeOK(transport, mgr'[c], card'[c]) /\ answer'[c] = None
  BY <1>2, <1>3
<1>8. Leads(c, q, conn)
  BY <1>1, <1>3, <1>7, LeadsFrom DEF IInv
<1>9. ClientOK(pc'[c], call'[c], clients'[c], addr'[c], joined'[c], mgr'[c], nodeAddr'[c])
  BY <1>2, <1>3
<1>10. \A s \in clients'[c] \ spoiled'[c] :
         \/ Unfinished(s, pc'[c], call'[c], joined'[c])
         \/ Linked(c, s, addr'[c], mgr'[c], queues[s], mgr[s])
  BY <1>2, <1>3
<1>11. \A s \in Servers \ blanked :
         MgmtCallOK(c, s, pc'[c], call'[c], addr'[c], mgr'[c], mgr[s])
  BY <1>2, <1>3
<1>12. \A s \in Servers : \A to, mto :
         LeadsBack(s, card[c], addr[c], mgr[c], to, mto) =>
           LeadsBack(s, card'[c], addr'[c], mgr'[c], to, mto)
  BY <1>2, <1>3
<1>. QED
  BY <1>4, <1>5, <1>6, <1>7, <1>8, <1>9, <1>10, <1>11, <1>12, ClientStepInv

\* Which queue pairs lead back does not change while tables grow and addresses are kept.
LEMMA LeadsBackGrow ==
  ASSUME NEW s, NEW h, NEW h2, NEW ad, NEW ad2, NEW m, NEW m2, NEW to, NEW mto,
         LeadsBack(s, h, ad, m, to, mto), Len(h) \in Nat, Len(h2) \in Nat,
         CardGrown(h, h2), Grown(m, m2), KeysOK(ad, m), DOMAIN ad.mgmt \subseteq DOMAIN ad.data,
         \A t \in DOMAIN ad.mgmt :
           t \in DOMAIN ad2.mgmt /\ ad2.mgmt[t] = ad.mgmt[t] /\ ad2.data[t] = ad.data[t]
  PROVE  LeadsBack(s, h2, ad2, m2, to, mto)
<1>1. to \in 1 .. Len(h) /\ to \in 1 .. Len(h2)
  BY DEF LeadsBack, CardGrown
<1>2. CASE h[to].state = "destroyed"
  BY <1>1, <1>2 DEF LeadsBack, CardGrown
<1>3. CASE s \in DOMAIN ad.mgmt /\ m.lconns[ad.data[s]] = to /\ m.qps[ad.mgmt[s]] = mto
  <2>1. ad.data[s] \in DOMAIN m.qps /\ ad.mgmt[s] \in DOMAIN m.qps
    BY <1>3 DEF KeysOK
  <2>2. m2.lconns[ad.data[s]] = to /\ m2.qps[ad.mgmt[s]] = mto
    BY <1>3, <2>1 DEF Grown
  <2>. QED
    BY <1>1, <1>3, <2>2 DEF LeadsBack
<1>. QED
  BY <1>2, <1>3 DEF LeadsBack

\* The key k of a new queue pair is stored for the server of the call.
StoredKey(ad, queue, s, k) == [ad EXCEPT ![queue] = Put(@, s, k)]

KeyStored(ad, cl, sv, js, m2, na, k, ad2) ==
  /\ ad2 \in Addresses
  /\ StoredOK(sv, ad2, js, m2, na) /\ StoredOK(sv \cup {cl.srv}, ad2, js, m2, na)
  /\ CallOK("wait", cl, sv \cup {cl.srv}, ad2, js, m2)
  /\ \A t \in DOMAIN ad.mgmt :
       t \in DOMAIN ad2.mgmt /\ ad2.mgmt[t] = ad.mgmt[t] /\ ad2.data[t] = ad.data[t]
  /\ \A t \in sv : ad2.data[t] = ad.data[t]
  /\ cl.queue = "data" => ad2.data[cl.srv] = k
  /\ cl.queue = "mgmt" => ad2.mgmt[cl.srv] = k

\* The addresses are in order with the key of the new queue pair.
LEMMA StoreKey ==
  ASSUME NEW t, NEW m, NEW h, NEW m2, NEW h2, NEW mgmt, NEW k, NEW sv, NEW ad \in Addresses, NEW js,
         NEW na, NEW cl \in CallRecords, mgmt <=> cl.queue = "mgmt",
         NodeOK(t, m, h), Initialised(t, m, h, mgmt, "ok", k, m2, h2),
         StoredOK(sv, ad, js, m, na), CallOK("open", cl, sv, ad, js, m)
  PROVE  KeyStored(ad, cl, sv, js, m2, na, k, StoredKey(ad, cl.queue, cl.srv, k))
<1>. DEFINE s == cl.srv
            ad2 == StoredKey(ad, cl.queue, s, k)
<1>1. /\ s \in Servers /\ cl.queue \in {"data", "mgmt"} /\ (cl.queue = "data" => s \notin sv)
      /\ (cl.queue = "mgmt" => s \in sv /\ s \notin DOMAIN ad.mgmt)
  BY DEF CallOK
<1>2. /\ k \in Nat /\ k \notin DOMAIN m.qps /\ k \in DOMAIN m2.qps /\ m2.rconns = m.rconns
      /\ k \notin DOMAIN m2.rconns /\ Grown(m, m2)
      /\ (cl.queue = "data" => m2.lconns[k] = m2.qps[k])
  BY <1>1 DEF Initialised, NodeOK, TablesOK
<1>3. KeysOK(ad, m2) /\ KeysOK(ad, m)
  BY <1>2, KeysGrow DEF StoredOK
<1>4. /\ \A x \in DOMAIN ad.data : ad.data[x] # k
      /\ \A x \in DOMAIN ad.mgmt : ad.mgmt[x] # k
  BY <1>2, <1>3 DEF KeysOK
<1>5. ad.data \in Tables(Servers, Nat) /\ ad.mgmt \in Tables(Servers, Nat)
  BY DEF Addresses
<1>6. /\ sv \subseteq DOMAIN ad.data /\ DOMAIN ad.mgmt \subseteq sv /\ js \subseteq sv
      /\ IdsOK(na, js, ad)
  BY DEF StoredOK
<1>7. CASE cl.queue = "data"
  <2>. DEFINE a == Put(ad.data, s, k)
              b == [ad EXCEPT !.data = a]
  <2>1. ad2 = b
    BY <1>7 DEF StoredKey
  <2>2. a \in Tables(Servers, Nat)
    BY <1>1, <1>2, <1>5, PutType
  <2>3. DOMAIN a = DOMAIN ad.data \cup {s} /\ a[s] = k /\ \A x \in DOMAIN ad.data : x # s => a[x] = ad.data[x]
    BY DEF Put
  <2>. HIDE DEF a
  <2>4. b \in Addresses /\ b.data = a /\ b.mgmt = ad.mgmt
    BY <2>2 DEF Addresses
  <2>. HIDE DEF b
  <2>5. \A x \in sv : b.data[x] = ad.data[x]
    BY <1>1, <1>6, <1>7, <2>3, <2>4
  <2>6. KeysOK(b, m2)
    <3>1. \A x \in DOMAIN b.data :
            b.data[x] \in DOMAIN m2.qps /\ m2.lconns[b.data[x]] = m2.qps[b.data[x]]
      BY <1>2, <1>3, <1>7, <2>3, <2>4 DEF KeysOK
    <3>2. \A x \in DOMAIN b.mgmt : b.mgmt[x] \in DOMAIN m2.qps
      BY <1>3, <2>4 DEF KeysOK
    <3>3. \A x, y \in DOMAIN b.data : b.data[x] = b.data[y] => x = y
      BY <1>3, <1>4, <2>3, <2>4 DEF KeysOK
    <3>4. \A x \in DOMAIN b.data, y \in DOMAIN b.mgmt : b.data[x] # b.mgmt[y]
      BY <1>3, <1>4, <2>3, <2>4 DEF KeysOK
    <3>. QED
      BY <3>1, <3>2, <3>3, <3>4 DEF KeysOK
  <2>7. IdsOK(na, js, b)
    BY <1>6, <2>5 DEF IdsOK
  <2>8. StoredOK(sv, b, js, m2, na) /\ StoredOK(sv \cup {s}, b, js, m2, na)
    BY <1>6, <2>3, <2>4, <2>6, <2>7 DEF StoredOK
  <2>9. CallOK("wait", cl, sv \cup {s}, b, js, m2)
    BY <1>1, <1>2, <1>6, <1>7, <2>3, <2>4 DEF CallOK
  <2>10. \A x \in DOMAIN ad.mgmt :
           x \in DOMAIN b.mgmt /\ b.mgmt[x] = ad.mgmt[x] /\ b.data[x] = ad.data[x]
    BY <1>6, <2>4, <2>5
  <2>11. b.data[s] = k
    BY <2>3, <2>4
  <2>. QED
    BY <1>7, <2>1, <2>4, <2>5, <2>8, <2>9, <2>10, <2>11 DEF KeyStored
<1>8. CASE cl.queue = "mgmt"
  <2>. DEFINE a == Put(ad.mgmt, s, k)
              b == [ad EXCEPT !.mgmt = a]
  <2>1. ad2 = b
    BY <1>8 DEF StoredKey
  <2>2. a \in Tables(Servers, Nat)
    BY <1>1, <1>2, <1>5, PutType
  <2>3. DOMAIN a = DOMAIN ad.mgmt \cup {s} /\ a[s] = k /\ \A x \in DOMAIN ad.mgmt : x # s => a[x] = ad.mgmt[x]
    BY DEF Put
  <2>. HIDE DEF a
  <2>4. b \in Addresses /\ b.mgmt = a /\ b.data = ad.data
    BY <2>2 DEF Addresses
  <2>. HIDE DEF b
  <2>5. \A x \in DOMAIN ad.mgmt :
          x \in DOMAIN b.mgmt /\ b.mgmt[x] = ad.mgmt[x] /\ b.data[x] = ad.data[x]
    BY <1>1, <1>8, <2>3, <2>4
  <2>6. KeysOK(b, m2)
    <3>1. \A x \in DOMAIN b.mgmt : b.mgmt[x] \in DOMAIN m2.qps
      BY <1>2, <1>3, <2>3, <2>4 DEF KeysOK
    <3>2. \A x \in DOMAIN b.data, y \in DOMAIN b.mgmt : b.data[x] # b.mgmt[y]
      BY <1>3, <1>4, <2>3, <2>4 DEF KeysOK
    <3>. QED
      BY <1>3, <2>4, <3>1, <3>2 DEF KeysOK
  <2>7. IdsOK(na, js, b)
    BY <1>6, <2>4 DEF IdsOK
  <2>8. sv \cup {s} = sv
    BY <1>1, <1>8
  <2>9. StoredOK(sv, b, js, m2, na)
    BY <1>1, <1>6, <1>8, <2>3, <2>4, <2>6, <2>7 DEF StoredOK
  <2>10. CallOK("wait", cl, sv, b, js, m2)
    BY <1>1, <1>2, <1>8, <2>3, <2>4 DEF CallOK
  <2>11. b.mgmt[s] = k /\ \A x \in sv : b.data[x] = ad.data[x]
    BY <2>3, <2>4
  <2>. QED
    BY <1>8, <2>1, <2>4, <2>5, <2>8, <2>9, <2>10, <2>11 DEF KeyStored
<1>. QED
  BY <1>1, <1>7, <1>8

\* A link is kept when the client's tables grow.
LEMMA ClientLinkGrow ==
  ASSUME IInv, NEW c \in Clients, NEW s \in Servers, NEW m2, NEW ad2,
         Linked(c, s, addr[c], mgr[c], queues[s], mgr[s]),
         Grown(mgr[c], m2), ad2.data[s] = addr[c].data[s]
  PROVE  Linked(c, s, ad2, m2, queues[s], mgr[s])
<1>1. NodeOK(transport, mgr[c], card[c]) /\ NodeOK(transport, mgr[s], card[s])
  BY Sides DEF IInv, NodesInv
<1>2. Grown(mgr[s], mgr[s])
  BY <1>1 DEF Grown, NodeOK, TablesOK
<1>3. QueuesGrown(queues[s], queues[s])
  BY LenProperties DEF IInv, TypeInv, QueuesGrown
<1>. QED
  BY <1>1, <1>2, <1>3, LinkGrow

\* What is remembered of a failure.
LEMMA SpoilEffect ==
  ASSUME TypeInv, NEW c \in Clients, call[c].srv \in Servers, NEW bad, Spoil(c, bad)
  PROVE  \E sp \in SUBSET Servers : /\ spoiled' = [spoiled EXCEPT ![c] = sp] /\ spoiled[c] \subseteq sp
                                    /\ bad => call[c].srv \in sp
<1>1. spoiled[c] \in SUBSET Servers /\ spoiled = [spoiled EXCEPT ![c] = spoiled[c]]
  BY DEF TypeInv
<1>2. CASE bad
  <2>1. spoiled' = [spoiled EXCEPT ![c] = spoiled[c] \cup {call[c].srv}]
    BY <1>2 DEF Spoil
  <2>. QED
    BY <1>1, <2>1
<1>3. CASE ~ bad
  <2>1. spoiled' = spoiled
    BY <1>3 DEF Spoil
  <2>. QED
    BY <1>1, <1>3, <2>1
<1>. QED
  BY <1>2, <1>3

\* The queue pairs of c lead back as before when a key was stored.
LEMMA StoredLeadsBack ==
  ASSUME IInv, NEW c \in Clients, NEW m2, NEW h2, NEW ad2, NodeOK(transport, m2, h2),
         CardGrown(card[c], h2), Grown(mgr[c], m2),
         \A t \in DOMAIN addr[c].mgmt : /\ t \in DOMAIN ad2.mgmt /\ ad2.mgmt[t] = addr[c].mgmt[t]
                                        /\ ad2.data[t] = addr[c].data[t]
  PROVE  \A s \in Servers : \A to, mto :
           LeadsBack(s, card[c], addr[c], mgr[c], to, mto) => LeadsBack(s, h2, ad2, m2, to, mto)
<1>1. Len(card[c]) \in Nat /\ Len(h2) \in Nat
  BY ClientFacts, LenProperties DEF NodeOK
<1>2. KeysOK(addr[c], mgr[c]) /\ DOMAIN addr[c].mgmt \subseteq DOMAIN addr[c].data
  BY ClientFacts DEF ClientOK, StoredOK
<1>. QED
  BY <1>1, <1>2, LeadsBackGrow

\* initQP, the socket and the request.
LEMMA OpenQueueInv ==
  ASSUME IInv, NEW c \in Clients, OpenQueue(c)
  PROVE  IInv'
<1>. DEFINE cl == call[c]
            s == cl.srv
            m == mgr[c]
            sv == clients[c]
            js == joined[c]
            na == nodeAddr[c]
            mgmt == (cl.queue = "mgmt")
<1>1. PICK r \in InitQP(c, mgmt) :
        /\ Install(c, r)
        /\ IF r.st # "ok" THEN /\ Fail(c) /\ Spoil(c, mgmt) /\ UNCHANGED <<addr, clients, inbox>>
           ELSE /\ addr' = [addr EXCEPT ![c][cl.queue] = Put(@, cl.srv, r.key)]
                /\ \/ cl.queue = "data" /\ Fail(c) /\ UNCHANGED <<clients, inbox, spoiled>>
                   \/ /\ clients' = [clients EXCEPT ![c] = @ \cup {cl.srv}]
                      /\ Fail(c) /\ Spoil(c, TRUE) /\ UNCHANGED inbox
                   \/ /\ clients' = [clients EXCEPT ![c] = @ \cup {cl.srv}]
                      /\ Outcome(TRUE) /\ GoTo(c, "wait", cl)
                      /\ inbox' = [inbox EXCEPT ![cl.srv] = Append(@,
                           Request(c, cl.queue, QPNumber(r.mgr, cl.queue, r.key, c),
                                   cl.server_connkey))]
                      /\ UNCHANGED spoiled
  BY DEF OpenQueue
<1>2. /\ pc[c] = "open" /\ UNCHANGED <<transport, queues, mgmtOf, down, blanked>>
      /\ UNCHANGED answer
  BY DEF OpenQueue
<1>. DEFINE m2 == r.mgr
            h2 == r.card
            k == r.key
            ad2 == StoredKey(addr[c], cl.queue, s, k)
<1>3. /\ TypeInv /\ c \in Nodes /\ NodeOK(transport, m, card[c]) /\ m \in Managers
      /\ cl \in CallRecords /\ sv \in SUBSET Servers /\ addr[c] \in Addresses
      /\ na \in Seq(Nat) /\ js \in SUBSET Servers /\ spoiled[c] \in SUBSET Servers
      /\ inbox \in [Servers -> Seq(Requests)]
      /\ StoredOK(sv, addr[c], js, m, na) /\ CallOK("open", cl, sv, addr[c], js, m)
  BY <1>2, ClientFacts DEF ClientOK
<1>4. s \in Servers /\ cl.queue \in {"data", "mgmt"} /\ (cl.queue = "mgmt" => s \in sv)
  BY <1>3 DEF CallOK
<1>5. Initialised(transport, m, card[c], mgmt, r.st, k, m2, h2)
  BY <1>1, <1>3, InitQPOK
<1>6. /\ NodeOK(transport, m2, h2) /\ Grown(m, m2) /\ CardGrown(card[c], h2)
      /\ LeadsAsBefore(card[c], h2, 0, Nowhere)
  BY <1>5 DEF Initialised
<1>7. mgr' = [mgr EXCEPT ![c] = m2] /\ card' = [card EXCEPT ![c] = h2]
  BY <1>1 DEF Install
<1>8. answer' = [answer EXCEPT ![c] = None] /\ answer[c] = None
  BY <1>2, NoAnswer DEF IInv
<1>9. \A t \in sv \ spoiled[c] : Linked(c, t, addr[c], m, queues[t], mgr[t])
  BY <1>2, LinksNow DEF IInv
<1>10. Nowhere.num = 0
  BY NowhereFacts
<1>11. /\ "idle" \in Places /\ "wait" \in Places /\ NoCall \in CallRecords
       /\ \A x, y, z, w : CallOK("idle", NoCall, x, y, z, w)
       /\ \A t, x, y, z : MgmtCallOK(c, t, "idle", NoCall, x, y, z)
  BY NoCallFacts DEF Places, CallOK, MgmtCallOK
<1>12. clients = [clients EXCEPT ![c] = sv] /\ addr = [addr EXCEPT ![c] = addr[c]]
       /\ spoiled = [spoiled EXCEPT ![c] = spoiled[c]]
  BY <1>3 DEF TypeInv
<1>13. Fail(c) => /\ pc' = [pc EXCEPT ![c] = "idle"] /\ call' = [call EXCEPT ![c] = NoCall]
                  /\ joined' = [joined EXCEPT ![c] = js] /\ nodeAddr' = [nodeAddr EXCEPT ![c] = na]
                  /\ faults' \in 0 .. MaxFaults
  BY <1>3, ClientFacts, OutcomeType DEF Fail, GoTo
<1>14. addr[c] = [addr[c] EXCEPT !.data = addr[c].data]
  BY <1>3 DEF Addresses
<1>. HIDE DEF m, sv, js, na, mgmt
<1>15. CASE r.st # "ok"
  <2>1. Fail(c) /\ Spoil(c, mgmt) /\ UNCHANGED <<addr, clients, inbox>>
    BY <1>1, <1>15
  <2>2. PICK sp \in SUBSET Servers :
          spoiled' = [spoiled EXCEPT ![c] = sp] /\ spoiled[c] \subseteq sp
    BY <1>3, <1>4, <2>1, SpoilEffect
  <2>3. StoredOK(sv, addr[c], js, m2, na)
    BY <1>3, <1>6, KeysGrow DEF StoredOK
  <2>4. ClientOK("idle", NoCall, sv, addr[c], js, m2, na)
    BY <1>11, <2>3 DEF ClientOK
  <2>5. \A t \in sv \ sp : Linked(c, t, addr[c], m2, queues[t], mgr[t])
    BY <1>3, <1>6, <1>9, <2>2, ClientLinkGrow DEF m
  <2>6. \A t \in Servers : \A to, mto :
          LeadsBack(t, card[c], addr[c], mgr[c], to, mto) => LeadsBack(t, h2, addr[c], m2, to, mto)
    BY <1>6, StoredLeadsBack DEF m
  <2>7. SentOK(c) /\ inbox' \in [Servers -> Seq(Requests)]
    BY <1>3, <2>1, SentNothing
  <2>8. clients' = [clients EXCEPT ![c] = sv] /\ addr' = [addr EXCEPT ![c] = addr[c]]
    BY <1>12, <2>1
  <2>9. /\ pc' = [pc EXCEPT ![c] = "idle"] /\ call' = [call EXCEPT ![c] = NoCall]
        /\ joined' = [joined EXCEPT ![c] = js] /\ nodeAddr' = [nodeAddr EXCEPT ![c] = na]
        /\ faults' \in 0 .. MaxFaults
    BY <1>13, <2>1
  <2>10. \A t \in Servers \ blanked : MgmtCallOK(c, t, "idle", NoCall, addr[c], m2, mgr[t])
    BY <1>11
  <2>11. "idle" \in Places /\ NoCall \in CallRecords
    BY <1>11
  <2>12. sp \in SUBSET Servers /\ spoiled' = [spoiled EXCEPT ![c] = sp]
    BY <2>2
  <2>. HIDE DEF m2, h2, k, ad2, cl, s
  <2>13. Becomes(c, "idle", NoCall, js, na, sv, addr[c], sp)
    BY <1>3, <1>8, <2>8, <2>9, <2>11, <2>12 DEF Becomes
  <2>14. TablesBecome(c, m2, h2, 0, Nowhere)
    BY <1>2, <1>6, <1>7, <1>10, <2>7, <2>9 DEF TablesBecome
  <2>. QED
    BY <1>2, <2>4, <2>5, <2>6, <2>7, <2>10, <2>13, <2>14, TablesStep
<1>16. CASE r.st = "ok"
  <2>1. KeyStored(addr[c], cl, sv, js, m2, na, k, ad2)
    <3>1. Initialised(transport, m, card[c], mgmt, "ok", k, m2, h2)
      BY <1>5, <1>16
    <3>2. mgmt <=> cl.queue = "mgmt"
      BY DEF mgmt
    <3>. QED
      BY <1>3, <3>1, <3>2, StoreKey
  <2>2. addr' = [addr EXCEPT ![c] = ad2]
    BY <1>1, <1>3, <1>16 DEF StoredKey, TypeInv
  <2>. HIDE DEF ad2
  <2>3. /\ ad2 \in Addresses /\ StoredOK(sv, ad2, js, m2, na)
        /\ StoredOK(sv \cup {s}, ad2, js, m2, na) /\ CallOK("wait", cl, sv \cup {s}, ad2, js, m2)
    BY <2>1 DEF KeyStored
  <2>4. \A t \in sv \ spoiled[c] : Linked(c, t, ad2, m2, queues[t], mgr[t])
    <3>1. \A t \in sv : ad2.data[t] = addr[c].data[t]
      BY <2>1 DEF KeyStored
    <3>. QED
      BY <1>3, <1>6, <1>9, <3>1, ClientLinkGrow DEF m
  <2>5. \A t \in Servers : \A to, mto :
          LeadsBack(t, card[c], addr[c], mgr[c], to, mto) => LeadsBack(t, h2, ad2, m2, to, mto)
    <3>1. \A t \in DOMAIN addr[c].mgmt : /\ t \in DOMAIN ad2.mgmt /\ ad2.mgmt[t] = addr[c].mgmt[t]
                                         /\ ad2.data[t] = addr[c].data[t]
      BY <2>1 DEF KeyStored
    <3>. QED
      BY <1>6, <3>1, StoredLeadsBack DEF m
  <2>6. ClientOK("idle", NoCall, sv, ad2, js, m2, na) /\ ClientOK("idle", NoCall, sv \cup {s}, ad2, js, m2, na)
    BY <1>11, <2>3 DEF ClientOK
  <2>7. sv \cup {s} \in SUBSET Servers
    BY <1>3, <1>4
  <2>8. \A t \in Servers \ blanked : MgmtCallOK(c, t, "idle", NoCall, ad2, m2, mgr[t])
    BY <1>11
  <2>9. "idle" \in Places /\ NoCall \in CallRecords
    BY <1>11
  <2>10. CASE cl.queue = "data" /\ Fail(c) /\ UNCHANGED <<clients, inbox, spoiled>>
    <3>1. SentOK(c) /\ inbox' \in [Servers -> Seq(Requests)]
      BY <1>3, <2>10, SentNothing
    <3>2. clients' = [clients EXCEPT ![c] = sv] /\ spoiled' = [spoiled EXCEPT ![c] = spoiled[c]]
      BY <1>12, <2>10
    <3>3. /\ pc' = [pc EXCEPT ![c] = "idle"] /\ call' = [call EXCEPT ![c] = NoCall]
          /\ joined' = [joined EXCEPT ![c] = js] /\ nodeAddr' = [nodeAddr EXCEPT ![c] = na]
          /\ faults' \in 0 .. MaxFaults
      BY <1>13, <2>10
    <3>. HIDE DEF m2, h2, k, cl, s
    <3>4. Becomes(c, "idle", NoCall, js, na, sv, ad2, spoiled[c])
      BY <1>3, <1>8, <2>9, <2>2, <2>3, <3>2, <3>3 DEF Becomes
    <3>5. TablesBecome(c, m2, h2, 0, Nowhere)
      BY <1>2, <1>6, <1>7, <1>10, <3>1, <3>3 DEF TablesBecome
    <3>. QED
      BY <1>2, <2>8, <2>4, <2>5, <2>6, <3>1, <3>4, <3>5, TablesStep
  <2>11. CASE /\ clients' = [clients EXCEPT ![c] = @ \cup {cl.srv}]
             /\ Fail(c) /\ Spoil(c, TRUE) /\ UNCHANGED inbox
    <3>1. PICK sp \in SUBSET Servers :
            spoiled' = [spoiled EXCEPT ![c] = sp] /\ spoiled[c] \subseteq sp /\ s \in sp
      BY <1>3, <1>4, <2>11, SpoilEffect
    <3>2. SentOK(c) /\ inbox' \in [Servers -> Seq(Requests)]
      BY <1>3, <2>11, SentNothing
    <3>3. clients' = [clients EXCEPT ![c] = sv \cup {s}]
      BY <2>11 DEF sv
    <3>4. \A t \in (sv \cup {s}) \ sp : Linked(c, t, ad2, m2, queues[t], mgr[t])
      BY <2>4, <3>1
    <3>5. /\ pc' = [pc EXCEPT ![c] = "idle"] /\ call' = [call EXCEPT ![c] = NoCall]
          /\ joined' = [joined EXCEPT ![c] = js] /\ nodeAddr' = [nodeAddr EXCEPT ![c] = na]
          /\ faults' \in 0 .. MaxFaults
      BY <1>13, <2>11
    <3>6. sp \in SUBSET Servers /\ spoiled' = [spoiled EXCEPT ![c] = sp]
      BY <3>1
    <3>. HIDE DEF m2, h2, k, cl, s
    <3>7. Becomes(c, "idle", NoCall, js, na, sv \cup {s}, ad2, sp)
      BY <1>3, <1>8, <2>9, <2>2, <2>3, <2>7, <3>3, <3>5, <3>6 DEF Becomes
    <3>8. TablesBecome(c, m2, h2, 0, Nowhere)
      BY <1>2, <1>6, <1>7, <1>10, <3>2, <3>5 DEF TablesBecome
    <3>. QED
      BY <1>2, <2>8, <2>5, <2>6, <3>2, <3>4, <3>7, <3>8, TablesStep
  <2>12. CASE /\ clients' = [clients EXCEPT ![c] = @ \cup {cl.srv}]
              /\ Outcome(TRUE) /\ GoTo(c, "wait", cl)
              /\ inbox' = [inbox EXCEPT ![cl.srv] = Append(@,
                   Request(c, cl.queue, QPNumber(r.mgr, cl.queue, r.key, c), cl.server_connkey))]
              /\ UNCHANGED spoiled
    <3>. DEFINE num == QPNumber(m2, cl.queue, k, c)
                rq == Request(c, cl.queue, num, cl.server_connkey)
    <3>1. /\ pc' = [pc EXCEPT ![c] = "wait"] /\ call' = [call EXCEPT ![c] = cl]
          /\ joined' = [joined EXCEPT ![c] = js] /\ nodeAddr' = [nodeAddr EXCEPT ![c] = na]
          /\ faults' \in 0 .. MaxFaults
      BY <1>3, <2>12, ClientFacts, OutcomeType DEF GoTo, js, na
    <3>2. clients' = [clients EXCEPT ![c] = sv \cup {s}] /\ spoiled' = [spoiled EXCEPT ![c] = spoiled[c]]
      BY <1>12, <2>12 DEF sv
    <3>3. /\ k \in DOMAIN m2.qps /\ (cl.queue = "data" => m2.lconns[k] = m2.qps[k])
          /\ (transport = "rc" => m2.qps[k] = Len(card[c]) + 1 /\ Len(h2) = Len(card[c]) + 1)
      BY <1>4, <1>5, <1>16 DEF Initialised, mgmt
    <3>4. num = m2.qps[k] /\ num \in Nat
      <4>1. m2.qps[k] \in Nat
        BY <1>6, <3>3, ManagerFacts, TableFacts DEF NodeOK
      <4>. QED
        BY <1>4, <3>3, <4>1 DEF QPNumber
    <3>5. inbox' = [inbox EXCEPT ![s] = Append(@, rq)]
      BY <2>12
    <3>6. cl.server_connkey \in Nat
      BY <1>3 DEF CallRecords
    <3>. HIDE DEF num
    <3>7. /\ rq \in Requests /\ rq.from = c /\ rq.queue = cl.queue /\ rq.num = num
          /\ rq.server_connkey = cl.server_connkey
      BY <1>4, <3>4, <3>6 DEF Request, Requests
    <3>. HIDE DEF rq
    <3>8. /\ pc'[c] = "wait" /\ call'[c] = cl /\ answer'[c] = None /\ addr'[c] = ad2
          /\ mgr'[c] = m2 /\ card'[c] = h2
      BY <1>3, <1>7, <1>8, <2>2, <3>1 DEF TypeInv
    <3>9. RequestOK(rq, s, "wait", cl, None, ad2, m2)
      BY <1>4, <2>1, <3>4, <3>7 DEF RequestOK, KeyStored, DataQP
    <3>10. transport = "rc" /\ rq.num # 0 =>
             rq.num = Len(card[c]) + 1 /\ Len(card[c]) + 1 <= Len(card'[c])
      <4>1. Len(card[c]) \in Nat
        BY <1>3, LenProperties DEF NodeOK
      <4>. QED
        BY <3>3, <3>4, <3>7, <3>8, <4>1
    <3>11. SentOK(c) /\ inbox' \in [Servers -> Seq(Requests)]
      BY <1>3, <1>4, <3>5, <3>7, <3>8, <3>9, <3>10, SentOne
    <3>12. ClientOK("wait", cl, sv \cup {s}, ad2, js, m2, na)
      BY <2>3 DEF ClientOK
    <3>13. \A t \in (sv \cup {s}) \ spoiled[c] :
             Unfinished(t, "wait", cl, js) \/ Linked(c, t, ad2, m2, queues[t], mgr[t])
      <4>. SUFFICES ASSUME NEW t \in (sv \cup {s}) \ spoiled[c], t \notin sv
                    PROVE  Unfinished(t, "wait", cl, js)
        BY <2>4
      <4>1. t = s /\ cl.queue = "data" /\ t \notin js
        BY <1>3, <1>4 DEF StoredOK
      <4>. QED
        BY <4>1 DEF Unfinished
    <3>14. \A t \in Servers \ blanked : MgmtCallOK(c, t, "wait", cl, ad2, m2, mgr[t])
      <4>. SUFFICES ASSUME NEW t \in Servers \ blanked, cl.queue = "mgmt", cl.srv = t
                    PROVE  /\ cl.server_connkey \in DOMAIN mgr[t].rconns
                           /\ mgr[t].rconns[cl.server_connkey] = [lid |-> c, num |-> DataQP(ad2, m2, t)]
        BY DEF MgmtCallOK
      <4>1. MgmtCallOK(c, t, pc[c], cl, addr[c], m, mgr[t])
        BY DEF IInv, MgmtInv, m
      <4>2. /\ cl.server_connkey \in DOMAIN mgr[t].rconns
            /\ mgr[t].rconns[cl.server_connkey] = [lid |-> c, num |-> DataQP(addr[c], m, t)]
        BY <1>2, <4>1 DEF MgmtCallOK
      <4>3. ad2.data[t] = addr[c].data[t] /\ addr[c].data[t] \in DOMAIN m.qps
        BY <1>3, <1>4, <2>1 DEF KeyStored, StoredOK, KeysOK
      <4>4. DataQP(ad2, m2, t) = DataQP(addr[c], m, t)
        BY <1>6, <4>3 DEF DataQP, Grown
      <4>. QED
        BY <4>2, <4>4
    <3>. HIDE DEF m2, h2, k, cl, s
    <3>15. Becomes(c, "wait", cl, js, na, sv \cup {s}, ad2, spoiled[c])
      BY <1>3, <1>8, <1>11, <2>2, <2>3, <2>7, <3>1, <3>2 DEF Becomes
    <3>16. TablesBecome(c, m2, h2, 0, Nowhere)
      BY <1>2, <1>6, <1>7, <1>10, <3>1, <3>11 DEF TablesBecome
    <3>. QED
      BY <1>2, <2>5, <3>11, <3>12, <3>13, <3>14, <3>15, <3>16, TablesStep
  <2>. QED
    BY <1>1, <1>16, <2>10, <2>11, <2>12
<1>. QED
  BY <1>15, <1>16

\* The answer is put into the tables: the tables m2 and the card h2.
LEMMA AnswerConnects ==
  ASSUME IInv, NEW c \in Clients, pc[c] = "wait", answer[c] # None, call[c].queue # "mem",
         NEW r \in Answered(c, addr[c][call[c].queue][call[c].srv], answer[c])
  PROVE  LET k == addr[c][call[c].queue][call[c].srv]
             conn == [lid |-> answer[c].lid, num |-> answer[c].num]
         IN /\ conn \in Conns /\ k \in DOMAIN mgr[c].qps
            /\ Connected(transport, mgr[c], card[c], k, conn, r.st, r.mgr, r.card)
<1>. DEFINE cl == call[c]
            k == addr[c][cl.queue][cl.srv]
            conn == [lid |-> answer[c].lid, num |-> answer[c].num]
<1>1. /\ cl \in CallRecords /\ NodeOK(transport, mgr[c], card[c])
      /\ StoredOK(clients[c], addr[c], joined[c], mgr[c], nodeAddr[c])
      /\ CallOK("wait", cl, clients[c], addr[c], joined[c], mgr[c]) /\ answer[c] \in Answers
  BY ClientFacts DEF ClientOK
<1>2. cl.queue \in {"data", "mgmt"}
  BY <1>1 DEF CallRecords
<1>3. k \in DOMAIN mgr[c].qps /\ k \notin DOMAIN mgr[c].rconns
  <2>1. CASE cl.queue = "data"
    <3>1. k = addr[c].data[cl.srv] /\ cl.srv \in DOMAIN addr[c].data /\ k \notin DOMAIN mgr[c].rconns
      BY <1>1, <2>1 DEF CallOK, StoredOK
    <3>. QED
      BY <1>1, <3>1 DEF StoredOK, KeysOK
  <2>2. CASE cl.queue = "mgmt"
    <3>1. k = addr[c].mgmt[cl.srv] /\ cl.srv \in DOMAIN addr[c].mgmt /\ k \notin DOMAIN mgr[c].rconns
      BY <1>1, <2>2 DEF CallOK
    <3>. QED
      BY <1>1, <3>1 DEF StoredOK, KeysOK
  <2>. QED
    BY <1>2, <2>1, <2>2
<1>4. conn \in Conns
  BY <1>1 DEF Answers, Conns
<1>. HIDE DEF k, conn
<1>5. r \in ConnectQP(SetRemoteConnData(mgr[c], k, conn), card[c], k)
  BY DEF Answered, k, conn
<1>6. Connected(transport, mgr[c], card[c], k, conn, r.st, r.mgr, r.card)
  BY <1>1, <1>3, <1>4, <1>5, ConnectOK
<1>. QED
  BY <1>3, <1>4, <1>6 DEF k, conn

\* What a client that receives an answer has: the answer tells of the server's end.
LEMMA AnswerFacts ==
  ASSUME IInv, NEW c \in Clients, answer[c] # None, call[c].queue = "data"
  PROVE  LET s == call[c].srv
         IN IF answer[c] = Blank THEN s \in blanked
            ELSE /\ answer[c].lid = s /\ mgr[s].qps[answer[c].key] = answer[c].num
                 /\ ServerEnd(queues[s], mgr[s], answer[c].key, c, DataQP(addr[c], mgr[c], s))
BY DEF IInv, AnswersInv, AnswerOK

\* The links of c after the answer, but for the server of a failed or blank one.
LEMMA AnswerLinks ==
  ASSUME IInv, NEW c \in Clients, pc[c] = "wait", answer[c] # None, call[c].srv \in Servers,
         NEW k, k = addr[c][call[c].queue][call[c].srv], NEW st, NEW m2, NEW h2,
         Connected(transport, mgr[c], card[c], k, [lid |-> answer[c].lid, num |-> answer[c].num],
                   st, m2, h2),
         NEW sp, spoiled[c] \subseteq sp, st # "ok" \/ answer[c] = Blank => call[c].srv \in sp
  PROVE  \A t \in clients[c] \ sp : Linked(c, t, addr[c], m2, queues[t], mgr[t])
<1>. SUFFICES ASSUME NEW t \in clients[c] \ sp
              PROVE  Linked(c, t, addr[c], m2, queues[t], mgr[t])
  OBVIOUS
<1>1. t \in Servers /\ t \in clients[c] \ spoiled[c]
  BY ClientFacts
<1>2. Grown(mgr[c], m2) /\ m2.qps = mgr[c].qps
  BY DEF Connected
<1>3. CASE Linked(c, t, addr[c], mgr[c], queues[t], mgr[t])
  BY <1>1, <1>2, <1>3, ClientLinkGrow
<1>4. CASE call[c].queue = "data" /\ call[c].srv = t
  <2>. DEFINE a == answer[c]
  <2>1. st = "ok" /\ a # Blank /\ k = addr[c].data[t]
    BY <1>4
  <2>2. /\ a.lid = t /\ mgr[t].qps[a.key] = a.num
        /\ ServerEnd(queues[t], mgr[t], a.key, c, DataQP(addr[c], mgr[c], t))
    BY <1>4, <2>1, AnswerFacts
  <2>3. k \in m2.connected /\ m2.rconns[k].lid = a.lid /\ m2.rconns[k].num = a.num
    BY <2>1 DEF Connected
  <2>4. DataQP(addr[c], m2, t) = DataQP(addr[c], mgr[c], t)
    BY <1>2 DEF DataQP
  <2>5. a.key \in mgr[t].connected
    BY <2>2 DEF ServerEnd
  <2>. QED
    BY <2>1, <2>2, <2>3, <2>4, <2>5 DEF Linked
<1>. QED
  BY <1>1, <1>3, <1>4 DEF IInv, LinksInv, Unfinished

\* The answer is received and the queue pair connected; the call goes on or ends.
LEMMA ReceiveConnInv ==
  ASSUME IInv, NEW c \in Clients, ReceiveConn(c)
  PROVE  IInv'
<1>. DEFINE a == answer[c]
            cl == call[c]
            s == cl.srv
            sv == clients[c]
            ad == addr[c]
            js == joined[c]
            na == nodeAddr[c]
            k == ad[cl.queue][s]
            conn == [lid |-> a.lid, num |-> a.num]
<1>1. /\ pc[c] = "wait" /\ a # None /\ cl.queue # "mem"
      /\ answer' = [answer EXCEPT ![c] = None]
      /\ UNCHANGED <<transport, queues, mgmtOf, down, blanked>> /\ UNCHANGED <<clients, addr, inbox>>
  BY DEF ReceiveConn, server
<1>2. /\ TypeInv /\ NodeOK(transport, mgr[c], card[c]) /\ cl \in CallRecords
      /\ sv \in SUBSET Servers /\ ad \in Addresses /\ na \in Seq(Nat) /\ js \in SUBSET Servers
      /\ inbox \in [Servers -> Seq(Requests)]
      /\ StoredOK(sv, ad, js, mgr[c], na) /\ CallOK("wait", cl, sv, ad, js, mgr[c])
  BY <1>1, ClientFacts DEF ClientOK
<1>3. s \in Servers /\ cl.queue \in {"data", "mgmt"} /\ s \in sv
  BY <1>1, <1>2 DEF CallOK, CallRecords, StoredOK
<1>4. clients' = [clients EXCEPT ![c] = sv] /\ addr' = [addr EXCEPT ![c] = ad]
  BY <1>1, <1>2 DEF TypeInv
<1>5. SentOK(c) /\ inbox' \in [Servers -> Seq(Requests)]
  BY <1>1, <1>2, SentNothing
<1>6. /\ "idle" \in Places /\ "open" \in Places /\ "ask" \in Places /\ NoCall \in CallRecords
      /\ \A x, y, z, w : CallOK("idle", NoCall, x, y, z, w)
      /\ \A p \in {"idle", "ask"} : \A t, b, x, y, z : MgmtCallOK(c, t, p, b, x, y, z)
  BY NoCallFacts DEF Places, CallOK, MgmtCallOK
<1>7. GoTo(c, "idle", NoCall) =>
        /\ pc' = [pc EXCEPT ![c] = "idle"] /\ call' = [call EXCEPT ![c] = NoCall]
        /\ joined' = [joined EXCEPT ![c] = js] /\ nodeAddr' = [nodeAddr EXCEPT ![c] = na]
  BY ClientFacts DEF GoTo
<1>. HIDE DEF sv, ad, js, na
<1>8. ASSUME NEW p, NEW cl2, NEW js2, NEW na2, NEW sp, NEW m2, NEW h2, NEW q, NEW con,
             p \in Places, cl2 \in CallRecords, js2 \in SUBSET Servers, na2 \in Seq(Nat),
             sp \in SUBSET Servers,
             pc' = [pc EXCEPT ![c] = p], call' = [call EXCEPT ![c] = cl2],
             joined' = [joined EXCEPT ![c] = js2], nodeAddr' = [nodeAddr EXCEPT ![c] = na2],
             spoiled' = [spoiled EXCEPT ![c] = sp]
      PROVE  Becomes(c, p, cl2, js2, na2, sv, ad, sp)
  BY <1>1, <1>2, <1>4, <1>8 DEF Becomes
<1>9. CASE Fail(c) /\ Spoil(c, TRUE) /\ UNCHANGED <<mgr, card>>
  <2>1. PICK sp \in SUBSET Servers :
          spoiled' = [spoiled EXCEPT ![c] = sp] /\ spoiled[c] \subseteq sp /\ s \in sp
    BY <1>2, <1>3, <1>9, SpoilEffect
  <2>2. Outcome(FALSE) /\ GoTo(c, "idle", NoCall)
    BY <1>9 DEF Fail
  <2>3. Becomes(c, "idle", NoCall, js, na, sv, ad, sp)
    BY <1>2, <1>6, <1>7, <1>8, <2>1, <2>2
  <2>4. TablesBecome(c, mgr[c], card[c], 0, Nowhere)
    <3>1. UNCHANGED <<mgr, card>>
      BY <1>9
    <3>2. CardGrown(card[c], card[c]) /\ LeadsAsBefore(card[c], card[c], 0, Nowhere)
      BY <1>2, CardSame DEF NodeOK
    <3>3. faults' \in 0 .. MaxFaults
      BY <1>2, <2>2, OutcomeType
    <3>. QED
      BY <1>1, <1>2, <1>5, <3>1, <3>2, <3>3, NowhereFacts DEF TablesBecome
  <2>5. ClientOK("idle", NoCall, sv, ad, js, mgr[c], na)
    BY <1>2, <1>6 DEF ClientOK
  <2>6. \A t \in sv \ sp : Linked(c, t, ad, mgr[c], queues[t], mgr[t])
    BY <1>1, <1>2, <2>1 DEF IInv, LinksInv, Unfinished, sv, ad
  <2>7. \A t \in Servers : \A to, mto :
          LeadsBack(t, card[c], addr[c], mgr[c], to, mto) => LeadsBack(t, card[c], ad, mgr[c], to, mto)
    BY DEF ad
  <2>8. \A t \in Servers \ blanked : MgmtCallOK(c, t, "idle", NoCall, ad, mgr[c], mgr[t])
    BY <1>6
  <2>. QED
    BY <1>1, <1>5, <2>3, <2>4, <2>5, <2>6, <2>7, <2>8, TablesStep
<1>10. ASSUME NEW r \in Answered(c, k, a), Install(c, r), Spoil(c, r.st # "ok" \/ a = Blank),
              IF r.st # "ok" THEN Fail(c)
              ELSE /\ Outcome(TRUE)
                   /\ IF cl.queue = "data" /\ cl.mgmt
                      THEN GoTo(c, "open", [cl EXCEPT !.queue = "mgmt", !.server_connkey = a.key])
                      ELSE Succeed(c, cl)
       PROVE  IInv'
  <2>. DEFINE m2 == r.mgr
              h2 == r.card
  <2>1. /\ conn \in Conns /\ k \in DOMAIN mgr[c].qps
        /\ Connected(transport, mgr[c], card[c], k, conn, r.st, m2, h2)
    BY <1>1, <1>10, AnswerConnects DEF ad
  <2>2. PICK sp \in SUBSET Servers :
          /\ spoiled' = [spoiled EXCEPT ![c] = sp] /\ spoiled[c] \subseteq sp
          /\ r.st # "ok" \/ a = Blank => s \in sp
    BY <1>2, <1>3, <1>10, SpoilEffect
  <2>3. /\ NodeOK(transport, m2, h2) /\ Grown(mgr[c], m2) /\ CardGrown(card[c], h2)
        /\ LeadsAsBefore(card[c], h2, mgr[c].qps[k], conn) /\ m2 \in Managers
        /\ m2.qps = mgr[c].qps
    BY <2>1 DEF Connected, NodeOK
  <2>4. mgr' = [mgr EXCEPT ![c] = m2] /\ card' = [card EXCEPT ![c] = h2]
    BY <1>10 DEF Install
  <2>. HIDE DEF m2, h2
  <2>5. TablesBecome(c, m2, h2, mgr[c].qps[k], conn)
    <3>1. faults' \in 0 .. MaxFaults
      <4>1. Outcome(TRUE) \/ Outcome(FALSE)
        BY <1>10 DEF Fail
      <4>. QED
        BY <1>2, <4>1, OutcomeType
    <3>. QED
      BY <1>1, <1>5, <2>3, <2>4, <3>1 DEF TablesBecome
  <2>6. \A t \in sv \ sp : Linked(c, t, ad, m2, queues[t], mgr[t])
    BY <1>1, <1>3, <2>1, <2>2, AnswerLinks DEF sv, ad
  <2>7. \A t \in Servers : \A to, mto :
          LeadsBack(t, card[c], addr[c], mgr[c], to, mto) => LeadsBack(t, h2, ad, m2, to, mto)
    BY <2>3, StoredLeadsBack DEF ad
  <2>8. StoredOK(sv, ad, js, m2, na)
    BY <1>2, <2>3, KeysGrow DEF StoredOK
  <2>9. CASE r.st # "ok"
    <3>1. GoTo(c, "idle", NoCall)
      BY <1>10, <2>9 DEF Fail
    <3>2. Becomes(c, "idle", NoCall, js, na, sv, ad, sp)
      BY <1>2, <1>6, <1>7, <1>8, <2>2, <3>1
    <3>3. ClientOK("idle", NoCall, sv, ad, js, m2, na)
      BY <1>6, <2>8 DEF ClientOK
    <3>4. \A t \in Servers \ blanked : MgmtCallOK(c, t, "idle", NoCall, ad, m2, mgr[t])
      BY <1>6
    <3>. QED
      BY <1>1, <1>5, <2>5, <2>6, <2>7, <3>2, <3>3, <3>4, TablesStep
  <2>10. CASE r.st = "ok" /\ cl.queue = "data" /\ cl.mgmt
    <3>. DEFINE cl2 == [cl EXCEPT !.queue = "mgmt", !.server_connkey = a.key]
    <3>1. /\ cl2 \in CallRecords /\ cl2.srv = s /\ cl2.queue = "mgmt" /\ cl2.server_connkey = a.key
      <4>1. a.key \in Nat
        BY <1>1, ClientFacts DEF Answers
      <4>. QED
        BY <1>2, <4>1 DEF CallRecords
    <3>2. GoTo(c, "open", cl2)
      BY <1>10, <2>10
    <3>. HIDE DEF cl2
    <3>3. /\ pc' = [pc EXCEPT ![c] = "open"] /\ call' = [call EXCEPT ![c] = cl2]
          /\ joined' = [joined EXCEPT ![c] = js] /\ nodeAddr' = [nodeAddr EXCEPT ![c] = na]
      BY <3>2, ClientFacts DEF GoTo, js, na
    <3>4. Becomes(c, "open", cl2, js, na, sv, ad, sp)
      BY <1>2, <1>6, <1>8, <2>2, <3>1, <3>3
    <3>5. CallOK("open", cl2, sv, ad, js, m2)
      BY <1>2, <1>3, <2>10, <3>1 DEF CallOK
    <3>6. ClientOK("open", cl2, sv, ad, js, m2, na)
      BY <2>8, <3>5 DEF ClientOK
    <3>7. \A t \in Servers \ blanked : MgmtCallOK(c, t, "open", cl2, ad, m2, mgr[t])
      <4>. SUFFICES ASSUME NEW t \in Servers \ blanked, s = t
                    PROVE  /\ a.key \in DOMAIN mgr[t].rconns
                           /\ mgr[t].rconns[a.key] = [lid |-> c, num |-> DataQP(ad, m2, t)]
        BY <3>1 DEF MgmtCallOK
      <4>1. ServerEnd(queues[t], mgr[t], a.key, c, DataQP(ad, mgr[c], t))
        BY <1>1, <2>10, AnswerFacts DEF ad
      <4>2. DataQP(ad, m2, t) = DataQP(ad, mgr[c], t)
        BY <2>3 DEF DataQP
      <4>3. mgr[t].connected \subseteq DOMAIN mgr[t].rconns
        BY Sides DEF IInv, NodesInv, NodeOK, TablesOK
      <4>. QED
        BY <4>1, <4>2, <4>3 DEF ServerEnd
    <3>. QED
      BY <1>1, <1>5, <2>5, <2>6, <2>7, <3>4, <3>6, <3>7, TablesStep
  <2>11. CASE r.st = "ok" /\ ~ (cl.queue = "data" /\ cl.mgmt)
    <3>1. Succeeded(c, m2)
      <4>1. Succeed(c, cl)
        BY <1>10, <2>11
      <4>. QED
        BY <1>2, <1>3, <2>3, <2>8, <4>1, SucceedEffect DEF sv, ad, js, na
    <3>2. PICK p \in {"idle", "ask"}, cl2 \in CallRecords, js2 \in SUBSET Servers, na2 \in Seq(Nat) :
            /\ pc' = [pc EXCEPT ![c] = p] /\ call' = [call EXCEPT ![c] = cl2]
            /\ joined' = [joined EXCEPT ![c] = js2] /\ nodeAddr' = [nodeAddr EXCEPT ![c] = na2]
            /\ ClientOK(p, cl2, sv, ad, js2, m2, na2)
      BY <3>1 DEF Succeeded, sv, ad
    <3>3. Becomes(c, p, cl2, js2, na2, sv, ad, sp)
      BY <1>6, <1>8, <2>2, <3>2
    <3>4. \A t \in Servers \ blanked : MgmtCallOK(c, t, p, cl2, ad, m2, mgr[t])
      BY <1>6
    <3>5. ClientOK(p, cl2, sv, ad, js2, m2, na2)
      BY <3>2
    <3>. QED
      BY <1>1, <1>5, <2>5, <2>6, <2>7, <3>3, <3>4, <3>5, TablesStep
  <2>. QED
    BY <2>9, <2>10, <2>11
<1>. QED
  BY <1>9, <1>10 DEF ReceiveConn, ad

-----------------------------------------------------------------------------
(***************************************************************************)
(* Steps of a server.                                                      *)
(***************************************************************************)
\* The client whose request s handles.
Asker(s) == inbox[s][1].from

\* What a step of s leaves alone.
OnlyServer(s) ==
  /\ transport' = transport
  /\ UNCHANGED <<pc, call, clients, addr, nodeAddr, joined, spoiled>>
  /\ \A n \in Nodes : n # s => mgr'[n] = mgr[n] /\ card'[n] = card[n]
  /\ \A t \in Servers : t # s => queues'[t] = queues[t] /\ mgmtOf'[t] = mgmtOf[t]
  /\ inbox[s] # << >> /\ inbox' = [inbox EXCEPT ![s] = Tail(@)]
  /\ \A d \in Clients : d # Asker(s) => answer'[d] = answer[d]
  /\ blanked \subseteq blanked'

\* The request that is handled is one the client waits for.
LEMMA AskerFacts ==
  ASSUME IInv, NEW s \in Servers, inbox[s] # << >>
  PROVE  /\ Head(inbox[s]) = inbox[s][1] /\ 1 \in 1 .. Len(inbox[s])
         /\ Asker(s) \in Clients /\ inbox[s][1] \in Requests
         /\ RequestOK(inbox[s][1], s, pc[Asker(s)], call[Asker(s)], answer[Asker(s)], addr[Asker(s)],
                      mgr[Asker(s)])
<1>1. inbox[s] \in Seq(Requests)
  BY DEF IInv, TypeInv
<1>2. Len(inbox[s]) \in Nat /\ Len(inbox[s]) # 0 /\ Head(inbox[s]) = inbox[s][1]
  BY <1>1, EmptySeq, LenProperties
<1>3. 1 \in 1 .. Len(inbox[s])
  BY <1>2
<1>4. Asker(s) \in Clients /\ inbox[s][1] \in Requests
  BY <1>3, RequestType DEF IInv, Asker
<1>. QED
  BY <1>2, <1>3, <1>4 DEF IInv, RequestsInv, Asker

\* The requests that remain are those of other clients.
LEMMA Remaining ==
  ASSUME IInv, NEW s \in Servers, OnlyServer(s), NEW t \in Servers, NEW i \in 1 .. Len(inbox'[t])
  PROVE  \E j \in 1 .. Len(inbox[t]) :
           /\ inbox'[t][i] = inbox[t][j] /\ j = (IF t = s THEN i + 1 ELSE i)
           /\ inbox[t][j].from \in Clients /\ inbox[t][j].from # Asker(s)
<1>1. inbox \in [Servers -> Seq(Requests)] /\ inbox[s] \in Seq(Requests) /\ inbox[s] # << >>
  BY DEF IInv, TypeInv, OnlyServer
<1>2. inbox'[t] = IF t = s THEN Tail(inbox[s]) ELSE inbox[t]
  BY <1>1 DEF OnlyServer
<1>. DEFINE j == IF t = s THEN i + 1 ELSE i
<1>3. j \in 1 .. Len(inbox[t]) /\ inbox'[t][i] = inbox[t][j] /\ (t = s => j # 1)
  <2>1. CASE t = s
    <3>1. Len(Tail(inbox[s])) = Len(inbox[s]) - 1 /\ Len(inbox[s]) \in Nat
      BY <1>1, LenProperties
    <3>2. i \in 1 .. Len(Tail(inbox[s])) /\ i \in Nat
      BY <1>2, <2>1, <3>1
    <3>3. Tail(inbox[s])[i] = inbox[s][i + 1]
      BY <1>1, <3>2
    <3>. QED
      BY <1>2, <2>1, <3>1, <3>2, <3>3
  <2>2. CASE t # s
    BY <1>2, <2>2
  <2>. QED
    BY <2>1, <2>2
<1>. HIDE DEF j
<1>4. inbox[t][j].from \in Clients
  BY <1>3, RequestType DEF IInv
<1>5. inbox[t][j].from # Asker(s)
  <2>. SUFFICES ASSUME inbox[t][j].from = inbox[s][1].from PROVE FALSE
    BY DEF Asker
  <2>1. 1 \in 1 .. Len(inbox[s])
    BY <1>1, AskerFacts
  <2>2. t = s /\ j = 1
    BY <1>3, <2>1 DEF IInv, RequestsInv
  <2>. QED
    BY <1>3, <2>2
<1>. QED
  BY <1>3, <1>4, <1>5 DEF j

\* The requests that are left, after a step of server s.
LEMMA ServerRequests ==
  ASSUME IInv, NEW s \in Servers, OnlyServer(s)
  PROVE  RequestsInv'
<1>1. ASSUME NEW t \in Servers, NEW i \in 1 .. Len(inbox'[t])
      PROVE  LET d == inbox'[t][i].from
             IN RequestOK(inbox'[t][i], t, pc'[d], call'[d], answer'[d], addr'[d], mgr'[d])
  <2>1. PICK j \in 1 .. Len(inbox[t]) :
          /\ inbox'[t][i] = inbox[t][j]
          /\ inbox[t][j].from \in Clients /\ inbox[t][j].from # Asker(s)
    BY Remaining
  <2>. DEFINE d == inbox[t][j].from
  <2>2. RequestOK(inbox[t][j], t, pc[d], call[d], answer[d], addr[d], mgr[d])
    BY DEF IInv, RequestsInv
  <2>3. /\ pc'[d] = pc[d] /\ call'[d] = call[d] /\ answer'[d] = answer[d] /\ addr'[d] = addr[d]
        /\ mgr'[d] = mgr[d]
    BY <2>1, Sides DEF OnlyServer
  <2>. QED
    BY <2>1, <2>2, <2>3
<1>2. ASSUME NEW t \in Servers, NEW u \in Servers,
             NEW i \in 1 .. Len(inbox'[t]), NEW j \in 1 .. Len(inbox'[u]),
             inbox'[t][i].from = inbox'[u][j].from
      PROVE  t = u /\ i = j
  <2>1. PICK i2 \in 1 .. Len(inbox[t]) :
          inbox'[t][i] = inbox[t][i2] /\ i2 = (IF t = s THEN i + 1 ELSE i)
    BY Remaining
  <2>2. PICK j2 \in 1 .. Len(inbox[u]) :
          inbox'[u][j] = inbox[u][j2] /\ j2 = (IF u = s THEN j + 1 ELSE j)
    BY Remaining
  <2>3. t = u /\ i2 = j2
    BY <1>2, <2>1, <2>2 DEF IInv, RequestsInv
  <2>. QED
    BY <2>1, <2>2, <2>3
<1>. QED
  BY <1>1, <1>2 DEF RequestsInv

\* The answers of others stay true while the tables of s grow.
LEMMA ServerAnswers ==
  ASSUME IInv, NEW s \in Servers, OnlyServer(s),
         Grown(mgr[s], mgr'[s]), QueuesGrown(queues[s], queues'[s]),
         answer'[Asker(s)] # None =>
           AnswerOK(Asker(s), answer'[Asker(s)], pc[Asker(s)], call[Asker(s)], addr[Asker(s)],
                    mgr[Asker(s)], queues'[s], mgr'[s], blanked')
  PROVE  AnswersInv'
<1>. SUFFICES ASSUME NEW d \in Clients, answer'[d] # None
              PROVE  AnswerOK(d, answer'[d], pc'[d], call'[d], addr'[d], mgr'[d],
                              queues'[call'[d].srv], mgr'[call'[d].srv], blanked')
  BY DEF AnswersInv
<1>1. pc'[d] = pc[d] /\ call'[d] = call[d] /\ addr'[d] = addr[d] /\ mgr'[d] = mgr[d]
  BY Sides DEF OnlyServer
<1>2. CASE d = Asker(s)
  <2>1. call[d].srv = s
    BY <1>2, AskerFacts DEF OnlyServer, RequestOK
  <2>. QED
    BY <1>1, <1>2, <2>1
<1>3. CASE d # Asker(s)
  <2>. DEFINE t == call[d].srv
  <2>1. answer'[d] = answer[d] /\ blanked \subseteq blanked'
    BY <1>3 DEF OnlyServer
  <2>2. AnswerOK(d, answer[d], pc[d], call[d], addr[d], mgr[d], queues[t], mgr[t], blanked)
    BY <2>1 DEF IInv, AnswersInv
  <2>3. t \in Servers
    BY <2>2 DEF AnswerOK
  <2>. HIDE DEF t
  <2>4. ASSUME NEW k, NEW num, ServerEnd(queues[t], mgr[t], k, d, num)
        PROVE  ServerEnd(queues'[t], mgr'[t], k, d, num) /\ mgr'[t].qps[k] = mgr[t].qps[k]
    <3>1. CASE t = s
      <4>1. NodeOK(transport, mgr[s], card[s])
        BY Sides DEF IInv, NodesInv
      <4>2. ServerEnd(queues[s], mgr[s], k, d, num)
        BY <2>4, <3>1
      <4>3. ServerEnd(queues'[s], mgr'[s], k, d, num) /\ mgr'[s].qps[k] = mgr[s].qps[k]
        <5>1. k \in mgr[s].connected /\ k \in DOMAIN mgr[s].rconns /\ k \in DOMAIN mgr[s].qps
          BY <4>1, <4>2 DEF ServerEnd, NodeOK, TablesOK
        <5>2. \E i \in 1 .. Len(queues'[s]) : queues'[s][i] = k
          <6>1. PICK i \in 1 .. Len(queues[s]) : queues[s][i] = k
            BY <4>2 DEF ServerEnd
          <6>2. /\ Len(queues[s]) \in Nat /\ Len(queues'[s]) \in Nat
                /\ Len(queues[s]) <= Len(queues'[s]) /\ queues'[s][i] = queues[s][i]
            BY LenProperties DEF QueuesGrown
          <6>. QED
            BY <6>1, <6>2
        <5>. QED
          BY <4>2, <5>1, <5>2 DEF ServerEnd, Grown
      <4>. QED
        BY <3>1, <4>3
    <3>2. CASE t # s
      <4>1. queues'[t] = queues[t] /\ mgr'[t] = mgr[t]
        BY <2>3, <3>2, Sides DEF OnlyServer
      <4>. QED
        BY <2>4, <4>1
    <3>. QED
      BY <3>1, <3>2
  <2>5. AnswerOK(d, answer[d], pc[d], call[d], addr[d], mgr[d], queues'[t], mgr'[t], blanked')
    <3>1. CASE call[d].queue = "data" /\ answer[d] # Blank
      <4>1. /\ pc[d] = "wait" /\ answer[d].lid = t /\ mgr[t].qps[answer[d].key] = answer[d].num
            /\ ServerEnd(queues[t], mgr[t], answer[d].key, d, DataQP(addr[d], mgr[d], t))
        BY <2>2, <3>1 DEF AnswerOK, t
      <4>2. /\ ServerEnd(queues'[t], mgr'[t], answer[d].key, d, DataQP(addr[d], mgr[d], t))
            /\ mgr'[t].qps[answer[d].key] = mgr[t].qps[answer[d].key]
        BY <2>4, <4>1
      <4>. QED
        BY <2>3, <3>1, <4>1, <4>2 DEF AnswerOK, t
    <3>2. CASE ~ (call[d].queue = "data" /\ answer[d] # Blank)
      BY <2>1, <2>2, <3>2 DEF AnswerOK
    <3>. QED
      BY <3>1, <3>2
  <2>. QED
    BY <1>1, <2>1, <2>5 DEF t
<1>. QED
  BY <1>2, <1>3

\* So do the links.
LEMMA ServerLinks ==
  ASSUME IInv, NEW s \in Servers, OnlyServer(s),
         Grown(mgr[s], mgr'[s]), QueuesGrown(queues[s], queues'[s])
  PROVE  LinksInv'
<1>. SUFFICES ASSUME NEW d \in Clients, NEW t \in clients[d] \ spoiled[d],
                     ~ Unfinished(t, pc[d], call[d], joined[d])
              PROVE  Linked(d, t, addr[d], mgr'[d], queues'[t], mgr'[t])
  BY DEF LinksInv, OnlyServer
<1>1. Linked(d, t, addr[d], mgr[d], queues[t], mgr[t])
  BY DEF IInv, LinksInv
<1>2. t \in Servers /\ mgr'[d] = mgr[d]
  BY Sides DEF IInv, TypeInv, OnlyServer
<1>3. CASE t = s
  <2>1. NodeOK(transport, mgr[d], card[d]) /\ NodeOK(transport, mgr[s], card[s])
    BY Sides DEF IInv, NodesInv
  <2>2. Grown(mgr[d], mgr[d])
    BY <2>1 DEF Grown, NodeOK, TablesOK
  <2>. QED
    BY <1>1, <1>2, <1>3, <2>1, <2>2, LinkGrow
<1>4. CASE t # s
  BY <1>1, <1>2, <1>4, Sides DEF OnlyServer
<1>. QED
  BY <1>3, <1>4

\* The management tables, with what s may have added to its own.
LEMMA ServerMgmt ==
  ASSUME IInv, NEW s \in Servers, OnlyServer(s), Grown(mgr[s], mgr'[s]),
         s \notin blanked' => \A k \in DOMAIN mgmtOf'[s] :
           \/ k \in DOMAIN mgmtOf[s] /\ mgmtOf'[s][k] = mgmtOf[s][k]
           \/ /\ EntryOK(k, mgmtOf'[s][k], mgr'[s])
              /\ LET d == mgr'[s].rconns[k].lid
                 IN LeadsBack(s, card[d], addr[d], mgr[d], mgr'[s].rconns[k].num,
                              mgr'[s].rconns[mgmtOf'[s][k]].num)
  PROVE  MgmtInv'
<1>1. \A d \in Clients : /\ card'[d] = card[d] /\ addr'[d] = addr[d] /\ mgr'[d] = mgr[d]
                         /\ pc'[d] = pc[d] /\ call'[d] = call[d]
  BY Sides DEF OnlyServer
<1>2. ASSUME NEW t \in Servers, t \notin blanked', NEW k \in DOMAIN mgmtOf[t]
      PROVE  /\ EntryOK(k, mgmtOf[t][k], mgr'[t])
             /\ mgr'[t].rconns[k] = mgr[t].rconns[k]
             /\ mgr'[t].rconns[mgmtOf[t][k]] = mgr[t].rconns[mgmtOf[t][k]]
             /\ LET d == mgr[t].rconns[k].lid
                IN LeadsBack(t, card[d], addr[d], mgr[d], mgr[t].rconns[k].num,
                             mgr[t].rconns[mgmtOf[t][k]].num)
  <2>1. t \in Servers \ blanked
    BY <1>2 DEF OnlyServer
  <2>2. /\ EntryOK(k, mgmtOf[t][k], mgr[t])
        /\ LET d == mgr[t].rconns[k].lid
           IN LeadsBack(t, card[d], addr[d], mgr[d], mgr[t].rconns[k].num,
                        mgr[t].rconns[mgmtOf[t][k]].num)
    BY <2>1 DEF IInv, MgmtInv
  <2>3. \A j \in DOMAIN mgr[t].rconns : j \in DOMAIN mgr'[t].rconns /\ mgr'[t].rconns[j] = mgr[t].rconns[j]
    <3>1. CASE t = s
      BY <3>1 DEF Grown
    <3>2. CASE t # s
      BY <3>2, Sides DEF OnlyServer
    <3>. QED
      BY <3>1, <3>2
  <2>. QED
    BY <2>2, <2>3 DEF EntryOK
<1>3. ASSUME NEW t \in Servers, t \notin blanked', NEW k \in DOMAIN mgmtOf'[t]
      PROVE  /\ EntryOK(k, mgmtOf'[t][k], mgr'[t])
             /\ LET d == mgr'[t].rconns[k].lid
                IN LeadsBack(t, card'[d], addr'[d], mgr'[d], mgr'[t].rconns[k].num,
                             mgr'[t].rconns[mgmtOf'[t][k]].num)
  <2>. DEFINE d == mgr'[t].rconns[k].lid
              mk == mgmtOf'[t][k]
  <2>1. CASE k \in DOMAIN mgmtOf[t] /\ mgmtOf'[t][k] = mgmtOf[t][k]
    <3>1. /\ EntryOK(k, mk, mgr'[t])
          /\ LeadsBack(t, card[d], addr[d], mgr[d], mgr'[t].rconns[k].num, mgr'[t].rconns[mk].num)
      BY <1>2, <1>3, <2>1
    <3>2. d \in Clients
      BY <3>1 DEF EntryOK
    <3>. QED
      BY <1>1, <3>1, <3>2
  <2>2. CASE ~ (k \in DOMAIN mgmtOf[t] /\ mgmtOf'[t][k] = mgmtOf[t][k])
    <3>1. t = s
      BY <1>3, <2>2 DEF OnlyServer
    <3>2. /\ EntryOK(k, mk, mgr'[t])
          /\ LeadsBack(t, card[d], addr[d], mgr[d], mgr'[t].rconns[k].num, mgr'[t].rconns[mk].num)
      BY <1>3, <2>2, <3>1
    <3>3. d \in Clients
      BY <3>2 DEF EntryOK
    <3>. QED
      BY <1>1, <3>2, <3>3
  <2>. QED
    BY <2>1, <2>2
<1>4. ASSUME NEW t \in Servers, t \notin blanked', NEW d \in Clients
      PROVE  MgmtCallOK(d, t, pc'[d], call'[d], addr'[d], mgr'[d], mgr'[t])
  <2>1. MgmtCallOK(d, t, pc[d], call[d], addr[d], mgr[d], mgr[t])
    BY <1>4 DEF IInv, MgmtInv, OnlyServer
  <2>2. CASE t = s
    <3>1. MgmtCallOK(d, t, pc[d], call[d], addr[d], mgr[d], mgr'[t])
      BY <2>1, <2>2 DEF MgmtCallOK, Grown
    <3>. QED
      BY <1>1, <3>1
  <2>3. CASE t # s
    BY <1>1, <2>1, <2>3, Sides DEF OnlyServer
  <2>. QED
    BY <2>2, <2>3
<1>. QED
  BY <1>3, <1>4 DEF MgmtInv

\* The peers: s connects at most with the queue pair the request told of, and answers with
\* the one it has just created.
LEMMA ServerPeers ==
  ASSUME IInv, NEW s \in Servers, OnlyServer(s), NEW q, NEW conn, Leads(s, q, conn),
         conn.num # 0 => conn = [lid |-> Asker(s), num |-> inbox[s][1].num],
         transport = "rc" /\ answer'[Asker(s)] # None /\ answer'[Asker(s)].num # 0 =>
           /\ answer'[Asker(s)].lid = s /\ answer'[Asker(s)].num = Len(card[s]) + 1
           /\ Len(card[s]) + 1 <= Len(card'[s])
  PROVE  PeersInv'
<1>. SUFFICES ASSUME transport = "rc" PROVE LeadAcross' /\ RequestsNew' /\ AnswersNew'
  BY DEF PeersInv, OnlyServer
<1>1. LeadAcross /\ RequestsNew /\ AnswersNew
  BY DEF IInv, PeersInv
<1>2. \A n \in Nodes : \A p \in 1 .. Len(card[n]) : card[n][p].to.num \in Nat
  <2>. SUFFICES ASSUME NEW n \in Nodes, NEW p \in 1 .. Len(card[n]) PROVE card[n][p].to.num \in Nat
    OBVIOUS
  <2>1. card[n] \in Seq(QueuePairs)
    BY DEF IInv, NodesInv, NodeOK
  <2>2. card[n][p] \in QueuePairs
    BY <2>1
  <2>. QED
    BY <2>2 DEF QueuePairs, Conns
<1>. DEFINE c == Asker(s)
            num == inbox[s][1].num
<1>3. c \in Clients /\ num \in Nat /\ c = inbox[s][1].from /\ 1 \in 1 .. Len(inbox[s])
  BY AskerFacts DEF OnlyServer, Requests, Asker
<1>4. num # 0 => num <= Len(card[c]) /\ ~ Taken(card, Servers, c, num)
  BY <1>1, <1>3 DEF RequestsNew
<1>5. Clients \in SUBSET Nodes /\ Servers \in SUBSET Nodes /\ s \notin Clients /\ s \in Nodes
  BY Sides DEF Nodes
<1>6. \A n \in Nodes : Len(card[n]) \in Nat /\ Len(card'[n]) \in Nat /\ Len(card[n]) <= Len(card'[n])
  BY DEF Leads
<1>. HIDE DEF c, num
<1>7. ASSUME conn.num # 0
      PROVE  conn.lid = c /\ conn.num = num /\ conn = [lid |-> c, num |-> num] /\ num # 0
  <2>1. conn = [lid |-> c, num |-> num]
    BY <1>7 DEF c, num
  <2>. QED
    BY <1>7, <2>1
<1>8. LeadAcross'
  <2>1. ASSUME conn.num # 0, NEW n \in Nodes, NEW p \in 1 .. Len(card[n]), card[n][p].to = conn
        PROVE  FALSE
    <3>1. n \notin Servers
      BY <1>4, <1>7, <2>1 DEF Taken
    <3>2. n \notin Clients
      BY <1>1, <1>3, <1>7, <2>1, Sides DEF LeadAcross, LeadOver
    <3>. QED
      BY <3>1, <3>2 DEF Nodes
  <2>2. conn.num # 0 => /\ conn.lid \in Nodes /\ (s \in Clients <=> conn.lid \in Servers)
                        /\ conn.num \in Nat /\ conn.num <= Len(card[conn.lid])
                        /\ \A n \in Nodes : \A p \in 1 .. Len(card[n]) : card[n][p].to # conn
    BY <1>3, <1>4, <1>5, <1>7, <2>1, Sides
  <2>. QED
    BY <1>1, <1>2, <1>5, <2>2, AcrossStep
<1>9. RequestsNew'
  <2>. SUFFICES ASSUME NEW t \in Servers, NEW i \in 1 .. Len(inbox'[t]), inbox'[t][i].num # 0
                PROVE  /\ inbox'[t][i].num <= Len(card'[inbox'[t][i].from])
                       /\ ~ Taken(card', Servers, inbox'[t][i].from, inbox'[t][i].num)
    BY DEF RequestsNew
  <2>1. PICK j \in 1 .. Len(inbox[t]) :
          /\ inbox'[t][i] = inbox[t][j]
          /\ inbox[t][j].from \in Clients /\ inbox[t][j].from # Asker(s)
    BY Remaining
  <2>. DEFINE d == inbox[t][j].from
              n == inbox[t][j].num
  <2>2. d \in Clients /\ d # c /\ n # 0
    BY <2>1 DEF c
  <2>3. n <= Len(card[d]) /\ ~ Taken(card, Servers, d, n)
    BY <1>1, <2>2 DEF RequestsNew
  <2>. HIDE DEF d, n
  <2>4. conn # [lid |-> d, num |-> n]
    <3>. SUFFICES ASSUME conn = [lid |-> d, num |-> n] PROVE FALSE
      OBVIOUS
    <3>1. conn.num = n /\ conn.lid = d
      OBVIOUS
    <3>. QED
      BY <1>7, <2>2, <3>1
  <2>5. ~ Taken(card', Servers, d, n)
    BY <1>5, <2>2, <2>3, <2>4, NotTakenStep
  <2>6. card'[d] = card[d]
    BY <2>2, Sides DEF OnlyServer
  <2>. QED
    BY <2>1, <2>3, <2>5, <2>6 DEF d, n
<1>10. ASSUME NEW d \in Clients, d # c, answer'[d] # None, answer'[d].num # 0
       PROVE  /\ answer'[d].lid \in Servers /\ answer'[d].num <= Len(card[answer'[d].lid])
              /\ ~ Taken(card', Clients, answer'[d].lid, answer'[d].num)
              /\ \A e \in Clients : e # d /\ e # c /\ answer'[e] # None =>
                   ~ (answer'[e].lid = answer'[d].lid /\ answer'[e].num = answer'[d].num)
  <2>1. answer'[d] = answer[d] /\ \A e \in Clients : e # c => answer'[e] = answer[e]
    BY <1>10 DEF OnlyServer, c
  <2>. DEFINE t == answer[d].lid
              n == answer[d].num
  <2>2. /\ t \in Servers /\ n <= Len(card[t]) /\ ~ Taken(card, Clients, t, n) /\ n # 0
        /\ \A e \in Clients : e # d /\ answer[e] # None => ~ (answer[e].lid = t /\ answer[e].num = n)
    BY <1>1, <1>10, <2>1 DEF AnswersNew
  <2>. HIDE DEF t, n
  <2>3. ~ Taken(card', Clients, t, n)
    BY <1>5, <2>2, NotTakenStep
  <2>. QED
    BY <2>1, <2>2, <2>3 DEF t, n
<1>11. ASSUME answer'[c] # None, answer'[c].num # 0
       PROVE  /\ answer'[c].lid = s /\ answer'[c].num = Len(card[s]) + 1
              /\ Len(card[s]) + 1 <= Len(card'[s])
              /\ ~ Taken(card', Clients, s, Len(card[s]) + 1)
  <2>. DEFINE n == Len(card[s]) + 1
  <2>1. answer'[c].lid = s /\ answer'[c].num = n /\ n <= Len(card'[s])
    BY <1>11 DEF c
  <2>2. n \in Nat /\ n # 0 /\ n > Len(card[s]) /\ Len(card[s]) \in Nat
    BY <1>5, <1>6
  <2>. HIDE DEF n
  <2>3. ~ Taken(card, Clients, s, n)
    BY <1>1, <1>5, <2>2, NewNotTaken
  <2>4. ~ Taken(card', Clients, s, n)
    BY <1>5, <2>2, <2>3, NotTakenStep
  <2>. QED
    BY <2>1, <2>4 DEF n
<1>12. AnswersNew'
  <2>. SUFFICES ASSUME NEW d \in Clients, answer'[d] # None, answer'[d].num # 0
                PROVE  /\ answer'[d].lid \in Servers /\ answer'[d].num <= Len(card'[answer'[d].lid])
                       /\ ~ Taken(card', Clients, answer'[d].lid, answer'[d].num)
                       /\ \A e \in Clients : e # d /\ answer'[e] # None =>
                            ~ (answer'[e].lid = answer'[d].lid /\ answer'[e].num = answer'[d].num)
    BY DEF AnswersNew
  <2>1. CASE d = c
    <3>1. /\ answer'[c].lid = s /\ answer'[c].num = Len(card[s]) + 1
          /\ Len(card[s]) + 1 <= Len(card'[s]) /\ ~ Taken(card', Clients, s, Len(card[s]) + 1)
      BY <1>11, <2>1
    <3>2. ASSUME NEW e \in Clients, e # c, answer'[e] # None,
                 answer'[e].lid = s, answer'[e].num = Len(card[s]) + 1
          PROVE  FALSE
      <4>1. Len(card[s]) \in Nat
        BY <1>5, <1>6
      <4>2. answer'[e].num <= Len(card[s])
        BY <1>10, <3>2, <4>1
      <4>. QED
        BY <3>2, <4>1, <4>2
    <3>. QED
      BY <2>1, <3>1, <3>2
  <2>2. CASE d # c
    <3>1. /\ answer'[d].lid \in Servers /\ answer'[d].num <= Len(card[answer'[d].lid])
          /\ ~ Taken(card', Clients, answer'[d].lid, answer'[d].num)
          /\ \A e \in Clients : e # d /\ e # c /\ answer'[e] # None =>
               ~ (answer'[e].lid = answer'[d].lid /\ answer'[e].num = answer'[d].num)
      BY <1>10, <2>2
    <3>2. answer'[d].num \in Nat
      <4>1. answer'[d] = answer[d] /\ answer[d] \in Answers \cup {None}
        BY <2>2 DEF OnlyServer, c, IInv, TypeInv
      <4>2. answer[d] \in Answers
        BY <4>1
      <4>. QED
        BY <4>1, <4>2 DEF Answers
    <3>3. answer'[d].num <= Len(card'[answer'[d].lid])
      BY <1>6, <3>1, <3>2, Sides
    <3>4. ASSUME answer'[c] # None, answer'[c].lid = answer'[d].lid, answer'[c].num = answer'[d].num
          PROVE  FALSE
      <4>1. answer'[c].lid = s /\ answer'[c].num = Len(card[s]) + 1
        BY <1>11, <3>4
      <4>2. Len(card[s]) \in Nat
        BY <1>5, <1>6
      <4>. QED
        BY <3>1, <3>4, <4>1, <4>2
    <3>. QED
      BY <3>1, <3>3, <3>4
  <2>. QED
    BY <2>1, <2>2
<1>. QED
  BY <1>8, <1>9, <1>12

\* All parts together, for a step of server s.
LEMMA ServerStepInv ==
  ASSUME IInv, NEW s \in Servers, OnlyServer(s), TypeInv',
         NodeOK(transport, mgr'[s], card'[s]),
         Grown(mgr[s], mgr'[s]), QueuesGrown(queues[s], queues'[s]),
         answer'[Asker(s)] # None =>
           AnswerOK(Asker(s), answer'[Asker(s)], pc[Asker(s)], call[Asker(s)], addr[Asker(s)],
                    mgr[Asker(s)], queues'[s], mgr'[s], blanked'),
         s \notin blanked' => \A k \in DOMAIN mgmtOf'[s] :
           \/ k \in DOMAIN mgmtOf[s] /\ mgmtOf'[s][k] = mgmtOf[s][k]
           \/ /\ EntryOK(k, mgmtOf'[s][k], mgr'[s])
              /\ LET d == mgr'[s].rconns[k].lid
                 IN LeadsBack(s, card[d], addr[d], mgr[d], mgr'[s].rconns[k].num,
                              mgr'[s].rconns[mgmtOf'[s][k]].num),
         NEW q, NEW conn, Leads(s, q, conn),
         conn.num # 0 => conn = [lid |-> Asker(s), num |-> inbox[s][1].num],
         transport = "rc" /\ answer'[Asker(s)] # None /\ answer'[Asker(s)].num # 0 =>
           /\ answer'[Asker(s)].lid = s /\ answer'[Asker(s)].num = Len(card[s]) + 1
           /\ Len(card[s]) + 1 <= Len(card'[s])
  PROVE  IInv'
<1>1. NodesInv'
  BY DEF IInv, NodesInv, OnlyServer
<1>2. ClientsInv'
  <2>1. \A d \in Clients : mgr'[d] = mgr[d]
    BY Sides DEF OnlyServer
  <2>. QED
    BY <2>1 DEF IInv, ClientsInv, OnlyServer
<1>3. RequestsInv'
  BY ServerRequests
<1>4. AnswersInv'
  BY ServerAnswers
<1>5. LinksInv'
  BY ServerLinks
<1>6. MgmtInv'
  BY ServerMgmt
<1>7. PeersInv'
  BY ServerPeers
<1>. QED
  BY <1>1, <1>2, <1>3, <1>4, <1>5, <1>6, <1>7 DEF IInv

\* The variables of server s after a step that handled a request: its tables m and its card
\* h with queue pair q that may lead to conn, its queues qs and table ms, and the answer a.
ServerBecomes(s, m, h, q, conn, qs, ms, a, bl) ==
  /\ \/ mgr' = [mgr EXCEPT ![s] = m] /\ card' = [card EXCEPT ![s] = h]
     \/ UNCHANGED <<mgr, card>> /\ m = mgr[s] /\ h = card[s]
  /\ NodeOK(transport, m, h) /\ Grown(mgr[s], m) /\ CardGrown(card[s], h)
  /\ LeadsAsBefore(card[s], h, q, conn)
  /\ conn.num # 0 => conn = [lid |-> Asker(s), num |-> inbox[s][1].num]
  /\ qs \in Seq(Nat) /\ ms \in Tables(Nat, Nat) /\ a \in Answers \cup {None}
  /\ queues' = [queues EXCEPT ![s] = qs] /\ mgmtOf' = [mgmtOf EXCEPT ![s] = ms]
  /\ answer' = [answer EXCEPT ![Asker(s)] = a]
  /\ bl \in SUBSET Servers /\ blanked \subseteq bl /\ blanked' = bl
  /\ inbox[s] # << >> /\ inbox' = [inbox EXCEPT ![s] = Tail(@)]
  /\ down' \in SUBSET Servers /\ faults' \in 0 .. MaxFaults
  /\ UNCHANGED <<transport, pc, call, clients, addr, nodeAddr, joined, spoiled>>

\* What the answer a tells c; with RC it names the queue pair just created on the card hs.
AnswerMade(s, c, a, m, h, qs, bl) ==
  a # None =>
    /\ AnswerOK(c, a, pc[c], call[c], addr[c], mgr[c], qs, m, bl)
    /\ transport = "rc" /\ a.num # 0 =>
         a.lid = s /\ a.num = Len(card[s]) + 1 /\ Len(card[s]) + 1 <= Len(h)

\* The entries of the table ms were there before, or are in order.
EntriesMade(s, m, ms) ==
  \A k \in DOMAIN ms :
    \/ k \in DOMAIN mgmtOf[s] /\ ms[k] = mgmtOf[s][k]
    \/ /\ EntryOK(k, ms[k], m)
       /\ LET d == m.rconns[k].lid
          IN LeadsBack(s, card[d], addr[d], mgr[d], m.rconns[k].num, m.rconns[ms[k]].num)

\* A request that was handled this way keeps the invariant.
LEMMA RequestHandled ==
  ASSUME IInv, NEW s \in Servers, NEW m, NEW h, NEW q, NEW conn, NEW qs, NEW ms, NEW a, NEW bl,
         ServerBecomes(s, m, h, q, conn, qs, ms, a, bl), QueuesGrown(queues[s], qs),
         AnswerMade(s, Asker(s), a, m, h, qs, bl), s \notin bl => EntriesMade(s, m, ms)
  PROVE  IInv'
<1>. USE DEF ServerBecomes
<1>1. TypeInv /\ s \in Nodes /\ Asker(s) \in Clients
  BY Sides, AskerFacts DEF IInv
<1>2. /\ mgr'[s] = m /\ card'[s] = h /\ DOMAIN mgr' = Nodes /\ DOMAIN card' = Nodes
      /\ \A n \in Nodes : n # s => mgr'[n] = mgr[n] /\ card'[n] = card[n]
  BY <1>1 DEF TypeInv
<1>3. /\ queues'[s] = qs /\ mgmtOf'[s] = ms /\ answer'[Asker(s)] = a
      /\ \A t \in Servers : t # s => queues'[t] = queues[t] /\ mgmtOf'[t] = mgmtOf[t]
      /\ \A d \in Clients : d # Asker(s) => answer'[d] = answer[d]
  BY <1>1 DEF TypeInv
<1>4. OnlyServer(s)
  BY <1>2, <1>3 DEF OnlyServer
<1>5. TypeInv'
  <2>1. /\ queues' \in [Servers -> Seq(Nat)] /\ mgmtOf' \in [Servers -> Tables(Nat, Nat)]
        /\ answer' \in [Clients -> Answers \cup {None}]
    BY <1>1 DEF TypeInv
  <2>2. inbox' \in [Servers -> Seq(Requests)]
    <3>1. inbox[s] \in Seq(Requests) /\ inbox[s] # << >>
      BY <1>1 DEF TypeInv
    <3>2. Tail(inbox[s]) \in Seq(Requests)
      BY <3>1
    <3>. QED
      BY <1>1, <3>2 DEF TypeInv
  <2>. QED
    BY <1>1, <1>2, <2>1, <2>2 DEF TypeInv
<1>6. NodeOK(transport, mgr'[s], card'[s])
  BY <1>2
<1>7. Grown(mgr[s], mgr'[s]) /\ QueuesGrown(queues[s], queues'[s])
  BY <1>2, <1>3
<1>8. Leads(s, q, conn)
  BY <1>1, <1>2, <1>6, LeadsFrom DEF IInv
<1>9. answer'[Asker(s)] # None =>
        AnswerOK(Asker(s), answer'[Asker(s)], pc[Asker(s)], call[Asker(s)], addr[Asker(s)],
                 mgr[Asker(s)], queues'[s], mgr'[s], blanked')
  BY <1>2, <1>3 DEF AnswerMade
<1>10. transport = "rc" /\ answer'[Asker(s)] # None /\ answer'[Asker(s)].num # 0 =>
         /\ answer'[Asker(s)].lid = s /\ answer'[Asker(s)].num = Len(card[s]) + 1
         /\ Len(card[s]) + 1 <= Len(card'[s])
  BY <1>2, <1>3 DEF AnswerMade
<1>11. s \notin blanked' => \A k \in DOMAIN mgmtOf'[s] :
         \/ k \in DOMAIN mgmtOf[s] /\ mgmtOf'[s][k] = mgmtOf[s][k]
         \/ /\ EntryOK(k, mgmtOf'[s][k], mgr'[s])
            /\ LET d == mgr'[s].rconns[k].lid
               IN LeadsBack(s, card[d], addr[d], mgr[d], mgr'[s].rconns[k].num,
                            mgr'[s].rconns[mgmtOf'[s][k]].num)
  BY <1>2, <1>3 DEF EntriesMade
<1>12. conn.num # 0 => conn = [lid |-> Asker(s), num |-> inbox[s][1].num]
  OBVIOUS
<1>. HIDE DEF ServerBecomes
<1>. QED
  BY <1>4, <1>5, <1>6, <1>7, <1>8, <1>9, <1>10, <1>11, <1>12, ServerStepInv

\* Queues and tables that stay.
LEMMA SameGrown ==
  ASSUME IInv, NEW s \in Servers
  PROVE  /\ TypeInv /\ s \in Nodes /\ s # None /\ NodeOK(transport, mgr[s], card[s])
         /\ Grown(mgr[s], mgr[s]) /\ QueuesGrown(queues[s], queues[s])
         /\ queues[s] \in Seq(Nat) /\ mgmtOf[s] \in Tables(Nat, Nat)
         /\ queues = [queues EXCEPT ![s] = queues[s]] /\ mgmtOf = [mgmtOf EXCEPT ![s] = mgmtOf[s]]
         /\ \A m : EntriesMade(s, m, mgmtOf[s])
<1>1. TypeInv /\ s \in Nodes /\ s # None /\ NodeOK(transport, mgr[s], card[s])
  BY Sides DEF IInv, NodesInv
<1>2. Grown(mgr[s], mgr[s])
  BY <1>1 DEF Grown, NodeOK, TablesOK
<1>3. QueuesGrown(queues[s], queues[s])
  BY <1>1, LenProperties DEF TypeInv, QueuesGrown
<1>4. /\ queues[s] \in Seq(Nat) /\ mgmtOf[s] \in Tables(Nat, Nat)
      /\ queues = [queues EXCEPT ![s] = queues[s]] /\ mgmtOf = [mgmtOf EXCEPT ![s] = mgmtOf[s]]
  BY <1>1 DEF TypeInv
<1>5. \A m : EntriesMade(s, m, mgmtOf[s])
  BY DEF EntriesMade
<1>. QED
  BY <1>1, <1>2, <1>3, <1>4, <1>5

\* A memory request is answered.
LEMMA HandleMemoryInv ==
  ASSUME IInv, NEW s \in Servers, HandleMemory(s)
  PROVE  IInv'
<1>. DEFINE c == Asker(s)
            a == [lid |-> s, num |-> 0, key |-> 0]
<1>1. /\ inbox[s] # << >> /\ Head(inbox[s]).queue = "mem"
      /\ answer' = [answer EXCEPT ![Head(inbox[s]).from] = a]
      /\ inbox' = [inbox EXCEPT ![s] = Tail(@)]
      /\ UNCHANGED <<transport, mgr, card, pc, call, clients, addr, nodeAddr, joined, spoiled>>
      /\ UNCHANGED <<queues, mgmtOf, down, blanked, faults>>
  BY DEF HandleMemory, client
<1>2. /\ c \in Clients /\ inbox[s][1].queue = "mem" /\ Head(inbox[s]).from = c
      /\ RequestOK(inbox[s][1], s, pc[c], call[c], answer[c], addr[c], mgr[c])
  BY <1>1, AskerFacts DEF Asker
<1>3. /\ pc[c] = "wait" /\ call[c].srv = s /\ call[c].queue = "mem"
  BY <1>2 DEF RequestOK
<1>4. a \in Answers /\ a.num = 0
  BY DEF Answers
<1>5. CardGrown(card[s], card[s]) /\ LeadsAsBefore(card[s], card[s], 0, Nowhere)
  BY SameGrown, CardSame DEF NodeOK
<1>. HIDE DEF a, c
<1>6. AnswerMade(s, c, a, mgr[s], card[s], queues[s], blanked)
  BY <1>3, <1>4 DEF AnswerMade, AnswerOK
<1>7. down' \in SUBSET Servers /\ faults' \in 0 .. MaxFaults /\ blanked \in SUBSET Servers
  BY <1>1, SameGrown DEF TypeInv
<1>8. answer' = [answer EXCEPT ![c] = a]
  BY <1>1, <1>2
<1>9. ServerBecomes(s, mgr[s], card[s], 0, Nowhere, queues[s], mgmtOf[s], a, blanked)
  BY <1>1, <1>4, <1>5, <1>7, <1>8, SameGrown, NowhereFacts DEF ServerBecomes, c
<1>. QED
  BY <1>6, <1>9, SameGrown, RequestHandled DEF c

\* Tables that grow twice have grown.
LEMMA GrownTwice ==
  ASSUME NEW m, NEW m1, NEW m2, Grown(m, m1), Grown(m1, m2)
  PROVE  Grown(m, m2)
BY DEF Grown

\* A card on which first a queue pair was created and then q connected leads as before but
\* for q.
LEMMA LeadsTwice ==
  ASSUME NEW h, NEW h1, NEW h2, NEW q, NEW conn,
         Len(h) \in Nat, Len(h1) \in Nat, Len(h2) \in Nat, CardGrown(h, h1), CardGrown(h1, h2),
         LeadsAsBefore(h, h1, 0, Nowhere), LeadsAsBefore(h1, h2, q, conn)
  PROVE  CardGrown(h, h2) /\ LeadsAsBefore(h, h2, q, conn)
<1>1. CardGrown(h, h2)
  BY DEF CardGrown
<1>2. LeadsAsBefore(h, h2, q, conn)
  <2>. SUFFICES ASSUME NEW p \in 1 .. Len(h2)
                PROVE  \/ p \in 1 .. Len(h) /\ h2[p].to = h[p].to
                       \/ h2[p].to.num = 0
                       \/ p = q /\ h2[p].to = conn
    BY DEF LeadsAsBefore
  <2>1. \/ p \in 1 .. Len(h1) /\ h2[p].to = h1[p].to
        \/ h2[p].to.num = 0
        \/ p = q /\ h2[p].to = conn
    BY DEF LeadsAsBefore
  <2>2. p \in 1 .. Len(h1) => \/ p \in 1 .. Len(h) /\ h1[p].to = h[p].to
                              \/ h1[p].to.num = 0
    BY DEF LeadsAsBefore
  <2>. QED
    BY <2>1, <2>2
<1>. QED
  BY <1>1, <1>2

\* The handler fails, or the process ends, in initQP.
LEMMA ConnectFails ==
  ASSUME IInv, NEW s \in Servers, inbox[s] # << >>, inbox[s][1].queue # "mem",
         inbox' = [inbox EXCEPT ![s] = Tail(@)],
         UNCHANGED <<transport, pc, call, clients, addr, nodeAddr, joined, spoiled>>,
         UNCHANGED <<queues, mgmtOf>>, NEW r, Install(s, r),
         Initialised(transport, mgr[s], card[s], inbox[s][1].queue = "mgmt", r.st, r.key, r.mgr, r.card),
         \/ down' = down \cup {s} /\ UNCHANGED <<answer, blanked>>
         \/ /\ answer' = [answer EXCEPT ![Asker(s)] = Blank] /\ UNCHANGED down
            /\ blanked' = IF inbox[s][1].queue = "mgmt" THEN blanked ELSE blanked \cup {s},
         faults' \in 0 .. MaxFaults
  PROVE  IInv'
<1>. DEFINE c == Asker(s)
            m2 == r.mgr
            h2 == r.card
<1>1. /\ c \in Clients /\ inbox[s][1].queue \in {"data", "mgmt"}
      /\ RequestOK(inbox[s][1], s, pc[c], call[c], answer[c], addr[c], mgr[c])
  BY AskerFacts DEF Requests
<1>2. pc[c] = "wait" /\ call[c].srv = s /\ call[c].queue = inbox[s][1].queue /\ answer[c] = None
  BY <1>1 DEF RequestOK
<1>3. /\ NodeOK(transport, m2, h2) /\ Grown(mgr[s], m2) /\ CardGrown(card[s], h2)
      /\ LeadsAsBefore(card[s], h2, 0, Nowhere)
  BY DEF Initialised
<1>4. mgr' = [mgr EXCEPT ![s] = m2] /\ card' = [card EXCEPT ![s] = h2]
  BY DEF Install
<1>5. PICK a \in Answers \cup {None}, bl \in SUBSET Servers :
        /\ answer' = [answer EXCEPT ![c] = a] /\ blanked' = bl /\ blanked \subseteq bl
        /\ a = None \/ (a = Blank /\ (call[c].queue = "data" => s \in bl))
  <2>1. blanked \in SUBSET Servers /\ answer \in [Clients -> Answers \cup {None}]
    BY SameGrown DEF TypeInv
  <2>2. CASE UNCHANGED <<answer, blanked>>
    <3>1. answer' = [answer EXCEPT ![c] = None]
      BY <1>2, <2>1, <2>2
    <3>. QED
      BY <2>1, <2>2, <3>1
  <2>3. CASE /\ answer' = [answer EXCEPT ![c] = Blank]
             /\ blanked' = IF inbox[s][1].queue = "mgmt" THEN blanked ELSE blanked \cup {s}
    <3>1. Blank \in Answers
      BY DEF Blank, Answers
    <3>2. blanked' \in SUBSET Servers /\ blanked \subseteq blanked'
          /\ (call[c].queue = "data" => s \in blanked')
      BY <1>2, <2>1, <2>3
    <3>. QED
      BY <2>3, <3>1, <3>2
  <2>. QED
    BY <2>2, <2>3
<1>6. down' \in SUBSET Servers
  BY SameGrown DEF TypeInv
<1>. HIDE DEF m2, h2, c
<1>7. AnswerMade(s, c, a, m2, h2, queues[s], bl)
  <2>. SUFFICES ASSUME a # None PROVE AnswerMade(s, c, a, m2, h2, queues[s], bl)
    BY DEF AnswerMade
  <2>1. a = Blank /\ (call[c].queue = "data" => s \in bl) /\ Blank.num = 0
    BY <1>5 DEF Blank
  <2>. QED
    BY <1>2, <2>1 DEF AnswerMade, AnswerOK
<1>8. queues' = [queues EXCEPT ![s] = queues[s]] /\ mgmtOf' = [mgmtOf EXCEPT ![s] = mgmtOf[s]]
  BY SameGrown
<1>9. ServerBecomes(s, m2, h2, 0, Nowhere, queues[s], mgmtOf[s], a, bl)
  BY <1>3, <1>4, <1>5, <1>6, <1>8, SameGrown, NowhereFacts DEF ServerBecomes, c
<1>. QED
  BY <1>7, <1>9, SameGrown, RequestHandled DEF c

\* What initQP and connectQP make of the server's tables, for the request of client c with
\* number num.
Prepared(s, mgmt, c, num, k, st, m2, h2) ==
  /\ NodeOK(transport, m2, h2) /\ Grown(mgr[s], m2) /\ CardGrown(card[s], h2)
  /\ LeadsAsBefore(card[s], h2, m2.qps[k], [lid |-> c, num |-> num])
  /\ k \in Nat /\ k \in DOMAIN m2.qps /\ k \in DOMAIN m2.rconns
  /\ m2.rconns[k] = [lid |-> c, num |-> num]
  /\ st \in {"ok", "fail"} /\ (st = "ok" => k \in m2.connected)
  /\ ~ mgmt => m2.lconns[k] = m2.qps[k]
  /\ m2.lconns[k] \in Nat
  /\ transport = "rc" => m2.lconns[k] = Len(card[s]) + 1 /\ Len(h2) = Len(card[s]) + 1

\* initQP and connectQP, one after the other.
LEMMA PreparedOK ==
  ASSUME IInv, NEW s \in Servers, NEW c \in Clients, NEW num \in Nat, NEW mgmt \in BOOLEAN,
         NEW r \in InitQP(s, mgmt), r.st = "ok",
         NEW l \in ConnectQP(SetRemoteConnData(r.mgr, r.key, [lid |-> c, num |-> num]), r.card, r.key)
  PROVE  Prepared(s, mgmt, c, num, r.key, l.st, l.mgr, l.card)
<1>. DEFINE conn == [lid |-> c, num |-> num]
            m == mgr[s]
            h == card[s]
            m1 == r.mgr
            h1 == r.card
            k == r.key
            m2 == l.mgr
            h2 == l.card
<1>1. NodeOK(transport, m, h)
  BY SameGrown
<1>2. Initialised(transport, m, h, mgmt, "ok", k, m1, h1)
  BY <1>1, InitQPOK
<1>3. conn \in Conns
  BY DEF Conns
<1>. HIDE DEF conn, m, h, m1, h1, k, m2, h2
<1>4. /\ NodeOK(transport, m1, h1) /\ Grown(m, m1) /\ CardGrown(h, h1)
      /\ LeadsAsBefore(h, h1, 0, Nowhere)
      /\ m1.rconns = m.rconns /\ k \in Nat /\ k \notin DOMAIN m.qps /\ k \in DOMAIN m1.qps
      /\ (~ mgmt => m1.lconns[k] = m1.qps[k])
      /\ (transport = "rc" => m1.qps[k] = Len(h) + 1 /\ Len(h1) = Len(h) + 1)
  BY <1>2 DEF Initialised
<1>5. k \notin DOMAIN m1.rconns
  BY <1>1, <1>4 DEF NodeOK, TablesOK
<1>6. l \in ConnectQP(SetRemoteConnData(m1, k, conn), h1, k)
  BY DEF m1, k, conn, h1
<1>7. Connected(transport, m1, h1, k, conn, l.st, m2, h2)
  BY <1>3, <1>4, <1>5, <1>6, ConnectOK DEF m2, h2
<1>8. /\ NodeOK(transport, m2, h2) /\ Grown(m1, m2) /\ CardGrown(h1, h2)
      /\ LeadsAsBefore(h1, h2, m1.qps[k], conn) /\ Len(h2) = Len(h1)
      /\ m2.qps = m1.qps /\ m2.lconns = m1.lconns
      /\ DOMAIN m2.rconns = DOMAIN m1.rconns \cup {k} /\ m2.rconns[k] = conn
      /\ l.st \in {"ok", "fail"} /\ (l.st = "ok" => k \in m2.connected)
  BY <1>7 DEF Connected
<1>9. Len(h) \in Nat /\ Len(h1) \in Nat /\ Len(h2) \in Nat
  BY <1>1, <1>4, <1>8, LenProperties DEF NodeOK
<1>10. CardGrown(h, h2) /\ LeadsAsBefore(h, h2, m2.qps[k], conn)
  BY <1>4, <1>8, <1>9, LeadsTwice
<1>11. Grown(m, m2)
  BY <1>4, <1>8, GrownTwice
<1>12. transport = "rc" => m2.lconns[k] = m2.qps[k]
  BY <1>4, <1>8 DEF NodeOK, OwnQPs
<1>13. m2.lconns[k] \in Nat
  <2>1. k \in DOMAIN m2.lconns /\ m2 \in Managers
    BY <1>4, <1>8 DEF NodeOK, TablesOK
  <2>. QED
    BY <2>1, ManagerFacts, TableFacts
<1>14. Prepared(s, mgmt, c, num, k, l.st, m2, h2)
  BY <1>4, <1>8, <1>10, <1>11, <1>12, <1>13 DEF Prepared, conn, m, h
<1>. QED
  BY <1>14 DEF k, m2, h2

\* The answer to a request for which a queue pair was prepared.
LEMMA AnswerGood ==
  ASSUME IInv, NEW s \in Servers, inbox[s] # << >>, inbox[s][1].queue # "mem",
         NEW k, NEW st, NEW m2, NEW h2,
         Prepared(s, inbox[s][1].queue = "mgmt", Asker(s), inbox[s][1].num, k, st, m2, h2),
         NEW qs, inbox[s][1].queue = "data" => \E i \in 1 .. Len(qs) : qs[i] = k,
         NEW bl, st = "ok" \/ inbox[s][1].queue = "mgmt" \/ s \in bl
  PROVE  /\ Response(st = "ok", s, m2, k) \in Answers
         /\ AnswerMade(s, Asker(s), Response(st = "ok", s, m2, k), m2, h2, qs, bl)
<1>. DEFINE c == Asker(s)
            q == inbox[s][1]
            a == Response(st = "ok", s, m2, k)
<1>1. /\ c \in Clients /\ q.queue \in {"data", "mgmt"}
      /\ RequestOK(q, s, pc[c], call[c], answer[c], addr[c], mgr[c])
  BY AskerFacts DEF Requests
<1>2. /\ pc[c] = "wait" /\ call[c].srv = s /\ call[c].queue = q.queue
      /\ (q.queue = "data" => q.num = DataQP(addr[c], mgr[c], s))
  BY <1>1 DEF RequestOK
<1>. HIDE DEF c, q
<1>3. /\ k \in Nat /\ m2.lconns[k] \in Nat /\ m2.rconns[k] = [lid |-> c, num |-> q.num]
      /\ (st = "ok" => k \in m2.connected) /\ (q.queue = "data" => m2.lconns[k] = m2.qps[k])
      /\ (transport = "rc" => m2.lconns[k] = Len(card[s]) + 1 /\ Len(h2) = Len(card[s]) + 1)
      /\ h2 \in Seq(QueuePairs)
  BY <1>1 DEF Prepared, c, q, NodeOK
<1>4. CASE st = "ok"
  <2>1. a = [lid |-> s, num |-> m2.lconns[k], key |-> k]
    BY <1>4 DEF Response
  <2>. HIDE DEF a
  <2>2. a \in Answers /\ a.lid = s /\ a.num = m2.lconns[k] /\ a.key = k
    BY <1>3, <2>1 DEF Answers
  <2>3. a # Blank
    BY <2>2, Sides DEF Blank
  <2>4. q.queue = "data" => ServerEnd(qs, m2, k, c, DataQP(addr[c], mgr[c], s))
    BY <1>2, <1>3, <1>4 DEF ServerEnd, q
  <2>5. AnswerOK(c, a, pc[c], call[c], addr[c], mgr[c], qs, m2, bl)
    BY <1>2, <1>3, <2>2, <2>3, <2>4 DEF AnswerOK
  <2>6. Len(h2) \in Nat
    BY <1>3, LenProperties
  <2>7. transport = "rc" => a.num = Len(card[s]) + 1 /\ Len(card[s]) + 1 <= Len(h2)
    BY <1>3, <2>2, <2>6
  <2>8. AnswerMade(s, c, a, m2, h2, qs, bl)
    BY <2>2, <2>5, <2>7 DEF AnswerMade
  <2>. QED
    BY <2>2, <2>8 DEF a, c
<1>5. CASE st # "ok"
  <2>1. a = Blank
    BY <1>5 DEF Response
  <2>. HIDE DEF a
  <2>2. Blank \in Answers /\ Blank.num = 0
    BY DEF Blank, Answers
  <2>3. call[c].queue = "data" => s \in bl
    BY <1>2, <1>5 DEF q
  <2>4. AnswerMade(s, c, a, m2, h2, qs, bl)
    BY <1>2, <2>1, <2>2, <2>3 DEF AnswerMade, AnswerOK
  <2>. QED
    BY <2>1, <2>2, <2>4 DEF a, c
<1>. QED
  BY <1>4, <1>5

\* A key is added to the queues.
LEMMA QueuesAppend ==
  ASSUME NEW qs \in Seq(Nat), NEW k \in Nat
  PROVE  /\ Append(qs, k) \in Seq(Nat) /\ QueuesGrown(qs, Append(qs, k))
         /\ \E i \in 1 .. Len(Append(qs, k)) : Append(qs, k)[i] = k
<1>. DEFINE b == Append(qs, k)
<1>1. /\ b \in Seq(Nat) /\ Len(b) = Len(qs) + 1 /\ Len(qs) \in Nat /\ b[Len(qs) + 1] = k
      /\ \A i \in 1 .. Len(qs) : b[i] = qs[i]
  BY AppendProperties, LenProperties
<1>. HIDE DEF b
<1>2. Len(qs) + 1 \in 1 .. Len(b)
  BY <1>1
<1>3. QueuesGrown(qs, b)
  BY <1>1 DEF QueuesGrown
<1>. QED
  BY <1>1, <1>2, <1>3 DEF b

\* The management queue of c is entered under the key of the server's queue for c.
LEMMA MgmtEntry ==
  ASSUME IInv, NEW s \in Servers, s \notin blanked, inbox[s] # << >>, inbox[s][1].queue = "mgmt",
         NEW k, NEW st, NEW m2, NEW h2,
         Prepared(s, TRUE, Asker(s), inbox[s][1].num, k, st, m2, h2)
  PROVE  EntriesMade(s, m2, Put(mgmtOf[s], inbox[s][1].server_connkey, k))
<1>. DEFINE c == Asker(s)
            q == inbox[s][1]
            sk == q.server_connkey
            ms == Put(mgmtOf[s], sk, k)
            ad == addr[c]
            m == mgr[c]
<1>1. /\ c \in Clients /\ q.queue = "mgmt"
      /\ RequestOK(q, s, pc[c], call[c], answer[c], ad, m)
  BY AskerFacts DEF Requests
<1>2. /\ pc[c] = "wait" /\ call[c].srv = s /\ call[c].queue = "mgmt"
      /\ q.num = m.qps[ad.mgmt[s]] /\ sk = call[c].server_connkey
  BY <1>1 DEF RequestOK
<1>3. MgmtCallOK(c, s, pc[c], call[c], ad, m, mgr[s])
  BY <1>1 DEF IInv, MgmtInv
<1>4. ms = [y \in DOMAIN mgmtOf[s] \cup {sk} |-> IF y = sk THEN k ELSE mgmtOf[s][y]]
  BY DEF Put
<1>. HIDE DEF c, q, sk, ms, ad, m
<1>5. sk \in DOMAIN mgr[s].rconns /\ mgr[s].rconns[sk] = [lid |-> c, num |-> DataQP(ad, m, s)]
  BY <1>2, <1>3 DEF MgmtCallOK
<1>6. /\ sk \in DOMAIN m2.rconns /\ m2.rconns[sk] = [lid |-> c, num |-> DataQP(ad, m, s)]
      /\ k \in DOMAIN m2.rconns /\ m2.rconns[k] = [lid |-> c, num |-> q.num]
  BY <1>5 DEF Prepared, Grown, c, q
<1>7. EntryOK(sk, k, m2)
  BY <1>1, <1>6 DEF EntryOK
<1>8. LeadsBack(s, card[c], ad, m, DataQP(ad, m, s), q.num)
  <2>1. /\ StoredOK(clients[c], ad, joined[c], m, nodeAddr[c]) /\ NodeOK(transport, m, card[c])
        /\ CallOK("wait", call[c], clients[c], ad, joined[c], m)
    BY <1>1, <1>2, ClientFacts DEF ClientOK, ad, m
  <2>2. s \in DOMAIN ad.mgmt /\ s \in DOMAIN ad.data
    BY <1>2, <2>1 DEF CallOK, StoredOK
  <2>3. ad.data[s] \in DOMAIN m.qps /\ m.lconns[ad.data[s]] = m.qps[ad.data[s]]
    BY <2>1, <2>2 DEF StoredOK, KeysOK
  <2>4. m.qps[ad.data[s]] \in 1 .. Len(card[c])
    BY <2>1, <2>3 DEF NodeOK, TablesOK, Alive
  <2>. QED
    BY <1>2, <2>2, <2>3, <2>4 DEF LeadsBack, DataQP
<1>. SUFFICES ASSUME NEW j \in DOMAIN ms
              PROVE  \/ j \in DOMAIN mgmtOf[s] /\ ms[j] = mgmtOf[s][j]
                     \/ /\ EntryOK(j, ms[j], m2)
                        /\ LET d == m2.rconns[j].lid
                           IN LeadsBack(s, card[d], addr[d], mgr[d], m2.rconns[j].num,
                                        m2.rconns[ms[j]].num)
  BY DEF EntriesMade, ms, sk, q
<1>9. CASE j = sk
  <2>1. ms[j] = k
    BY <1>4, <1>9
  <2>2. m2.rconns[sk].lid = c /\ m2.rconns[sk].num = DataQP(ad, m, s) /\ m2.rconns[k].num = q.num
    BY <1>6
  <2>. QED
    BY <1>7, <1>8, <1>9, <2>1, <2>2 DEF ad, m
<1>10. CASE j # sk
  BY <1>4, <1>10
<1>. QED
  BY <1>9, <1>10

\* connectQueue and connectMgmtQueue.
LEMMA HandleConnectInv ==
  ASSUME IInv, NEW s \in Servers, HandleConnect(s)
  PROVE  IInv'
<1>. DEFINE c == Asker(s)
            q == inbox[s][1]
            mgmt == (q.queue = "mgmt")
            conn == [lid |-> c, num |-> q.num]
<1>1. /\ inbox[s] # << >> /\ Head(inbox[s]).queue # "mem"
      /\ inbox' = [inbox EXCEPT ![s] = Tail(@)]
      /\ UNCHANGED <<transport, pc, call, clients, addr, nodeAddr, joined, spoiled>>
  BY DEF HandleConnect, client
<1>2. /\ Head(inbox[s]) = q /\ q.from = c /\ c \in Clients /\ q \in Requests
      /\ q.queue \in {"data", "mgmt"} /\ q.num \in Nat /\ q.server_connkey \in Nat
  BY <1>1, AskerFacts DEF Requests, Asker
<1>3. LET q0 == Head(inbox[s])
      IN \E r \in InitQP(s, q0.queue = "mgmt") :
        IF r.st # "ok"
        THEN /\ Outcome(r.st = "crash") /\ Install(s, r)
             /\ IF r.st = "crash" THEN down' = down \cup {s} /\ UNCHANGED <<answer, blanked>>
                ELSE /\ answer' = [answer EXCEPT ![q0.from] = Response(FALSE, s, r.mgr, r.key)]
                     /\ blanked' = IF FALSE \/ q0.queue = "mgmt" THEN blanked ELSE blanked \cup {s}
                     /\ UNCHANGED down
             /\ UNCHANGED <<queues, mgmtOf>>
        ELSE \E l \in ConnectQP(SetRemoteConnData(r.mgr, r.key, [lid |-> q0.from, num |-> q0.num]), r.card, r.key) :
                /\ Outcome(l.st = "ok") /\ Install(s, l)
                /\ answer' = [answer EXCEPT ![q0.from] = Response(l.st = "ok", s, l.mgr, r.key)]
                /\ blanked' = IF l.st = "ok" \/ q0.queue = "mgmt" THEN blanked ELSE blanked \cup {s}
                /\ UNCHANGED down
                /\ IF q0.queue = "data"
                   THEN queues' = [queues EXCEPT ![s] = Append(@, r.key)] /\ UNCHANGED mgmtOf
                   ELSE /\ mgmtOf' = [mgmtOf EXCEPT ![s] = Put(mgmtOf[s], q0.server_connkey, r.key)]
                        /\ UNCHANGED queues
  BY DEF HandleConnect, MgmtTable
<1>. HIDE DEF q, c
<1>4. PICK r \in InitQP(s, mgmt) :
        IF r.st # "ok"
        THEN /\ Outcome(r.st = "crash") /\ Install(s, r)
             /\ IF r.st = "crash" THEN down' = down \cup {s} /\ UNCHANGED <<answer, blanked>>
                ELSE /\ answer' = [answer EXCEPT ![c] = Response(FALSE, s, r.mgr, r.key)]
                     /\ blanked' = IF FALSE \/ q.queue = "mgmt" THEN blanked ELSE blanked \cup {s}
                     /\ UNCHANGED down
             /\ UNCHANGED <<queues, mgmtOf>>
        ELSE \E l \in ConnectQP(SetRemoteConnData(r.mgr, r.key, conn), r.card, r.key) :
                /\ Outcome(l.st = "ok") /\ Install(s, l)
                /\ answer' = [answer EXCEPT ![c] = Response(l.st = "ok", s, l.mgr, r.key)]
                /\ blanked' = IF l.st = "ok" \/ q.queue = "mgmt" THEN blanked ELSE blanked \cup {s}
                /\ UNCHANGED down
                /\ IF q.queue = "data"
                   THEN queues' = [queues EXCEPT ![s] = Append(@, r.key)] /\ UNCHANGED mgmtOf
                   ELSE /\ mgmtOf' = [mgmtOf EXCEPT ![s] = Put(mgmtOf[s], q.server_connkey, r.key)]
                        /\ UNCHANGED queues
  BY <1>2, <1>3
<1>. USE DEF q, c
<1>5. TypeInv
  BY DEF IInv
<1>6. CASE r.st # "ok"
  <2>1. faults' \in 0 .. MaxFaults
    <3>1. Outcome(TRUE) \/ Outcome(FALSE)
      BY <1>4, <1>6 DEF Outcome
    <3>. QED
      BY <1>5, <3>1, OutcomeType
  <2>2. Initialised(transport, mgr[s], card[s], mgmt, r.st, r.key, r.mgr, r.card)
    BY <1>4, SameGrown, InitQPOK
  <2>3. Install(s, r) /\ UNCHANGED <<queues, mgmtOf>>
    BY <1>4, <1>6
  <2>4. \/ down' = down \cup {s} /\ UNCHANGED <<answer, blanked>>
        \/ /\ answer' = [answer EXCEPT ![c] = Blank] /\ UNCHANGED down
           /\ blanked' = IF q.queue = "mgmt" THEN blanked ELSE blanked \cup {s}
    BY <1>4, <1>6 DEF Response
  <2>5. q.queue # "mem"
    BY <1>2
  <2>. QED
    BY <1>1, <2>1, <2>2, <2>3, <2>4, <2>5, ConnectFails
<1>7. CASE r.st = "ok"
  <2>. DEFINE k == r.key
  <2>1. PICK l \in ConnectQP(SetRemoteConnData(r.mgr, k, conn), r.card, k) :
          /\ Outcome(l.st = "ok") /\ Install(s, l)
          /\ answer' = [answer EXCEPT ![c] = Response(l.st = "ok", s, l.mgr, k)]
          /\ blanked' = IF l.st = "ok" \/ q.queue = "mgmt" THEN blanked ELSE blanked \cup {s}
          /\ UNCHANGED down
          /\ IF q.queue = "data"
             THEN queues' = [queues EXCEPT ![s] = Append(@, k)] /\ UNCHANGED mgmtOf
             ELSE /\ mgmtOf' = [mgmtOf EXCEPT ![s] = Put(mgmtOf[s], q.server_connkey, k)]
                  /\ UNCHANGED queues
    BY <1>4, <1>7
  <2>. DEFINE m2 == l.mgr
              h2 == l.card
              a == Response(l.st = "ok", s, m2, k)
              bl == IF l.st = "ok" \/ q.queue = "mgmt" THEN blanked ELSE blanked \cup {s}
  <2>2. Prepared(s, mgmt, c, q.num, k, l.st, m2, h2)
    BY <1>2, <1>4, <1>7, <2>1, PreparedOK
  <2>3. mgr' = [mgr EXCEPT ![s] = m2] /\ card' = [card EXCEPT ![s] = h2]
    BY <2>1 DEF Install
  <2>4. answer' = [answer EXCEPT ![c] = a] /\ blanked' = bl
    BY <2>1
  <2>5. faults' \in 0 .. MaxFaults /\ down' \in SUBSET Servers
    <3>1. Outcome(TRUE) \/ Outcome(FALSE)
      BY <2>1 DEF Outcome
    <3>. QED
      BY <1>5, <2>1, <3>1, OutcomeType DEF TypeInv
  <2>6. bl \in SUBSET Servers /\ blanked \subseteq bl /\ (q.queue = "mgmt" => bl = blanked)
        /\ (l.st = "ok" \/ q.queue = "mgmt" \/ s \in bl)
    BY <1>5 DEF TypeInv
  <2>. HIDE DEF k, m2, h2, bl
  <2>7. /\ NodeOK(transport, m2, h2) /\ Grown(mgr[s], m2) /\ CardGrown(card[s], h2)
        /\ LeadsAsBefore(card[s], h2, m2.qps[k], conn) /\ k \in Nat
    BY <2>2 DEF Prepared
  <2>8. conn.num # 0 => conn = [lid |-> Asker(s), num |-> inbox[s][1].num]
    OBVIOUS
  <2>. HIDE DEF conn
  <2>9. ASSUME NEW qs, NEW ms, qs \in Seq(Nat), ms \in Tables(Nat, Nat), a \in Answers,
               queues' = [queues EXCEPT ![s] = qs], mgmtOf' = [mgmtOf EXCEPT ![s] = ms]
        PROVE  ServerBecomes(s, m2, h2, m2.qps[k], conn, qs, ms, a, bl)
    <3>. HIDE DEF a
    <3>. QED
      BY <1>1, <2>3, <2>4, <2>5, <2>6, <2>7, <2>8, <2>9 DEF ServerBecomes
  <2>10. CASE q.queue = "data"
    <3>. DEFINE qs == Append(queues[s], k)
    <3>1. /\ queues' = [queues EXCEPT ![s] = qs] /\ mgmtOf' = [mgmtOf EXCEPT ![s] = mgmtOf[s]]
      BY <2>1, <2>10, SameGrown DEF k
    <3>2. /\ qs \in Seq(Nat) /\ QueuesGrown(queues[s], qs) /\ \E i \in 1 .. Len(qs) : qs[i] = k
      BY <2>7, SameGrown, QueuesAppend
    <3>. HIDE DEF qs
    <3>3. a \in Answers /\ AnswerMade(s, c, a, m2, h2, qs, bl)
      BY <1>1, <2>2, <2>6, <2>10, <3>2, AnswerGood
    <3>4. ServerBecomes(s, m2, h2, m2.qps[k], conn, qs, mgmtOf[s], a, bl)
      BY <2>9, <3>1, <3>2, <3>3, SameGrown
    <3>. HIDE DEF a
    <3>. QED
      BY <3>2, <3>3, <3>4, SameGrown, RequestHandled
  <2>11. CASE q.queue = "mgmt"
    <3>. DEFINE ms == Put(mgmtOf[s], q.server_connkey, k)
    <3>1. /\ mgmtOf' = [mgmtOf EXCEPT ![s] = ms] /\ queues' = [queues EXCEPT ![s] = queues[s]]
      BY <2>1, <2>11, SameGrown DEF k
    <3>2. ms \in Tables(Nat, Nat)
      BY <1>2, <2>7, SameGrown, PutType
    <3>3. s \notin bl => EntriesMade(s, m2, ms)
      <4>1. Prepared(s, TRUE, c, q.num, k, l.st, m2, h2)
        BY <2>2, <2>11
      <4>. QED
        BY <1>1, <2>6, <2>11, <4>1, MgmtEntry
    <3>. HIDE DEF ms
    <3>4. a \in Answers /\ AnswerMade(s, c, a, m2, h2, queues[s], bl)
      BY <1>1, <2>2, <2>6, <2>11, AnswerGood
    <3>5. ServerBecomes(s, m2, h2, m2.qps[k], conn, queues[s], ms, a, bl)
      BY <2>9, <3>1, <3>2, <3>4, SameGrown
    <3>. HIDE DEF a
    <3>. QED
      BY <3>3, <3>4, <3>5, SameGrown, RequestHandled
  <2>. QED
    BY <1>2, <2>10, <2>11
<1>. QED
  BY <1>6, <1>7

-----------------------------------------------------------------------------
(***************************************************************************)
(* The theorems.                                                           *)
(***************************************************************************)
\* Every step keeps the invariant, one that changes nothing too.
LEMMA NextInv ==
  ASSUME IInv, [Next]_vars
  PROVE  IInv'
<1>1. ASSUME NEW c \in Clients, ClientStep(c) PROVE IInv'
  BY <1>1, OpenQueueInv, ReceiveConnInv, ReadBlankInv, AskMemoryInv, ReceiveMemoryInv DEF ClientStep
<1>2. ASSUME NEW c \in Clients, Restart(c) PROVE IInv'
  BY <1>2, RestartInv
<1>3. ASSUME NEW c \in Clients, NEW d \in Calls, Call(c, CallOf(d)) PROVE IInv'
  BY <1>3, CallInv
<1>4. ASSUME NEW s \in Servers, ServerStep(s) PROVE IInv'
  BY <1>4, HandleConnectInv, HandleMemoryInv DEF ServerStep
<1>5. CASE UNCHANGED vars
  <2>1. UNCHANGED <<transport, mgr, card, pc, call, clients, addr, nodeAddr, joined, spoiled>>
        /\ UNCHANGED <<inbox, queues, mgmtOf, down, blanked, answer, faults>>
    BY <1>5 DEF vars, client, server
  <2>2. TypeInv' /\ NodesInv' /\ ClientsInv'
    BY <2>1 DEF IInv, TypeInv, NodesInv, ClientsInv
  <2>3. RequestsInv' /\ AnswersInv' /\ LinksInv'
    BY <2>1 DEF IInv, RequestsInv, AnswersInv, LinksInv
  <2>4. MgmtInv'
    BY <2>1 DEF IInv, MgmtInv
  <2>5. PeersInv'
    BY <2>1 DEF IInv, PeersInv, LeadAcross, LeadOver, LeadApart, RequestsNew, AnswersNew
  <2>. QED
    BY <2>2, <2>3, <2>4, <2>5 DEF IInv
<1>. QED
  BY <1>1, <1>2, <1>3, <1>4, <1>5 DEF Next

(***************************************************************************)
(* The invariant holds of all behaviours of connect, createManagementQueue *)
(* and remoteAlloc with the handlers of RDMAServer.                        *)
(***************************************************************************)
THEOREM Invariance == Spec => []IInv
<1>1. IInv /\ [Next]_vars => IInv'
  BY NextInv
<1>. QED
  BY InitInv, <1>1, PTL DEF Spec

\* The type invariant is a part of it.
LEMMA TypeFromInv == IInv => TypeOK
<1>. SUFFICES ASSUME IInv PROVE TypeOK
  OBVIOUS
<1>1. ASSUME NEW n \in Clients \cup Servers
      PROVE  /\ DOMAIN mgr[n].qps \subseteq 0 .. mgr[n].lastConnKey - 1
             /\ DOMAIN mgr[n].qps = DOMAIN mgr[n].lconns
             /\ mgr[n].connected \subseteq DOMAIN mgr[n].rconns
             /\ DOMAIN mgr[n].rconns \subseteq DOMAIN mgr[n].qps
             /\ \A k \in DOMAIN mgr[n].qps : mgr[n].qps[k] \in DOMAIN card[n]
             /\ \A k \in DOMAIN mgr[n].rconns : mgr[n].rconns[k] \in Conns
             /\ \A q \in DOMAIN card[n] :
                  card[n][q].state \in {"reset", "init", "rtr", "rts", "destroyed"}
                  /\ card[n][q].to \in Conns
  <2>1. NodeOK(transport, mgr[n], card[n])
    BY DEF IInv, NodesInv, Nodes
  <2>2. /\ mgr[n] \in Managers /\ card[n] \in Seq(QueuePairs) /\ TablesOK(mgr[n], card[n])
    BY <2>1 DEF NodeOK
  <2>3. DOMAIN card[n] = 1 .. Len(card[n])
    BY <2>2
  <2>4. \A q \in DOMAIN card[n] : card[n][q] \in QueuePairs
    BY <2>2, <2>3
  <2>5. \A q \in DOMAIN card[n] : /\ card[n][q].state \in {"reset", "init", "rtr", "rts", "destroyed"}
                                  /\ card[n][q].to \in Conns
    BY <2>4 DEF QueuePairs, States
  <2>6. \A k \in DOMAIN mgr[n].rconns : mgr[n].rconns[k] \in Conns
    BY <2>2, ManagerFacts, TableFacts
  <2>. QED
    BY <2>2, <2>3, <2>5, <2>6 DEF TablesOK, Alive
<1>2. ASSUME NEW c \in Clients
      PROVE  /\ pc[c] \in {"idle", "open", "wait", "ask", "crashed"}
             /\ clients[c] \subseteq DOMAIN addr[c].data
             /\ \A q \in {"data", "mgmt"}, s \in Servers :
                  s \in DOMAIN addr[c][q] => addr[c][q][s] \in DOMAIN mgr[c].qps
  <2>1. /\ pc[c] \in Places
        /\ StoredOK(clients[c], addr[c], joined[c], mgr[c], nodeAddr[c])
    BY ClientFacts DEF ClientOK
  <2>2. clients[c] \subseteq DOMAIN addr[c].data /\ KeysOK(addr[c], mgr[c])
    BY <2>1 DEF StoredOK
  <2>. QED
    BY <2>1, <2>2 DEF Places, KeysOK
<1>3. transport \in {"rc", "ud"} /\ down \subseteq Servers /\ faults \in 0 .. MaxFaults
  BY DEF IInv, TypeInv
<1>. QED
  BY <1>1, <1>2, <1>3 DEF TypeOK

(***************************************************************************)
(* The tables of every manager keep the same keys, all below m_lastConnKey,*)
(* and name queue pairs the card has; the addresses a client stores in     *)
(* m_addr and m_mgmt_addr are keys of its own manager.                     *)
(***************************************************************************)
THEOREM TypeCorrect == Spec => []TypeOK
BY Invariance, TypeFromInv, PTL

\* No two queue pairs lead to the same one.
LEMMA PeersFromInv == IInv => NoSharedPeer
<1>. SUFFICES ASSUME IInv, transport = "rc",
                     NEW n1 \in Nodes, NEW n2 \in Nodes,
                     NEW q1 \in DOMAIN card[n1], NEW q2 \in DOMAIN card[n2],
                     card[n1][q1].to = card[n2][q2].to, card[n1][q1].to.num # 0
              PROVE  n1 = n2 /\ q1 = q2
  BY DEF NoSharedPeer, Nodes
<1>1. card[n1] \in Seq(QueuePairs) /\ card[n2] \in Seq(QueuePairs)
  BY DEF IInv, NodesInv, NodeOK
<1>2. q1 \in 1 .. Len(card[n1]) /\ q2 \in 1 .. Len(card[n2])
  BY <1>1
<1>. QED
  BY <1>2 DEF IInv, PeersInv, LeadAcross, LeadApart

(***************************************************************************)
(* RC: connectQP never sets two queue pairs to the same peer, whatever     *)
(* calls were repeated, failed halfway or raced, and whoever restarted.    *)
(***************************************************************************)
THEOREM Sharing == Spec => []NoSharedPeer
BY Invariance, PeersFromInv, PTL

\* A connected key is ready as far as its queue pair could be made so, and leads where its connection data says.
LEMMA RouteOfConnected ==
  ASSUME IInv, NEW n \in Nodes, NEW k \in mgr[n].connected
  PROVE  Ready(n, k) /\ Route(n, k) = mgr[n].rconns[k]
<1>1. /\ OwnQPs(transport, mgr[n], card[n]) /\ UsableQPs(transport, mgr[n], card[n])
      /\ k \in DOMAIN mgr[n].qps
  BY DEF IInv, NodesInv, NodeOK, TablesOK
<1>2. transport = "rc" => card[n][mgr[n].qps[k]] = [state |-> "rts", to |-> mgr[n].rconns[k]]
  BY <1>1 DEF OwnQPs
<1>3. transport = "rc" =>
        card[n][mgr[n].qps[k]].state = "rts" /\ card[n][mgr[n].qps[k]].to = mgr[n].rconns[k]
  BY <1>2
<1>4. transport # "rc" => Usable(mgr[n], card[n], mgr[n].qps[k])
  BY <1>1 DEF UsableQPs
<1>. QED
  BY <1>3, <1>4 DEF Ready, Route, Usable

\* A server that was joined and not spoiled is linked, both ends ready.
LEMMA PairedFromInv == IInv => Paired
<1>. SUFFICES ASSUME IInv, NEW c \in Clients, NEW s \in joined[c] \ spoiled[c]
              PROVE  PairedWith(c, s)
  BY DEF Paired
<1>. DEFINE k == addr[c].data[s]
<1>1. StoredOK(clients[c], addr[c], joined[c], mgr[c], nodeAddr[c]) /\ joined[c] \in SUBSET Servers
  BY ClientFacts DEF ClientOK
<1>2. s \in clients[c] \ spoiled[c] /\ s \in Servers /\ c \in Nodes /\ s \in Nodes
  BY <1>1, Sides DEF StoredOK
<1>3. nodeAddr[c][NodeID[s] + 1] = k
  BY <1>1 DEF StoredOK, IdsOK
<1>4. Linked(c, s, addr[c], mgr[c], queues[s], mgr[s])
  BY <1>2 DEF IInv, LinksInv, Unfinished
<1>. HIDE DEF k
<1>5. k \in mgr[c].connected /\ mgr[c].rconns[k].lid = s
  BY <1>4 DEF Linked, k
<1>6. PICK j \in mgr[s].connected : /\ ServerEnd(queues[s], mgr[s], j, c, mgr[c].qps[k])
                                    /\ mgr[s].qps[j] = mgr[c].rconns[k].num
  BY <1>4 DEF Linked, DataQP, k
<1>7. Ready(c, k) /\ Route(c, k) = mgr[c].rconns[k]
  BY <1>2, <1>5, RouteOfConnected
<1>8. Ready(s, j) /\ Route(s, j) = mgr[s].rconns[j]
  BY <1>2, <1>6, RouteOfConnected
<1>9. PICK i \in 1 .. Len(queues[s]) : queues[s][i] = j
  BY <1>6 DEF ServerEnd
<1>10. i \in DOMAIN queues[s]
  BY <1>2, <1>9 DEF IInv, TypeInv
<1>11. mgr[s].rconns[j] = [lid |-> c, num |-> mgr[c].qps[k]]
  BY <1>6 DEF ServerEnd
<1>12. \E x \in DOMAIN queues[s] :
         /\ Ready(s, queues[s][x])
         /\ mgr[s].qps[queues[s][x]] = Route(c, k).num
         /\ Route(s, queues[s][x]) = [lid |-> c, num |-> mgr[c].qps[k]]
  <2>. WITNESS i \in DOMAIN queues[s]
  <2>. QED
    BY <1>6, <1>7, <1>8, <1>9, <1>11
<1>. QED
  BY <1>3, <1>5, <1>7, <1>12 DEF PairedWith, k

(***************************************************************************)
(* When connect has returned true and nothing of it was blank or failed    *)
(* halfway, the client's queue pair and one the server lists in getQueues  *)
(* lead to each other, the node id leads to it, and both queue pairs are   *)
(* ready to send, but for those of UD that failed to become ready when     *)
(* they were created.                                                      *)
(***************************************************************************)
THEOREM Pairing == Spec => []Paired
BY Invariance, PairedFromInv, PTL

\* The entries of the management tables lead back.
LEMMA MgmtFromInv == IInv => MgmtLeadsBack
<1>. SUFFICES ASSUME IInv, NEW s \in Servers \ blanked, NEW k \in DOMAIN mgmtOf[s]
              PROVE  LET to == mgr[s].rconns[k]
                         mto == mgr[s].rconns[mgmtOf[s][k]]
                         c == to.lid
                     IN /\ mto.lid = c
                        /\ \/ card[c][to.num].state = "destroyed"
                           \/ /\ s \in DOMAIN addr[c].mgmt
                              /\ mgr[c].lconns[addr[c].data[s]] = to.num
                              /\ mgr[c].qps[addr[c].mgmt[s]] = mto.num
  BY DEF MgmtLeadsBack
<1>1. /\ EntryOK(k, mgmtOf[s][k], mgr[s])
      /\ LET c == mgr[s].rconns[k].lid
         IN LeadsBack(s, card[c], addr[c], mgr[c], mgr[s].rconns[k].num,
                      mgr[s].rconns[mgmtOf[s][k]].num)
  BY DEF IInv, MgmtInv
<1>. QED
  BY <1>1 DEF EntryOK, LeadsBack

(***************************************************************************)
(* getMgmtQueue: m_addr2mgmtAddr leads from the queue of a client to the   *)
(* management queue of the same client, as long as the server gave no      *)
(* blank answer for a data queue and the client has not ended.             *)
(***************************************************************************)
THEOREM Management == Spec => []MgmtLeadsBack
BY Invariance, MgmtFromInv, PTL
================================================================================
