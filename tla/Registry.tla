------------------------------- MODULE Registry -------------------------------
(***************************************************************************)
(* RegistryServer and the NodeServers behind it, and the clients that      *)
(* register, join, retrieve and extend buffers through RegistryClient.     *)
(*                                                                         *)
(* The registry handles one message at a time and asks a node for memory   *)
(* inside the handler; a client waits for the answer.  So a call is one    *)
(* step, and the steps of clients interleave between calls.                *)
(*                                                                         *)
(* Rings are never released, and nothing else is allocated at the nodes:   *)
(* the memory of a node is filled from the front, ring after ring.  It is  *)
(* counted in units.  Buffers differ in the shape of their rings, and what *)
(* matters of the content of a unit is who stored it.                      *)
(*                                                                         *)
(* A definition introduced by "Fault:" is no part of the specification: it *)
(* is the definition after it with a mistake, to show that a property      *)
(* notices the mistake.                                                    *)
(***************************************************************************)
EXTENDS Integers, Sequences

CONSTANTS
  Clients,
  Names,      \* names of buffers
  NodeIds,    \* node ids clients use
  NumNodes,   \* Config::DPI_NODES.size()
  Room,       \* units of memory of a node
  HeaderSize, \* units of a segment header
  Shapes,     \* shapes of rings: see below
  None,       \* in content: as the node server left it
  Appenders,  \* values of participatingAppenders
  MaxRegister, \* bound of the model: registrations of a name
  MaxCreate   \* bound of the model: calls of createSegmentRingOnBuffer per name

\* Units in front of the first segment (the counter of a ring of type LAT, none for BW),
\* number of segments, and units of a segment with its header.
Shape == [lead : Nat, count : Nat \ {0}, size : Nat \ {0}]

ASSUME RegistryAssumption ==
  /\ Names # {} /\ NumNodes \in Nat /\ NodeIds \subseteq Nat \ {0}
  /\ Room \in Nat /\ HeaderSize \in Nat \ {0}
  /\ Shapes # {} /\ \A s \in Shapes : s \in Shape /\ HeaderSize <= s.size
  /\ None \notin Clients \cup Shapes /\ Clients \cap Shapes = {}
  /\ Appenders \subseteq Nat /\ MaxRegister \in Nat /\ MaxCreate \in Nat

Nodes == 1 .. NumNodes
Units == 0 .. Room - 1
NoRing == -1

VARIABLES
  \* RegistryServer
  up,         \* it answers: it has not crashed and does not wait for a node that has
  known,      \* the keys of m_bufferHandles
  node,       \* node[b]: node_id of the handle
  shape,      \* shape[b]: segmentsPerWriter, segmentSizes and buffertype of the handle
  rings,      \* rings[b]: entrySegments of the handle, the offsets of first segments
  joined,     \* m_appendersJoinedBuffer
  \* NodeServer n
  dead,       \* the node servers that have crashed
  allocated,  \* allocated[n]: units given out
  content,    \* content[n][x]: who stored unit x: None, a client that writes or reads
              \* its ring, or a request for rings of a shape that was refused
  \* clients
  pc,         \* where the client is
  buffer,     \* the buffer it works on
  ring,       \* the offset of the ring its writer was given, NoRing before
  \* history
  registers,  \* registers[b]: register requests for b
  created,    \* created[b]: rings added by createSegmentRingOnBuffer
  strayed     \* nodes with a store to offset 0 that is not of the ring there

server  == <<up, known, node, shape, rings, joined>>
memory  == <<dead, allocated, content>>
clients == <<pc, buffer, ring>>
history == <<registers, created, strayed>>
vars    == <<server, memory, clients, history>>

Init ==
  /\ up        = TRUE
  /\ known     = {}
  /\ node      = [b \in Names |-> 0]
  /\ shape     = [b \in Names |-> CHOOSE s \in Shapes : TRUE]
  /\ rings     = [b \in Names |-> << >>]
  /\ joined    = [b \in Names |-> 0]
  /\ dead      = {}
  /\ allocated = [n \in Nodes |-> 0]
  /\ content   = [n \in Nodes |-> [x \in Units |-> None]]
  /\ pc        = [c \in Clients |-> "idle"]
  /\ buffer    = [c \in Clients |-> CHOOSE b \in Names : TRUE]
  /\ ring      = [c \in Clients |-> NoRing]
  /\ registers = [b \in Names |-> 0]
  /\ created   = [b \in Names |-> 0]
  /\ strayed   = {}

-----------------------------------------------------------------------------
(***************************************************************************)
(* A ring of shape s whose first segment is at offset o.                   *)
(***************************************************************************)
Body(s)   == s.count * s.size
Extent(s) == s.lead + Body(s)

First(s, o) == o - s.lead
Past(s, o)  == o + Body(s)
RingUnits(s, o) == First(s, o) .. Past(s, o) - 1

Counter(s, o) == First(s, o) .. o - 1
Headers(s, o) == {o + i * s.size + j : i \in 0 .. s.count - 1, j \in 0 .. HeaderSize - 1}

(***************************************************************************)
(* NodeServer::handle of a DPIAllocSegmentsRequest, called up to k times.  *)
(* When the memory does not suffice the answer is an error, and counter    *)
(* and headers are stored all the same, from offset 0 on: into the rings   *)
(* that are there, or past the end of the memory.                          *)
(***************************************************************************)
\* How many of the k rings are created before createRingOnBuffer fails.
Granted(n, k, s) ==
  IF n > NumNodes THEN 0
  ELSE IF k * Extent(s) <= Room - allocated[n] THEN k
  ELSE (Room - allocated[n]) \div Extent(s)

Refused(n, k, s) == n <= NumNodes /\ Granted(n, k, s) < k

\* Fault: a ring starts where the one before it starts.
NewRingsOverlapping(n, k, s) ==
  [i \in 1 .. Granted(n, k, s) |->
     s.lead + IF allocated[n] = 0 THEN (i - 1) * Extent(s)
                                  ELSE allocated[n] - 1 + (i - 1) * Extent(s)]

\* The offsets of the new rings.
NewRings(n, k, s) ==
  [i \in 1 .. Granted(n, k, s) |-> allocated[n] + (i - 1) * Extent(s) + s.lead]

\* Fault: the headers are stored one unit too early.
FormattedEarly(n, k, s) ==
  {x - 1 : x \in UNION {Counter(s, NewRings(n, k, s)[i]) \cup Headers(s, NewRings(n, k, s)[i]) :
                          i \in 1 .. Granted(n, k, s)}}

\* The units of the new rings that are stored.
Formatted(n, k, s) ==
  UNION {Counter(s, NewRings(n, k, s)[i]) \cup Headers(s, NewRings(n, k, s)[i]) :
           i \in 1 .. Granted(n, k, s)}

\* The units stored when a ring is refused; where they are past the end of the memory
\* the node server may crash.
Misplaced(s) == Counter(s, s.lead) \cup Headers(s, s.lead)

AllocRings(n, k, s) ==
  IF n > NumNodes THEN UNCHANGED <<memory, strayed>>
  ELSE /\ allocated' = [allocated EXCEPT ![n] = @ + Granted(n, k, s) * Extent(s)]
       /\ content'   = [content EXCEPT ![n] =
            [x \in Units |->
               IF Refused(n, k, s) /\ x \in Misplaced(s) THEN s
               ELSE IF x \in Formatted(n, k, s) THEN None ELSE @[x]]]
       /\ strayed' = IF Refused(n, k, s) THEN strayed \cup {n} ELSE strayed
       /\ \/ dead' = dead
          \/ /\ Refused(n, k, s) /\ ~(Misplaced(s) \subseteq Units)
             /\ dead' = dead \cup {n}

-----------------------------------------------------------------------------
(***************************************************************************)
(* RegistryServer::handle.                                                 *)
(***************************************************************************)

\* Fault: a buffer of that name is replaced.
RegisterAgain(b, n, k, s) ==
  /\ known' = known \cup {b}
  /\ node'  = [node EXCEPT ![b] = n]
  /\ shape' = [shape EXCEPT ![b] = s]
  /\ rings' = [rings EXCEPT ![b] = NewRings(n, k, s)]
  /\ AllocRings(n, k, s)
  /\ joined'    = [joined EXCEPT ![b] = 0]
  /\ registers' = [registers EXCEPT ![b] = @ + 1]
  /\ UNCHANGED <<up, created>>

\* DPIAppendBufferRequest with "register" set: a new name gets as many of the k rings
\* as there is memory for; the count of joined appenders is reset in any case.  A node
\* that crashes never answers.
HandleRegister(b, n, k, s) ==
  /\ up
  /\ \/ /\ b \notin known
        /\ known' = known \cup {b}
        /\ node'  = [node EXCEPT ![b] = n]
        /\ shape' = [shape EXCEPT ![b] = s]
        /\ rings' = [rings EXCEPT ![b] = NewRings(n, k, s)]
        /\ AllocRings(n, k, s)
        /\ up' = (dead' = dead)
     \/ /\ b \in known
        /\ UNCHANGED <<up, known, node, shape, rings, memory, strayed>>
  /\ joined'    = [joined EXCEPT ![b] = 0]
  /\ registers' = [registers EXCEPT ![b] = @ + 1]
  /\ UNCHANGED created

\* DPIRetrieveBufferRequest with "isappender" set: a ring is left.
CanJoin(b) == b \in known /\ joined[b] # Len(rings[b])

\* Fault: an appender is counted before and after it is given a ring.
HandleJoinTwice(c) ==
  /\ up /\ CanJoin(buffer[c])
  /\ ring'   = [ring EXCEPT ![c] = rings[buffer[c]][joined[buffer[c]] + 1]]
  /\ joined' = [joined EXCEPT ![buffer[c]] = @ + 2]
  /\ UNCHANGED <<up, known, node, shape, rings, memory, history>>

\* Fault: the appender is given a ring and not counted.
HandleJoinUncounted(c) ==
  /\ up /\ CanJoin(buffer[c])
  /\ ring' = [ring EXCEPT ![c] = rings[buffer[c]][joined[buffer[c]] + 1]]
  /\ UNCHANGED <<server, memory, history>>

HandleJoin(c) ==
  /\ up /\ CanJoin(buffer[c])
  /\ ring'   = [ring EXCEPT ![c] = rings[buffer[c]][joined[buffer[c]] + 1]]
  /\ joined' = [joined EXCEPT ![buffer[c]] = @ + 1]
  /\ UNCHANGED <<up, known, node, shape, rings, memory, history>>

-----------------------------------------------------------------------------
(***************************************************************************)
(* The calls of clients.                                                   *)
(***************************************************************************)

\* RegistryClient::registerBuffer by itself, and as the first part of
\* DPI_Create_buffer, which does not look at the result.
RegisterBuffer(c, b, n, k, s) ==
  /\ pc[c] = "idle"
  /\ registers[b] < MaxRegister
  /\ HandleRegister(b, n, k, s)
  /\ UNCHANGED clients

CreateBuffer(c, b, n, k, s) ==
  /\ pc[c] = "idle"
  /\ registers[b] < MaxRegister
  /\ HandleRegister(b, n, k, s)
  /\ pc'     = [pc EXCEPT ![c] = "retrieve"]
  /\ buffer' = [buffer EXCEPT ![c] = b]
  /\ UNCHANGED ring

\* DPI_Create_buffer: the handle for the reader is retrieved.
RetrieveBuffer(c) ==
  /\ pc[c] = "retrieve" /\ up
  /\ buffer[c] \in known
  /\ pc' = [pc EXCEPT ![c] = "join"]
  /\ UNCHANGED <<server, memory, buffer, ring, history>>

\* The constructor of a writer, called by the application.
NewWriter(c, b) ==
  /\ pc[c] = "idle"
  /\ pc'     = [pc EXCEPT ![c] = "join"]
  /\ buffer' = [buffer EXCEPT ![c] = b]
  /\ UNCHANGED <<server, memory, ring, history>>

\* The constructor joins the buffer; it uses the handle it is given without looking
\* whether there is one.
JoinBuffer(c) ==
  /\ pc[c] = "join"
  /\ HandleJoin(c)
  /\ pc' = [pc EXCEPT ![c] = "joined"]
  /\ UNCHANGED buffer

JoinFails(c) ==
  /\ pc[c] = "join" /\ up
  /\ ~CanJoin(buffer[c])
  /\ pc' = [pc EXCEPT ![c] = "crashed"]
  /\ UNCHANGED <<server, memory, buffer, ring, history>>

-----------------------------------------------------------------------------
(***************************************************************************)
(* What a writer and the reader of its ring store.                         *)
(***************************************************************************)
NodeOf(c)  == node[buffer[c]]
ShapeOf(c) == shape[buffer[c]]
OwnUnits(c) == RingUnits(ShapeOf(c), ring[c])

\* Writers c and d were given the same ring.
SameRing(c, d) == ring[c] # NoRing /\ ring[c] = ring[d] /\ NodeOf(c) = NodeOf(d)

\* What is in unit x of the ring of c is of this ring: the node server, its writers and
\* its reader put it there, or a request that was refused and asked for what is there.
Proper(c, x) ==
  LET v == content[NodeOf(c)][x]
  IN  \/ v = None
      \/ v \in Clients /\ SameRing(v, c)
      \/ v = ShapeOf(c) /\ ring[c] = v.lead

\* A header of the ring is not.
Astray(c) == \E x \in Headers(ShapeOf(c), ring[c]) : ~Proper(c, x)

\* append stores to a segment.  A writer of type BW goes where the headers lead it.
AppendUnit(c, x) ==
  /\ pc[c] \in {"joined", "writer"} /\ NodeOf(c) \notin dead
  /\ x \in OwnUnits(c) \/ (ShapeOf(c).lead = 0 /\ Astray(c))
  /\ content' = [content EXCEPT ![NodeOf(c)][x] = c]
  /\ pc' = [pc EXCEPT ![c] = "writer"]
  /\ UNCHANGED <<server, dead, allocated, buffer, ring, history>>

\* The reader releases a segment of the ring, and counts it if the ring has a counter.
\* It always goes where the headers lead it.
ReleaseUnit(c, x) ==
  /\ pc[c] \in {"joined", "writer", "closed"} /\ NodeOf(c) \notin dead
  /\ \/ pc[c] # "joined" /\ x \in Counter(ShapeOf(c), ring[c]) \cup Headers(ShapeOf(c), ring[c])
     \/ Astray(c)
  /\ content' = [content EXCEPT ![NodeOf(c)][x] = c]
  /\ UNCHANGED <<server, dead, allocated, clients, history>>

\* close stores the header of the current segment.
CloseWriter(c, x) ==
  /\ pc[c] = "writer" \/ (pc[c] = "joined" /\ ShapeOf(c).lead = 0)
  /\ NodeOf(c) \notin dead
  /\ x \in Headers(ShapeOf(c), ring[c]) \/ (ShapeOf(c).lead = 0 /\ Astray(c))
  /\ content' = [content EXCEPT ![NodeOf(c)][x] = c]
  /\ pc' = [pc EXCEPT ![c] = "closed"]
  /\ UNCHANGED <<server, dead, allocated, buffer, ring, history>>

\* For a ring of type LAT without messages it is stored at offset 0, whosever that is.
CloseUnused(c) ==
  /\ pc[c] = "joined" /\ ShapeOf(c).lead > 0
  /\ NodeOf(c) \notin dead
  /\ content' = [content EXCEPT ![NodeOf(c)] =
       [x \in Units |-> IF x < HeaderSize THEN c ELSE @[x]]]
  /\ strayed' = strayed \cup {NodeOf(c)}
  /\ pc' = [pc EXCEPT ![c] = "closed"]
  /\ UNCHANGED <<server, dead, allocated, buffer, ring, registers, created>>

\* createSegmentRingOnBuffer: the buffer gets one more ring; when there is no memory
\* for it the registry dereferences a null segment.
CreateRing(b) ==
  LET n == node[b]
      s == shape[b]
  IN  /\ up /\ b \in known /\ created[b] < MaxCreate
      /\ AllocRings(n, 1, s)
      /\ created' = [created EXCEPT ![b] = @ + 1]
      /\ \/ /\ Granted(n, 1, s) = 1
            /\ rings' = [rings EXCEPT ![b] = @ \o NewRings(n, 1, s)]
            /\ UNCHANGED up
         \/ /\ Granted(n, 1, s) = 0
            /\ up' = FALSE
            /\ UNCHANGED rings
      /\ UNCHANGED <<known, node, shape, joined, clients, registers>>

Next ==
  \/ \E c \in Clients, b \in Names, n \in NodeIds, k \in Appenders, s \in Shapes :
       RegisterBuffer(c, b, n, k, s) \/ CreateBuffer(c, b, n, k, s)
  \/ \E c \in Clients :
       RetrieveBuffer(c) \/ JoinBuffer(c) \/ JoinFails(c) \/ CloseUnused(c)
  \/ \E c \in Clients, b \in Names : NewWriter(c, b)
  \/ \E c \in Clients, x \in Units :
       AppendUnit(c, x) \/ ReleaseUnit(c, x) \/ CloseWriter(c, x)
  \/ \E b \in Names : CreateRing(b)

Spec == Init /\ [][Next]_vars

-----------------------------------------------------------------------------
\* The count of joined appenders, compared with "==" by the join, never gets past the
\* number of rings, and a writer's ring is one that retrieveBuffer names.
TypeOK ==
  /\ up \in BOOLEAN /\ known \subseteq Names
  /\ node \in [Names -> NodeIds \cup {0}]
  /\ shape \in [Names -> Shapes]
  /\ rings \in [Names -> Seq(Units)]
  /\ joined \in [Names -> Nat]
  /\ dead \subseteq Nodes
  /\ allocated \in [Nodes -> 0 .. Room]
  /\ content \in [Nodes -> [Units -> Clients \cup Shapes \cup {None}]]
  /\ pc \in [Clients -> {"idle", "retrieve", "join", "joined", "writer", "closed", "crashed"}]
  /\ buffer \in [Clients -> Names]
  /\ ring \in [Clients -> Units \cup {NoRing}]
  /\ registers \in [Names -> Nat] /\ created \in [Names -> Nat]
  /\ strayed \subseteq Nodes
  /\ \A b \in Names : joined[b] <= Len(rings[b])
  /\ \A c \in Clients : ring[c] # NoRing =>
       \E i \in DOMAIN rings[buffer[c]] : rings[buffer[c]][i] = ring[c]

(***************************************************************************)
(* No two entries of the registry lead to the same memory, whatever the    *)
(* shapes of their rings and however many registrations failed for want of *)
(* memory.                                                                 *)
(***************************************************************************)
RingsDisjoint ==
  \A a, b \in known : \A i \in DOMAIN rings[a], j \in DOMAIN rings[b] :
    node[a] = node[b] /\ ~(a = b /\ i = j) =>
      RingUnits(shape[a], rings[a][i]) \cap RingUnits(shape[b], rings[b][j]) = {}

(***************************************************************************)
(* As long as a buffer is registered once, each of its writers has a ring  *)
(* of its own, whatever the order of the joins, and no writer of another   *)
(* buffer is in it.                                                        *)
(***************************************************************************)
ExclusiveUnlessRegisteredAgain ==
  \A c, d \in Clients : c # d /\ SameRing(c, d) => registers[buffer[c]] > 1

(***************************************************************************)
(* "Each entry in the vector corresponds to one ring for a writer": no two *)
(* writers are in the same ring.                                           *)
(***************************************************************************)
RingForOneWriter == \A c, d \in Clients : c # d => ~SameRing(c, d)

(***************************************************************************)
(* A handle retrieved earlier stays good: the rings of a buffer keep their *)
(* places, their shape and its node, new ones are added at the end.        *)
(***************************************************************************)
HandlesGrow ==
  [][\A b \in known :
       /\ node'[b] = node[b] /\ shape'[b] = shape[b]
       /\ Len(rings[b]) <= Len(rings'[b])
       /\ \A i \in DOMAIN rings[b] : rings'[b][i] = rings[b][i]]_vars

(***************************************************************************)
(* What a writer or its reader stored in their ring stays until they store *)
(* there again: the rings created later start behind it, and the stores of *)
(* other buffers end before it.  There are two exceptions: a buffer that   *)
(* was registered again has two writers in a ring; and on a node that      *)
(* refused a request, or where a ring of type LAT was closed without       *)
(* messages, headers stored at offset 0 may have led anybody anywhere.     *)
(* Even then no ring that is granted is laid out over another.             *)
(***************************************************************************)
WrittenIsKept ==
  [][\A c \in Clients : ring[c] # NoRing =>
       \A x \in OwnUnits(c) :
         content[NodeOf(c)][x] = c /\ content'[NodeOf(c)][x] # c =>
           /\ content'[NodeOf(c)][x] # None
           /\ NodeOf(c) \in strayed' \/ registers[buffer[c]] > 1]_vars

===============================================================================
