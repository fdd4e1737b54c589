# Verification of the DPI library

The DPI library gives applications on an RDMA cluster named *buffers*: any number of
appenders write into memory of one node, and a consumer on that node, or a reader anywhere,
takes the data out. This directory holds TLA+ models of the library's core, their TLC runs,
and proofs checked by TLAPS. Paths below are relative to `src/src/` of the repository.

## The system

| Component | State | Operations | Talks to |
|---|---|---|---|
| BW ring: `BufferWriterBW` (`dpi/BufferWriter.h`) | current segment and fill level, copy of its header, internal buffer, send queue | `append`, `close` | ring memory by RDMA; `RegistryClient` once |
| LAT ring: `BufferWriterLat` | free segments, last reading of the counter, internal buffer | `append`, `close` | as above |
| `BufferIterator`, `BufferIteratorLat` (`dpi/local_iterators`) | one cursor per ring, the segment handed out last | `has_next`, `next`, `mark_prev_segment` | ring memory by loads and stores |
| `BufferReader` (`dpi/BufferReader.h`) | a handle, memory for what it reads | `read` | registry, ring memory by RDMA |
| `RegistryServer`, `RegistryClient` | buffer handles, number of joined appenders per buffer | register, join, retrieve, create ring | node servers for memory |
| `NodeServer` / `RDMAServer` | registered memory, queue pairs and their management queues | allocate and initialise rings, connect queue pairs | allocator |
| Allocator in `RDMAManager.h` | free list, used regions | `internalAlloc`, `internalFree`, `mergeFreeMem` | |
| `RDMAClient` / `RDMAManagerRC`, `RDMAManagerUD` (`net/rdma`) | connection tables, queue pairs, request counter, multicast groups | `connect`, `write`, `read`, `send`, `receive`, `joinMCastGroup`, ... | network cards, `RDMAServer` |
| `ProtoServer`, `ProtoSocket`, `ProtoClient`, `Thread` | server thread, flags, ZeroMQ socket and context | start, run, stop; request and answer | |
| `memory-api` | a context with writers and readers | `DPI_Create_buffer`, `DPI_Append`, ... | the classes above |

What is hard here. Writer and iterator share no lock: the flags in the header of each segment
(writeable, consumable, end) are the only synchronisation, written by network cards on one
side and by plain stores on the other. Payload writes are not waited for, and read the
writer's internal buffer after the call has returned. The registry's answers depend on the
order in which clients arrive and on memory running out in the middle of a call. Stopping a
server involves two threads and a blocking destructor. Connecting takes two messages and up
to four calls of the card on each side, any of which may fail while the other side has already
recorded its half. Completions of one queue are taken by whoever polls first, and only every
`RDMA_MAX_WR`-th request asks for one. `PROJECT.json` lists these as
hazards with the line where each bites and the properties aimed at it.

What makes it correct:
- a ring delivers its writer's bytes, all of them, in order, and reports the end exactly once
  everything has been read;
- a segment has one user at a time;
- reading a closed buffer returns everything that was appended to it;
- a connection that was reported made leads to the right peer, and back;
- a signaled request that reports success vouches for those before it;
- calls that wait (append for a segment, connect, a signaled request, start and stop of a
  server) come back;
- the registry never leads two writers into the same ring, or two rings into the same memory;
- the allocator gives out no byte twice and loses none.

## Modules

| Module | Models |
|---|---|
| `BufferStream` | abstract specification: one byte stream per appender |
| `BufferBW` | BW rings, writers, network cards, `BufferIterator`; refines `BufferStream` |
| `BufferLat` | a LAT ring, its writer and `BufferIteratorLat`; refines `BufferStream` |
| `RdmaMem` | the allocator |
| `Registry` | `RegistryServer`, ring allocation by `NodeServer`, clients |
| `RdmaConnect` | connection set-up between `RDMAClient` and `RDMAServer`, with either manager |
| `RdmaTransfer` | requests, send and receive, multicast over connected queue pairs |
| `MemoryApi` | the memory API for one buffer, and `BufferReader` |
| `ProtoServer` | the server thread, its start and stop, clients' requests |
| `BufferBWProof`, `BufferLatProof`, `RegistryProof`, `RdmaMemProof`, `RdmaConnectProof`, `RdmaTransferProof`, `MemoryApiProof`, `ProtoServerProof` | theorems about the module of that name |
| `MC*` | instances for TLC |

In every module a definition introduced by `Fault:` is a wrong version of the definition that
follows. It is not part of the specification: replacing the right one by it must make the
property named in `PROJECT.json` ("mutants") fail, which shows that the property can notice
such a mistake.

### BufferBW

`header[w][s]` and `payload[w][s]` are the memory of segment `s` of ring `w`; the variables
of a writer carry the names of the members of `BufferWriterBW`. A byte is the number of its
place in the stream, so order and completeness can be read off the data.

- `Append_` is the call. Its chunks, the split at the end of a segment and the restart of the
  internal buffer are `WriteToSegment`, `DrainInternalBuffer`/`WriteFromFront` and `NoRoom`;
  `getNextSegment` is `PublishSegment`, `FetchHeader`, `FetchFlags`. `Close` may be repeated,
  as `DPI_Finalize` does.
- `Post` puts a request into the send queue; `LandData`, `LandCounter`, `LandFlags` execute
  its head later, reading the internal buffer, or `m_segmentHeader`, at that time. A call
  with a signaled request goes on when the queue is empty (`Ready`). These actions stand for
  the hardware and are marked external.
- `SkipRing`, `FoundSegment`, `DropRing`, `NoMoreRings` are the branches of `has_next`;
  `MarkCounter`, `MarkConsumable`, `MarkWriteable` the three stores of `mark_prev_segment`;
  `Take` the rest of `next`; `Use` the application reading the bytes.

Assumed of the hardware: a reliable connection executes requests in order; a header of 24
bytes becomes visible in the order of its addresses, in at least two parts (the flags last).
Completion with an error is not modelled here; `RdmaTransfer` does, without the data.

### BufferLat

One ring and messages of one size, so that the internal buffer is a row of slots. The
counter in front of the ring counts the segments released; `ReadCounter` is the writer's
loop on it. Header and message are one write that lands in three parts; the message lands last. A
message the application reads before it has landed is recorded as `torn`. The second
`memcpy` of `writeToSegment` is too long by a header; `CopyMessage` spoils the next slot
accordingly. Rings of several writers only share the iterator's loop, which `BufferBW` covers.
The 64-bit counter does not wrap in the model.

### Registry

A call of a client is one step, since the registry handles one message at a time and asks
the node within the handler. Buffers have rings of different shapes: type (a LAT ring has a counter
in front), number and size of segments. Rings are never released, so that the memory of a node,
counted in units, is filled from the front. A request that is refused leaves room for smaller rings.
`content` says of every unit who stored it last: the node server when it laid out the ring (`None`),
a writer or its reader, or a request that was refused.

`AllocRings` is the allocation by `NodeServer::handle`: `Formatted` are the units it stores in
new rings, `Misplaced` those it stores after an allocation that failed, from offset 0 and with
the sizes of the ring it could not allocate; past the end of the memory that may crash the node
server. `AppendUnit`, `CloseWriter` and `ReleaseUnit` (by the iterator) store to a ring; once a
header of the ring is not its own (`Astray`) they may go anywhere, since `nextSegmentOffset` is
read from it. A LAT writer does not read it, and only its reader goes astray. `CloseUnused` is
`close` of a LAT ring without messages, which stores at offset 0. `strayed` is history: the nodes
that had such a store, or a refused request.

### RdmaMem

The free list as a sequence in the code's order, the used regions as a set. `lost` is
history: the regions whose release returned false.

### RdmaConnect

`mgr[n]` holds the tables of a manager, indexed by connection key; `card[n]` the queue pairs by
number, with their state and the queue pair they lead to. `InitQP` and `ConnectQP` give the set
of outcomes of `initQP` and `connectQP`: success, and one failure for each call of the card,
with the tables as the code leaves them there. RC has a queue pair per key. UD has one for all
data and one for all management connections, tells the number of the first for both, and follows a null
pointer when the second is asked for first. A queue pair of UD that could not be made ready is used
again by the next `initQP`; `unready` records these (history).

A client's `connect` is `Call`, `OpenQueue` (initQP, socket, request) and `ReceiveConn` (answer,
connectQP), repeated for the management queue; `AskMemory` and `ReceiveMemory` are the requests
for memory, which connect first. `HandleConnect` is `connectQueue` or `connectMgmtQueue` in one
step, as they run under a lock in the one server thread; `Response` shows that their result is
ignored. `ReadBlank` is the read of sixteen elements from the empty field of such an answer.
`Restart` destroys a client and its manager; the server keeps its side. `joined`, `spoiled` and
`blanked` are history: for which servers connect returned true, which of them had an attempt fail
after the socket was stored, and which servers sent a blank answer.

### RdmaTransfer

A request in `sq[q]` holds a slot of the send queue until a completion at or after it has been
polled. `PostSend` posts and, if the request is signaled, leaves the node waiting; `WaitedCall`
is the polling loop, which takes the first completion it finds, whosever it is. `CheckSignaled`
covers the counters of `RDMAClient` and `RDMAServer`, which differ in when they start over.
Receive buffers are posted for a peer; with UD all peers share one queue pair. `unread` counts,
per peer, the buffers filled less the receives reported. `mcast` tells apart a group left and one
never joined: a client keeps the address of a group it left, and a server makes up one for a
group it never joined, and calls for either use objects that are not there (`UseDangling`).

The network cards are external: requests are executed in order, an error puts the queue pair
into an error state, a message that meets no receive buffer is an error with RC (`rnr_retry` is
0) and is lost with UD, where any message may be lost. Data and addresses are left out: all
one-sided requests take the same steps.

### MemoryApi

The calls of the API for one buffer, from several processes with a context each. The writer
is abstracted from `BufferBW` to what a reader can see: `Fill` writes the bytes that fit and, if
more are left, the header. No iterator runs, since the API offers none, so that a full
ring stops its writer. `read` is `DPI_Get_buffer` (allocation), then `ReadHeader` and `ReadData`
for every segment. `UnknownBuffer` is any call with a name that is not in the context, which
uses a null pointer. `overrun` marks a read that would write past its memory.

### ProtoServer

The application thread (`mpc`) and the server thread (`spc`) with the flags `m_running` and
`m_kill`, the ZeroMQ context and socket, and the requests waiting at the socket. Destroying a
context blocks until the socket is closed. Handlers return. A thread that cannot bind calls
`stop()` (`BindFails`) and returns (`GiveUp`); `startServer` and `stopServer` may run in between.
`stopServer` joins only if `m_running` is set, and returns at once otherwise (`StopNotRunning`).
`Delete` is the destructor after `stopServer`: it ends the process if the thread was not joined.
`started` and `joined` record what `startServer` returned and whether the thread is still
joinable.

## Runs

| Run | Instance | Result |
|---|---|---|
| `buffer` | 1 ring of 3 segments of 3 bytes, internal buffer of 2, 11 bytes in appends of 0, 1, 2, 5 | 8 properties hold |
| `rings` | 2 rings of 2 segments, 3 bytes each | refinement and draining hold |
| `single` | a ring of one segment | `NextElementIsThere` fails |
| `lat` | 3 segments, 3 slots, 7 messages | 6 properties hold |
| `registry` | 2 clients, 2 names, rings of 3 shapes, 5 units of memory | 5 properties hold |
| `registry_again` | the same | `RingForOneWriter` fails |
| `mem` | 7 bytes in regions of 1, 2, 3 | 3 properties hold |
| `connect` | 2 clients, 2 servers, RC and UD, 3 calls or restarts, 1 failing call | 5 properties hold |
| `transfer` | 1 client, 2 servers, RC and UD, send queue of 2, 3 requests, 2 receives, 1 failing request | 5 properties hold |
| `api` | 2 processes, 2 rings of 2 segments of 2 bytes, 3 bytes each, 3 reads | 2 properties hold |
| `server` | 3 clients | 4 properties hold |
| `server_stop` | 2 clients | `ContextIsDestroyed` fails |

**buffer** checks that a segment has one user (`SegmentExclusive`), that no request reads a part
of the internal buffer that another one needs (`InFlightDisjoint`), that the send queue does not
overflow (`SendQueueBounded`), that `next` finds what `has_next` promised (`NextElementIsThere`),
that bytes arrive in order (`DeliveredInOrder`), that a published segment does not change
(`PublishedIsStable`) and that `append` returns (`AppendReturns`). **rings** checks that several
rings under one iterator implement `BufferStream` (`ImplementsStream`; a ring is thus dropped
only when it is closed and read) and that a closed ring is drained even if the other writer stays
silent (`ClosedIsDrained`). **lat** checks the same questions for the LAT protocol, where the
writer counts segments instead of reading headers. **registry** checks that entries are disjoint
in memory, that the count of joined appenders stays in range and writers are in rings their
handle names (in `TypeOK`), that writers of a buffer registered once have rings of their own,
that handles only grow, and that what a writer or its reader stored in a ring is not overwritten
by anybody else (`WrittenIsKept`), except in a buffer registered again and on nodes in `strayed`.
**mem** checks the allocator against the memory it manages; that the free list is sorted and
merged is part of `TypeOK`.

**connect**: `Paired` says that after a `connect` that returned true the queue pairs of both
sides are ready and lead to each other, by connection and by node id (a queue pair of UD in
`unready` need not be ready); `MgmtLeadsBack` that `getMgmtQueue` names the management queue of
the same client; `NoSharedPeer` that no two queue pairs lead to the same one; `ConnectReturns`
that the call returns. They hold outside the cases the histories name, which are the departures
listed below.

**transfer**: `TrueMeansAllBefore` is what the buffer writers rely on when they wait only for
headers; `NeverFullAlone` says that one signaled request in `RDMA_MAX_WR` is enough for a node
with one peer (the counter is shared by all queue pairs of a client, so that with several RC
peers it is not); `PolledIsFilled` relates `pollReceive` to the buffers posted for that peer;
`WaitedReturns` says that polling without a timeout ends, with success or not.

**api**: `ClosedIsReadExactly` and `ReadReturns` are the promise of `close_buffer.h:15`: a closed
buffer can be read, to the last byte and within its memory, while other processes join, close
again or read. Both leave out reads for which there was no memory. A read that began before the
last ring was closed may have gone round an open ring and run past its memory; `ReadReturns`
allows that of such reads only. **server** checks start, stop and answers, that the thread uses
no closed socket (in `TypeOK`), and that after `stopServer` of a server that was started the
thread has ended and the server can be deleted (`StoppedHasEnded`).

The runs marked as failing state what a comment or test of the repository says and show that
the code does otherwise; `PROJECT.json` ("findings") quotes both sides.

**Bounds.** The protocol depends on the ring wrapping, on segment and internal-buffer boundaries
falling at different places, and on the send queue filling up. In `buffer` 11 bytes on 9 wrap the
ring once and go on, the internal buffer of 2 is smaller than a segment of 3, so that it is
restarted while requests of the same segment are under way and at every alignment, and appends of
0 bytes fill the send queue (`MaxWR` of 4) inside one segment. `MaxBytes` and `MaxMsgs` are the
only bounds of the buffer models. In `registry`, `MaxRegister` of 2 is the least that registers a
name again, and `Room` of 5 with registrations of 1 and 2 rings of 2 units, 3 units (a counter
and two segments) or 6 lets memory run out before, in the middle of and after a registration, and
be refused to a large ring while a small one still fits; the headers of the largest ring, stored
from offset 0, fall into the second ring of the node. `MaxCreate` bounds added rings. Clients are
interchangeable there and the run uses that symmetry; it checks no liveness.

In `connect` three calls are what it takes to fail, end and come back, or to let two clients and
a management queue interleave; the server with the higher node id can be connected first, so that
the table of node ids gets a gap. In `transfer` a send queue of 2 fills with two unsignaled
requests, or one and a signaled one, and the third request meets the limit; two receive buffers
are enough for those of two peers to be confused. In `api` a ring of 4 bytes with appends of 1
and 3 crosses a segment inside an append; the memory of a reader has room for the data once, so
that a second read of the same process is one without memory.

**Fairness.** A thread inside a call goes on, cards execute what was posted, the consumer keeps
calling `has_next` and `next`; in `ProtoServer` both threads are scheduled and handlers return;
in `RdmaConnect` calls that were begun go on and server threads handle what they are sent; in
`RdmaTransfer` cards execute requests and waiting threads poll; in `MemoryApi` a read goes on,
and so does an append when the next segment is free. Nothing obliges an application to append,
close, connect, start, stop, send or receive. `AppendReturns` needs the consumer:
`getNextSegment` and the LAT writer wait without a timeout.

Deadlock is checked except in `registry` (clients end, and a crashed client or registry
stays down), `server` (a stopped server leaves clients waiting), `connect` (the calls are bounded,
and a client whose server has crashed waits), `transfer` (bounded calls, crashed nodes) and `api`
(processes end, and a writer whose ring is full waits for ever).

## Proofs

Each proof module states an inductive invariant `IInv` and proves `Invariance`, `Spec => []IInv`;
the other theorems follow from it. All hold for every value of the constants that meets the
`ASSUME`s of the modules (TLC evaluates those on every run), so for any number of nodes, calls,
faults, bytes and segments. Further hypotheses are named below. Every `IInv` was model-checked
on the instance of its run before it was proved.

| Module | Theorems (and the properties they state) |
|---|---|
| `BufferBWProof` | `TypeCorrect`, `Exclusive` (`SegmentExclusive`), `ElementIsThere` (`NextElementIsThere`), `QueueBounded` (`SendQueueBounded`), `InOrder` (`DeliveredInOrder`), `SourcesDisjoint` (`InFlightDisjoint`), `PublishedStable` (`PublishedIsStable`), `Refinement` (`ImplementsStream`) |
| `BufferLatProof` | `Exclusive` (`SegmentExclusive`), `Intact` (`InFlightIntact`), `Sizes` (`SizesReported`), `Refinement` (`ImplementsStream`) |
| `RegistryProof` | `TypeCorrect`, `Disjoint` (`RingsDisjoint`), `Exclusive` (`ExclusiveUnlessRegisteredAgain`), `HandlesStayGood` (`HandlesGrow`), `WrittenStays` (`WrittenIsKept`) |
| `RdmaMemProof` | `TypeCorrect`, `NothingTwice` (`NoOverlap`), `NothingLost` (`Accounted`) |
| `RdmaConnectProof` | `TypeCorrect`, `Sharing` (`NoSharedPeer`), `Pairing` (`Paired`), `Management` (`MgmtLeadsBack`) |
| `RdmaTransferProof` | `TypeCorrect`, `QueueNeverFull` (`NeverFullAlone`), `Filling` (`PolledIsFilled`), `TrueTellsAll` (`TrueMeansAllBefore`) |
| `MemoryApiProof` | `ReadExactly` (`ClosedIsReadExactly`) |
| `ProtoServerProof` | `TypeCorrect`, `Stopped` (`StoppedHasEnded`) |

**BufferBW.** Hypothesis: `N >= 2`; for `N = 1` the theorem is false, which is what the run
`single` shows. `SegmentExclusive` is not inductive. `IInv` says where flags can be set: seen from the
iterator's cursor, the consumable segments not yet handed out form one run that ends at the
writer's segment (`FlagsInv`, with `NumFull`, `Dist`); every other segment but the one handed
out last is writeable; and the writer's copy of its header and its send queue fit the step it
is at (`WriterInv`, `QueueInv`). A writer enters the next segment only if its header says
writeable, and the segment handed out last does not say so until `MarkWriteable`: therefore
the run never reaches it. The argument is per action; lemmas about `Dist` carry the arithmetic
on the ring.

The order and completeness of the data need to know where every byte is (`DataInv`, proved
invariant as `DataInvariance`). A segment is published full, or with its end mark, and then it is
the last: so the segment `d` steps after the iterator starts `d * SegSize` bytes after what was
handed out, and the writer's segment starts `sizeUsed` bytes before what was copied
(`StreamInv`). No sum over segments is needed, and no induction. What append has copied and is
not in the segment yet is covered by a request in the queue (`InFlightInv`): requests read the
internal buffer one behind the other and in front of `ioff`, and a restart of the internal buffer
finds the queue drained. A header lands with the counter of the segment, and an end mark is only
on the closed writer's segment (`WordsInv`). `DeliveredInOrder` is then a conjunct;
`PublishedIsStable` follows because neither a request, nor the iterator, nor `close` has a
published segment as its target; and each action maps to a step of `BufferStream` or to none:
`Append_` appends, the application's `Use` delivers, `Close` closes, `DropRing` reports the end,
at which time the invariant says that nothing is left to deliver.

**BufferLat.** Hypothesis (`Roomy`): two or more segments, as in `BufferBW`, and an internal buffer
(`DPI_INTERNAL_BUFFER_SIZE`) with room for as many messages as the ring has segments: the LAT
writer does not wait for its requests before it starts the internal buffer over, so that a smaller one is
overwritten while requests still read it. Messages, landings, takes and releases are counted, and the
counts follow each other round the ring: the writer is never more than a ring ahead of what was
released, so a slot of the internal buffer is reused only after its message has landed and was
taken. From the same counts every step is one of `BufferStream`, or none.

**Registry.** The handles the registry holds name rings that were given out, in front of
`allocated` (`HandlesInv`); rings of different entries are apart, whatever their shapes
(`DisjointInv`); a writer has a ring of the buffer it joined (`WritersInv`); on a node not in
`strayed`, what is in a ring is its own, so that no header leads out of it (`ContentInv`).
`HandlesGrow` and `WrittenIsKept` are action properties proved from that: the stores of a step
are in the ring of the client that takes it, or in rings laid out behind all others.

**RdmaMem.** The free list is in order and without two neighbours that touch; regions given out
are apart from each other and from the free ones; every byte is in a free region, given out or
lost. The walk of `internalAlloc` and `internalFree` along the list is a choice of the first
region that fits, or of the place behind a region; the proofs take it as the least index with
that property, which exists in every set of naturals, so that no induction over the list is needed.

**RdmaConnect.** The invariant has one part per client, request, answer and table. A node's
tables are in order with its card (`NodesInv`); a call at a certain place has stored what it must
have stored and nothing later (`ClientsInv`); a client that waits has its request at the server
or its answer, never both and never two (`RequestsInv`); an answer for a data queue tells of a
queue of the server that leads back to the client (`AnswersInv`), whence the links (`LinksInv`)
and the entries for management (`MgmtInv`). For `NoSharedPeer` (`PeersInv`): no queue pair leads
yet to a number that a request or an answer is carrying, no two answers carry the same, and a
number sent is beyond those the card had before. The tables only grow while a manager lives
(`Grown`), which carries all of it over steps of others; at a restart the client's queue pairs
are destroyed, numbers are not used again, and entries of the servers lead to a destroyed queue
pair. That queue pairs in use are ready, or of UD and in `unready`, is `UsableQPs`. Assumed of
the constants: servers have different node ids, and `None` is no answer.

**RdmaTransfer.** Requests of a queue pair are executed in order; a waiting node waits for a request of
its own; since the last signaled request no more were posted than `checkSignaled` has counted,
which is less than `RDMA_MAX_WR`; completions still to be polled have a filled buffer each.
Assumed of the constants: the names of the group and of the shared queue pair are not nodes.

**MemoryApi.** No hypothesis beyond the sizes being positive. Nothing is said of a ring that two
writers share, after `DPI_Create_buffer` has started the rings over, or that was appended to
behind its end mark; as long as neither has happened, a ring consists of full segments, the
writer's, and fresh ones, and the bytes of each are known from the writer's place (`WriterInv`,
`RingsInv`). When all rings are closed no step changes their memory any more without leaving that
case (lemma `Frozen`), which is what lets a read of many steps be compared with one state.
`ReaderInv` says that a read has all bytes of the rings before its own, one after the other, and
those of the segments before its place; the places where one ring ends and the next begins are
named by a function (`RingCuts`), so that each step of the read adds one place or lengthens the
last part, and no fold over rings has to be unfolded. That a read stays within its memory follows
from `(ring - 1) * N * SegSize` bounding what precedes it.

**ProtoServer.** Which of the two threads may be where, given the flags, and that each request is
with one party. A server that was started has set `m_running`, and only `stopServer` clears it,
so that `stopServer` takes the branch with the join (`StopInv`).

**Only model-checked.** Every invariant and action property of a passing run, and both
refinements, are stated by a theorem. What remains with TLC is liveness, since `ENABLED` and
fairness are out of this prover's reach: `AppendReturns`, `ClosedIsDrained` (the liveness part of
`BufferStream`), `ClosedIsDrainedIfUsed`, `ConnectReturns`, `WaitedReturns`, `ReadReturns`,
`RequestAnswered`, `StartReturns`. The three failing runs state what is false, and have no
theorem.

## Known departures

Cases in which the code does not do what one would expect, met while modelling. The first three are the
failing runs; the others are in the models, and the properties name them as exceptions.

- A ring of one segment loses data (`single`); registering a name again leads two writers into a
  ring (`registry_again`); stopping a server that handles a request hangs (`server_stop`).
- `internalFree` does not find the place of a region behind the last free one, returns false and
  loses it (`net/rdma/RDMAManager.h:382`); `Accounted` counts such regions in `lost`.
- A failed allocation stores the counter and the headers of the ring that was refused from offset 0
  (`dpi/NodeServer.h:48`), over whatever rings are there, closed or not, although
  `memory-api/close_buffer.h:15` says that a closed buffer can still be read. The headers carry the
  offsets of the ring that was refused, and writers and readers of other rings follow them. In the
  run `registry` this happens; `WrittenIsKept` says nothing of such a node but that new rings are
  not laid out over others.
- `BufferWriterLat::close` before the first append writes its end mark to offset 0
  (`dpi/BufferWriter.h:149`), and the iterator waits for ever; hence `ClosedIsDrainedIfUsed`.
  Offset 0 belongs to the first ring of the node, whosever that is (`Registry`); for a LAT ring
  that is itself the first, `BufferLat` leaves out what the store does to its own counter.
- The second `memcpy` of the LAT writer is too long by a header (`dpi/BufferWriter.h:170`): it
  spoils the next slot of the internal buffer, and at the last slot what lies behind the internal
  buffer, which is not in the model.
- The LAT writer starts its internal buffer over without waiting for its requests
  (`dpi/BufferWriter.h:163`): with room for fewer messages than the ring has segments it
  overwrites what is in flight; hence `Slots >= N` in the proofs and the instance.
- A `connect` that failed after the socket was stored returns true when it is tried again
  (`net/rdma/RDMAClient.cc:160`), and a server that could not connect answers with a blank message
  (`net/rdma/RDMAServer.cc:157`), which the client takes for success: `spoiled` and `blanked`.
- `RDMAManagerUD::initQP` takes a queue pair that could not be made ready for a good one the next time
  (`net/rdma/RDMAManagerUD.cc:55`): `unready`.
- After a `startServer` that returned false, `stopServer` does not wait for the thread, and
  deleting the server deletes a joinable `std::thread`, which ends the process
  (`thread/Thread.cc:18`); `StoppedHasEnded` is about servers that were started.
- `requestRead` leaves a completion that the next signaled call takes for its own; a client with
  several RC peers can fill a send queue; with UD `pollReceive` may report another peer's
  message.
- `BufferReader::read` never releases its memory; a buffer whose rings are not all closed is
  read round and round, past the memory allocated (`overrun`).

## Not modelled

- `BufferReader::read` with headers: no caller asks for it. `restoreMemStateSnapShot`: nothing
  calls it. `BufferConsumer`: commented out.
- In the allocator: requests for 0 bytes, and the release of an offset that is not in use, which
  puts an empty region into the free list.
- Deleting a `ProtoServer` without `stopServer`, and starting one twice.
- `RDMAManagerUD::localAlloc` and `localFree` with the offset for the header of a datagram.
- A `DPIAppendBufferRequest` without the register flag: no client sends one.
- `localAlloc` and `localFree` of a running `RDMAServer`, which take no lock: no DPI component
  calls them.
- Errors of posted requests inside `BufferBW` and `BufferLat`: the queue pair is then in error and
  nothing after it arrives; `RdmaTransfer` shows what the calls report.
- `zmq.hpp` (vendored), builders for protobuf messages, configuration files, logging, benchmarks.

## Plan

The modules, runs and proofs planned for this code are in place. A change of the code that this
project should follow starts at the `map` of `PROJECT.json`, which names the definitions for the
lines; the run of the module comes next and its `IInv` is checked by TLC before the proof is
mended. Left open: liveness for every value of the constants, and errors of posted requests with
the data they lose (inside `BufferBW` and `BufferLat`).
