------------------------------- MODULE MemoryApi -------------------------------
(***************************************************************************)
(* The memory API (DPI_Init, DPI_Create_buffer, DPI_Append,                *)
(* DPI_Close_buffer, DPI_Get_buffer, DPI_Finalize) for one buffer, and     *)
(* BufferReader::read behind DPI_Get_buffer.  Each process has a context,  *)
(* a writer and a reader; it creates the buffer once.  No iterator         *)
(* consumes, so segments are written once.                                 *)
(*                                                                         *)
(* The writer is that of BufferBW as its reader sees it: the bytes of a    *)
(* segment arrive before the header that counts them.  The registry is     *)
(* that of Registry for one name.  Bytes are numbered per process.         *)
(*                                                                         *)
(* "Fault:" marks a faulty variant of the definition after it.             *)
(***************************************************************************)
EXTENDS Integers, Sequences

CONSTANTS
  Procs,
  Rings,        \* participatingAppenders
  N,            \* segmentsPerAppender
  SegSize,      \* bytes of data in a segment
  HeaderSize,   \* bytes of a header
  Memory,       \* bytes of the memory of a reader's RDMAClient
  AppendSizes,
  MaxBytes,     \* bound on the bytes a process appends
  MaxReads      \* bound on the calls of DPI_Get_buffer by all processes

ASSUME SizesAssumption ==
  /\ {Rings, N, SegSize, HeaderSize} \subseteq Nat \ {0}
  /\ Memory \in Nat /\ AppendSizes \subseteq Nat \ {0}

VARIABLES
  pc,          \* pc[p]: what p is doing
  joined,      \* the registry's count of joined appenders
  header,      \* header[r][s]: of segment s of ring r
  cell,        \* cell[r][s]: the bytes of its data, <<process, number>>
  writer,      \* writer[p]: its ring (0: none), segment, bytes used in it, end flag
  left,        \* left[p]: bytes that append has still to write
  reader,      \* reader[p]: the state of read
  used,        \* used[p]: bytes allocated in the memory of its client
  dead,        \* processes whose reader has its queue pair in error
  reads,       \* counter for the bound
  sent,        \* history: sent[p]: bytes appended
  closed,      \* history: processes that closed the buffer
  late         \* history: processes that appended after that

memory == <<joined, header, cell>>
vars == <<pc, memory, writer, left, reader, used, dead, reads, sent, closed, late>>

Fresh == [counter |-> 0, writeable |-> TRUE, end |-> FALSE]
NoWriter == [ring |-> 0, seg |-> 1, used |-> 0, end |-> FALSE]
NoReader == [ring |-> 1, seg |-> 1, header |-> Fresh, out |-> << >>, null |-> FALSE, exact |-> FALSE]

\* A buffer, when it is registered: every ring has N segments with fresh headers.
Init ==
  /\ pc = [p \in Procs |-> "new"]
  /\ joined = 0
  /\ header = [r \in 1 .. Rings |-> [s \in 1 .. N |-> Fresh]]
  /\ cell = [r \in 1 .. Rings |-> [s \in 1 .. N |-> [i \in 1 .. SegSize |-> << >>]]]
  /\ writer = [p \in Procs |-> NoWriter] /\ left = [p \in Procs |-> 0]
  /\ reader = [p \in Procs |-> NoReader]
  /\ used = [p \in Procs |-> 0] /\ dead = {} /\ reads = 0
  /\ sent = [p \in Procs |-> 0] /\ closed = {} /\ late = {}

GoTo(p, where) == pc' = [pc EXCEPT ![p] = where]

-----------------------------------------------------------------------------
(***************************************************************************)
(* Opening a buffer.  Without DPI_Init every call returns                  *)
(* DPI_NOT_INITIALIZED at once.                                            *)
(***************************************************************************)
DPI_Init(p) ==
  /\ pc[p] = "new"
  /\ GoTo(p, "ready")
  /\ UNCHANGED <<memory, writer, left, reader, used, dead, reads, sent, closed, late>>

\* A name that is not in the maps of the context yields a null pointer, which is used.
UnknownBuffer(p) ==
  /\ pc[p] = "ready"
  /\ GoTo(p, "crashed")
  /\ UNCHANGED <<memory, writer, left, reader, used, dead, reads, sent, closed, late>>

\* DPI_Create_buffer: the result of the registration is not looked at, and a second one
\* resets the count of appenders.
DPI_Create_buffer(p) ==
  /\ pc[p] = "ready"
  /\ joined' = 0
  /\ GoTo(p, "join")
  /\ UNCHANGED <<header, cell, writer, left, reader, used, dead, reads, sent, closed, late>>

\* The writer joins, and reads the header of its first segment; the reader connects.
\* Without a ring a null handle is used.
Join(p) ==
  /\ pc[p] = "join"
  /\ IF joined = Rings THEN GoTo(p, "crashed") /\ UNCHANGED <<joined, writer>>
     ELSE /\ joined' = joined + 1
          /\ writer' = [writer EXCEPT ![p] = [NoWriter EXCEPT !.ring = joined',
                                                !.end = header[joined'][1].end]]
          /\ GoTo(p, "open")
  /\ UNCHANGED <<header, cell, left, reader, used, dead, reads, sent, closed, late>>

-----------------------------------------------------------------------------
(***************************************************************************)
(* Writing.                                                                *)
(***************************************************************************)
\* super_append from place w on, with k bytes: those that fit are written; if some do
\* not, the header of the segment is written and the next segment waited for.
Fill(p, w, k) ==
  LET n == IF k <= SegSize - w.used THEN k ELSE SegSize - w.used
  IN /\ cell' = [cell EXCEPT ![w.ring][w.seg] =
                   [i \in 1 .. SegSize |-> IF i \in w.used + 1 .. w.used + n
                                           THEN <<p, sent[p] + i - w.used>> ELSE @[i]]]
     /\ sent' = [sent EXCEPT ![p] = @ + n]
     /\ left' = [left EXCEPT ![p] = k - n]
     /\ writer' = [writer EXCEPT ![p] = [w EXCEPT !.used = @ + n]]
     /\ IF n = k THEN GoTo(p, "open") /\ UNCHANGED header
        ELSE /\ GoTo(p, "next")
             /\ header' = [header EXCEPT ![w.ring][w.seg] =
                             [counter |-> SegSize, writeable |-> FALSE, end |-> w.end]]
     /\ UNCHANGED <<joined, reader, used, dead, reads, closed>>

\* Nothing keeps a process from appending to a buffer it has closed.
DPI_Append(p, k) ==
  /\ pc[p] = "open" /\ sent[p] + k <= MaxBytes
  /\ Fill(p, writer[p], k)
  /\ late' = IF p \in closed THEN late \cup {p} ELSE late

After(s) == (s % N) + 1

\* getNextSegment finds the next segment writeable; no one makes a segment writeable again.
NextSegment(p) ==
  LET w == writer[p] IN
  /\ pc[p] = "next" /\ header[w.ring][After(w.seg)].writeable
  /\ Fill(p, [w EXCEPT !.seg = After(@), !.used = 0, !.end = header[w.ring][After(w.seg)].end],
          left[p])
  /\ UNCHANGED late

\* Fault: the end is not marked.
EndHeader(w) == [counter |-> w.used, writeable |-> FALSE, end |-> w.end]

\* The header that close writes.
ClosingHeader(w) == [counter |-> w.used, writeable |-> FALSE, end |-> TRUE]

DPI_Close_buffer(p) ==
  LET w == writer[p] IN
  /\ pc[p] = "open"
  /\ header' = [header EXCEPT ![w.ring][w.seg] = ClosingHeader(w)]
  /\ writer' = [writer EXCEPT ![p].end = TRUE]
  /\ closed' = closed \cup {p}
  /\ UNCHANGED <<pc, joined, cell, left, reader, used, dead, reads, sent, late>>

\* Closes all buffers of the context, closed or not.
DPI_Finalize(p) == DPI_Close_buffer(p)

-----------------------------------------------------------------------------
(***************************************************************************)
(* Reading.                                                                *)
(***************************************************************************)
\* Every ring has one writer, which has closed it.
Covered == \A r \in 1 .. Rings : \E p \in closed : writer[p].ring = r
Apart ==
  \A p, q \in Procs : p # q /\ writer[p].ring # 0 => writer[p].ring # writer[q].ring
AllClosed == Covered /\ Apart

DataSize == Rings * N * SegSize

\* Up to place cut[r], s is what was appended to the rings 1 to r, ring after ring, for
\* the first k rings; m bytes of the next one follow.
Appender(r) == CHOOSE p \in Procs : writer[p].ring = r
RingCuts(s, k, m, cut) ==
  /\ cut[0] = 0 /\ Len(s) = cut[k] + m
  /\ \A r \in 1 .. k : /\ cut[r] = cut[r - 1] + sent[Appender(r)]
                       /\ \A i \in 1 .. sent[Appender(r)] : s[cut[r - 1] + i] = <<Appender(r), i>>
  /\ \A i \in 1 .. m : s[cut[k] + i] = <<Appender(k + 1), i>>

RingAfterRing(s, k, m) == \E cut \in [0 .. Rings -> 0 .. Len(s)] : RingCuts(s, k, m, cut)

\* read: memory for the data and for a header, which is never released.  Without
\* memory for the data null is used as its address; without memory for the header
\* the process ends.
DPI_Get_buffer(p) ==
  LET null == used[p] + DataSize > Memory
      taken == used[p] + (IF null THEN 0 ELSE DataSize) + HeaderSize
  IN /\ pc[p] = "open" /\ reads < MaxReads
     /\ reads' = reads + 1
     /\ IF taken > Memory THEN GoTo(p, "crashed") /\ UNCHANGED <<used, reader>>
        ELSE /\ GoTo(p, "read_header")
             /\ used' = [used EXCEPT ![p] = taken]
             /\ reader' = [reader EXCEPT ![p] =
                  [NoReader EXCEPT !.null = null, !.exact = AllClosed]]
     /\ UNCHANGED <<memory, writer, left, dead, sent, closed, late>>

\* The result of the RDMA read is not looked at: with the queue pair in error the header
\* is the one read before.
ReadHeader(p) ==
  LET r == reader[p] IN
  /\ pc[p] = "read_header"
  /\ reader' = IF p \in dead THEN reader ELSE [reader EXCEPT ![p].header = header[r.ring][r.seg]]
  /\ GoTo(p, "read_data")
  /\ UNCHANGED <<memory, writer, left, used, dead, reads, sent, closed, late>>

\* Fault: the loop ends before the data of the end segment is read.
WithoutLast(r) == IF r.header.end THEN << >> ELSE SubSeq(cell[r.ring][r.seg], 1, r.header.counter)

\* The bytes the header counts.
SegmentData(r) == SubSeq(cell[r.ring][r.seg], 1, r.header.counter)

\* The rest of the loop: the data is read behind what was read before, and may be more
\* than there is memory for, with any consequence.  A read to address null fails.
ReadData(p) ==
  LET r == reader[p]
      data == IF r.null THEN << >> ELSE r.out \o SegmentData(r)
  IN /\ pc[p] = "read_data"
     /\ dead' = IF r.null /\ r.header.counter > 0 THEN dead \cup {p} ELSE dead
     /\ IF Len(data) > DataSize THEN GoTo(p, "overrun") /\ UNCHANGED reader
        ELSE /\ GoTo(p, IF r.header.end /\ r.ring = Rings THEN "returned" ELSE "read_header")
             /\ reader' = [reader EXCEPT ![p] =
                  IF r.header.end /\ r.ring = Rings THEN [r EXCEPT !.out = data]
                  ELSE IF r.header.end THEN [r EXCEPT !.out = data, !.ring = r.ring + 1, !.seg = 1]
                  ELSE [r EXCEPT !.out = data, !.seg = After(r.seg)]]
     /\ UNCHANGED <<memory, writer, left, used, reads, sent, closed, late>>

\* The application has what DPI_Get_buffer returned, and goes on.
Use(p) ==
  /\ pc[p] = "returned"
  /\ GoTo(p, "open")
  /\ reader' = [reader EXCEPT ![p] = NoReader]
  /\ UNCHANGED <<memory, writer, left, used, dead, reads, sent, closed, late>>

ReadStep(p) == ReadHeader(p) \/ ReadData(p)

Next ==
  \E p \in Procs :
    \/ DPI_Init(p) \/ UnknownBuffer(p) \/ DPI_Create_buffer(p) \/ Join(p)
    \/ \E k \in AppendSizes : DPI_Append(p, k)
    \/ NextSegment(p) \/ DPI_Close_buffer(p) \/ DPI_Finalize(p)
    \/ DPI_Get_buffer(p) \/ ReadStep(p) \/ Use(p)

Spec == Init /\ [][Next]_vars

\* A call that was begun goes on.  No process must call anything.
FairSpec == Spec /\ \A p \in Procs : WF_vars(ReadStep(p)) /\ WF_vars(NextSegment(p))

-----------------------------------------------------------------------------
(***************************************************************************)
(* "Buffer is not remotely removed and can still be read from": reading a  *)
(* buffer whose rings all have a writer and were closed returns all that   *)
(* was appended, ring after ring, and stays within the memory allocated    *)
(* for it, whatever the others do meanwhile but for appending after all or *)
(* creating the buffer again.  What a read returns that got no memory for  *)
(* the data (null) is not said.                                            *)
(***************************************************************************)
ClosedIsReadExactly ==
  \A p \in Procs : reader[p].exact /\ AllClosed /\ late = {} =>
    /\ pc[p] = "returned" /\ ~reader[p].null => RingAfterRing(reader[p].out, Rings, 0)
    /\ pc[p] # "overrun"

Reading(p) == pc[p] \in {"read_header", "read_data"}

(***************************************************************************)
(* read returns although it runs until it meets an end mark in every ring, *)
(* if all rings are closed and there was memory for the data.  The         *)
(* exception is a read that began before they were: it may have gone       *)
(* round a ring that was open, and run past its memory.                    *)
(***************************************************************************)
ReadReturns ==
  \A p \in Procs :
    Reading(p) /\ AllClosed ~>
      \/ pc[p] = "returned"
      \/ pc[p] = "overrun" /\ ~reader[p].exact
      \/ reader[p].null \/ ~AllClosed

-----------------------------------------------------------------------------
(***************************************************************************)
(* The inductive invariant behind ClosedIsReadExactly.                     *)
(***************************************************************************)
Byte == {<< >>} \cup (Procs \X Nat)
Header == [counter : 0 .. SegSize, writeable : BOOLEAN, end : BOOLEAN]

\* The types of the variables.
TypeInv ==
  /\ pc \in [Procs -> {"new", "ready", "join", "open", "next", "read_header", "read_data",
                      "returned", "overrun", "crashed"}]
  /\ joined \in 0 .. Rings
  /\ header \in [1 .. Rings -> [1 .. N -> Header]]
  /\ cell \in [1 .. Rings -> [1 .. N -> [1 .. SegSize -> Byte]]]
  /\ writer \in [Procs -> [ring : 0 .. Rings, seg : 1 .. N, used : 0 .. SegSize, end : BOOLEAN]]
  /\ left \in [Procs -> Nat]
  /\ reader \in [Procs -> [ring : 1 .. Rings, seg : 1 .. N, header : Header, out : Seq(Byte),
                          null : BOOLEAN, exact : BOOLEAN]]
  /\ used \in [Procs -> Nat] /\ sent \in [Procs -> Nat]
  /\ dead \subseteq Procs /\ closed \subseteq Procs /\ late \subseteq Procs

\* A process has a ring from Join on; a read whose allocation failed has no room for
\* another, and only such a read breaks the queue pair.
ProcInv(p) ==
  /\ pc[p] \in {"new", "ready", "join"} => writer[p].ring = 0
  /\ pc[p] \notin {"new", "ready", "join", "crashed"} => writer[p].ring # 0
  /\ writer[p].ring = 0 => p \notin closed /\ sent[p] = 0
  /\ p \in dead \/ reader[p].null => used[p] + DataSize > Memory
  /\ Reading(p) /\ ~reader[p].null => p \notin dead
  /\ reader[p].exact => Covered

\* The bytes of d full segments, and the header of one.
Bytes(d) == d * SegSize
Full == [counter |-> SegSize, writeable |-> FALSE, end |-> FALSE]

\* The ring of p, which alone writes it: full segments, the current one, fresh ones.
WriterInv(p) ==
  LET w == writer[p] IN
  /\ sent[p] = Bytes(w.seg - 1) + w.used
  /\ w.end <=> p \in closed
  /\ pc[p] = "next" => p \notin closed /\ w.used = SegSize
  /\ \A s \in 1 .. N : s < w.seg => header[w.ring][s] = Full
  /\ \A s \in 1 .. N : s > w.seg => header[w.ring][s] = Fresh
  /\ header[w.ring][w.seg] = IF p \in closed THEN ClosingHeader(w)
                             ELSE IF pc[p] = "next" THEN Full ELSE Fresh
  /\ \A s \in 1 .. N : \A i \in 1 .. SegSize :
       s < w.seg \/ (s = w.seg /\ i <= w.used) => cell[w.ring][s][i] = <<p, Bytes(s - 1) + i>>

\* A ring nobody has joined is fresh.
RingsInv ==
  /\ \A p \in Procs : writer[p].ring # 0 => WriterInv(p)
  /\ \A r \in 1 .. Rings : (\A p \in Procs : writer[p].ring # r) =>
       \A s \in 1 .. N : header[r][s] = Fresh

\* What a read of closed rings has read.
Exact(p) == reader[p].exact /\ AllClosed /\ late = {}
ReaderInv(p) ==
  LET r == reader[p] IN
  /\ pc[p] # "overrun"
  /\ Reading(p) /\ ~r.null =>
       /\ r.seg <= writer[Appender(r.ring)].seg
       /\ pc[p] = "read_data" => r.header = header[r.ring][r.seg]
       /\ RingAfterRing(r.out, r.ring - 1, Bytes(r.seg - 1))
       /\ Len(r.out) <= (r.ring - 1) * Bytes(N) + Bytes(r.seg - 1)
  /\ pc[p] = "returned" /\ ~r.null => RingAfterRing(r.out, Rings, 0)

\* What is said of the rings holds while no two processes share one and nobody appends
\* behind an end mark.
IInv ==
  /\ TypeInv
  /\ \A p \in Procs : ProcInv(p)
  /\ Apart /\ late = {} => RingsInv
  /\ \A p \in Procs : Exact(p) => ReaderInv(p)

================================================================================
