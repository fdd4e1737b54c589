------------------------------- MODULE BufferBW -------------------------------
(***************************************************************************)
(* One DPI buffer of type BW: NumWriters rings of N segments, one          *)
(* BufferWriterBW per ring appending from its own node, and one            *)
(* BufferIterator on the node that holds the memory.                       *)
(*                                                                         *)
(* A writer touches the ring only through one-sided RDMA on a reliable     *)
(* connection: requests of a queue pair are executed in the order posted,  *)
(* after ibv_post_send has returned, and read the local memory at the time *)
(* they execute.  A call with "signaled" set returns when the last request *)
(* has completed.  A request of 24 bytes (the segment header) takes effect *)
(* in the order of its addresses: counter and nextSegmentOffset, then the  *)
(* word with the flags.  The iterator works on the same memory with plain  *)
(* loads and stores, each one step.                                        *)
(*                                                                         *)
(* A byte is named by its place in the stream of its writer, 1, 2, ...     *)
(***************************************************************************)
EXTENDS Integers, Sequences

CONSTANTS
  NumWriters,   \* rings of the buffer (numberAppenders)
  N,            \* segments per ring
  SegSize,      \* bytes of payload per segment (segmentSizes)
  IBufSize,     \* bytes of the internal buffer of a writer
  MaxWR,        \* Config::RDMA_MAX_WR
  AppendSizes,  \* sizes passed to append
  MaxBytes      \* bound of the model: bytes appended per writer

ASSUME ConstantsAssumption ==
  /\ NumWriters \in Nat \ {0}
  /\ N \in Nat \ {0}
  /\ SegSize \in Nat \ {0}
  /\ IBufSize \in Nat \ {0}
  /\ MaxWR \in Nat \ {0}
  /\ AppendSizes \subseteq Nat
  /\ MaxBytes \in Nat

Writers == 1 .. NumWriters
Segs    == 0 .. N - 1

\* The value of IterHelper::prev before the first next(): the header allocated by
\* getEndSegmentIterator, outside the ring, with its end mark cleared.
NoSeg == N

VARIABLES
  \* memory of the node that holds the buffer
  header,    \* header[w][s]: the DPI_SEGMENT_HEADER_t of segment s of ring w
  payload,   \* payload[w][s][o]: byte o after that header, 0 when never written
  \* BufferWriterBW w
  wpc,       \* where its thread is
  size,      \* append: bytes after the current chunk
  left,      \* super_append: bytes of the chunk not yet written
  sent,      \* bytes copied into the internal buffer so far
  seg,       \* m_localBufferSegment->offset
  sizeUsed,  \* m_sizeUsed
  hdr,       \* *m_segmentHeader
  nextSeg,   \* getNextSegment: nextSegmentOffset
  ibuf,      \* m_internalBuffer->bufferPtr
  ioff,      \* m_internalBuffer->offset
  \* its queue pair
  sq,        \* requests posted and not yet executed
  landing,   \* the head of sq is a header write whose flags have not landed
  countWR,   \* RDMAClient::m_countWR
  signaled,  \* the last request posted was signaled: the caller waits for it
  \* BufferIterator
  cpc,       \* where the consumer is
  live,      \* segment_iterators
  pos,       \* pointer_to_iter, as a position in live
  iter,      \* iter[w]: IterHelper::iter of ring w
  prev,      \* prev[w]: IterHelper::prev of ring w
  held,      \* what the last next() returned
  consumed   \* consumed[w]: the bytes the application has read of ring w

memory   == <<header, payload>>
appender == <<wpc, size, left, sent, seg, sizeUsed, hdr, nextSeg, ibuf, ioff>>
queue    == <<sq, landing, countWR, signaled>>
consumer == <<cpc, live, pos, iter, prev, held, consumed>>
vars     == <<memory, appender, queue, consumer>>

\* DPI_SEGMENT_HEADER_t: counter, nextSegmentOffset and the bits of segmentFlags
\* (W writeable, C consumable, E end segment).
Header == [counter : 0 .. SegSize, next : Segs, W : BOOLEAN, C : BOOLEAN, E : BOOLEAN]

\* What writeRC posts: len bytes of the internal buffer from src on, for the payload of
\* a segment from off on; or *m_segmentHeader, for the header of a segment.
DataRequest ==
  {r \in [kind : {"data"}, seg : Segs, off : 0 .. SegSize, src : 0 .. IBufSize, len : 0 .. SegSize] :
     r.off + r.len <= SegSize /\ r.src + r.len <= IBufSize}
HeaderRequest == [kind : {"header"}, seg : Segs]
WorkRequest == DataRequest \cup HeaderRequest

Succ(s) == IF s = N - 1 THEN 0 ELSE s + 1

\* A header with other words in front, and with another word of flags.
SetWords(h, c, n) == [counter |-> c, next |-> n, W |-> h.W, C |-> h.C, E |-> h.E]
SetFlags(h, w, c, e) == [counter |-> h.counter, next |-> h.next, W |-> w, C |-> c, E |-> e]

(***************************************************************************)
(* A definition introduced by "Fault:" is no part of the specification: it *)
(* is the definition after it with a mistake, to show that a property      *)
(* notices the mistake.                                                    *)
(***************************************************************************)

-----------------------------------------------------------------------------
(***************************************************************************)
(* The ring as NodeServer::handle leaves it, a writer after its            *)
(* constructor, which has read the header of its entry segment (the first  *)
(* request of its client), and the iterator after its constructor.         *)
(***************************************************************************)
\* Fault: the last segment is not linked back to the first.
FreshHeaderNoWrap(s) ==
  [counter |-> 0, next |-> IF s = N - 1 THEN s ELSE s + 1, W |-> TRUE, C |-> FALSE, E |-> FALSE]

FreshHeader(s) == [counter |-> 0, next |-> Succ(s), W |-> TRUE, C |-> FALSE, E |-> FALSE]

InitMemory ==
  /\ header  = [w \in Writers |-> [s \in Segs |-> FreshHeader(s)]]
  /\ payload = [w \in Writers |-> [s \in Segs |-> [o \in 0 .. SegSize - 1 |-> 0]]]

InitWriter ==
  /\ wpc      = [w \in Writers |-> "idle"]
  /\ size     = [w \in Writers |-> 0]
  /\ left     = [w \in Writers |-> 0]
  /\ sent     = [w \in Writers |-> 0]
  /\ seg      = [w \in Writers |-> 0]
  /\ sizeUsed = [w \in Writers |-> 0]
  /\ hdr      = [w \in Writers |-> FreshHeader(0)]
  /\ nextSeg  = [w \in Writers |-> 0]
  /\ ibuf     = [w \in Writers |-> [i \in 0 .. IBufSize - 1 |-> 0]]
  /\ ioff     = [w \in Writers |-> 0]
  /\ sq       = [w \in Writers |-> << >>]
  /\ landing  = [w \in Writers |-> FALSE]
  /\ countWR  = [w \in Writers |-> IF MaxWR = 1 THEN 0 ELSE 1]
  /\ signaled = [w \in Writers |-> FALSE]

InitIterator ==
  /\ cpc      = "has_next"
  /\ live     = [i \in 1 .. NumWriters |-> i]
  /\ pos      = 1
  /\ iter     = [w \in Writers |-> 0]
  /\ prev     = [w \in Writers |-> NoSeg]
  /\ held     = [ring |-> 1, seg |-> 0, size |-> 0]
  /\ consumed = [w \in Writers |-> << >>]

Init == InitMemory /\ InitWriter /\ InitIterator

-----------------------------------------------------------------------------
(***************************************************************************)
(* RDMAClient: posting and waiting.                                        *)
(***************************************************************************)

\* A call that posted a signaled request has returned once the queue is empty.
Ready(w) == signaled[w] => sq[w] = << >>

\* Fault: requests are counted, but none is signaled for it.
CheckSignaledAsAsked(w, sig) ==
  /\ countWR'  = [countWR EXCEPT ![w] = IF @ + 1 = MaxWR THEN 0 ELSE @ + 1]
  /\ signaled' = [signaled EXCEPT ![w] = sig]

\* checkSignaled: every MaxWR-th request of a client is signaled.
CheckSignaled(w, sig) ==
  LET full == countWR[w] + 1 = MaxWR
  IN  /\ countWR'  = [countWR EXCEPT ![w] = IF full THEN 0 ELSE @ + 1]
      /\ signaled' = [signaled EXCEPT ![w] = sig \/ full]

Post(w, request, sig) ==
  /\ sq' = [sq EXCEPT ![w] = Append(@, request)]
  /\ CheckSignaled(w, sig)
  /\ UNCHANGED landing

\* writeHeaderToRemote: the request names m_segmentHeader, whose content is read
\* when the request executes.
WriteHeaderToRemote(w) == Post(w, [kind |-> "header", seg |-> seg[w]], TRUE)

-----------------------------------------------------------------------------
(***************************************************************************)
(* BufferWriterBW::append and what it calls.                               *)
(***************************************************************************)

\* Fault: append passes everything on at once.
ChunkUnlimited(n) == n

\* append cuts what it is given into chunks of at most the internal buffer.
Chunk(n) == IF n > IBufSize THEN IBufSize ELSE n

Append_(w, n) ==
  /\ wpc[w] = "idle" /\ Ready(w)
  /\ sent[w] + n <= MaxBytes
  /\ left' = [left EXCEPT ![w] = Chunk(n)]
  /\ size' = [size EXCEPT ![w] = n - Chunk(n)]
  /\ wpc'  = [wpc EXCEPT ![w] = "super_append"]
  /\ UNCHANGED <<memory, sent, seg, sizeUsed, hdr, nextSeg, ibuf, ioff, queue, consumer>>

\* super_append: the bytes that go into the current segment.
Fits(w) == sizeUsed[w] + left[w] <= SegSize
Part(w) == IF Fits(w) THEN left[w] ELSE SegSize - sizeUsed[w]

\* memcpy: the next n bytes of a stream of which k have been copied before.
Memcpy(b, at, n, k) ==
  [i \in 0 .. IBufSize - 1 |-> IF at <= i /\ i < at + n THEN k + (i - at) + 1 ELSE b[i]]

\* Part(w) bytes are copied to the internal buffer at "at" and written from there to
\* the current segment; then either the segment is full, or the chunk is done and the
\* next one, if any, is passed to super_append.
CopyAndWrite(w, at) ==
  LET part == Part(w)
      more == Chunk(size[w])
  IN  /\ ibuf' = [ibuf EXCEPT ![w] = Memcpy(ibuf[w], at, part, sent[w])]
      /\ ioff' = [ioff EXCEPT ![w] = at + part]
      /\ sent' = [sent EXCEPT ![w] = @ + part]
      /\ Post(w, [kind |-> "data", seg |-> seg[w], off |-> sizeUsed[w],
                  src |-> at, len |-> part], FALSE)
      /\ sizeUsed' = [sizeUsed EXCEPT ![w] = @ + part]
      /\ \/ /\ ~Fits(w)
            /\ left' = [left EXCEPT ![w] = @ - part]
            /\ wpc'  = [wpc EXCEPT ![w] = "full"]
            /\ UNCHANGED size
         \/ /\ Fits(w)
            /\ left' = [left EXCEPT ![w] = more]
            /\ size' = [size EXCEPT ![w] = @ - more]
            /\ wpc'  = [wpc EXCEPT ![w] = IF size[w] > 0 THEN "super_append" ELSE "idle"]
      /\ UNCHANGED <<memory, seg, hdr, nextSeg, consumer>>

\* writeToSegment, when the bytes fit behind the ones in the internal buffer.
WriteToSegment(w) ==
  /\ wpc[w] = "super_append" /\ Ready(w)
  /\ Fits(w) \/ Part(w) > 0
  /\ Part(w) + ioff[w] <= IBufSize
  /\ CopyAndWrite(w, ioff[w])

\* Fault: the internal buffer is used from its front again without waiting.
RestartInternalBuffer(w) ==
  /\ wpc[w] = "super_append" /\ Ready(w)
  /\ Fits(w) \/ Part(w) > 0
  /\ Part(w) + ioff[w] > IBufSize
  /\ CopyAndWrite(w, 0)

\* writeToSegment, when they do not: the header is written, which is signaled, so that
\* every request that reads the internal buffer has completed ...
DrainInternalBuffer(w) ==
  /\ wpc[w] = "super_append" /\ Ready(w)
  /\ Fits(w) \/ Part(w) > 0
  /\ Part(w) + ioff[w] > IBufSize
  /\ WriteHeaderToRemote(w)
  /\ wpc' = [wpc EXCEPT ![w] = "drain"]
  /\ UNCHANGED <<memory, size, left, sent, seg, sizeUsed, hdr, nextSeg, ibuf, ioff, consumer>>

\* ... and then the bytes go to the front of the internal buffer.
WriteFromFront(w) ==
  /\ wpc[w] = "drain" /\ Ready(w)
  /\ CopyAndWrite(w, 0)

\* super_append, when the current segment has no room at all.
NoRoom(w) ==
  /\ wpc[w] = "super_append" /\ Ready(w)
  /\ ~Fits(w) /\ Part(w) = 0
  /\ wpc' = [wpc EXCEPT ![w] = "full"]
  /\ UNCHANGED <<memory, size, left, sent, seg, sizeUsed, hdr, nextSeg, ibuf, ioff, queue, consumer>>

\* getNextSegment: the full segment is handed to the consumer ...
PublishSegment(w) ==
  /\ wpc[w] = "full" /\ Ready(w)
  /\ nextSeg' = [nextSeg EXCEPT ![w] = hdr[w].next]
  /\ hdr'     = [hdr EXCEPT ![w] =
                   SetFlags(SetWords(hdr[w], sizeUsed[w], hdr[w].next), FALSE, TRUE, hdr[w].E)]
  /\ WriteHeaderToRemote(w)
  /\ wpc' = [wpc EXCEPT ![w] = "fetch"]
  /\ UNCHANGED <<memory, size, left, sent, seg, sizeUsed, ibuf, ioff, consumer>>

\* ... the header of the next one is read into m_segmentHeader, counter and
\* nextSegmentOffset first (a read is posted signaled, on an empty queue) ...
FetchHeader(w) ==
  /\ wpc[w] = "fetch" /\ Ready(w)
  /\ hdr' = [hdr EXCEPT ![w] =
               SetWords(hdr[w], header[w][nextSeg[w]].counter, header[w][nextSeg[w]].next)]
  /\ CheckSignaled(w, TRUE)
  /\ wpc' = [wpc EXCEPT ![w] = "fetch_flags"]
  /\ UNCHANGED <<memory, size, left, sent, seg, sizeUsed, nextSeg, ibuf, ioff, sq, landing, consumer>>

\* Fault: the writer moves on without waiting for a writeable segment.
FetchFlagsOnce(w) ==
  LET h == header[w][nextSeg[w]]
  IN  /\ wpc[w] = "fetch_flags"
      /\ hdr'      = [hdr EXCEPT ![w] = SetFlags(hdr[w], h.W, h.C, h.E)]
      /\ seg'      = [seg EXCEPT ![w] = nextSeg[w]]
      /\ sizeUsed' = [sizeUsed EXCEPT ![w] = 0]
      /\ wpc'      = [wpc EXCEPT ![w] = "super_append"]
      /\ UNCHANGED <<memory, size, left, sent, nextSeg, ibuf, ioff, queue, consumer>>

\* ... and until that shows a writeable segment it is read again.
FetchFlags(w) ==
  LET h == header[w][nextSeg[w]]
  IN  /\ wpc[w] = "fetch_flags"
      /\ hdr' = [hdr EXCEPT ![w] = SetFlags(hdr[w], h.W, h.C, h.E)]
      /\ \/ /\ h.W
            /\ seg'      = [seg EXCEPT ![w] = nextSeg[w]]
            /\ sizeUsed' = [sizeUsed EXCEPT ![w] = 0]
            /\ wpc'      = [wpc EXCEPT ![w] = "super_append"]
         \/ /\ ~h.W
            /\ wpc'      = [wpc EXCEPT ![w] = "fetch"]
            /\ UNCHANGED <<seg, sizeUsed>>
      /\ UNCHANGED <<memory, size, left, sent, nextSeg, ibuf, ioff, queue, consumer>>

\* Fault: close also starts the segment anew.
CloseAndReset(w) ==
  /\ wpc[w] \in {"idle", "closed"} /\ Ready(w)
  /\ hdr' = [hdr EXCEPT ![w] =
               SetFlags(SetWords(hdr[w], sizeUsed[w], hdr[w].next), FALSE, TRUE, TRUE)]
  /\ WriteHeaderToRemote(w)
  /\ sizeUsed' = [sizeUsed EXCEPT ![w] = 0]
  /\ wpc' = [wpc EXCEPT ![w] = "closed"]
  /\ UNCHANGED <<memory, size, left, sent, seg, nextSeg, ibuf, ioff, consumer>>

\* close; DPI_Finalize closes every writer again, closed or not.
Close(w) ==
  /\ wpc[w] \in {"idle", "closed"} /\ Ready(w)
  /\ hdr' = [hdr EXCEPT ![w] =
               SetFlags(SetWords(hdr[w], sizeUsed[w], hdr[w].next), FALSE, TRUE, TRUE)]
  /\ WriteHeaderToRemote(w)
  /\ wpc' = [wpc EXCEPT ![w] = "closed"]
  /\ UNCHANGED <<memory, size, left, sent, seg, sizeUsed, nextSeg, ibuf, ioff, consumer>>

-----------------------------------------------------------------------------
(***************************************************************************)
(* The network cards execute the head of the send queue.                   *)
(***************************************************************************)

\* The payload p of a segment after data request r, which reads the internal buffer b.
Written(p, r, b) ==
  [o \in 0 .. SegSize - 1 |->
     IF r.off <= o /\ o < r.off + r.len THEN b[r.src + (o - r.off)] ELSE p[o]]

LandData(w) ==
  /\ sq[w] # << >> /\ Head(sq[w]).kind = "data"
  /\ LET r == Head(sq[w])
     IN  payload' = [payload EXCEPT ![w][r.seg] = Written(payload[w][r.seg], r, ibuf[w])]
  /\ sq' = [sq EXCEPT ![w] = Tail(@)]
  /\ UNCHANGED <<header, appender, landing, countWR, signaled, consumer>>

LandCounter(w) ==
  /\ sq[w] # << >> /\ Head(sq[w]).kind = "header" /\ ~landing[w]
  /\ LET s == Head(sq[w]).seg
     IN  header' = [header EXCEPT ![w][s] =
                      SetWords(header[w][s], hdr[w].counter, hdr[w].next)]
  /\ landing' = [landing EXCEPT ![w] = TRUE]
  /\ UNCHANGED <<payload, appender, sq, countWR, signaled, consumer>>

LandFlags(w) ==
  /\ landing[w]
  /\ LET s == Head(sq[w]).seg
     IN  header' = [header EXCEPT ![w][s] =
                      SetFlags(header[w][s], hdr[w].W, hdr[w].C, hdr[w].E)]
  /\ sq' = [sq EXCEPT ![w] = Tail(@)]
  /\ landing' = [landing EXCEPT ![w] = FALSE]
  /\ UNCHANGED <<payload, appender, countWR, signaled, consumer>>

-----------------------------------------------------------------------------
(***************************************************************************)
(* BufferIterator: the loop "while (has_next()) next(size)" of an          *)
(* application, which reads the bytes next() returned before it calls      *)
(* has_next() again.                                                       *)
(***************************************************************************)

\* pointer_to_iter after the wrap at the head of the loop in has_next.
Here == IF pos > Len(live) THEN 1 ELSE pos

\* The end mark of prev; the one of the header outside the ring is cleared.
PrevIsEnd(w) == prev[w] # NoSeg /\ header[w][prev[w]].E

\* Fault: has_next waits for the ring at hand.
WaitForRing ==
  /\ cpc = "has_next" /\ live # << >>
  /\ ~PrevIsEnd(live[Here])
  /\ ~header[live[Here]][iter[live[Here]]].C
  /\ pos' = Here
  /\ UNCHANGED <<memory, appender, queue, cpc, live, iter, prev, held, consumed>>

\* has_next: the ring has nothing yet, look at the next one.
SkipRing ==
  /\ cpc = "has_next" /\ live # << >>
  /\ ~PrevIsEnd(live[Here])
  /\ ~header[live[Here]][iter[live[Here]]].C
  /\ pos' = Here + 1
  /\ UNCHANGED <<memory, appender, queue, cpc, live, iter, prev, held, consumed>>

\* has_next: true, and the application calls next().
FoundSegment ==
  /\ cpc = "has_next" /\ live # << >>
  /\ ~PrevIsEnd(live[Here])
  /\ header[live[Here]][iter[live[Here]]].C
  /\ pos' = Here
  /\ cpc' = IF prev[live[Here]] = NoSeg THEN "take" ELSE "mark_counter"
  /\ UNCHANGED <<memory, appender, queue, live, iter, prev, held, consumed>>

\* Fault: the element after the one at position k.
EraseNext(s, k) == SubSeq(s, 1, k) \o SubSeq(s, k + 2, Len(s))

\* std::list::erase of the element at position k.
Erase(s, k) == SubSeq(s, 1, k - 1) \o SubSeq(s, k + 1, Len(s))

\* has_next: the last segment of the ring has been handed out, the ring is removed.
\* mark_prev_segment leaves an end segment as it is.
DropRing ==
  /\ cpc = "has_next" /\ live # << >>
  /\ PrevIsEnd(live[Here])
  /\ live' = Erase(live, Here)
  /\ pos' = Here
  /\ UNCHANGED <<memory, appender, queue, cpc, iter, prev, held, consumed>>

\* has_next: false.
NoMoreRings ==
  /\ cpc = "has_next" /\ live = << >>
  /\ cpc' = "end"
  /\ UNCHANGED <<memory, appender, queue, live, pos, iter, prev, held, consumed>>

\* Fault: mark_prev_segment stores W first, then the counter, then C.
MarkPrevWriteableFirst(at, then, h) ==
  LET w == live[pos]
      p == header[w][prev[w]]
  IN  /\ cpc = at
      /\ header' = [header EXCEPT ![w][prev[w]] =
           CASE at = "mark_counter"    -> SetFlags(p, TRUE, p.C, p.E)
             [] at = "mark_consumable" -> SetWords(p, 0, p.next)
             [] at = "mark_writeable"  -> SetFlags(p, p.W, FALSE, p.E)]
      /\ cpc' = then
      /\ UNCHANGED <<payload, appender, queue, live, pos, iter, prev, held, consumed>>

\* mark_prev_segment: three stores to the segment returned by the previous call.
MarkPrev(at, then, h) ==
  LET w == live[pos]
  IN  /\ cpc = at
      /\ header' = [header EXCEPT ![w][prev[w]] = h]
      /\ cpc' = then
      /\ UNCHANGED <<payload, appender, queue, live, pos, iter, prev, held, consumed>>

PrevHeader == header[live[pos]][prev[live[pos]]]

MarkCounter ==
  MarkPrev("mark_counter", "mark_consumable", SetWords(PrevHeader, 0, PrevHeader.next))
MarkConsumable ==
  MarkPrev("mark_consumable", "mark_writeable",
           SetFlags(PrevHeader, PrevHeader.W, FALSE, PrevHeader.E))
\* Fault: the segment is never given back.
MarkWriteableLost == MarkPrev("mark_writeable", "take", PrevHeader)
MarkWriteable ==
  MarkPrev("mark_writeable", "take", SetFlags(PrevHeader, TRUE, PrevHeader.C, PrevHeader.E))

\* next, after mark_prev_segment: the pointer and the size are returned, the
\* iterators move on.
Take ==
  LET w == live[pos]
  IN  /\ cpc = "take"
      /\ held' = [ring |-> w, seg |-> iter[w], size |-> header[w][iter[w]].counter]
      /\ prev' = [prev EXCEPT ![w] = iter[w]]
      /\ iter' = [iter EXCEPT ![w] = header[w][iter[w]].next]
      /\ pos' = pos + 1
      /\ cpc' = "use"
      /\ UNCHANGED <<memory, appender, queue, live, consumed>>

\* The application reads the bytes.
Use ==
  /\ cpc = "use"
  /\ consumed' = [consumed EXCEPT ![held.ring] =
       @ \o [i \in 1 .. held.size |-> payload[held.ring][held.seg][i - 1]]]
  /\ cpc' = "has_next"
  /\ UNCHANGED <<memory, appender, queue, live, pos, iter, prev, held>>

-----------------------------------------------------------------------------
WriterStep(w) ==
  \/ WriteToSegment(w) \/ DrainInternalBuffer(w) \/ WriteFromFront(w) \/ NoRoom(w)
  \/ PublishSegment(w) \/ FetchHeader(w) \/ FetchFlags(w)

NicStep(w) == LandData(w) \/ LandCounter(w) \/ LandFlags(w)

ConsumerStep ==
  \/ SkipRing \/ FoundSegment \/ DropRing \/ NoMoreRings
  \/ MarkCounter \/ MarkConsumable \/ MarkWriteable \/ Take \/ Use

Next ==
  \/ \E w \in Writers : \E n \in AppendSizes : Append_(w, n)
  \/ \E w \in Writers : Close(w)
  \/ \E w \in Writers : WriterStep(w)
  \/ \E w \in Writers : NicStep(w)
  \/ ConsumerStep

Spec == Init /\ [][Next]_vars

(***************************************************************************)
(* A call of append runs to its end and the cards execute what is posted;  *)
(* the application keeps consuming.  Nothing makes it call append or close.*)
(***************************************************************************)
Fairness ==
  /\ \A w \in Writers : WF_vars(WriterStep(w)) /\ WF_vars(NicStep(w))
  /\ WF_vars(ConsumerStep)

FairSpec == Spec /\ Fairness

-----------------------------------------------------------------------------
MemoryType ==
  /\ header  \in [Writers -> [Segs -> Header]]
  /\ payload \in [Writers -> [Segs -> [0 .. SegSize - 1 -> Nat]]]

AppenderType ==
  /\ wpc      \in [Writers -> {"idle", "super_append", "drain", "full", "fetch",
                               "fetch_flags", "closed"}]
  /\ size     \in [Writers -> Nat]
  /\ left     \in [Writers -> 0 .. IBufSize]
  /\ sent     \in [Writers -> Nat]
  /\ seg      \in [Writers -> Segs]
  /\ sizeUsed \in [Writers -> 0 .. SegSize]
  /\ hdr      \in [Writers -> Header]
  /\ nextSeg  \in [Writers -> Segs]
  /\ ibuf     \in [Writers -> [0 .. IBufSize - 1 -> Nat]]
  /\ ioff     \in [Writers -> 0 .. IBufSize]

QueueType ==
  /\ sq       \in [Writers -> Seq(WorkRequest)]
  /\ landing  \in [Writers -> BOOLEAN]
  /\ countWR  \in [Writers -> 0 .. MaxWR - 1]
  /\ signaled \in [Writers -> BOOLEAN]

ConsumerType ==
  /\ cpc      \in {"has_next", "mark_counter", "mark_consumable", "mark_writeable",
                   "take", "use", "end"}
  /\ live     \in Seq(Writers)
  /\ pos      \in 1 .. Len(live) + 1
  /\ iter     \in [Writers -> Segs]
  /\ prev     \in [Writers -> Segs \cup {NoSeg}]
  /\ held     \in [ring : Writers, seg : Segs, size : 0 .. SegSize]
  /\ consumed \in [Writers -> Seq(Nat)]

\* The values of the variables.  Among them: no request reaches beyond the segment
\* it writes to, or beyond the internal buffer it reads (writeToSegment).
TypeOK == MemoryType /\ AppenderType /\ QueueType /\ ConsumerType

(***************************************************************************)
(* A ring has one user per segment.  The segment next() returned last      *)
(* belongs to the consumer until mark_prev_segment has made it writeable:  *)
(* the writer has not moved into it, and no payload is on its way to it.   *)
(***************************************************************************)
Released(w) == cpc = "take" /\ live[pos] = w

SegmentExclusive ==
  \A w \in Writers : prev[w] # NoSeg /\ ~Released(w) =>
    /\ wpc[w] \in {"idle", "super_append", "drain", "full"} => seg[w] # prev[w]
    /\ \A i \in DOMAIN sq[w] : sq[w][i].kind = "data" => sq[w][i].seg # prev[w]

(***************************************************************************)
(* What the application reads of a ring is what was appended to it: byte   *)
(* 1, 2, ... with none missing, repeated or out of place, whatever the     *)
(* sizes passed to append.                                                 *)
(***************************************************************************)
DeliveredInOrder ==
  \A w \in Writers : \A i \in DOMAIN consumed[w] : consumed[w][i] = i

(***************************************************************************)
(* The bytes of a request stay in the internal buffer until the card has   *)
(* read them: two posted requests never read the same place of it.         *)
(***************************************************************************)
Sources(r) == IF r.kind = "data" THEN r.src .. r.src + r.len - 1 ELSE {}

InFlightDisjoint ==
  \A w \in Writers : \A i, j \in DOMAIN sq[w] :
    i # j => Sources(sq[w][i]) \cap Sources(sq[w][j]) = {}

(***************************************************************************)
(* checkSignaled keeps the send queue, created with room for RDMA_MAX_WR   *)
(* requests, from overflowing.                                             *)
(***************************************************************************)
SendQueueBounded == \A w \in Writers : Len(sq[w]) <= MaxWR

(***************************************************************************)
(* A segment that is consumable and has not been handed out yet does not   *)
(* change: neither its header nor its payload is written again, not even   *)
(* by the header write in the middle of a segment or by a second close.    *)
(***************************************************************************)
PublishedIsStable ==
  [][\A w \in Writers : \A s \in Segs :
       header[w][s].C /\ s # prev[w] =>
         header'[w][s] = header[w][s] /\ payload'[w][s] = payload[w][s]]_vars

(***************************************************************************)
(* A call of append returns although it may have to wait for the consumer  *)
(* in getNextSegment.                                                      *)
(***************************************************************************)
AppendReturns ==
  \A w \in Writers : (wpc[w] = "super_append") ~> (wpc[w] = "idle")

(***************************************************************************)
(* When has_next has returned true there is an element: the segment next() *)
(* is about to return is consumable still.                                 *)
(***************************************************************************)
NextElementIsThere ==
  cpc = "take" => header[live[pos]][iter[live[pos]]].C

(***************************************************************************)
(* The buffer implements the streams of BufferStream: bytes count as       *)
(* appended when append is called, a stream is closed when close is        *)
(* called, and its end is reported when has_next removes the ring.         *)
(***************************************************************************)
Stream == INSTANCE BufferStream WITH
  Appenders <- Writers,
  Sizes     <- AppendSizes,
  appended  <- [w \in Writers |-> sent[w] + left[w] + size[w]],
  closed    <- [w \in Writers |-> wpc[w] = "closed"],
  delivered <- consumed,
  open      <- {live[i] : i \in DOMAIN live}

\* Every behaviour of writers, cards and iterator is one of the abstract streams.
ImplementsStream == Stream!SafeSpec

\* A closed ring is read to its end, whatever the other writers do.
ClosedIsDrained == Stream!Drained

-----------------------------------------------------------------------------
(***************************************************************************)
(* The inductive invariant behind SegmentExclusive, NextElementIsThere and *)
(* SendQueueBounded, for rings of two or more segments.                    *)
(*                                                                         *)
(* Seen from iter, the segments that are consumable and not yet handed     *)
(* out come first; they end at the segment of the writer.  The segment     *)
(* handed out last is the one before iter, and it stays outside that run   *)
(* because a writer enters a segment only when its header says W.          *)
(***************************************************************************)
Filling == {"idle", "super_append", "drain", "full"}

\* Steps from a to b round the ring.
Dist(a, b) == IF a <= b THEN b - a ELSE b - a + N

\* The segment the consumer keeps from the writer.
Kept(w) == IF Released(w) THEN NoSeg ELSE prev[w]

\* How many segments are consumable and not handed out.
NumFull(w) ==
  IF Kept(w) = seg[w] THEN 0
  ELSE Dist(iter[w], seg[w]) + (IF header[w][seg[w]].C THEN 1 ELSE 0)

\* The consumer is between has_next() = true and the end of next() on ring w.
Taking(w) == /\ cpc \in {"mark_counter", "mark_consumable", "mark_writeable", "take"}
             /\ live[pos] = w

ConsumerInv(w) ==
  /\ iter[w] = (IF prev[w] = NoSeg THEN 0 ELSE Succ(prev[w]))
  /\ Taking(w) => header[w][iter[w]].C
  /\ Taking(w) /\ ~Released(w) => prev[w] # NoSeg

FlagsInv(w) ==
  /\ \A s \in Segs : header[w][s].next = Succ(s)
  /\ \A s \in Segs : s # Kept(w) => (header[w][s].C <=> Dist(iter[w], s) < NumFull(w))
  /\ \A s \in Segs : s # Kept(w) => (header[w][s].W <=> ~header[w][s].C)
  /\ Kept(w) # NoSeg => ~header[w][Kept(w)].W
  /\ Kept(w) # NoSeg => (header[w][Kept(w)].C <=> ~(Taking(w) /\ cpc = "mark_writeable"))

QueueInv(w) ==
  /\ landing[w] => sq[w] # << >> /\ Head(sq[w]).kind = "header"
  /\ \A i \in DOMAIN sq[w] : sq[w][i].seg = seg[w]
  /\ \A i \in DOMAIN sq[w] : sq[w][i].kind = "header" =>
       i = Len(sq[w]) /\ wpc[w] \in {"drain", "fetch", "closed"}
  /\ wpc[w] \in {"drain", "fetch", "closed"} =>
       signaled[w] /\ (sq[w] # << >> => sq[w][Len(sq[w])].kind = "header")
  /\ wpc[w] = "fetch_flags" => signaled[w] /\ sq[w] = << >>
  /\ \/ Len(sq[w]) <= countWR[w]
     \/ countWR[w] = 0 /\ signaled[w] /\ Len(sq[w]) <= MaxWR

WriterInv(w) ==
  /\ wpc[w] \in Filling => hdr[w].W /\ ~hdr[w].C /\ ~header[w][seg[w]].C
  /\ wpc[w] = "closed" => hdr[w].C /\ ~hdr[w].W
  /\ wpc[w] = "fetch" /\ sq[w] # << >> => hdr[w].C /\ ~hdr[w].W
  /\ wpc[w] \in Filling \cup {"closed"} => hdr[w].next = Succ(seg[w])
  /\ wpc[w] = "fetch" /\ sq[w] # << >> => hdr[w].next = Succ(seg[w])
  /\ wpc[w] = "fetch_flags" => hdr[w].next = Succ(nextSeg[w])
  /\ wpc[w] \in {"fetch", "fetch_flags"} => nextSeg[w] = Succ(seg[w])
  /\ wpc[w] = "fetch" => (header[w][seg[w]].C <=> sq[w] = << >>)
  /\ wpc[w] = "fetch_flags" => header[w][seg[w]].C
  /\ wpc[w] = "closed" /\ sq[w] = << >> => header[w][seg[w]].C
  /\ header[w][seg[w]].C => \A i \in DOMAIN sq[w] : sq[w][i].kind = "header"

RingInv(w) == ConsumerInv(w) /\ FlagsInv(w) /\ QueueInv(w) /\ WriterInv(w)

CursorInv == /\ cpc \in {"mark_counter", "mark_consumable", "mark_writeable", "take"}
                  => pos \in DOMAIN live

IInv == TypeOK /\ CursorInv /\ \A w \in Writers : RingInv(w)

-----------------------------------------------------------------------------
(***************************************************************************)
(* The inductive invariant behind InFlightDisjoint, PublishedIsStable,     *)
(* DeliveredInOrder and ImplementsStream: IInv, and where every byte is.   *)
(*                                                                         *)
(* A segment is handed to the consumer full, or with its end mark.  So the *)
(* segment d steps after iter starts d times SegSize bytes after what has  *)
(* been handed out, and the segment of the writer sizeUsed bytes before    *)
(* what has been copied.                                                   *)
(***************************************************************************)

\* The bytes of d full segments.
Bytes(d) == d * SegSize

\* The bytes of ring w that next() has handed out.
Taken(w) == Len(consumed[w]) + (IF cpc = "use" /\ held.ring = w THEN held.size ELSE 0)

\* The first n bytes of payload p are the ones after byte b of the stream.
Holds(p, n, b) == \A o \in 0 .. n - 1 : p[o] = b + o + 1

Covers(r, o) == r.kind = "data" /\ r.off <= o /\ o < r.off + r.len

\* The bytes of data request r are in front of place "at" of the internal buffer m, and
\* they are those of its place in the segment, of which u are used, and which starts
\* after byte b of the stream.
Loaded(r, m, at, u, b) ==
  r.kind = "data" =>
    /\ r.src + r.len <= at /\ r.off + r.len <= u
    /\ \A k \in 0 .. r.len - 1 : m[r.src + k] = b + r.off + k + 1

\* A request posted later reads the internal buffer further behind.
Ordered(q) ==
  \A i, j \in DOMAIN q :
    i < j /\ q[i].kind = "data" /\ q[j].kind = "data" => q[i].src + q[i].len <= q[j].src

\* What is not yet in payload p is on its way.
Filled(p, q, u, b) ==
  \A o \in 0 .. u - 1 : p[o] = b + o + 1 \/ \E i \in DOMAIN q : Covers(q[i], o)

\* A queue, the internal buffer it reads and the payload it writes.
InFlight(q, m, at, p, u, b) ==
  /\ \A i \in DOMAIN q : Loaded(q[i], m, at, u, b)
  /\ Ordered(q)
  /\ Filled(p, q, u, b)

InFlightInv(w) ==
  InFlight(sq[w], ibuf[w], ioff[w], payload[w][seg[w]], sizeUsed[w], sent[w] - sizeUsed[w])

\* Counters, end marks and what append has left to do.
WordsInv(w) ==
  /\ wpc[w] \in {"full", "fetch", "fetch_flags"} => sizeUsed[w] = SegSize
  /\ wpc[w] \in {"idle", "closed"} => left[w] = 0 /\ size[w] = 0
  /\ hdr[w].E <=> wpc[w] = "closed"
  /\ \A s \in Segs : header[w][s].E => s = seg[w] /\ wpc[w] = "closed"
  /\ wpc[w] = "closed" => hdr[w].counter = sizeUsed[w]
  /\ wpc[w] = "fetch" /\ sq[w] # << >> => hdr[w].counter = sizeUsed[w]
  /\ landing[w] => header[w][seg[w]].counter = hdr[w].counter
  /\ wpc[w] = "closed" /\ header[w][seg[w]].C => header[w][seg[w]].E

\* Segment s, consumable and not handed out.
PublishedInv(w, s) ==
  /\ header[w][s].counter = (IF s = seg[w] THEN sizeUsed[w] ELSE SegSize)
  /\ Holds(payload[w][s], header[w][s].counter, Taken(w) + Bytes(Dist(iter[w], s)))

StreamInv(w) ==
  /\ sent[w] = IF Kept(w) = seg[w] THEN Taken(w)
               ELSE Taken(w) + Bytes(Dist(iter[w], seg[w])) + sizeUsed[w]
  /\ \A s \in Segs : s # Kept(w) /\ header[w][s].C => PublishedInv(w, s)
  /\ cpc = "use" /\ held.ring = w =>
       prev[w] = held.seg /\ Holds(payload[w][held.seg], held.size, Len(consumed[w]))
  /\ \A i \in DOMAIN consumed[w] : consumed[w][i] = i

LiveInv ==
  /\ \A i, j \in DOMAIN live : live[i] = live[j] => i = j
  /\ cpc = "use" => \E i \in DOMAIN live : live[i] = held.ring

BytesInv(w) == InFlightInv(w) /\ WordsInv(w) /\ StreamInv(w)

DataInv == IInv /\ LiveInv /\ \A w \in Writers : BytesInv(w)

===============================================================================
