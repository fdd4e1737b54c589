------------------------------- MODULE BufferLat -------------------------------
(***************************************************************************)
(* A DPI buffer of type LAT: one ring of N segments with the counter of    *)
(* released segments in front of it, the BufferWriterLat that fills it and *)
(* the BufferIteratorLat that empties it.  A message takes one segment and *)
(* goes out with its header in one RDMA write; the writer looks at the     *)
(* counter only when it has no free segment left.                          *)
(*                                                                         *)
(* Messages have one size.  So the internal buffer is a row of slots, each *)
(* for a header and a message.  Message k is named by its number, and what *)
(* is appended is message 1, 2, ...                                        *)
(*                                                                         *)
(* Requests are executed as in BufferBW: in order, after they have been    *)
(* posted, with the content of the local memory at that time; the words of *)
(* a write land in the order of their addresses.                           *)
(*                                                                         *)
(* A definition introduced by "Fault:" is no part of the specification: it *)
(* is the definition after it with a mistake, to show that a property      *)
(* notices the mistake.                                                    *)
(***************************************************************************)
EXTENDS Integers, Sequences

CONSTANTS
  N,        \* segmentsPerWriter
  SegSize,  \* segmentSizes
  MsgSize,  \* size passed to append
  Slots,    \* messages with header that fit into the internal buffer
  MaxWR,    \* Config::RDMA_MAX_WR
  MaxMsgs   \* bound of the model: messages appended

ASSUME LatAssumption ==
  /\ N \in Nat \ {0} /\ SegSize \in Nat \ {0} /\ MsgSize \in 1 .. SegSize
  /\ Slots \in Nat \ {0} /\ MaxWR \in Nat \ {0} /\ MaxMsgs \in Nat

Segs  == 0 .. N - 1
NoSeg == N          \* IterHelper::prev before the first next()

VARIABLES
  \* memory of the node that holds the buffer
  header,    \* header[s]: the header of segment s
  payload,   \* payload[s]: the message behind it, 0 when there is none
  released,  \* the counter in front of the ring
  \* BufferWriterLat
  wpc,       \* where its thread is
  sent,      \* messages appended
  free,      \* writeableFreeSegments
  cnt,       \* *consumedCnt: the counter as read last
  cur,       \* segmentIndex, and the segment at currentSegmentOffset
  last,      \* the segment at lastSegmentOffset
  hdr,       \* *m_segmentHeader
  ibuf,      \* ibuf[i]: slot i of m_internalBuffer
  islot,     \* m_internalBuffer->offset, in slots
  \* its queue pair
  sq,        \* requests posted and not yet executed
  landed,    \* parts of the head of sq that have landed
  countWR,   \* RDMAClient::m_countWR
  signaled,  \* the last request posted was signaled: the caller waits for it
  \* BufferIteratorLat
  cpc,       \* where the consumer is
  iter,      \* IterHelper::iter
  prev,      \* IterHelper::prev
  held,      \* what the last next() returned
  consumed   \* what the application has read

memory   == <<header, payload, released>>
appender == <<wpc, sent, free, cnt, cur, last, hdr, ibuf, islot>>
queue    == <<sq, landed, countWR, signaled>>
consumer == <<cpc, iter, prev, held, consumed>>
vars     == <<memory, appender, queue, consumer>>

Succ(s) == IF s = N - 1 THEN 0 ELSE s + 1

-----------------------------------------------------------------------------
\* The ring as NodeServer::handle leaves it, the writer after its constructor, which
\* has read header and counter, and the iterator after its constructor.
FreshHeader(s) == [counter |-> 0, next |-> Succ(s), W |-> TRUE, C |-> FALSE, E |-> FALSE]

Init ==
  /\ header   = [s \in Segs |-> FreshHeader(s)]
  /\ payload  = [s \in Segs |-> 0]
  /\ released = N
  /\ wpc = "idle" /\ sent = 0 /\ free = N /\ cnt = N /\ cur = 0 /\ last = 0
  /\ hdr  = FreshHeader(0)
  /\ ibuf = [i \in 0 .. Slots - 1 |-> [hdr |-> FreshHeader(0), msg |-> 0]]
  /\ islot = 0
  /\ sq = << >> /\ landed = 0 /\ signaled = FALSE
  /\ countWR = 2 % MaxWR
  /\ cpc = "has_next" /\ iter = 0 /\ prev = NoSeg
  /\ held = [seg |-> 0, size |-> 0]
  /\ consumed = << >>

-----------------------------------------------------------------------------
(***************************************************************************)
(* RDMAClient: posting and waiting.                                        *)
(***************************************************************************)
Ready == signaled => sq = << >>

CheckSignaled(sig) ==
  LET full == countWR + 1 = MaxWR
  IN  /\ countWR'  = IF full THEN 0 ELSE countWR + 1
      /\ signaled' = (sig \/ full)

Post(request, sig) ==
  /\ sq' = Append(sq, request)
  /\ CheckSignaled(sig)
  /\ UNCHANGED landed

-----------------------------------------------------------------------------
(***************************************************************************)
(* BufferWriterLat.                                                        *)
(***************************************************************************)

\* Fault: the internal buffer is never left at its first slot.
FirstSlot == 0

\* writeToSegment: the place in the internal buffer, its front when the end is reached.
NextSlot == IF islot + 1 > Slots THEN 0 ELSE islot

\* writeToSegment: header and message are copied to the internal buffer.  The second
\* memcpy is too long by the size of a header and spoils the header of the next slot; at
\* the last slot it spoils memory behind the internal buffer, which is not modelled.
CopyMessage(i, h) ==
  [j \in 0 .. Slots - 1 |->
     CASE j = i     -> [hdr |-> h, msg |-> sent + 1]
       [] j = i + 1 -> [hdr |-> ibuf[j].hdr, msg |-> 0]
       [] OTHER     -> ibuf[j]]

\* The end of append, when there is a free segment: the message is written, which is
\* waited for when that segment is the last one.
WriteMessage(sig) ==
  LET h == [hdr EXCEPT !.counter = MsgSize, !.C = TRUE, !.next = Succ(cur)]
  IN  /\ hdr'   = h
      /\ ibuf'  = CopyMessage(NextSlot, h)
      /\ islot' = NextSlot + 1
      /\ Post([kind |-> "data", seg |-> cur, slot |-> NextSlot, msg |-> sent + 1],
              free = 1 \/ sig)
      /\ sent' = sent + 1
      /\ free' = free - 1
      /\ last' = cur
      /\ cur'  = Succ(cur)
      /\ wpc'  = "idle"
      /\ UNCHANGED <<memory, cnt, consumer>>

Append_(sig) ==
  /\ wpc = "idle" /\ Ready /\ sent < MaxMsgs
  /\ free > 0
  /\ WriteMessage(sig)

\* append, when there is none: the counter is read ...
NoFreeSegment ==
  /\ wpc = "idle" /\ Ready /\ sent < MaxMsgs
  /\ free = 0
  /\ wpc' = "read_counter"
  /\ UNCHANGED <<memory, sent, free, cnt, cur, last, hdr, ibuf, islot, queue, consumer>>

\* Fault: one more than was released.
CreditOneMore == released - cnt + 1

\* The segments released since the counter was read last.
Credit == released - cnt

\* ... until it has changed.  A read is executed after the writes posted before it.
ReadCounter ==
  /\ wpc = "read_counter" /\ sq = << >>
  /\ cnt' = released
  /\ CheckSignaled(TRUE)
  /\ \/ /\ released = cnt
        /\ UNCHANGED <<wpc, free>>
     \/ /\ released # cnt
        /\ free' = free + Credit
        /\ wpc'  = "write"
  /\ UNCHANGED <<memory, sent, cur, last, hdr, ibuf, islot, sq, landed, consumer>>

AppendAfterWait(sig) ==
  /\ wpc = "write"
  /\ WriteMessage(sig)

EndHeader == [hdr EXCEPT !.counter = SegSize, !.W = FALSE, !.C = TRUE, !.E = TRUE]

\* Fault: the end mark is forgotten.
CloseUnmarked ==
  /\ wpc \in {"idle", "closed"} /\ Ready /\ sent > 0
  /\ hdr' = [EndHeader EXCEPT !.E = FALSE]
  /\ Post([kind |-> "header", seg |-> last], TRUE)
  /\ wpc' = "closed"
  /\ UNCHANGED <<memory, sent, free, cnt, cur, last, ibuf, islot, consumer>>

\* Fault: the end mark goes to the segment after the last message.
CloseCurrent ==
  /\ wpc \in {"idle", "closed"} /\ Ready /\ sent > 0
  /\ hdr' = EndHeader
  /\ Post([kind |-> "header", seg |-> cur], TRUE)
  /\ wpc' = "closed"
  /\ UNCHANGED <<memory, sent, free, cnt, cur, last, ibuf, islot, consumer>>

\* close: the header of the last message is written again, with the end mark and with
\* segmentSizes for its counter.
Close ==
  /\ wpc \in {"idle", "closed"} /\ Ready /\ sent > 0
  /\ hdr' = EndHeader
  /\ Post([kind |-> "header", seg |-> last], TRUE)
  /\ wpc' = "closed"
  /\ UNCHANGED <<memory, sent, free, cnt, cur, last, ibuf, islot, consumer>>

\* close before any append: lastSegmentOffset is 0 still, and the header goes to the
\* start of the memory of the node, where the end mark of this ring is never looked for.
\* If this ring is the first of the node, its counter is there, and the first words of
\* its first header: after close nobody reads that counter, and the flags, further on,
\* stay as they are.  What it does to another ring is shown in Registry.
CloseUnused ==
  /\ wpc \in {"idle", "closed"} /\ sent = 0
  /\ hdr' = EndHeader
  /\ CheckSignaled(TRUE)
  /\ wpc' = "closed"
  /\ UNCHANGED <<memory, sent, free, cnt, cur, last, ibuf, islot, sq, landed, consumer>>

-----------------------------------------------------------------------------
(***************************************************************************)
(* The network cards execute the head of the send queue: counter and       *)
(* nextSegmentOffset land, then the flags, then the message.               *)
(***************************************************************************)
Source(r) == IF r.kind = "data" THEN ibuf[r.slot].hdr ELSE hdr

LandWords ==
  /\ sq # << >> /\ landed = 0
  /\ LET r == Head(sq)
     IN  header' = [header EXCEPT ![r.seg].counter = Source(r).counter,
                                  ![r.seg].next    = Source(r).next]
  /\ landed' = 1
  /\ UNCHANGED <<payload, released, appender, sq, countWR, signaled, consumer>>

LandFlags ==
  /\ landed = 1
  /\ LET r == Head(sq)
     IN  /\ header' = [header EXCEPT ![r.seg].W = Source(r).W,
                                     ![r.seg].C = Source(r).C,
                                     ![r.seg].E = Source(r).E]
         /\ \/ r.kind = "data" /\ landed' = 2 /\ UNCHANGED sq
            \/ r.kind = "header" /\ landed' = 0 /\ sq' = Tail(sq)
  /\ UNCHANGED <<payload, released, appender, countWR, signaled, consumer>>

LandMessage ==
  /\ landed = 2
  /\ payload' = [payload EXCEPT ![Head(sq).seg] = ibuf[Head(sq).slot].msg]
  /\ landed' = 0 /\ sq' = Tail(sq)
  /\ UNCHANGED <<header, released, appender, countWR, signaled, consumer>>

-----------------------------------------------------------------------------
(***************************************************************************)
(* BufferIteratorLat, in the loop "while (has_next()) next(size)".         *)
(***************************************************************************)
PrevIsEnd == prev # NoSeg /\ header[prev].E

\* has_next: true, and the application calls next().  The header outside the ring that
\* prev stands for at first is not writeable, and mark_prev_segment leaves it alone.
FoundSegment ==
  /\ cpc = "has_next" /\ ~PrevIsEnd
  /\ header[iter].C
  /\ cpc' = IF prev # NoSeg /\ header[prev].W THEN "mark_counter" ELSE "take"
  /\ UNCHANGED <<memory, appender, queue, iter, prev, held, consumed>>

\* has_next: the end segment has been handed out.
DropRing ==
  /\ cpc = "has_next" /\ PrevIsEnd
  /\ cpc' = "end"
  /\ UNCHANGED <<memory, appender, queue, iter, prev, held, consumed>>

\* mark_prev_segment: the segment is cleared and then counted as released.
MarkCounter ==
  /\ cpc = "mark_counter"
  /\ header' = [header EXCEPT ![prev].counter = 0]
  /\ cpc' = "mark_consumable"
  /\ UNCHANGED <<payload, released, appender, queue, iter, prev, held, consumed>>

MarkConsumable ==
  /\ cpc = "mark_consumable"
  /\ header' = [header EXCEPT ![prev].C = FALSE, ![prev].W = TRUE]
  /\ cpc' = "count"
  /\ UNCHANGED <<payload, released, appender, queue, iter, prev, held, consumed>>

\* Fault: the segment is not counted.
CountLost ==
  /\ cpc = "count"
  /\ cpc' = "take"
  /\ UNCHANGED <<memory, appender, queue, iter, prev, held, consumed>>

CountReleased ==
  /\ cpc = "count"
  /\ released' = released + 1
  /\ cpc' = "take"
  /\ UNCHANGED <<header, payload, appender, queue, iter, prev, held, consumed>>

\* next, after mark_prev_segment.
Take ==
  /\ cpc = "take"
  /\ held' = [seg |-> iter, size |-> header[iter].counter]
  /\ prev' = iter
  /\ iter' = header[iter].next
  /\ cpc'  = "use"
  /\ UNCHANGED <<memory, appender, queue, consumed>>

\* A message for segment s is in the send queue still, or has landed in part.
InFlight(s) == \E i \in DOMAIN sq : sq[i].kind = "data" /\ sq[i].seg = s

\* The application reads the message.
Use ==
  /\ cpc = "use"
  /\ consumed' = Append(consumed, [msg |-> payload[held.seg], size |-> held.size,
                                   torn |-> InFlight(held.seg)])
  /\ cpc' = "has_next"
  /\ UNCHANGED <<memory, appender, queue, iter, prev, held>>

-----------------------------------------------------------------------------
WriterStep == ReadCounter \/ \E sig \in BOOLEAN : AppendAfterWait(sig)
NicStep == LandWords \/ LandFlags \/ LandMessage
ConsumerStep ==
  FoundSegment \/ DropRing \/ MarkCounter \/ MarkConsumable \/ CountReleased \/ Take \/ Use

Next ==
  \/ \E sig \in BOOLEAN : Append_(sig)
  \/ NoFreeSegment
  \/ Close
  \/ CloseUnused
  \/ WriterStep
  \/ NicStep
  \/ ConsumerStep

Spec == Init /\ [][Next]_vars

\* A call of append runs to its end, the cards execute what is posted, and the
\* application keeps consuming.  Nothing makes it call append or close.
FairSpec == Spec /\ WF_vars(WriterStep) /\ WF_vars(NicStep) /\ WF_vars(ConsumerStep)

-----------------------------------------------------------------------------
(***************************************************************************)
(* The writer counts free segments without looking at their headers: it    *)
(* never counts one that the consumer has not released, and never more     *)
(* than there are.  Until its header has landed, a message is for a        *)
(* segment with nothing to be read in it and other than the one handed out *)
(* last, unless that has been counted.                                     *)
(***************************************************************************)
SegmentExclusive ==
  /\ free \in 0 .. N
  /\ \A i \in DOMAIN sq : sq[i].kind = "data" /\ (i > 1 \/ landed < 2) =>
       /\ ~header[sq[i].seg].C
       /\ sq[i].seg # prev \/ cpc = "take"

(***************************************************************************)
(* writeToSegment restarts the internal buffer without waiting for the     *)
(* requests that read it.  When it has room for a ring of messages, what a *)
(* request was posted for is still there when the card reads it.           *)
(***************************************************************************)
InFlightIntact ==
  \A i \in DOMAIN sq : sq[i].kind = "data" => ibuf[sq[i].slot].msg = sq[i].msg

(***************************************************************************)
(* next() reports the size that was appended, but for the last message: if *)
(* the ring is closed before that is taken, it is as long as the segment.  *)
(***************************************************************************)
SizesReported ==
  \A i \in DOMAIN consumed :
    \/ consumed[i].size = MsgSize
    \/ i = sent /\ wpc = "closed" /\ consumed[i].size = SegSize

(***************************************************************************)
(* The buffer implements the streams of BufferStream, one byte standing    *)
(* for a message: none is missing, repeated or out of place and the end is *)
(* reported after the last.  The content of a message the application read *)
(* while it was landing is left open.                                      *)
(***************************************************************************)
Stream == INSTANCE BufferStream WITH
  Appenders <- {1},
  Sizes     <- {1},
  appended  <- [w \in {1} |-> sent],
  closed    <- [w \in {1} |-> wpc = "closed"],
  delivered <- [w \in {1} |-> [i \in DOMAIN consumed |->
                                 IF consumed[i].torn THEN i ELSE consumed[i].msg]],
  open      <- IF cpc = "end" THEN {} ELSE {1}

\* Every behaviour of writer, cards and iterator is one of the abstract stream.
ImplementsStream == Stream!SafeSpec

\* append returns although it may have to wait for a segment: the consumer holds one
\* segment back, but never the one the writer needs.
AppendReturns == wpc \in {"read_counter", "write"} ~> wpc = "idle"

\* A ring with messages in it that is closed is read to its end.
ClosedIsDrainedIfUsed == (wpc = "closed" /\ sent > 0) ~> cpc = "end"

================================================================================
