----------------------------- MODULE BufferBWProof -----------------------------
(***************************************************************************)
(* The proofs about a buffer of type BW.  The first part is the inductive  *)
(* invariant of the protocol, IInv, with what follows from it; the second  *)
(* that the rings carry the bytes of their writers, DataInv, and with it   *)
(* that the buffer implements the streams of BufferStream.                 *)
(***************************************************************************)
EXTENDS BufferBW, SequenceTheorems, TLAPS

LEMMA InitType == Init => TypeOK /\ CursorInv
<1> SUFFICES ASSUME Init PROVE TypeOK /\ CursorInv
  OBVIOUS
<1> USE ConstantsAssumption DEF Writers, Segs
<1>1. header \in [Writers -> [Segs -> Header]]
  BY DEF Init, InitMemory, FreshHeader, Header, Succ
<1>2. payload \in [Writers -> [Segs -> [0 .. SegSize - 1 -> Nat]]]
  BY DEF Init, InitMemory
<1>3. hdr \in [Writers -> Header]
  BY DEF Init, InitWriter, FreshHeader, Header, Succ
<1>4. live \in Seq(Writers) /\ Len(live) = NumWriters
  BY DEF Init, InitIterator
<1>5. sq \in [Writers -> Seq(WorkRequest)]
  BY DEF Init, InitWriter
<1>6. wpc      \in [Writers -> {"idle", "super_append", "drain", "full", "fetch",
                               "fetch_flags", "closed"}]
  BY DEF Init, InitWriter
<1>7. /\ size     \in [Writers -> Nat]
  /\ left     \in [Writers -> 0 .. IBufSize]
  /\ sent     \in [Writers -> Nat]
  /\ seg      \in [Writers -> Segs]
  /\ sizeUsed \in [Writers -> 0 .. SegSize]
  /\ nextSeg  \in [Writers -> Segs]
  /\ ibuf     \in [Writers -> [0 .. IBufSize - 1 -> Nat]]
  /\ ioff     \in [Writers -> 0 .. IBufSize]
  BY DEF Init, InitWriter
<1>8.
  /\ landing  \in [Writers -> BOOLEAN]
  /\ countWR  \in [Writers -> 0 .. MaxWR - 1]
  /\ signaled \in [Writers -> BOOLEAN]
  BY DEF Init, InitWriter
<1>9.
  /\ cpc      = "has_next"
  /\ pos      \in 1 .. Len(live) + 1
  /\ iter     \in [Writers -> Segs]
  /\ prev     \in [Writers -> Segs \cup {NoSeg}]
  BY <1>4 DEF Init, InitIterator
<1>10. held     \in [ring : Writers, seg : Segs, size : 0 .. SegSize]
  BY DEF Init, InitIterator
<1>11. consumed \in [Writers -> Seq(Nat)]
  BY DEF Init, InitIterator
<1> QED
  BY <1>1, <1>2, <1>3, <1>4, <1>5, <1>6, <1>7, <1>8, <1>9, <1>10, <1>11 DEF TypeOK, MemoryType, AppenderType, QueueType, ConsumerType, CursorInv

\* The variables a step leaves alone keep their types.
LEMMA UnchangedTypes ==
  /\ MemoryType /\ UNCHANGED memory => MemoryType'
  /\ AppenderType /\ UNCHANGED appender => AppenderType'
  /\ QueueType /\ UNCHANGED queue => QueueType'
  /\ ConsumerType /\ CursorInv /\ UNCHANGED consumer => ConsumerType' /\ CursorInv'
  BY DEF MemoryType, AppenderType, QueueType, ConsumerType, CursorInv,
         memory, appender, queue, consumer

LEMMA CheckSignaledType ==
  ASSUME QueueType, NEW w \in Writers, NEW sig \in BOOLEAN, CheckSignaled(w, sig)
  PROVE  /\ countWR' \in [Writers -> 0 .. MaxWR - 1]
         /\ signaled' \in [Writers -> BOOLEAN]
<1>1. countWR[w] \in 0 .. MaxWR - 1
  BY DEF QueueType
<1>2. (IF countWR[w] + 1 = MaxWR THEN 0 ELSE countWR[w] + 1) \in 0 .. MaxWR - 1
  BY <1>1, ConstantsAssumption
<1> QED
  BY <1>2 DEF QueueType, CheckSignaled

LEMMA PostType ==
  ASSUME QueueType, NEW w \in Writers, NEW r \in WorkRequest, NEW sig \in BOOLEAN,
         Post(w, r, sig)
  PROVE  QueueType'
<1>1. Append(sq[w], r) \in Seq(WorkRequest)
  BY DEF QueueType
<1>2. sq' \in [Writers -> Seq(WorkRequest)]
  BY <1>1 DEF QueueType, Post
<1>3. /\ countWR' \in [Writers -> 0 .. MaxWR - 1]
      /\ signaled' \in [Writers -> BOOLEAN]
  BY CheckSignaledType DEF Post
<1> QED
  BY <1>2, <1>3 DEF QueueType, Post

LEMMA WriteHeaderType ==
  ASSUME QueueType, AppenderType, NEW w \in Writers, WriteHeaderToRemote(w)
  PROVE  QueueType'
<1>1. [kind |-> "header", seg |-> seg[w]] \in WorkRequest
  BY DEF AppenderType, WorkRequest, HeaderRequest
<1> QED
  BY <1>1, PostType DEF WriteHeaderToRemote

LEMMA AppendType ==
  ASSUME AppenderType, NEW w \in Writers, NEW n \in AppendSizes, Append_(w, n)
  PROVE  AppenderType'
<1>1. Chunk(n) \in 0 .. IBufSize /\ n - Chunk(n) \in Nat
  BY ConstantsAssumption DEF Chunk
<1> QED
  BY <1>1 DEF AppenderType, Append_

\* The part of a chunk that super_append writes fits into the segment, and what is
\* left of the chunk is still at most the internal buffer.
LEMMA PartArithmetic ==
  ASSUME NEW used \in 0 .. SegSize, NEW rest \in 0 .. IBufSize, NEW at \in 0 .. IBufSize,
         NEW part, part = IF used + rest <= SegSize THEN rest ELSE SegSize - used,
         at + part <= IBufSize
  PROVE  /\ part \in 0 .. SegSize
         /\ used + part \in 0 .. SegSize
         /\ rest - part \in 0 .. IBufSize
         /\ at + part \in 0 .. IBufSize
<1>1. SegSize \in Nat /\ IBufSize \in Nat
  BY ConstantsAssumption
<1> QED
  BY <1>1

\* memcpy into the internal buffer.
LEMMA MemcpyType ==
  ASSUME NEW b \in [0 .. IBufSize - 1 -> Nat], NEW at \in Nat, NEW n \in Nat, NEW k \in Nat
  PROVE  Memcpy(b, at, n, k) \in [0 .. IBufSize - 1 -> Nat]
<1>1. IBufSize \in Nat
  BY ConstantsAssumption
<1>2. \A i \in 0 .. IBufSize - 1 :
        (IF at <= i /\ i < at + n THEN k + (i - at) + 1 ELSE b[i]) \in Nat
  BY <1>1
<1> QED
  BY <1>2 DEF Memcpy

LEMMA CopyAndWriteType ==
  ASSUME AppenderType, QueueType, NEW w \in Writers, NEW at \in 0 .. IBufSize,
         at + Part(w) <= IBufSize, CopyAndWrite(w, at)
  PROVE  AppenderType' /\ QueueType'
<1> DEFINE part == Part(w)
           more == Chunk(size[w])
<1>1. /\ sizeUsed[w] \in 0 .. SegSize /\ left[w] \in 0 .. IBufSize /\ size[w] \in Nat
      /\ sent[w] \in Nat /\ seg[w] \in Segs /\ ibuf[w] \in [0 .. IBufSize - 1 -> Nat]
  BY DEF AppenderType
<1>2. /\ part \in 0 .. SegSize
      /\ sizeUsed[w] + part \in 0 .. SegSize
      /\ left[w] - part \in 0 .. IBufSize
      /\ at + part \in 0 .. IBufSize
  <2>1. part = IF sizeUsed[w] + left[w] <= SegSize THEN left[w] ELSE SegSize - sizeUsed[w]
    BY DEF Part, Fits
  <2>2. at + part <= IBufSize
    OBVIOUS
  <2> HIDE DEF part
  <2> QED
    BY <1>1, <2>1, <2>2, PartArithmetic
<1>3. more \in 0 .. IBufSize /\ size[w] - more \in Nat
  BY <1>1, ConstantsAssumption DEF Chunk
<1> HIDE DEF part, more
<1>4. ibuf' \in [Writers -> [0 .. IBufSize - 1 -> Nat]]
  <2>1. at \in Nat /\ part \in Nat
    BY <1>2
  <2>2. Memcpy(ibuf[w], at, part, sent[w]) \in [0 .. IBufSize - 1 -> Nat]
    BY <1>1, <2>1, MemcpyType
  <2> QED
    BY <2>2 DEF AppenderType, CopyAndWrite, part
<1>5. QueueType'
  <2> DEFINE r == [kind |-> "data", seg |-> seg[w], off |-> sizeUsed[w], src |-> at, len |-> part]
  <2>1. r \in WorkRequest
    BY <1>1, <1>2, ConstantsAssumption DEF WorkRequest, DataRequest
  <2>2. Post(w, r, FALSE)
    BY DEF CopyAndWrite, part
  <2> QED
    BY <2>1, <2>2, PostType
<1>6. ioff' \in [Writers -> 0 .. IBufSize] /\ sizeUsed' \in [Writers -> 0 .. SegSize]
  <2>1. /\ ioff' = [ioff EXCEPT ![w] = at + part]
        /\ sizeUsed' = [sizeUsed EXCEPT ![w] = sizeUsed[w] + part]
    BY DEF CopyAndWrite, part
  <2> QED
    BY <1>2, <2>1 DEF AppenderType
<1>7. sent' \in [Writers -> Nat]
  <2>1. sent' = [sent EXCEPT ![w] = sent[w] + part] /\ sent[w] + part \in Nat
    BY <1>1, <1>2 DEF CopyAndWrite, part
  <2> QED
    BY <2>1 DEF AppenderType
<1>8. left' \in [Writers -> 0 .. IBufSize] /\ size' \in [Writers -> Nat]
  <2>1. \/ left' = [left EXCEPT ![w] = left[w] - part] /\ size' = size
        \/ left' = [left EXCEPT ![w] = more] /\ size' = [size EXCEPT ![w] = size[w] - more]
    BY DEF CopyAndWrite, part, more
  <2> QED
    BY <1>2, <1>3, <2>1 DEF AppenderType
<1>9. /\ wpc' \in [Writers -> {"idle", "super_append", "drain", "full", "fetch",
                              "fetch_flags", "closed"}]
      /\ seg' = seg /\ hdr' = hdr /\ nextSeg' = nextSeg
  BY DEF CopyAndWrite, AppenderType
<1> QED
  BY <1>4, <1>5, <1>6, <1>7, <1>8, <1>9 DEF AppenderType

LEMMA SetType ==
  ASSUME NEW h \in Header
  PROVE  /\ \A c \in 0 .. SegSize, n \in Segs : SetWords(h, c, n) \in Header
         /\ \A w, c, e \in BOOLEAN : SetFlags(h, w, c, e) \in Header
  BY DEF SetWords, SetFlags, Header

LEMMA PublishType ==
  ASSUME AppenderType, NEW w \in Writers, PublishSegment(w) \/ Close(w)
  PROVE  AppenderType'
<1>1. hdr[w] \in Header /\ hdr[w].next \in Segs /\ hdr[w].E \in BOOLEAN
      /\ sizeUsed[w] \in 0 .. SegSize
  BY DEF AppenderType, Header
<1>2. SetWords(hdr[w], sizeUsed[w], hdr[w].next) \in Header
  BY <1>1, SetType
<1>3. \A e \in BOOLEAN :
        SetFlags(SetWords(hdr[w], sizeUsed[w], hdr[w].next), FALSE, TRUE, e) \in Header
  BY <1>2, SetType
<1>4. hdr' \in [Writers -> Header]
  <2>1. \E e \in BOOLEAN : hdr' = [hdr EXCEPT ![w] =
          SetFlags(SetWords(hdr[w], sizeUsed[w], hdr[w].next), FALSE, TRUE, e)]
    BY <1>1 DEF PublishSegment, Close
  <2> QED
    BY <1>3, <2>1 DEF AppenderType
<1>5. nextSeg' \in [Writers -> Segs]
  BY <1>1 DEF AppenderType, PublishSegment, Close
<1> QED
  BY <1>4, <1>5 DEF AppenderType, PublishSegment, Close

LEMMA FetchType ==
  ASSUME MemoryType, AppenderType, NEW w \in Writers, FetchHeader(w) \/ FetchFlags(w)
  PROVE  AppenderType'
<1> DEFINE h == header[w][nextSeg[w]]
<1>1. h \in Header /\ hdr[w] \in Header
  BY DEF MemoryType, AppenderType
<1>2. /\ h.counter \in 0 .. SegSize /\ h.next \in Segs
      /\ h.W \in BOOLEAN /\ h.C \in BOOLEAN /\ h.E \in BOOLEAN
  BY <1>1 DEF Header
<1>3. /\ SetWords(hdr[w], h.counter, h.next) \in Header
      /\ SetFlags(hdr[w], h.W, h.C, h.E) \in Header
  BY <1>1, <1>2, SetType
<1>4. hdr' \in [Writers -> Header]
  BY <1>3 DEF AppenderType, FetchHeader, FetchFlags
<1>5. /\ seg' \in [Writers -> Segs]
      /\ sizeUsed' \in [Writers -> 0 .. SegSize]
  <2>1. 0 \in 0 .. SegSize /\ nextSeg[w] \in Segs
    BY ConstantsAssumption DEF AppenderType
  <2>2. \/ seg' = seg /\ sizeUsed' = sizeUsed
        \/ seg' = [seg EXCEPT ![w] = nextSeg[w]] /\ sizeUsed' = [sizeUsed EXCEPT ![w] = 0]
    BY DEF FetchHeader, FetchFlags
  <2> QED
    BY <2>1, <2>2 DEF AppenderType
<1> QED
  BY <1>4, <1>5 DEF AppenderType, FetchHeader, FetchFlags

LEMMA LandDataType ==
  ASSUME TypeOK, NEW w \in Writers, LandData(w)
  PROVE  MemoryType' /\ QueueType'
<1> DEFINE r == Head(sq[w])
<1>1. sq[w] \in Seq(WorkRequest) /\ sq[w] # << >>
  BY DEF TypeOK, QueueType, LandData
<1>2. r \in WorkRequest /\ Tail(sq[w]) \in Seq(WorkRequest)
  BY <1>1
<1>3. r \in DataRequest
  <2>1. r.kind = "data"
    BY DEF LandData
  <2> QED
    BY <1>2, <2>1 DEF WorkRequest, HeaderRequest
<1>4. /\ r.seg \in Segs
      /\ r.off \in 0 .. SegSize /\ r.src \in 0 .. IBufSize /\ r.len \in 0 .. SegSize
      /\ r.src + r.len <= IBufSize
  BY <1>3 DEF DataRequest
<1> HIDE DEF r
<1>5. payload[w][r.seg] \in [0 .. SegSize - 1 -> Nat] /\ ibuf[w] \in [0 .. IBufSize - 1 -> Nat]
  BY <1>4 DEF TypeOK, MemoryType, AppenderType
<1>6. Written(payload[w][r.seg], r, ibuf[w]) \in [0 .. SegSize - 1 -> Nat]
  <2>1. \A o \in 0 .. SegSize - 1 :
          r.off <= o /\ o < r.off + r.len => r.src + (o - r.off) \in 0 .. IBufSize - 1
    BY <1>4, ConstantsAssumption
  <2>2. \A o \in 0 .. SegSize - 1 :
          (IF r.off <= o /\ o < r.off + r.len THEN ibuf[w][r.src + (o - r.off)]
           ELSE payload[w][r.seg][o]) \in Nat
    BY <1>5, <2>1
  <2> QED
    BY <2>2 DEF Written
<1>7. payload' = [payload EXCEPT ![w][r.seg] = Written(payload[w][r.seg], r, ibuf[w])]
  BY DEF LandData, r
<1>8. payload' \in [Writers -> [Segs -> [0 .. SegSize - 1 -> Nat]]]
  BY <1>4, <1>6, <1>7 DEF TypeOK, MemoryType
<1> QED
  BY <1>2, <1>8 DEF TypeOK, MemoryType, QueueType, LandData

LEMMA LandHeaderType ==
  ASSUME TypeOK, NEW w \in Writers, QueueInv(w), LandCounter(w) \/ LandFlags(w)
  PROVE  MemoryType' /\ QueueType'
<1> DEFINE s == Head(sq[w]).seg
<1>1. sq[w] \in Seq(WorkRequest) /\ sq[w] # << >>
  BY DEF TypeOK, QueueType, LandCounter, LandFlags, QueueInv
<1>2. Head(sq[w]) \in WorkRequest /\ Tail(sq[w]) \in Seq(WorkRequest)
  BY <1>1
<1>3. s \in Segs
  BY <1>2 DEF WorkRequest, DataRequest, HeaderRequest
<1> HIDE DEF s
<1>4. header[w][s] \in Header /\ hdr[w] \in Header
  BY <1>3 DEF TypeOK, MemoryType, AppenderType
<1>5. /\ hdr[w].counter \in 0 .. SegSize /\ hdr[w].next \in Segs
      /\ hdr[w].W \in BOOLEAN /\ hdr[w].C \in BOOLEAN /\ hdr[w].E \in BOOLEAN
  BY <1>4 DEF Header
<1>6. \E h \in Header : header' = [header EXCEPT ![w][s] = h]
  BY <1>4, <1>5, SetType DEF LandCounter, LandFlags, s
<1>7. header' \in [Writers -> [Segs -> Header]]
  BY <1>3, <1>6 DEF TypeOK, MemoryType
<1> QED
  BY <1>2, <1>7 DEF TypeOK, MemoryType, QueueType, LandCounter, LandFlags

LEMMA MarkType ==
  ASSUME TypeOK, CursorInv, MarkCounter \/ MarkConsumable \/ MarkWriteable
  PROVE  MemoryType' /\ ConsumerType' /\ CursorInv'
<1> DEFINE w == live[pos]
<1>1. w \in Writers /\ live \in Seq(Writers)
  BY DEF TypeOK, ConsumerType, CursorInv, MarkCounter, MarkConsumable, MarkWriteable, MarkPrev
<1>2. ConsumerType' /\ CursorInv'
  BY DEF TypeOK, ConsumerType, CursorInv, MarkCounter, MarkConsumable, MarkWriteable, MarkPrev
<1>3. payload' = payload
  BY DEF MarkCounter, MarkConsumable, MarkWriteable, MarkPrev
<1>4. CASE prev[w] \in Segs
  <2>1. PrevHeader \in Header
    BY <1>1, <1>4 DEF TypeOK, MemoryType, PrevHeader
  <2>2. /\ PrevHeader.next \in Segs /\ PrevHeader.W \in BOOLEAN
        /\ PrevHeader.C \in BOOLEAN /\ PrevHeader.E \in BOOLEAN /\ 0 \in 0 .. SegSize
    BY <2>1, ConstantsAssumption DEF Header
  <2>3. \E h \in Header : header' = [header EXCEPT ![w][prev[w]] = h]
    BY <2>1, <2>2, SetType DEF MarkCounter, MarkConsumable, MarkWriteable, MarkPrev
  <2>4. header' \in [Writers -> [Segs -> Header]]
    BY <1>1, <1>4, <2>3 DEF TypeOK, MemoryType
  <2> QED
    BY <1>2, <1>3, <2>4 DEF TypeOK, MemoryType
<1>5. CASE prev[w] \notin Segs
  <2>1. \E h : header' = [header EXCEPT ![w][prev[w]] = h]
    BY DEF MarkCounter, MarkConsumable, MarkWriteable, MarkPrev
  <2>2. header' = header
    BY <1>1, <1>5, <2>1 DEF TypeOK, MemoryType
  <2> QED
    BY <1>2, <1>3, <2>2 DEF TypeOK, MemoryType
<1> QED
  BY <1>4, <1>5

LEMMA HereType ==
  ASSUME ConsumerType, live # << >>
  PROVE  Here \in DOMAIN live /\ Here \in 1 .. Len(live) /\ live[Here] \in Writers
<1>1. live \in Seq(Writers) /\ pos \in 1 .. Len(live) + 1
  BY DEF ConsumerType
<1>2. Len(live) \in Nat /\ Len(live) > 0 /\ DOMAIN live = 1 .. Len(live)
  BY <1>1
<1>3. Here \in 1 .. Len(live)
  BY <1>1, <1>2 DEF Here
<1> QED
  BY <1>1, <1>2, <1>3

\* std::list::erase at position k.
LEMMA EraseProperties ==
  ASSUME NEW S, NEW s \in Seq(S), NEW k \in 1 .. Len(s)
  PROVE  /\ Erase(s, k) \in Seq(S)
         /\ Len(Erase(s, k)) = Len(s) - 1
         /\ \A i \in 1 .. Len(s) - 1 : Erase(s, k)[i] = IF i < k THEN s[i] ELSE s[i + 1]
<1> DEFINE a == SubSeq(s, 1, k - 1)
           b == SubSeq(s, k + 1, Len(s))
<1>1. Len(s) \in Nat /\ k \in Int /\ k - 1 \in Int /\ k + 1 \in Int /\ 1 <= k /\ k <= Len(s)
  OBVIOUS
<1>2. \A i \in 1 .. Len(s) : s[i] \in S
  OBVIOUS
<1>3. /\ a \in Seq(S) /\ Len(a) = k - 1
      /\ \A i \in 1 .. k - 1 : a[i] = s[i]
  <2>1. \A i \in 1 .. k - 1 : s[i] \in S
    BY <1>1, <1>2
  <2>2. /\ a \in Seq(S)
        /\ Len(a) = IF 1 <= k - 1 THEN k - 1 - 1 + 1 ELSE 0
        /\ \A i \in 1 .. k - 1 - 1 + 1 : a[i] = s[1 + i - 1]
    BY <1>1, <2>1, SubSeqProperties
  <2> HIDE DEF a
  <2> QED
    BY <1>1, <2>2
<1>4. /\ b \in Seq(S) /\ Len(b) = Len(s) - k
      /\ \A i \in 1 .. Len(s) - k : b[i] = s[k + i]
  <2>1. \A i \in k + 1 .. Len(s) : s[i] \in S
    BY <1>1, <1>2
  <2>2. /\ b \in Seq(S)
        /\ Len(b) = IF k + 1 <= Len(s) THEN Len(s) - (k + 1) + 1 ELSE 0
        /\ \A i \in 1 .. Len(s) - (k + 1) + 1 : b[i] = s[k + 1 + i - 1]
    BY <1>1, <2>1, SubSeqProperties
  <2> HIDE DEF b
  <2> QED
    BY <1>1, <2>2
<1>5. /\ a \o b \in Seq(S)
      /\ Len(a \o b) = Len(a) + Len(b)
      /\ \A i \in 1 .. Len(a) + Len(b) : (a \o b)[i] = IF i <= Len(a) THEN a[i] ELSE b[i - Len(a)]
  BY <1>3, <1>4, ConcatProperties
<1> HIDE DEF a, b
<1>6. \A i \in 1 .. Len(s) - 1 : (a \o b)[i] = IF i < k THEN s[i] ELSE s[i + 1]
  <2> SUFFICES ASSUME NEW i \in 1 .. Len(s) - 1
               PROVE  (a \o b)[i] = IF i < k THEN s[i] ELSE s[i + 1]
    OBVIOUS
  <2>1. (a \o b)[i] = IF i <= k - 1 THEN a[i] ELSE b[i - (k - 1)]
    <3>1. Len(a) = k - 1 /\ Len(b) = Len(s) - k
      BY <1>3, <1>4
    <3>2. i \in 1 .. Len(a) + Len(b)
      BY <1>1, <3>1
    <3>3. (a \o b)[i] = IF i <= Len(a) THEN a[i] ELSE b[i - Len(a)]
      BY <1>5, <3>2
    <3> QED
      BY <3>1, <3>3
  <2>2. CASE i < k
    BY <1>1, <1>3, <2>1, <2>2
  <2>3. CASE ~(i < k)
    <3>1. i - (k - 1) \in 1 .. Len(s) - k /\ k + (i - (k - 1)) = i + 1
      BY <1>1, <2>3
    <3> QED
      BY <1>1, <1>4, <2>1, <2>3, <3>1
  <2> QED
    BY <2>2, <2>3
<1>7. Len(a \o b) = Len(s) - 1
  BY <1>1, <1>3, <1>4, <1>5
<1>8. Erase(s, k) = a \o b
  BY DEF Erase, a, b
<1> QED
  BY <1>5, <1>6, <1>7, <1>8

LEMMA HasNextType ==
  ASSUME ConsumerType, SkipRing \/ FoundSegment \/ DropRing \/ NoMoreRings
  PROVE  ConsumerType' /\ CursorInv'
<1>1. live \in Seq(Writers) /\ Len(live) \in Nat
  BY DEF ConsumerType
<1>2. CASE SkipRing
  <2>1. Here \in 1 .. Len(live)
    BY <1>2, HereType DEF SkipRing
  <2> QED
    BY <1>1, <1>2, <2>1 DEF SkipRing, ConsumerType, CursorInv
<1>3. CASE FoundSegment
  <2>1. Here \in 1 .. Len(live) /\ Here \in DOMAIN live
    BY <1>3, HereType DEF FoundSegment
  <2> QED
    BY <1>1, <1>3, <2>1 DEF FoundSegment, ConsumerType, CursorInv
<1>4. CASE DropRing
  <2>1. Here \in 1 .. Len(live)
    BY <1>4, HereType DEF DropRing
  <2>3. live' \in Seq(Writers) /\ Len(live') = Len(live) - 1
    BY <1>1, <1>4, <2>1, EraseProperties DEF DropRing
  <2> QED
    BY <1>1, <1>4, <2>1, <2>3 DEF DropRing, ConsumerType, CursorInv
<1>5. CASE NoMoreRings
  BY <1>5 DEF NoMoreRings, ConsumerType, CursorInv
<1> QED
  BY <1>2, <1>3, <1>4, <1>5

LEMMA TakeType ==
  ASSUME TypeOK, CursorInv, Take
  PROVE  ConsumerType' /\ CursorInv'
<1> DEFINE w == live[pos]
<1>1. w \in Writers /\ live \in Seq(Writers) /\ Len(live) \in Nat /\ pos \in 1 .. Len(live)
  BY DEF TypeOK, ConsumerType, CursorInv, Take
<1>2. iter[w] \in Segs
  BY <1>1 DEF TypeOK, ConsumerType
<1>3. header[w][iter[w]] \in Header
  BY <1>1, <1>2 DEF TypeOK, MemoryType
<1>4. header[w][iter[w]].counter \in 0 .. SegSize /\ header[w][iter[w]].next \in Segs
  BY <1>3 DEF Header
<1>5. held' \in [ring : Writers, seg : Segs, size : 0 .. SegSize]
  BY <1>1, <1>2, <1>4 DEF Take
<1>6. iter' \in [Writers -> Segs] /\ prev' \in [Writers -> Segs \cup {NoSeg}]
  BY <1>2, <1>4 DEF Take, TypeOK, ConsumerType
<1> QED
  BY <1>1, <1>5, <1>6 DEF Take, TypeOK, ConsumerType, CursorInv

LEMMA UseType ==
  ASSUME TypeOK, Use
  PROVE  ConsumerType' /\ CursorInv'
<1> DEFINE w == held.ring
           bytes == [i \in 1 .. held.size |-> payload[w][held.seg][i - 1]]
<1>1. w \in Writers /\ held.seg \in Segs /\ held.size \in 0 .. SegSize
  BY DEF TypeOK, ConsumerType
<1>2. payload[w][held.seg] \in [0 .. SegSize - 1 -> Nat]
  BY <1>1 DEF TypeOK, MemoryType
<1>3. bytes \in Seq(Nat)
  <2>1. \A i \in 1 .. held.size : payload[w][held.seg][i - 1] \in Nat
    BY <1>1, <1>2, ConstantsAssumption
  <2> QED
    BY <1>1, <2>1, ConstantsAssumption
<1>4. consumed[w] \in Seq(Nat)
  BY <1>1 DEF TypeOK, ConsumerType
<1>5. consumed[w] \o bytes \in Seq(Nat)
  BY <1>3, <1>4
<1>6. consumed' = [consumed EXCEPT ![w] = consumed[w] \o bytes]
  BY DEF Use
<1> HIDE DEF bytes, w
<1>7. consumed' \in [Writers -> Seq(Nat)]
  BY <1>5, <1>6 DEF TypeOK, ConsumerType
<1> QED
  BY <1>7 DEF Use, TypeOK, ConsumerType, CursorInv

\* Every step keeps the types; the only other fact needed is that the request at the
\* head of a queue with a half-landed header exists.
LEMMA TypeStep ==
  ASSUME IInv, [Next]_vars
  PROVE  TypeOK' /\ CursorInv'
<1> USE DEF IInv
<1>1. CASE UNCHANGED vars
  BY <1>1, UnchangedTypes DEF vars, TypeOK
<1>2. ASSUME NEW w \in Writers, NEW n \in AppendSizes, Append_(w, n)
      PROVE  TypeOK' /\ CursorInv'
  <2>1. AppenderType'
    BY <1>2, AppendType DEF TypeOK
  <2> QED
    BY <1>2, <2>1, UnchangedTypes DEF TypeOK, Append_
<1>3. ASSUME NEW w \in Writers, PublishSegment(w) \/ Close(w)
      PROVE  TypeOK' /\ CursorInv'
  <2>1. AppenderType'
    BY <1>3, PublishType DEF TypeOK
  <2>2. QueueType'
    BY <1>3, WriteHeaderType DEF TypeOK, PublishSegment, Close
  <2> QED
    BY <1>3, <2>1, <2>2, UnchangedTypes DEF TypeOK, PublishSegment, Close
<1>4. ASSUME NEW w \in Writers, WriteToSegment(w) \/ WriteFromFront(w)
      PROVE  TypeOK' /\ CursorInv'
  <2>1. ioff[w] \in 0 .. IBufSize /\ left[w] \in 0 .. IBufSize /\ sizeUsed[w] \in 0 .. SegSize
    BY DEF TypeOK, AppenderType
  <2>2. CASE WriteToSegment(w)
    <3>1. ioff[w] + Part(w) <= IBufSize
      <4>1. Part(w) \in Nat
        BY <2>1, ConstantsAssumption DEF Part, Fits
      <4> QED
        BY <2>1, <2>2, <4>1 DEF WriteToSegment
    <3>2. AppenderType' /\ QueueType'
      BY <2>1, <2>2, <3>1, CopyAndWriteType DEF WriteToSegment, TypeOK
    <3> QED
      BY <2>2, <3>2, UnchangedTypes DEF TypeOK, WriteToSegment, CopyAndWrite
  <2>3. CASE WriteFromFront(w)
    <3>1. 0 \in 0 .. IBufSize /\ 0 + Part(w) <= IBufSize
      BY <2>1, ConstantsAssumption DEF Part, Fits
    <3>2. AppenderType' /\ QueueType'
      BY <2>3, <3>1, CopyAndWriteType DEF WriteFromFront, TypeOK
    <3> QED
      BY <2>3, <3>2, UnchangedTypes DEF TypeOK, WriteFromFront, CopyAndWrite
  <2> QED
    BY <1>4, <2>2, <2>3
<1>5. ASSUME NEW w \in Writers, DrainInternalBuffer(w)
      PROVE  TypeOK' /\ CursorInv'
  <2>1. QueueType'
    BY <1>5, WriteHeaderType DEF TypeOK, DrainInternalBuffer
  <2>2. AppenderType'
    BY <1>5 DEF TypeOK, AppenderType, DrainInternalBuffer
  <2> QED
    BY <1>5, <2>1, <2>2, UnchangedTypes DEF TypeOK, DrainInternalBuffer
<1>6. ASSUME NEW w \in Writers, NoRoom(w)
      PROVE  TypeOK' /\ CursorInv'
  <2>1. AppenderType'
    BY <1>6 DEF TypeOK, AppenderType, NoRoom
  <2> QED
    BY <1>6, <2>1, UnchangedTypes DEF TypeOK, NoRoom
<1>7. ASSUME NEW w \in Writers, FetchHeader(w) \/ FetchFlags(w)
      PROVE  TypeOK' /\ CursorInv'
  <2>1. AppenderType'
    BY <1>7, FetchType DEF TypeOK
  <2>2. QueueType'
    <3>1. CASE FetchHeader(w)
      BY <3>1, CheckSignaledType DEF FetchHeader, TypeOK, QueueType
    <3>2. CASE FetchFlags(w)
      BY <3>2, UnchangedTypes DEF FetchFlags, TypeOK
    <3> QED
      BY <1>7, <3>1, <3>2
  <2> QED
    BY <1>7, <2>1, <2>2, UnchangedTypes DEF TypeOK, FetchHeader, FetchFlags
<1>8. ASSUME NEW w \in Writers, NicStep(w)
      PROVE  TypeOK' /\ CursorInv'
  <2>1. MemoryType' /\ QueueType'
    BY <1>8, LandDataType, LandHeaderType DEF NicStep, RingInv
  <2> QED
    BY <1>8, <2>1, UnchangedTypes DEF NicStep, LandData, LandCounter, LandFlags, TypeOK
<1>9. CASE SkipRing \/ FoundSegment \/ DropRing \/ NoMoreRings
  <2>1. ConsumerType' /\ CursorInv'
    BY <1>9, HasNextType DEF TypeOK
  <2> QED
    BY <1>9, <2>1, UnchangedTypes DEF SkipRing, FoundSegment, DropRing, NoMoreRings, TypeOK
<1>10. CASE MarkCounter \/ MarkConsumable \/ MarkWriteable
  <2>1. MemoryType' /\ ConsumerType' /\ CursorInv'
    BY <1>10, MarkType
  <2> QED
    BY <1>10, <2>1, UnchangedTypes
    DEF MarkCounter, MarkConsumable, MarkWriteable, MarkPrev, TypeOK
<1>11. CASE Take \/ Use
  <2>1. ConsumerType' /\ CursorInv'
    BY <1>11, TakeType, UseType
  <2> QED
    BY <1>11, <2>1, UnchangedTypes DEF Take, Use, TypeOK
<1> QED
  BY <1>1, <1>2, <1>3, <1>4, <1>5, <1>6, <1>7, <1>8, <1>9, <1>10, <1>11
  DEF Next, WriterStep, ConsumerStep

-----------------------------------------------------------------------------
(***************************************************************************)
(* The send queue.                                                         *)
(***************************************************************************)

\* When a call may post, no header write is outstanding.
LEMMA ReadyQueue ==
  ASSUME TypeOK, NEW w \in Writers, QueueInv(w), Ready(w)
  PROVE  /\ ~landing[w]
         /\ \A i \in DOMAIN sq[w] : sq[w][i].kind # "header"
         /\ signaled[w] => sq[w] = << >>
         /\ Len(sq[w]) <= countWR[w]
<1>1. sq[w] \in Seq(WorkRequest) /\ countWR[w] \in 0 .. MaxWR - 1 /\ signaled[w] \in BOOLEAN
      /\ wpc[w] \in {"idle", "super_append", "drain", "full", "fetch", "fetch_flags", "closed"}
  BY DEF TypeOK, QueueType, AppenderType
<1>2. signaled[w] => sq[w] = << >>
  BY DEF Ready
<1>3. \A i \in DOMAIN sq[w] : sq[w][i].kind # "header"
  BY <1>1, <1>2 DEF QueueInv
<1>4. ~landing[w]
  <2> SUFFICES ASSUME landing[w] PROVE FALSE
    OBVIOUS
  <2>1. sq[w] # << >> /\ Head(sq[w]).kind = "header"
    BY DEF QueueInv
  <2>2. Head(sq[w]) = sq[w][1] /\ 1 \in DOMAIN sq[w]
    BY <1>1, <2>1
  <2> QED
    BY <1>3, <2>1, <2>2
<1>5. Len(sq[w]) <= countWR[w]
  <2>1. CASE signaled[w]
    BY <1>1, <1>2, <2>1
  <2>2. CASE ~signaled[w]
    BY <1>1, <2>2 DEF QueueInv
  <2> QED
    BY <2>1, <2>2
<1> QED
  BY <1>2, <1>3, <1>4, <1>5

LEMMA PostQueue ==
  ASSUME TypeOK, NEW w \in Writers, QueueInv(w), Ready(w), seg' = seg,
         NEW r \in WorkRequest, r.seg = seg[w], NEW sig \in BOOLEAN, Post(w, r, sig),
         \/ r.kind = "header" /\ sig /\ wpc'[w] \in {"drain", "fetch", "closed"}
         \/ r.kind = "data" /\ wpc'[w] \in {"idle", "super_append", "full"}
  PROVE  QueueInv(w)'
<1>1. sq[w] \in Seq(WorkRequest) /\ countWR[w] \in 0 .. MaxWR - 1 /\ Len(sq[w]) \in Nat
  BY DEF TypeOK, QueueType
<1>2. /\ ~landing[w]
      /\ \A i \in 1 .. Len(sq[w]) : sq[w][i].kind # "header"
      /\ Len(sq[w]) <= countWR[w]
  BY <1>1, ReadyQueue
<1>3. /\ sq'[w] = Append(sq[w], r)
      /\ landing'[w] = landing[w]
      /\ countWR'[w] = IF countWR[w] + 1 = MaxWR THEN 0 ELSE countWR[w] + 1
      /\ signaled'[w] = (sig \/ countWR[w] + 1 = MaxWR)
  BY DEF Post, CheckSignaled, TypeOK, QueueType
<1>4. /\ sq'[w] \in Seq(WorkRequest) /\ Len(sq'[w]) = Len(sq[w]) + 1
      /\ DOMAIN sq'[w] = 1 .. Len(sq[w]) + 1
      /\ sq'[w] # << >>
      /\ sq'[w][Len(sq[w]) + 1] = r
      /\ \A i \in 1 .. Len(sq[w]) : sq'[w][i] = sq[w][i]
  BY <1>1, <1>3
<1>5. \A i \in DOMAIN sq'[w] : sq'[w][i].seg = seg'[w]
  BY <1>1, <1>4 DEF QueueInv
<1>6. \A i \in DOMAIN sq'[w] : sq'[w][i].kind = "header" =>
        i = Len(sq'[w]) /\ wpc'[w] \in {"drain", "fetch", "closed"}
  BY <1>1, <1>2, <1>4
<1>7. wpc'[w] \in {"drain", "fetch", "closed"} =>
        signaled'[w] /\ (sq'[w] # << >> => sq'[w][Len(sq'[w])].kind = "header")
  BY <1>3, <1>4
<1>8. wpc'[w] # "fetch_flags"
  OBVIOUS
<1>9. \/ Len(sq'[w]) <= countWR'[w]
      \/ countWR'[w] = 0 /\ signaled'[w] /\ Len(sq'[w]) <= MaxWR
  <2>1. Len(sq[w]) + 1 <= countWR[w] + 1 /\ Len(sq'[w]) = Len(sq[w]) + 1
    BY <1>1, <1>2, <1>4
  <2>2. CASE countWR[w] + 1 = MaxWR
    <3>1. countWR'[w] = 0 /\ signaled'[w]
      BY <1>3, <2>2
    <3> QED
      BY <2>1, <2>2, <3>1
  <2>3. CASE countWR[w] + 1 # MaxWR
    <3>1. countWR'[w] = countWR[w] + 1
      BY <1>3, <2>3
    <3> QED
      BY <2>1, <3>1
  <2> QED
    BY <2>2, <2>3
<1> QED
  BY <1>2, <1>3, <1>5, <1>6, <1>7, <1>8, <1>9 DEF QueueInv

\* The card takes the head of the queue.
LEMMA PopQueue ==
  ASSUME TypeOK, NEW w \in Writers, QueueInv(w), sq[w] # << >>,
         sq'[w] = Tail(sq[w]), landing'[w] = FALSE,
         UNCHANGED <<appender, countWR, signaled>>
  PROVE  QueueInv(w)'
<1>1. sq[w] \in Seq(WorkRequest) /\ countWR[w] \in 0 .. MaxWR - 1
  BY DEF TypeOK, QueueType
<1>2. /\ sq'[w] \in Seq(WorkRequest) /\ Len(sq'[w]) = Len(sq[w]) - 1
      /\ Len(sq[w]) \in Nat /\ Len(sq[w]) >= 1
      /\ DOMAIN sq'[w] = 1 .. Len(sq[w]) - 1
      /\ DOMAIN sq[w] = 1 .. Len(sq[w])
      /\ \A i \in 1 .. Len(sq[w]) - 1 : sq'[w][i] = sq[w][i + 1]
  BY <1>1
<1>3. seg' = seg /\ wpc' = wpc /\ countWR' = countWR /\ signaled' = signaled
  BY DEF appender
<1>4. \A i \in 1 .. Len(sq[w]) - 1 : i + 1 \in DOMAIN sq[w]
  BY <1>2
<1>5. \A i \in DOMAIN sq'[w] : sq'[w][i].seg = seg'[w]
  BY <1>2, <1>3, <1>4 DEF QueueInv
<1>6. \A i \in DOMAIN sq'[w] : sq'[w][i].kind = "header" =>
        i = Len(sq'[w]) /\ wpc'[w] \in {"drain", "fetch", "closed"}
  <2> SUFFICES ASSUME NEW i \in 1 .. Len(sq[w]) - 1, sq[w][i + 1].kind = "header"
               PROVE  i = Len(sq[w]) - 1 /\ wpc[w] \in {"drain", "fetch", "closed"}
    BY <1>2, <1>3
  <2>1. i + 1 = Len(sq[w]) /\ wpc[w] \in {"drain", "fetch", "closed"}
    BY <1>4 DEF QueueInv
  <2> QED
    BY <1>2, <2>1
<1>7. wpc'[w] \in {"drain", "fetch", "closed"} =>
        signaled'[w] /\ (sq'[w] # << >> => sq'[w][Len(sq'[w])].kind = "header")
  <2> SUFFICES ASSUME wpc[w] \in {"drain", "fetch", "closed"}
               PROVE  signaled[w] /\ (sq'[w] # << >> => sq'[w][Len(sq'[w])].kind = "header")
    BY <1>3
  <2>1. signaled[w] /\ sq[w][Len(sq[w])].kind = "header"
    BY DEF QueueInv
  <2>2. sq'[w] # << >> => Len(sq'[w]) \in 1 .. Len(sq[w]) - 1
    BY <1>2
  <2>3. sq'[w] # << >> => sq'[w][Len(sq'[w])] = sq[w][Len(sq[w])]
    BY <1>2, <2>2
  <2> QED
    BY <2>1, <2>3
<1>8. wpc'[w] # "fetch_flags"
  BY <1>3 DEF QueueInv
<1>9. \/ Len(sq'[w]) <= countWR'[w]
      \/ countWR'[w] = 0 /\ signaled'[w] /\ Len(sq'[w]) <= MaxWR
  BY <1>1, <1>2, <1>3, ConstantsAssumption DEF QueueInv
<1> QED
  BY <1>5, <1>6, <1>7, <1>8, <1>9 DEF QueueInv

-----------------------------------------------------------------------------
(***************************************************************************)
(* Steps round the ring.                                                   *)
(***************************************************************************)
LEMMA SuccFacts ==
  ASSUME N >= 2, NEW a \in Segs
  PROVE  Succ(a) \in Segs /\ Succ(a) # a /\ a # NoSeg
  BY ConstantsAssumption DEF Segs, Succ, NoSeg

LEMMA SuccInjective ==
  ASSUME NEW a \in Segs, NEW b \in Segs, Succ(a) = Succ(b)
  PROVE  a = b
  BY ConstantsAssumption DEF Segs, Succ

LEMMA DistFacts ==
  ASSUME N >= 2, NEW a \in Segs, NEW b \in Segs
  PROVE  /\ Dist(a, b) \in 0 .. N - 1
         /\ Dist(a, a) = 0
         /\ Dist(a, b) = 0 => a = b
         /\ Dist(Succ(a), a) = N - 1
         /\ Dist(a, b) = N - 1 => a = Succ(b)
         /\ a # b => Dist(Succ(a), b) = Dist(a, b) - 1
         /\ a # Succ(b) => Dist(a, Succ(b)) = Dist(a, b) + 1
  BY ConstantsAssumption DEF Segs, Succ, Dist

LEMMA DistInjective ==
  ASSUME N >= 2, NEW a \in Segs, NEW b \in Segs, NEW c \in Segs, Dist(a, b) = Dist(a, c)
  PROVE  b = c
  BY ConstantsAssumption DEF Segs, Dist

-----------------------------------------------------------------------------
(***************************************************************************)
(* A step that leaves a ring alone keeps its invariant.                    *)
(***************************************************************************)
SameMemory(v) == header'[v] = header[v] /\ seg'[v] = seg[v]

SameWriter(v) ==
  /\ wpc'[v] = wpc[v] /\ hdr'[v] = hdr[v] /\ nextSeg'[v] = nextSeg[v]
  /\ sq'[v] = sq[v] /\ landing'[v] = landing[v]
  /\ countWR'[v] = countWR[v] /\ signaled'[v] = signaled[v]

SameConsumer(v) ==
  /\ iter'[v] = iter[v] /\ prev'[v] = prev[v]
  /\ Taking(v)' <=> Taking(v)
  /\ Released(v)' <=> Released(v)
  /\ Taking(v) => cpc' = cpc

LEMMA FlagsFrame ==
  ASSUME NEW v \in Writers, ConsumerInv(v), FlagsInv(v), SameMemory(v), SameConsumer(v)
  PROVE  ConsumerInv(v)' /\ FlagsInv(v)'
<1>1. Kept(v)' = Kept(v)
  BY DEF Kept, SameConsumer
<1>2. NumFull(v)' = NumFull(v)
  BY <1>1 DEF NumFull, SameMemory, SameConsumer
<1>3. ConsumerInv(v)'
  BY DEF ConsumerInv, SameMemory, SameConsumer
<1>4. FlagsInv(v)'
  BY <1>1, <1>2 DEF FlagsInv, SameMemory, SameConsumer
<1> QED
  BY <1>3, <1>4

LEMMA WriterFrame ==
  ASSUME NEW v \in Writers, QueueInv(v), WriterInv(v), SameMemory(v), SameWriter(v)
  PROVE  QueueInv(v)' /\ WriterInv(v)'
<1>1. QueueInv(v)'
  BY DEF QueueInv, SameMemory, SameWriter
<1>2. WriterInv(v)'
  BY DEF WriterInv, SameMemory, SameWriter
<1> QED
  BY <1>1, <1>2

LEMMA RingFrame ==
  ASSUME NEW v \in Writers, RingInv(v), SameMemory(v), SameWriter(v), SameConsumer(v)
  PROVE  RingInv(v)'
  BY FlagsFrame, WriterFrame DEF RingInv

LEMMA ConsumerUnchanged ==
  ASSUME UNCHANGED consumer
  PROVE  \A v \in Writers : SameConsumer(v)
  BY DEF consumer, SameConsumer, Taking, Released

-----------------------------------------------------------------------------
(***************************************************************************)
(* Steps of a writer.                                                      *)
(***************************************************************************)

\* What the steps of writer w that move neither to another segment nor any word of
\* the ring leave to show.
LEMMA WriterLocal ==
  ASSUME IInv, NEW w \in Writers, UNCHANGED <<header, seg, consumer>>,
         \A v \in Writers \ {w} : SameWriter(v),
         QueueInv(w)', WriterInv(w)'
  PROVE  \A v \in Writers : RingInv(v)'
<1> SUFFICES ASSUME NEW v \in Writers PROVE RingInv(v)'
  OBVIOUS
<1>1. SameMemory(v) /\ SameConsumer(v) /\ RingInv(v)
  BY ConsumerUnchanged DEF SameMemory, IInv
<1>2. CASE v = w
  BY <1>1, <1>2, FlagsFrame DEF RingInv
<1>3. CASE v # w
  BY <1>1, <1>3, RingFrame
<1> QED
  BY <1>2, <1>3

LEMMA AppendRing ==
  ASSUME IInv, NEW w \in Writers,
         \/ \E n \in AppendSizes : Append_(w, n)
         \/ NoRoom(w)
  PROVE  \A v \in Writers : RingInv(v)'
<1>1. TypeOK /\ RingInv(w)
  BY DEF IInv
<1>2. /\ wpc[w] \in {"idle", "super_append"} /\ wpc'[w] \in {"super_append", "full"}
      /\ UNCHANGED <<header, seg, hdr, nextSeg, queue, consumer>>
  BY <1>1 DEF Append_, NoRoom, memory, TypeOK, AppenderType
<1>3. \A v \in Writers \ {w} : SameWriter(v)
  BY <1>1, <1>2 DEF Append_, NoRoom, SameWriter, TypeOK, AppenderType, queue
<1>4. QueueInv(w)'
  BY <1>1, <1>2 DEF RingInv, QueueInv, queue
<1>5. WriterInv(w)'
  BY <1>1, <1>2 DEF RingInv, WriterInv, Filling, queue
<1> QED
  BY <1>2, <1>3, <1>4, <1>5, WriterLocal

LEMMA CopyRing ==
  ASSUME IInv, NEW w \in Writers, WriteToSegment(w) \/ WriteFromFront(w)
  PROVE  \A v \in Writers : RingInv(v)'
<1>1. TypeOK /\ RingInv(w)
  BY DEF IInv
<1>2. /\ wpc[w] \in {"super_append", "drain"} /\ Ready(w)
      /\ wpc'[w] \in {"idle", "super_append", "full"}
      /\ UNCHANGED <<header, seg, hdr, nextSeg, consumer>>
  BY <1>1 DEF WriteToSegment, WriteFromFront, CopyAndWrite, memory, TypeOK, AppenderType
<1>3. PICK at \in 0 .. IBufSize : CopyAndWrite(w, at) /\ at + Part(w) <= IBufSize
  <2>1. ioff[w] \in 0 .. IBufSize /\ left[w] \in 0 .. IBufSize /\ sizeUsed[w] \in 0 .. SegSize
    BY <1>1 DEF TypeOK, AppenderType
  <2>2. Part(w) \in 0 .. IBufSize
    BY <2>1, ConstantsAssumption DEF Part, Fits
  <2>3. 0 \in 0 .. IBufSize
    BY ConstantsAssumption
  <2> QED
    BY <2>1, <2>2, <2>3 DEF WriteToSegment, WriteFromFront
<1>4. PICK r \in WorkRequest : r.kind = "data" /\ r.seg = seg[w] /\ Post(w, r, FALSE)
  <2> DEFINE r == [kind |-> "data", seg |-> seg[w], off |-> sizeUsed[w], src |-> at, len |-> Part(w)]
  <2>1. /\ sizeUsed[w] \in 0 .. SegSize /\ left[w] \in 0 .. IBufSize /\ seg[w] \in Segs
    BY <1>1 DEF TypeOK, AppenderType
  <2>2. Part(w) \in 0 .. SegSize /\ sizeUsed[w] + Part(w) <= SegSize
    BY <2>1, ConstantsAssumption DEF Part, Fits
  <2>3. r \in WorkRequest
    BY <1>3, <2>1, <2>2, ConstantsAssumption DEF WorkRequest, DataRequest
  <2>4. Post(w, r, FALSE)
    BY <1>3 DEF CopyAndWrite
  <2> QED
    BY <2>3, <2>4
<1>5. \A v \in Writers \ {w} : SameWriter(v)
  BY <1>1, <1>2, <1>3, <1>4 DEF CopyAndWrite, Post, CheckSignaled, SameWriter, TypeOK, AppenderType, QueueType
<1>6. QueueInv(w)'
  BY <1>1, <1>2, <1>4, PostQueue DEF RingInv
<1>7. WriterInv(w)'
  <2>1. ~header[w][seg[w]].C /\ hdr[w].W /\ ~hdr[w].C /\ hdr[w].next = Succ(seg[w])
    BY <1>1, <1>2 DEF RingInv, WriterInv, Filling
  <2> QED
    BY <1>2, <2>1 DEF WriterInv, Filling
<1> QED
  BY <1>2, <1>5, <1>6, <1>7, WriterLocal

LEMMA HeaderWriteRing ==
  ASSUME IInv, NEW w \in Writers, DrainInternalBuffer(w) \/ PublishSegment(w) \/ Close(w)
  PROVE  \A v \in Writers : RingInv(v)'
<1>1. TypeOK /\ RingInv(w) /\ hdr[w] \in Header
  BY DEF IInv, TypeOK, AppenderType
<1>2. /\ Ready(w) /\ WriteHeaderToRemote(w)
      /\ UNCHANGED <<header, seg, consumer>>
  BY DEF DrainInternalBuffer, PublishSegment, Close, memory
<1>3. \A v \in Writers \ {w} : SameWriter(v)
  BY <1>1, <1>2 DEF DrainInternalBuffer, PublishSegment, Close, WriteHeaderToRemote, Post,
     CheckSignaled, SameWriter, TypeOK, AppenderType, QueueType
<1>4. wpc'[w] \in {"drain", "fetch", "closed"}
  BY <1>1 DEF DrainInternalBuffer, PublishSegment, Close, TypeOK, AppenderType
<1>5. QueueInv(w)'
  <2> DEFINE r == [kind |-> "header", seg |-> seg[w]]
  <2>1. r \in WorkRequest
    BY <1>1 DEF TypeOK, AppenderType, WorkRequest, HeaderRequest
  <2> QED
    BY <1>1, <1>2, <1>4, <2>1, PostQueue DEF RingInv, WriteHeaderToRemote
<1>6. /\ sq'[w] # << >>
      /\ sq'[w] = Append(sq[w], [kind |-> "header", seg |-> seg[w]])
      /\ sq[w] \in Seq(WorkRequest)
  BY <1>1, <1>2 DEF WriteHeaderToRemote, Post, TypeOK, QueueType
<1>7. CASE DrainInternalBuffer(w)
  <2>1. wpc[w] = "super_append" /\ wpc'[w] = "drain" /\ hdr' = hdr /\ nextSeg' = nextSeg
    BY <1>1, <1>7 DEF DrainInternalBuffer, TypeOK, AppenderType
  <2>2. ~header[w][seg[w]].C /\ hdr[w].W /\ ~hdr[w].C /\ hdr[w].next = Succ(seg[w])
    BY <1>1, <2>1 DEF RingInv, WriterInv, Filling
  <2>3. WriterInv(w)'
    BY <1>2, <2>1, <2>2 DEF WriterInv, Filling
  <2> QED
    BY <1>2, <1>3, <1>5, <2>3, WriterLocal
<1>8. CASE PublishSegment(w)
  <2>1. /\ wpc[w] = "full" /\ wpc'[w] = "fetch" /\ nextSeg'[w] = hdr[w].next
        /\ hdr'[w].C /\ ~hdr'[w].W /\ hdr'[w].next = hdr[w].next
    BY <1>1, <1>8 DEF PublishSegment, TypeOK, AppenderType, SetFlags, SetWords
  <2>2. ~header[w][seg[w]].C /\ hdr[w].next = Succ(seg[w])
    BY <1>1, <2>1 DEF RingInv, WriterInv, Filling
  <2>3. WriterInv(w)'
    BY <1>2, <1>6, <2>1, <2>2 DEF WriterInv, Filling
  <2> QED
    BY <1>2, <1>3, <1>5, <2>3, WriterLocal
<1>9. CASE Close(w)
  <2>1. /\ wpc[w] \in {"idle", "closed"} /\ wpc'[w] = "closed" /\ nextSeg' = nextSeg
        /\ hdr'[w].C /\ ~hdr'[w].W /\ hdr'[w].next = hdr[w].next
    BY <1>1, <1>9 DEF Close, TypeOK, AppenderType, SetFlags, SetWords
  <2>2. hdr[w].next = Succ(seg[w])
    BY <1>1, <2>1 DEF RingInv, WriterInv, Filling
  <2>3. header[w][seg[w]].C => sq[w] = << >>
    <3>1. CASE wpc[w] = "idle"
      BY <1>1, <3>1 DEF RingInv, WriterInv, Filling
    <3>2. CASE wpc[w] = "closed"
      BY <1>1, <1>2, <3>2 DEF RingInv, QueueInv, Ready
    <3> QED
      BY <2>1, <3>1, <3>2
  <2>4. header[w][seg[w]].C => \A i \in DOMAIN sq'[w] : sq'[w][i].kind = "header"
    BY <1>6, <2>3
  <2>5. WriterInv(w)'
    BY <1>2, <1>6, <2>1, <2>2, <2>4 DEF WriterInv, Filling
  <2> QED
    BY <1>2, <1>3, <1>5, <2>5, WriterLocal
<1> QED
  BY <1>7, <1>8, <1>9

LEMMA FetchHeaderRing ==
  ASSUME IInv, NEW w \in Writers, FetchHeader(w)
  PROVE  \A v \in Writers : RingInv(v)'
<1>1. TypeOK /\ RingInv(w) /\ hdr[w] \in Header
  BY DEF IInv, TypeOK, AppenderType
<1>2. /\ wpc[w] = "fetch" /\ wpc'[w] = "fetch_flags" /\ Ready(w)
      /\ hdr'[w].next = header[w][nextSeg[w]].next
      /\ CheckSignaled(w, TRUE)
      /\ UNCHANGED <<header, seg, nextSeg, sq, landing, consumer>>
  BY <1>1 DEF FetchHeader, TypeOK, AppenderType, SetWords, memory
<1>3. \A v \in Writers \ {w} : SameWriter(v)
  BY <1>1 DEF FetchHeader, CheckSignaled, SameWriter, TypeOK, AppenderType, QueueType
<1>4. sq[w] = << >> /\ signaled'[w]
  BY <1>1, <1>2 DEF RingInv, QueueInv, Ready, CheckSignaled, TypeOK, QueueType
<1>5. QueueInv(w)'
  <2>1. countWR'[w] \in 0 .. MaxWR - 1 /\ Len(sq'[w]) = 0 /\ ~landing[w]
    BY <1>1, <1>2, <1>4, CheckSignaledType DEF RingInv, QueueInv, TypeOK
  <2> QED
    BY <1>2, <1>4, <2>1, ConstantsAssumption DEF QueueInv
<1>6. WriterInv(w)'
  <2>1. nextSeg[w] = Succ(seg[w]) /\ header[w][seg[w]].C
    BY <1>1, <1>2, <1>4 DEF RingInv, WriterInv
  <2>2. header[w][nextSeg[w]].next = Succ(nextSeg[w])
    BY <1>1 DEF RingInv, FlagsInv, TypeOK, AppenderType
  <2> QED
    BY <1>2, <1>4, <2>1, <2>2 DEF WriterInv, Filling
<1> QED
  BY <1>2, <1>3, <1>5, <1>6, WriterLocal

\* The writer finds the next segment writeable and moves into it.  It is not the one
\* the consumer keeps, and it is not consumable, so the run of consumable segments
\* is what it was.
LEMMA EnterSegment ==
  ASSUME N >= 2, TypeOK, NEW w \in Writers, RingInv(w), wpc[w] = "fetch_flags",
         header[w][nextSeg[w]].W,
         UNCHANGED <<header, consumer>>, seg'[w] = nextSeg[w]
  PROVE  /\ ~header[w][nextSeg[w]].C
         /\ ConsumerInv(w)' /\ FlagsInv(w)'
<1> DEFINE a == seg[w]
           b == nextSeg[w]
           i == iter[w]
           k == Kept(w)
<1>1. /\ a \in Segs /\ b \in Segs /\ i \in Segs /\ prev[w] \in Segs \cup {NoSeg}
      /\ k \in Segs \cup {NoSeg}
  BY DEF TypeOK, AppenderType, ConsumerType, Kept
<1>2. b = Succ(a) /\ header[w][a].C
  BY DEF RingInv, WriterInv
<1>3. k # b
  BY <1>1, SuccFacts DEF RingInv, FlagsInv
<1>4. ~header[w][b].C
  BY <1>1, <1>3 DEF RingInv, FlagsInv
<1>5. k # NoSeg => i = Succ(k)
  BY DEF RingInv, ConsumerInv, Kept
<1>6. NumFull(w) = IF k = a THEN 0 ELSE Dist(i, a) + 1
  BY <1>2 DEF NumFull
<1>7. Kept(w)' = k
  BY DEF Kept, Released, consumer
<1>8. NumFull(w)' = Dist(i, b)
  <2>1. NumFull(w)' = IF k = b THEN 0 ELSE Dist(i, b) + 0
    BY <1>4, <1>7 DEF NumFull, consumer
  <2>2. Dist(i, b) \in Nat
    BY <1>1, DistFacts
  <2> QED
    BY <1>3, <2>1, <2>2
<1>9. NumFull(w)' = NumFull(w)
  <2>1. CASE k = a
    <3>1. i = b
      BY <1>1, <1>2, <1>5, <2>1, SuccFacts
    <3> QED
      BY <1>1, <1>6, <1>8, <2>1, <3>1, DistFacts
  <2>2. CASE k # a
    <3>1. i # b
      <4> SUFFICES ASSUME i = b PROVE FALSE
        OBVIOUS
      <4>1. Dist(i, a) \in 0 .. N - 1 /\ Dist(i, b) = 0
        BY <1>1, DistFacts
      <4>2. Dist(i, b) < NumFull(w)
        BY <1>6, <2>2, <4>1
      <4> QED
        BY <1>1, <1>3, <1>4, <4>2 DEF RingInv, FlagsInv
    <3>2. Dist(i, b) = Dist(i, a) + 1
      BY <1>1, <1>2, <3>1, DistFacts
    <3> QED
      BY <1>6, <1>8, <2>2, <3>2
  <2> QED
    BY <2>1, <2>2
<1>10. /\ header' = header /\ iter' = iter /\ prev' = prev /\ cpc' = cpc
       /\ Taking(w)' <=> Taking(w)
       /\ Released(w)' <=> Released(w)
  BY DEF consumer, Taking, Released
<1> HIDE DEF k
<1>11. ConsumerInv(w)'
  BY <1>10 DEF RingInv, ConsumerInv
<1>12. FlagsInv(w)'
  BY <1>7, <1>9, <1>10 DEF RingInv, FlagsInv, k
<1> QED
  BY <1>4, <1>11, <1>12

LEMMA FetchFlagsRing ==
  ASSUME N >= 2, IInv, NEW w \in Writers, FetchFlags(w)
  PROVE  \A v \in Writers : RingInv(v)'
<1> DEFINE h == header[w][nextSeg[w]]
<1>1. TypeOK /\ RingInv(w) /\ hdr[w] \in Header /\ h \in Header
  BY DEF IInv, TypeOK, AppenderType, MemoryType
<1>2. /\ wpc[w] = "fetch_flags"
      /\ hdr'[w].W = h.W /\ hdr'[w].C = h.C /\ hdr'[w].next = hdr[w].next
      /\ UNCHANGED <<header, nextSeg, queue, consumer>>
  BY <1>1 DEF FetchFlags, TypeOK, AppenderType, SetFlags, memory
<1>3. \A v \in Writers \ {w} : SameWriter(v) /\ seg'[v] = seg[v]
  BY <1>1 DEF FetchFlags, SameWriter, TypeOK, AppenderType, queue
<1>4. /\ sq[w] = << >> /\ signaled[w] /\ hdr[w].next = Succ(nextSeg[w])
      /\ nextSeg[w] = Succ(seg[w]) /\ header[w][seg[w]].C
  BY <1>1, <1>2 DEF RingInv, QueueInv, WriterInv
<1>5. QueueInv(w)'
  <2>1. wpc'[w] \in {"fetch", "super_append"}
    BY <1>1 DEF FetchFlags, TypeOK, AppenderType
  <2>2. Len(sq[w]) = 0 /\ countWR[w] \in 0 .. MaxWR - 1 /\ ~landing[w]
    BY <1>1, <1>4 DEF RingInv, QueueInv, TypeOK, QueueType
  <2> QED
    BY <1>2, <1>4, <2>1, <2>2, ConstantsAssumption DEF QueueInv, queue
<1>6. CASE ~h.W
  <2>1. wpc'[w] = "fetch" /\ seg' = seg
    BY <1>1, <1>6 DEF FetchFlags, TypeOK, AppenderType
  <2>2. WriterInv(w)'
    BY <1>2, <1>4, <2>1 DEF WriterInv, Filling, queue
  <2> QED
    BY <1>2, <1>3, <1>5, <2>1, <2>2, WriterLocal
<1>7. CASE h.W
  <2>1. wpc'[w] = "super_append" /\ seg'[w] = nextSeg[w]
    BY <1>1, <1>7 DEF FetchFlags, TypeOK, AppenderType
  <2>2. ~h.C /\ ConsumerInv(w)' /\ FlagsInv(w)'
    BY <1>1, <1>2, <1>7, <2>1, EnterSegment
  <2>3. WriterInv(w)'
    BY <1>2, <1>4, <1>7, <2>1, <2>2 DEF WriterInv, Filling, queue
  <2>4. ASSUME NEW v \in Writers \ {w} PROVE RingInv(v)'
    <3>1. SameMemory(v) /\ SameConsumer(v) /\ SameWriter(v) /\ RingInv(v)
      BY <1>2, <1>3, ConsumerUnchanged DEF SameMemory, IInv
    <3> QED
      BY <3>1, RingFrame
  <2> QED
    BY <1>5, <2>2, <2>3, <2>4 DEF RingInv
<1> QED
  BY <1>6, <1>7

-----------------------------------------------------------------------------
(***************************************************************************)
(* Steps of the cards.                                                     *)
(***************************************************************************)
SameFlags(v) ==
  /\ seg'[v] = seg[v]
  /\ \A s \in Segs : /\ header'[v][s].W = header[v][s].W
                     /\ header'[v][s].C = header[v][s].C
                     /\ header'[v][s].next = header[v][s].next

\* Counters and end marks play no part in the invariant of a ring.
LEMMA FlagsSame ==
  ASSUME TypeOK, NEW v \in Writers, ConsumerInv(v), FlagsInv(v), SameFlags(v), SameConsumer(v)
  PROVE  ConsumerInv(v)' /\ FlagsInv(v)'
<1>1. seg[v] \in Segs /\ iter[v] \in Segs /\ Kept(v) \in Segs \cup {NoSeg}
  BY DEF TypeOK, AppenderType, ConsumerType, Kept
<1>2. Kept(v)' = Kept(v)
  BY DEF Kept, SameConsumer
<1>3. NumFull(v)' = NumFull(v)
  BY <1>1, <1>2 DEF NumFull, SameFlags, SameConsumer
<1>4. ConsumerInv(v)'
  BY <1>1 DEF ConsumerInv, SameFlags, SameConsumer
<1>5. FlagsInv(v)'
  BY <1>1, <1>2, <1>3 DEF FlagsInv, SameFlags, SameConsumer
<1> QED
  BY <1>4, <1>5

\* A header write at the head of the queue is all there is in the queue.
LEMMA HeaderHead ==
  ASSUME TypeOK, NEW w \in Writers, RingInv(w), sq[w] # << >>, Head(sq[w]).kind = "header"
  PROVE  /\ Head(sq[w]).seg = seg[w]
         /\ wpc[w] \in {"drain", "fetch", "closed"}
         /\ Tail(sq[w]) = << >>
         /\ hdr[w].next = Succ(seg[w])
<1>1. sq[w] \in Seq(WorkRequest)
  BY DEF TypeOK, QueueType
<1>2. 1 \in DOMAIN sq[w] /\ Head(sq[w]) = sq[w][1]
  BY <1>1
<1>3. Head(sq[w]).seg = seg[w] /\ wpc[w] \in {"drain", "fetch", "closed"} /\ Len(sq[w]) = 1
  BY <1>2 DEF RingInv, QueueInv
<1>4. Tail(sq[w]) = << >>
  <2>1. Tail(sq[w]) \in Seq(WorkRequest) /\ Len(Tail(sq[w])) = 0
    BY <1>1, <1>3
  <2> QED
    BY <2>1, EmptySeq
<1> QED
  BY <1>3, <1>4 DEF RingInv, WriterInv, Filling

\* What a step of the card of writer w leaves to show.
LEMMA NicLocal ==
  ASSUME IInv, NEW w \in Writers, UNCHANGED <<appender, countWR, signaled, consumer>>,
         \A v \in Writers \ {w} :
           header'[v] = header[v] /\ sq'[v] = sq[v] /\ landing'[v] = landing[v],
         RingInv(w)'
  PROVE  \A v \in Writers : RingInv(v)'
<1> SUFFICES ASSUME NEW v \in Writers \ {w} PROVE RingInv(v)'
  OBVIOUS
<1>1. SameMemory(v) /\ SameWriter(v) /\ SameConsumer(v) /\ RingInv(v)
  BY ConsumerUnchanged DEF SameMemory, SameWriter, IInv, appender
<1> QED
  BY <1>1, RingFrame

LEMMA LandDataRing ==
  ASSUME IInv, NEW w \in Writers, LandData(w)
  PROVE  \A v \in Writers : RingInv(v)'
<1>1. TypeOK /\ RingInv(w) /\ sq[w] \in Seq(WorkRequest)
  BY DEF IInv, TypeOK, QueueType
<1>2. /\ sq[w] # << >> /\ Head(sq[w]).kind = "data" /\ sq'[w] = Tail(sq[w])
      /\ \A v \in Writers \ {w} : sq'[v] = sq[v]
      /\ UNCHANGED <<header, appender, landing, countWR, signaled, consumer>>
  BY <1>1 DEF LandData, TypeOK, QueueType
<1>3. ~landing[w]
  BY <1>1, <1>2 DEF RingInv, QueueInv
<1>4. QueueInv(w)'
  BY <1>1, <1>2, <1>3, PopQueue DEF RingInv, TypeOK, QueueType
<1>5. 1 \in DOMAIN sq[w] /\ sq[w][1].kind = "data"
  BY <1>1, <1>2
<1>6. ~header[w][seg[w]].C
  BY <1>1, <1>5 DEF RingInv, WriterInv
<1>7. wpc[w] \in {"fetch", "closed"} => sq'[w] # << >>
  <2> SUFFICES ASSUME wpc[w] \in {"fetch", "closed"}, sq'[w] = << >> PROVE FALSE
    OBVIOUS
  <2>1. Len(sq[w]) = 1
    <3>1. Len(Tail(sq[w])) = Len(sq[w]) - 1 /\ Len(sq[w]) \in Nat
      BY <1>1, <1>2, HeadTailProperties, LenProperties
    <3>2. Len(Tail(sq[w])) = 0
      BY <1>2, EmptySeq
    <3> QED
      BY <3>1, <3>2
  <2>2. sq[w][Len(sq[w])].kind = "header"
    BY <1>1, <1>2 DEF RingInv, QueueInv
  <2> QED
    BY <1>5, <2>1, <2>2
<1>8. wpc[w] # "fetch_flags"
  BY <1>1, <1>2 DEF RingInv, QueueInv
<1>9. WriterInv(w)'
  BY <1>1, <1>2, <1>6, <1>7, <1>8 DEF RingInv, WriterInv, appender
<1>10. ConsumerInv(w)' /\ FlagsInv(w)'
  BY <1>1, <1>2, FlagsFrame, ConsumerUnchanged DEF RingInv, SameMemory, appender
<1> QED
  BY <1>2, <1>4, <1>9, <1>10, NicLocal DEF RingInv

LEMMA LandCounterRing ==
  ASSUME IInv, NEW w \in Writers, LandCounter(w)
  PROVE  \A v \in Writers : RingInv(v)'
<1>1. TypeOK /\ RingInv(w) /\ seg[w] \in Segs
  BY DEF IInv, TypeOK, AppenderType
<1>2. /\ Head(sq[w]).seg = seg[w] /\ hdr[w].next = Succ(seg[w])
      /\ sq[w] # << >> /\ Head(sq[w]).kind = "header"
  BY <1>1, HeaderHead DEF LandCounter
<1>3. /\ header' = [header EXCEPT ![w][seg[w]] =
                      SetWords(header[w][seg[w]], hdr[w].counter, hdr[w].next)]
      /\ landing' = [landing EXCEPT ![w] = TRUE]
      /\ UNCHANGED <<appender, sq, countWR, signaled, consumer>>
  BY <1>2 DEF LandCounter
<1>4. /\ \A v \in Writers \ {w} : header'[v] = header[v] /\ landing'[v] = landing[v]
      /\ landing'[w] = TRUE
  BY <1>1, <1>3 DEF TypeOK, MemoryType, QueueType
<1>5. SameFlags(w)
  <2>1. header'[w] = [header[w] EXCEPT ![seg[w]] =
                        SetWords(header[w][seg[w]], hdr[w].counter, hdr[w].next)]
    BY <1>1, <1>3 DEF TypeOK, MemoryType
  <2>2. header[w] \in [Segs -> Header]
    BY <1>1 DEF TypeOK, MemoryType
  <2>3. header[w][seg[w]].next = Succ(seg[w])
    BY <1>1 DEF RingInv, FlagsInv
  <2>4. seg' = seg
    BY <1>3 DEF appender
  <2>5. ASSUME NEW s \in Segs
        PROVE  /\ header'[w][s].W = header[w][s].W
               /\ header'[w][s].C = header[w][s].C
               /\ header'[w][s].next = header[w][s].next
    BY <1>1, <1>2, <2>1, <2>2, <2>3 DEF SetWords
  <2> QED
    BY <2>4, <2>5 DEF SameFlags
<1>6. ConsumerInv(w)' /\ FlagsInv(w)'
  BY <1>1, <1>3, <1>5, FlagsSame, ConsumerUnchanged DEF RingInv
<1>7. QueueInv(w)'
  BY <1>1, <1>2, <1>3, <1>4 DEF RingInv, QueueInv, appender
<1>8. WriterInv(w)'
  <2>1. header'[w][seg[w]].C = header[w][seg[w]].C
    BY <1>1, <1>5 DEF SameFlags
  <2> QED
    BY <1>1, <1>3, <2>1 DEF RingInv, WriterInv, appender
<1> QED
  BY <1>3, <1>4, <1>6, <1>7, <1>8, NicLocal DEF RingInv

\* While has_next() = true the consumer has a segment to go to, so the one it keeps is
\* not the one the writer is on.
LEMMA KeptIsBehind ==
  ASSUME N >= 2, TypeOK, NEW w \in Writers, RingInv(w), Taking(w), Kept(w) # NoSeg
  PROVE  Kept(w) # seg[w] /\ Kept(w) \in Segs /\ iter[w] = Succ(Kept(w))
<1>1. /\ seg[w] \in Segs /\ iter[w] \in Segs /\ Kept(w) \in Segs
      /\ Kept(w) = prev[w]
  BY DEF TypeOK, AppenderType, ConsumerType, Kept
<1>2. iter[w] = Succ(Kept(w)) /\ iter[w] # Kept(w)
  BY <1>1, SuccFacts DEF RingInv, ConsumerInv
<1>3. header[w][iter[w]].C /\ Dist(iter[w], iter[w]) = 0
  BY <1>1, DistFacts DEF RingInv, ConsumerInv
<1>4. 0 < NumFull(w)
  BY <1>1, <1>2, <1>3 DEF RingInv, FlagsInv
<1>5. Kept(w) # seg[w]
  BY <1>4 DEF NumFull
<1> QED
  BY <1>1, <1>2, <1>5

\* The segment of the writer is writeable or consumable, never both.
LEMMA SegFlags ==
  ASSUME N >= 2, TypeOK, NEW w \in Writers, RingInv(w)
  PROVE  header[w][seg[w]].W <=> ~header[w][seg[w]].C
<1>1. seg[w] \in Segs /\ seg[w] # NoSeg
  BY SuccFacts DEF TypeOK, AppenderType
<1>2. CASE Kept(w) = seg[w]
  BY <1>1, <1>2, KeptIsBehind DEF RingInv, FlagsInv
<1>3. CASE Kept(w) # seg[w]
  BY <1>1, <1>3 DEF RingInv, FlagsInv
<1> QED
  BY <1>2, <1>3

\* The flags of a published segment land: the run of consumable segments grows by the
\* one it ended at.
LEMMA LandPublished ==
  ASSUME N >= 2, TypeOK, NEW w \in Writers, RingInv(w), ~header[w][seg[w]].C,
         NEW h \in Header, h.C, ~h.W, h.next = header[w][seg[w]].next,
         header'[w] = [header[w] EXCEPT ![seg[w]] = h],
         UNCHANGED <<seg, consumer>>
  PROVE  ConsumerInv(w)' /\ FlagsInv(w)'
<1> DEFINE a == seg[w]
           i == iter[w]
           k == Kept(w)
<1>1. a \in Segs /\ i \in Segs /\ k \in Segs \cup {NoSeg} /\ header[w] \in [Segs -> Header]
  BY DEF TypeOK, MemoryType, AppenderType, ConsumerType, Kept
<1>2. k # a
  <2>1. k = a => k # NoSeg
    BY <1>1, SuccFacts
  <2>2. k = a => Taking(w)
    BY <2>1 DEF RingInv, FlagsInv
  <2> QED
    BY <2>1, <2>2, KeptIsBehind
<1>3. SameConsumer(w) /\ iter' = iter /\ prev' = prev /\ Kept(w)' = k
  BY ConsumerUnchanged DEF consumer, Kept, Released
<1>4. header'[w][a] = h /\ \A s \in Segs \ {a} : header'[w][s] = header[w][s]
  BY <1>1
<1>5. Dist(i, a) \in 0 .. N - 1 /\ N \in Nat
  BY <1>1, DistFacts, ConstantsAssumption
<1>6. NumFull(w) = Dist(i, a) /\ NumFull(w)' = Dist(i, a) + 1
  <2>1. NumFull(w) = Dist(i, a) + 0
    BY <1>2 DEF NumFull
  <2>2. NumFull(w)' = Dist(i, a) + 1
    BY <1>2, <1>3, <1>4 DEF NumFull
  <2> QED
    BY <1>5, <2>1, <2>2
<1>7. ConsumerInv(w)'
  BY <1>1, <1>3, <1>4 DEF RingInv, ConsumerInv, SameConsumer
<1>8. ASSUME NEW s \in Segs, s # k
      PROVE  header'[w][s].C <=> Dist(i, s) < NumFull(w)'
  <2>1. CASE s = a
    BY <1>4, <1>5, <1>6, <2>1
  <2>2. CASE s # a
    <3>1. header'[w][s].C <=> Dist(i, s) < Dist(i, a)
      BY <1>4, <1>6, <1>8, <2>2 DEF RingInv, FlagsInv
    <3>2. Dist(i, s) # Dist(i, a) /\ Dist(i, s) \in 0 .. N - 1
      BY <1>1, <2>2, DistInjective, DistFacts
    <3> QED
      BY <1>5, <1>6, <3>1, <3>2
  <2> QED
    BY <2>1, <2>2
<1>9. ASSUME NEW s \in Segs
      PROVE  /\ header'[w][s].next = Succ(s)
             /\ s # k => (header'[w][s].W <=> ~header'[w][s].C)
  BY <1>1, <1>4 DEF RingInv, FlagsInv
<1>10. k # NoSeg => header'[w][k] = header[w][k]
  BY <1>1, <1>2, <1>4
<1> HIDE DEF a, i, k
<1>11. iter'[w] = i /\ Taking(w)' = Taking(w) /\ cpc' = cpc
  BY DEF consumer, Taking, i
<1>12. FlagsInv(w)'
  BY <1>3, <1>8, <1>9, <1>10, <1>11 DEF RingInv, FlagsInv, k
<1> QED
  BY <1>7, <1>12

LEMMA LandFlagsRing ==
  ASSUME N >= 2, IInv, NEW w \in Writers, LandFlags(w)
  PROVE  \A v \in Writers : RingInv(v)'
<1> DEFINE h == SetFlags(header[w][seg[w]], hdr[w].W, hdr[w].C, hdr[w].E)
<1>1. /\ TypeOK /\ RingInv(w) /\ seg[w] \in Segs /\ hdr[w] \in Header
      /\ header[w] \in [Segs -> Header] /\ sq[w] \in Seq(WorkRequest)
  BY DEF IInv, TypeOK, AppenderType, MemoryType, QueueType
<1>2. sq[w] # << >> /\ Head(sq[w]).kind = "header"
  BY <1>1 DEF LandFlags, RingInv, QueueInv
<1>3. /\ Head(sq[w]).seg = seg[w] /\ wpc[w] \in {"drain", "fetch", "closed"}
      /\ Tail(sq[w]) = << >> /\ hdr[w].next = Succ(seg[w])
  BY <1>1, <1>2, HeaderHead
<1>4. /\ header' = [header EXCEPT ![w][seg[w]] = h]
      /\ sq' = [sq EXCEPT ![w] = Tail(sq[w])]
      /\ landing' = [landing EXCEPT ![w] = FALSE]
      /\ UNCHANGED <<appender, countWR, signaled, consumer>>
  BY <1>3 DEF LandFlags
<1>5. h \in Header /\ h.W = hdr[w].W /\ h.C = hdr[w].C /\ h.next = header[w][seg[w]].next
  <2>1. header[w][seg[w]] \in Header
    BY <1>1
  <2>2. hdr[w].W \in BOOLEAN /\ hdr[w].C \in BOOLEAN /\ hdr[w].E \in BOOLEAN
    BY <1>1 DEF Header
  <2> QED
    BY <2>1, <2>2, SetType DEF SetFlags
<1> HIDE DEF h
<1>6. /\ \A v \in Writers \ {w} :
           header'[v] = header[v] /\ sq'[v] = sq[v] /\ landing'[v] = landing[v]
      /\ landing'[w] = FALSE /\ sq'[w] = << >> /\ sq'[w] = Tail(sq[w])
      /\ header'[w] = [header[w] EXCEPT ![seg[w]] = h]
  BY <1>1, <1>3, <1>4 DEF TypeOK, MemoryType, QueueType
<1>7. seg' = seg /\ wpc' = wpc /\ hdr' = hdr /\ nextSeg' = nextSeg
  BY <1>4 DEF appender
<1>8. QueueInv(w)'
  BY <1>1, <1>2, <1>4, <1>6, PopQueue DEF RingInv
<1>9. header'[w][seg[w]] = h /\ \A s \in Segs \ {seg[w]} : header'[w][s] = header[w][s]
  BY <1>1, <1>6
<1>10. ConsumerInv(w)' /\ FlagsInv(w)'
  <2>1. CASE hdr[w].C = header[w][seg[w]].C
    <3>1. header[w][seg[w]].W = hdr[w].W
      BY <1>1, <1>2, <1>3, <2>1, SegFlags DEF RingInv, WriterInv, Filling, Header
    <3>2. SameFlags(w)
      BY <1>5, <1>7, <1>9, <2>1, <3>1 DEF SameFlags
    <3> QED
      BY <1>1, <1>4, <3>2, FlagsSame, ConsumerUnchanged DEF RingInv
  <2>2. CASE hdr[w].C # header[w][seg[w]].C
    <3>1. hdr[w].C /\ ~hdr[w].W /\ ~header[w][seg[w]].C
      BY <1>1, <1>2, <1>3, <2>2 DEF RingInv, WriterInv, Filling, Header
    <3> QED
      BY <1>1, <1>4, <1>5, <1>6, <1>7, <3>1, LandPublished
  <2> QED
    BY <2>1, <2>2
<1>11. WriterInv(w)'
  <2>1. header'[w][seg[w]].C = hdr[w].C
    BY <1>5, <1>9
  <2>2. wpc[w] = "drain" => ~hdr[w].C
    BY <1>1 DEF RingInv, WriterInv, Filling
  <2>3. wpc[w] \in {"fetch", "closed"} => hdr[w].C
    BY <1>1, <1>2 DEF RingInv, WriterInv
  <2> QED
    BY <1>1, <1>2, <1>3, <1>6, <1>7, <2>1, <2>2, <2>3 DEF RingInv, WriterInv, Filling
<1> QED
  BY <1>4, <1>6, <1>8, <1>10, <1>11, NicLocal DEF RingInv

-----------------------------------------------------------------------------
(***************************************************************************)
(* Steps of the consumer.                                                  *)
(***************************************************************************)
LEMMA WriterUnchanged ==
  ASSUME UNCHANGED <<appender, queue>>
  PROVE  \A v \in Writers : SameWriter(v) /\ seg'[v] = seg[v]
  BY DEF appender, queue, SameWriter

\* has_next, as long as it has not found a segment.
LEMMA SearchRing ==
  ASSUME IInv, SkipRing \/ DropRing \/ NoMoreRings
  PROVE  \A v \in Writers : RingInv(v)'
<1>1. /\ cpc = "has_next" /\ cpc' \in {"has_next", "end"}
      /\ UNCHANGED <<header, appender, queue, iter, prev>>
  BY DEF SkipRing, DropRing, NoMoreRings, memory
<1>2. ASSUME NEW v \in Writers PROVE RingInv(v)'
  <2>1. SameConsumer(v)
    BY <1>1 DEF SameConsumer, Taking, Released
  <2>2. SameMemory(v) /\ SameWriter(v) /\ RingInv(v)
    BY <1>1, WriterUnchanged DEF SameMemory, IInv
  <2> QED
    BY <2>1, <2>2, RingFrame
<1> QED
  BY <1>2

\* has_next has found a consumable segment.
LEMMA FoundSegmentRing ==
  ASSUME IInv, FoundSegment
  PROVE  \A v \in Writers : RingInv(v)'
<1>1. PICK w \in Writers : w = live[Here]
  BY HereType DEF IInv, TypeOK, FoundSegment
<1>2. /\ cpc = "has_next" /\ cpc' = IF prev[w] = NoSeg THEN "take" ELSE "mark_counter"
      /\ header[w][iter[w]].C /\ live'[pos'] = w
      /\ UNCHANGED <<header, appender, queue, iter, prev>>
  BY <1>1 DEF FoundSegment, memory
<1>3. ASSUME NEW v \in Writers \ {w} PROVE RingInv(v)'
  <2>1. SameConsumer(v)
    BY <1>2 DEF SameConsumer, Taking, Released
  <2>2. SameMemory(v) /\ SameWriter(v) /\ RingInv(v)
    BY <1>2, WriterUnchanged DEF SameMemory, IInv
  <2> QED
    BY <2>1, <2>2, RingFrame
<1>4. RingInv(w)'
  <2>1. RingInv(w) /\ SameMemory(w) /\ SameWriter(w)
    BY <1>1, <1>2, WriterUnchanged DEF SameMemory, IInv
  <2>2. QueueInv(w)' /\ WriterInv(w)'
    BY <1>1, <2>1, WriterFrame DEF RingInv
  <2>3. ~Taking(w) /\ ~Released(w) /\ Taking(w)' /\ (Released(w)' <=> prev[w] = NoSeg)
    BY <1>2 DEF Taking, Released
  <2>4. Kept(w) = prev[w] /\ Kept(w)' = prev[w]
    BY <1>2, <2>3 DEF Kept
  <2>5. NumFull(w)' = NumFull(w)
    BY <1>2, <2>1, <2>4 DEF NumFull, SameMemory
  <2>6. ConsumerInv(w)'
    BY <1>2, <2>1, <2>3 DEF RingInv, ConsumerInv
  <2>7. FlagsInv(w)'
    BY <1>2, <2>1, <2>3, <2>4, <2>5 DEF RingInv, FlagsInv
  <2> QED
    BY <2>2, <2>6, <2>7 DEF RingInv
<1> QED
  BY <1>3, <1>4

\* The stores of mark_prev_segment change one header of the ring at hand.
LEMMA MarkFacts ==
  ASSUME N >= 2, IInv, NEW w \in Writers, w = live[pos],
         NEW at, NEW then, NEW h, MarkPrev(at, then, h),
         at \in {"mark_counter", "mark_consumable", "mark_writeable"},
         then \in {"mark_consumable", "mark_writeable", "take"}
  PROVE  /\ prev[w] \in Segs
         /\ Kept(w) = prev[w]
         /\ seg[w] # prev[w]
         /\ iter[w] = Succ(prev[w])
         /\ Taking(w) /\ Taking(w)'
         /\ ~Released(w)
         /\ Released(w)' <=> then = "take"
         /\ header'[w] = [header[w] EXCEPT ![prev[w]] = h]
         /\ \A v \in Writers \ {w} : RingInv(v)'
         /\ SameWriter(w)
         /\ UNCHANGED <<seg, iter, prev>>
<1>1. TypeOK
  BY DEF IInv
<1>2. /\ cpc = at /\ cpc' = then /\ live'[pos'] = w
      /\ header' = [header EXCEPT ![w][prev[w]] = h]
      /\ UNCHANGED <<appender, queue, iter, prev>>
  BY DEF MarkPrev
<1>3. Taking(w) /\ Taking(w)' /\ ~Released(w) /\ (Released(w)' <=> then = "take")
  BY <1>2 DEF Taking, Released
<1>4. RingInv(w) /\ prev[w] # NoSeg /\ Kept(w) = prev[w]
  BY <1>1, <1>3 DEF IInv, RingInv, ConsumerInv, Kept
<1>5. prev[w] \in Segs /\ seg[w] # prev[w] /\ iter[w] = Succ(prev[w])
  BY <1>1, <1>3, <1>4, KeptIsBehind
<1>6. /\ header'[w] = [header[w] EXCEPT ![prev[w]] = h]
      /\ \A v \in Writers \ {w} : header'[v] = header[v]
  BY <1>1, <1>2 DEF TypeOK, MemoryType
<1>7. ASSUME NEW v \in Writers \ {w} PROVE RingInv(v)'
  <2>1. SameConsumer(v)
    BY <1>2 DEF SameConsumer, Taking, Released
  <2>2. SameMemory(v) /\ SameWriter(v) /\ RingInv(v)
    BY <1>2, <1>6, WriterUnchanged DEF SameMemory, IInv
  <2> QED
    BY <2>1, <2>2, RingFrame
<1>8. SameWriter(w) /\ UNCHANGED <<seg, iter, prev>>
  BY <1>1, <1>2, WriterUnchanged DEF appender
<1> QED
  BY <1>1, <1>3, <1>4, <1>5, <1>6, <1>7, <1>8

LEMMA MarkRing ==
  ASSUME N >= 2, IInv, MarkCounter \/ MarkConsumable \/ MarkWriteable
  PROVE  \A v \in Writers : RingInv(v)'
<1>1. PICK w \in Writers : w = live[pos]
  BY DEF IInv, TypeOK, ConsumerType, CursorInv, MarkCounter, MarkConsumable, MarkWriteable, MarkPrev
<1> DEFINE p == prev[w]
           a == seg[w]
           i == iter[w]
<1>2. TypeOK /\ RingInv(w) /\ header[w] \in [Segs -> Header] /\ a \in Segs /\ i \in Segs
  BY DEF IInv, TypeOK, MemoryType, AppenderType, ConsumerType
<1>3. PICK at, then, h :
         /\ MarkPrev(at, then, h)
         /\ h.next = header[w][p].next
         /\ \/ at = "mark_counter" /\ then = "mark_consumable"
               /\ h.W = header[w][p].W /\ h.C = header[w][p].C
            \/ at = "mark_consumable" /\ then = "mark_writeable"
               /\ h.W = header[w][p].W /\ ~h.C
            \/ at = "mark_writeable" /\ then = "take"
               /\ h.W /\ h.C = header[w][p].C
  <2>1. CASE MarkCounter
    BY <1>1, <2>1 DEF MarkCounter, PrevHeader, SetWords
  <2>2. CASE MarkConsumable
    BY <1>1, <2>2 DEF MarkConsumable, PrevHeader, SetFlags
  <2>3. CASE MarkWriteable
    BY <1>1, <2>3 DEF MarkWriteable, PrevHeader, SetFlags
  <2> QED
    BY <2>1, <2>2, <2>3
<1>4. /\ p \in Segs /\ Kept(w) = p /\ a # p /\ i = Succ(p)
      /\ Taking(w) /\ Taking(w)' /\ ~Released(w) /\ (Released(w)' <=> then = "take")
      /\ header'[w] = [header[w] EXCEPT ![p] = h]
      /\ SameWriter(w) /\ UNCHANGED <<seg, iter, prev>>
  BY <1>1, <1>3, MarkFacts
<1>5. ASSUME NEW v \in Writers \ {w} PROVE RingInv(v)'
  BY <1>1, <1>3, MarkFacts
<1>6. cpc = at /\ cpc' = then
  BY <1>3 DEF MarkPrev
<1>7. /\ header'[w][p] = h
      /\ \A s \in Segs \ {p} : header'[w][s] = header[w][s]
  BY <1>2, <1>4
<1>8. p # NoSeg /\ i # p /\ a # NoSeg
  BY <1>2, <1>4, SuccFacts
<1>9. ~header[w][p].W /\ (header[w][p].C <=> at # "mark_writeable")
  BY <1>2, <1>4, <1>6, <1>8 DEF RingInv, FlagsInv
<1>10. Kept(w)' = IF then = "take" THEN NoSeg ELSE p
  BY <1>4 DEF Kept
<1>11. NumFull(w)' = NumFull(w) /\ NumFull(w) = Dist(i, a) + (IF header[w][a].C THEN 1 ELSE 0)
  <2>1. header'[w][a] = header[w][a]
    BY <1>2, <1>4, <1>7
  <2> QED
    BY <1>4, <1>8, <1>10, <2>1 DEF NumFull
<1>12. ~(Dist(i, p) < NumFull(w))
  <2>1. Dist(i, p) = N - 1 /\ Dist(i, a) \in 0 .. N - 1
    BY <1>2, <1>4, DistFacts
  <2>2. Dist(i, a) # N - 1
    BY <1>2, <1>4, <2>1, DistInjective
  <2> QED
    BY <1>11, <2>1, <2>2, ConstantsAssumption
<1> HIDE DEF p, a, i
<1>13. ConsumerInv(w)'
  <2>1. header'[w][i] = header[w][i]
    BY <1>2, <1>7, <1>8
  <2> QED
    BY <1>2, <1>4, <1>8, <2>1 DEF RingInv, ConsumerInv, p, i
<1>14. FlagsInv(w)'
  <2>1. ASSUME NEW s \in Segs, s # p
        PROVE  /\ header'[w][s].next = Succ(s)
               /\ header'[w][s].C <=> Dist(i, s) < NumFull(w)'
               /\ header'[w][s].W <=> ~header'[w][s].C
    BY <1>2, <1>4, <1>7, <1>11, <2>1 DEF RingInv, FlagsInv, i
  <2>2. header'[w][p].next = Succ(p)
    BY <1>2, <1>3, <1>4, <1>7 DEF RingInv, FlagsInv
  <2>3. CASE then = "take"
    <3>1. h.W /\ ~h.C
      BY <1>3, <1>9, <2>3
    <3>2. header'[w][p].C <=> Dist(i, p) < NumFull(w)'
      BY <1>7, <1>11, <1>12, <3>1
    <3>3. ASSUME NEW s \in Segs
          PROVE  /\ header'[w][s].next = Succ(s)
                 /\ header'[w][s].C <=> Dist(i, s) < NumFull(w)'
                 /\ header'[w][s].W <=> ~header'[w][s].C
      <4>1. CASE s = p
        BY <1>7, <2>2, <3>1, <3>2, <4>1
      <4>2. CASE s # p
        BY <2>1, <4>2
      <4> QED
        BY <4>1, <4>2
    <3> QED
      BY <1>4, <1>10, <2>3, <3>3 DEF FlagsInv, i
  <2>4. CASE then # "take"
    <3>1. ~h.W /\ (h.C <=> then # "mark_writeable")
      BY <1>3, <1>9, <2>4
    <3> QED
      BY <1>4, <1>6, <1>7, <1>10, <2>1, <2>2, <2>4, <3>1 DEF FlagsInv, i
  <2> QED
    BY <2>3, <2>4
<1>15. QueueInv(w)' /\ WriterInv(w)'
  <2>1. header'[w][a] = header[w][a]
    BY <1>2, <1>4, <1>7 DEF a
  <2>2. QueueInv(w)'
    BY <1>2, <1>4 DEF RingInv, QueueInv, SameWriter
  <2>3. WriterInv(w)'
    BY <1>2, <1>4, <2>1 DEF RingInv, WriterInv, SameWriter, a
  <2> QED
    BY <2>2, <2>3
<1> QED
  BY <1>5, <1>13, <1>14, <1>15 DEF RingInv

\* next hands out the segment at iter: it becomes the one the consumer keeps, and the
\* run of consumable segments loses its first.
LEMMA TakeRing ==
  ASSUME N >= 2, IInv, Take
  PROVE  \A v \in Writers : RingInv(v)'
<1>1. PICK w \in Writers : w = live[pos]
  BY DEF IInv, TypeOK, ConsumerType, CursorInv, Take
<1> DEFINE a == seg[w]
           i == iter[w]
<1>2. TypeOK /\ RingInv(w) /\ header[w] \in [Segs -> Header] /\ a \in Segs /\ i \in Segs
  BY DEF IInv, TypeOK, MemoryType, AppenderType, ConsumerType
<1>3. /\ cpc = "take" /\ cpc' = "use"
      /\ prev' = [prev EXCEPT ![w] = i]
      /\ iter' = [iter EXCEPT ![w] = header[w][i].next]
      /\ UNCHANGED <<header, appender, queue>>
  BY <1>1 DEF Take, memory
<1>4. Taking(w) /\ Released(w) /\ ~Taking(w)' /\ ~Released(w)'
  BY <1>1, <1>3 DEF Taking, Released
<1>5. header[w][i].next = Succ(i) /\ header[w][i].C
  BY <1>2, <1>4 DEF RingInv, FlagsInv, ConsumerInv
<1>6. prev'[w] = i /\ iter'[w] = Succ(i)
  BY <1>2, <1>3, <1>5 DEF TypeOK, ConsumerType
<1>7. ASSUME NEW v \in Writers \ {w} PROVE RingInv(v)'
  <2>1. prev'[v] = prev[v] /\ iter'[v] = iter[v]
    BY <1>2, <1>3 DEF TypeOK, ConsumerType
  <2>2. SameConsumer(v)
    BY <1>1, <1>3, <2>1 DEF SameConsumer, Taking, Released
  <2>3. SameMemory(v) /\ SameWriter(v) /\ RingInv(v)
    BY <1>3, WriterUnchanged DEF SameMemory, IInv
  <2> QED
    BY <2>2, <2>3, RingFrame
<1>8. SameMemory(w) /\ SameWriter(w)
  BY <1>3, WriterUnchanged DEF SameMemory
<1>9. QueueInv(w)' /\ WriterInv(w)'
  BY <1>2, <1>8, WriterFrame DEF RingInv
<1>10. Kept(w) = NoSeg /\ Kept(w)' = i /\ Succ(i) \in Segs /\ i # NoSeg /\ a # NoSeg
  BY <1>2, <1>4, <1>6, SuccFacts DEF Kept
<1>11. NumFull(w) = Dist(i, a) + (IF header[w][a].C THEN 1 ELSE 0)
  BY <1>10 DEF NumFull
<1>12. NumFull(w)' = NumFull(w) - 1
  <2>1. CASE a = i
    <3>1. NumFull(w)' = 0 /\ NumFull(w) = 1
      BY <1>2, <1>5, <1>8, <1>10, <1>11, <2>1, DistFacts DEF NumFull, SameMemory
    <3> QED
      BY <3>1
  <2>2. CASE a # i
    <3>1. NumFull(w)' = Dist(Succ(i), a) + (IF header[w][a].C THEN 1 ELSE 0)
      BY <1>3, <1>6, <1>8, <1>10, <2>2 DEF NumFull, SameMemory
    <3>2. Dist(Succ(i), a) = Dist(i, a) - 1 /\ Dist(i, a) \in 0 .. N - 1
      BY <1>2, <2>2, DistFacts
    <3> QED
      BY <1>11, <3>1, <3>2, ConstantsAssumption
  <2> QED
    BY <2>1, <2>2
<1>13. NumFull(w) \in Int
  BY <1>2, <1>11, DistFacts, ConstantsAssumption
<1> HIDE DEF a, i
<1>14. ASSUME NEW s \in Segs, s # i
       PROVE  header[w][s].C <=> Dist(Succ(i), s) < NumFull(w)'
  <2>1. s # NoSeg
    BY SuccFacts
  <2>2. header[w][s].C <=> Dist(i, s) < NumFull(w)
    BY <1>2, <1>10, <2>1 DEF RingInv, FlagsInv, i
  <2>3. Dist(Succ(i), s) = Dist(i, s) - 1 /\ Dist(i, s) \in 0 .. N - 1
    BY <1>2, <1>14, DistFacts
  <2> QED
    BY <1>12, <1>13, <2>2, <2>3, ConstantsAssumption
<1>15. ConsumerInv(w)'
  BY <1>4, <1>6, <1>10 DEF ConsumerInv
<1>16. \A s \in Segs : header[w][s].next = Succ(s) /\ (header[w][s].W <=> ~header[w][s].C)
  <2>1. \A s \in Segs : s # Kept(w)
    BY <1>10, SuccFacts
  <2> QED
    BY <1>2, <2>1 DEF RingInv, FlagsInv
<1>17. FlagsInv(w)'
  BY <1>2, <1>3, <1>4, <1>5, <1>6, <1>10, <1>14, <1>16 DEF FlagsInv
<1> QED
  BY <1>7, <1>9, <1>15, <1>17 DEF RingInv

LEMMA UseRing ==
  ASSUME IInv, Use
  PROVE  \A v \in Writers : RingInv(v)'
<1>1. /\ cpc = "use" /\ cpc' = "has_next"
      /\ UNCHANGED <<header, appender, queue, iter, prev>>
  BY DEF Use, memory
<1>2. ASSUME NEW v \in Writers PROVE RingInv(v)'
  <2>1. SameConsumer(v)
    BY <1>1 DEF SameConsumer, Taking, Released
  <2>2. SameMemory(v) /\ SameWriter(v) /\ RingInv(v)
    BY <1>1, WriterUnchanged DEF SameMemory, IInv
  <2> QED
    BY <2>1, <2>2, RingFrame
<1> QED
  BY <1>2

-----------------------------------------------------------------------------
(***************************************************************************)
(* The theorems.                                                           *)
(***************************************************************************)
LEMMA InitRing ==
  ASSUME N >= 2, Init
  PROVE  \A w \in Writers : RingInv(w)
<1> SUFFICES ASSUME NEW w \in Writers PROVE RingInv(w)
  OBVIOUS
<1>1. 0 \in Segs /\ ~(0 = NoSeg) /\ MaxWR \in Nat \ {0}
  BY ConstantsAssumption DEF Segs, NoSeg
<1>2. /\ header[w] = [s \in Segs |-> FreshHeader(s)]
      /\ wpc[w] = "idle" /\ seg[w] = 0 /\ hdr[w] = FreshHeader(0)
      /\ sq[w] = << >> /\ landing[w] = FALSE /\ signaled[w] = FALSE
      /\ countWR[w] = IF MaxWR = 1 THEN 0 ELSE 1
      /\ cpc = "has_next" /\ iter[w] = 0 /\ prev[w] = NoSeg
  BY DEF Init, InitMemory, InitWriter, InitIterator
<1>3. \A s \in Segs : /\ header[w][s].next = Succ(s)
                      /\ header[w][s].W /\ ~header[w][s].C
  BY <1>2 DEF FreshHeader
<1>4. hdr[w].W /\ ~hdr[w].C /\ hdr[w].next = Succ(0)
  BY <1>2 DEF FreshHeader
<1>5. ~Taking(w) /\ ~Released(w) /\ Kept(w) = NoSeg
  BY <1>2 DEF Taking, Released, Kept
<1>6. NumFull(w) = 0
  <2>1. NumFull(w) = Dist(0, 0) + 0
    BY <1>1, <1>2, <1>3, <1>5 DEF NumFull
  <2> QED
    BY <1>1, <2>1, DistFacts
<1>7. \A s \in Segs : ~(Dist(0, s) < 0)
  BY <1>1, DistFacts, ConstantsAssumption
<1>8. ConsumerInv(w)
  BY <1>2, <1>5 DEF ConsumerInv
<1>9. FlagsInv(w)
  BY <1>2, <1>3, <1>5, <1>6, <1>7 DEF FlagsInv
<1>10. QueueInv(w)
  BY <1>1, <1>2 DEF QueueInv
<1>11. WriterInv(w)
  BY <1>1, <1>2, <1>3, <1>4 DEF WriterInv, Filling
<1> QED
  BY <1>8, <1>9, <1>10, <1>11 DEF RingInv

LEMMA InductiveStep ==
  ASSUME N >= 2, IInv, [Next]_vars
  PROVE  IInv'
<1>1. TypeOK' /\ CursorInv'
  BY TypeStep
<1>2. CASE UNCHANGED vars
  <2>1. UNCHANGED <<header, appender, queue, consumer>>
    BY <1>2 DEF vars, memory
  <2>2. ASSUME NEW v \in Writers PROVE RingInv(v)'
    BY <2>1, RingFrame, WriterUnchanged, ConsumerUnchanged DEF SameMemory, IInv
  <2> QED
    BY <1>1, <2>2 DEF IInv
<1>3. ASSUME NEW w \in Writers, NEW n \in AppendSizes, Append_(w, n) PROVE IInv'
  BY <1>1, <1>3, AppendRing DEF IInv
<1>4. ASSUME NEW w \in Writers, Close(w) PROVE IInv'
  BY <1>1, <1>4, HeaderWriteRing DEF IInv
<1>5. ASSUME NEW w \in Writers, WriterStep(w) PROVE IInv'
  <2>1. \A v \in Writers : RingInv(v)'
    BY <1>5, CopyRing, HeaderWriteRing, AppendRing, FetchHeaderRing, FetchFlagsRing DEF WriterStep
  <2> QED
    BY <1>1, <2>1 DEF IInv
<1>6. ASSUME NEW w \in Writers, NicStep(w) PROVE IInv'
  <2>1. \A v \in Writers : RingInv(v)'
    BY <1>6, LandDataRing, LandCounterRing, LandFlagsRing DEF NicStep
  <2> QED
    BY <1>1, <2>1 DEF IInv
<1>7. CASE ConsumerStep
  <2>1. \A v \in Writers : RingInv(v)'
    BY <1>7, SearchRing, FoundSegmentRing, MarkRing, TakeRing, UseRing DEF ConsumerStep
  <2> QED
    BY <1>1, <2>1 DEF IInv
<1> QED
  BY <1>2, <1>3, <1>4, <1>5, <1>6, <1>7 DEF Next

\* IInv holds in every reachable state of the writers, their queue pairs and the
\* iterator, for any number of rings of two or more segments.
THEOREM Invariance ==
  ASSUME N >= 2
  PROVE  Spec => []IInv
<1>1. Init => IInv
  BY InitType, InitRing DEF IInv
<1>2. IInv /\ [Next]_vars => IInv'
  BY InductiveStep
<1> QED
  BY <1>1, <1>2, PTL DEF Spec

\* The variables keep their types; in particular no request of writeToSegment reaches
\* beyond its segment or beyond the internal buffer.
THEOREM TypeCorrect ==
  ASSUME N >= 2
  PROVE  Spec => []TypeOK
<1>1. IInv => TypeOK
  BY DEF IInv
<1> QED
  BY <1>1, Invariance, PTL

\* The segment next() has returned is the consumer's alone until mark_prev_segment has
\* set it writeable: getNextSegment does not let the writer in before.
THEOREM Exclusive ==
  ASSUME N >= 2
  PROVE  Spec => []SegmentExclusive
<1>1. ASSUME IInv, NEW w \in Writers, prev[w] # NoSeg, ~Released(w)
      PROVE  ~header[w][seg[w]].C => seg[w] # prev[w]
  <2>1. TypeOK /\ RingInv(w) /\ Kept(w) = prev[w]
    BY <1>1 DEF IInv, Kept
  <2>2. CASE header[w][prev[w]].C
    BY <2>2
  <2>3. CASE ~header[w][prev[w]].C
    <3>1. Taking(w)
      BY <1>1, <2>1, <2>3 DEF RingInv, FlagsInv
    <3> QED
      BY <1>1, <2>1, <3>1, KeptIsBehind
  <2> QED
    BY <2>2, <2>3
<1>2. ASSUME IInv, NEW w \in Writers, prev[w] # NoSeg, ~Released(w)
      PROVE  /\ wpc[w] \in {"idle", "super_append", "drain", "full"} => seg[w] # prev[w]
             /\ \A i \in DOMAIN sq[w] : sq[w][i].kind = "data" => sq[w][i].seg # prev[w]
  <2>1. RingInv(w)
    BY <1>2 DEF IInv
  <2>2. wpc[w] \in {"idle", "super_append", "drain", "full"} => seg[w] # prev[w]
    BY <1>1, <1>2, <2>1 DEF RingInv, WriterInv, Filling
  <2>3. ASSUME NEW i \in DOMAIN sq[w], sq[w][i].kind = "data"
        PROVE  sq[w][i].seg # prev[w]
    <3>1. ~header[w][seg[w]].C /\ sq[w][i].seg = seg[w]
      BY <2>1, <2>3 DEF RingInv, WriterInv, QueueInv
    <3> QED
      BY <1>1, <1>2, <3>1
  <2> QED
    BY <2>2, <2>3
<1>3. IInv => SegmentExclusive
  BY <1>2 DEF SegmentExclusive
<1> QED
  BY <1>3, Invariance, PTL

\* When has_next() has returned true, next() finds the segment consumable.
THEOREM ElementIsThere ==
  ASSUME N >= 2
  PROVE  Spec => []NextElementIsThere
<1>1. IInv => NextElementIsThere
  <2> SUFFICES ASSUME IInv, cpc = "take" PROVE header[live[pos]][iter[live[pos]]].C
    BY DEF NextElementIsThere
  <2>1. live[pos] \in Writers
    BY DEF IInv, TypeOK, ConsumerType, CursorInv
  <2> QED
    BY <2>1 DEF IInv, RingInv, ConsumerInv, Taking
<1> QED
  BY <1>1, Invariance, PTL

\* The send queue of a writer never holds more requests than it was created for:
\* checkSignaled makes the writer wait in time.
THEOREM QueueBounded ==
  ASSUME N >= 2
  PROVE  Spec => []SendQueueBounded
<1>1. IInv => SendQueueBounded
  <2> SUFFICES ASSUME IInv, NEW w \in Writers PROVE Len(sq[w]) <= MaxWR
    BY DEF SendQueueBounded
  <2>1. /\ countWR[w] \in 0 .. MaxWR - 1 /\ Len(sq[w]) \in Nat
    BY DEF IInv, TypeOK, QueueType
  <2> QED
    BY <2>1, ConstantsAssumption DEF IInv, RingInv, QueueInv
<1> QED
  BY <1>1, Invariance, PTL


-----------------------------------------------------------------------------
(***************************************************************************)
(* Requests and bytes.                                                     *)
(***************************************************************************)

\* The bytes of one more segment.
LEMMA BytesFacts ==
  /\ Bytes(0) = 0
  /\ \A d \in Nat : Bytes(d) \in Nat /\ Bytes(d + 1) = Bytes(d) + SegSize
<1>1. SegSize \in Nat
  BY ConstantsAssumption
<1>2. \A d \in Nat : d * SegSize \in Nat /\ (d + 1) * SegSize = d * SegSize + SegSize
  BY <1>1
<1>3. 0 * SegSize = 0
  BY <1>1
<1> QED
  BY <1>2, <1>3 DEF Bytes

\* The fields of a data request.
LEMMA DataFields ==
  ASSUME NEW r \in WorkRequest, r.kind = "data"
  PROVE  /\ r.off \in Nat /\ r.src \in Nat /\ r.len \in Nat
         /\ r.off + r.len <= SegSize /\ r.src + r.len <= IBufSize
         /\ r.seg \in Segs
  BY ConstantsAssumption DEF WorkRequest, DataRequest, HeaderRequest

\* What Append and Tail do to the elements of a queue.
LEMMA AppendElements ==
  ASSUME NEW S, NEW q \in Seq(S), NEW r \in S, NEW q2, q2 = Append(q, r)
  PROVE  /\ q2 \in Seq(S) /\ Len(q) \in Nat /\ Len(q2) = Len(q) + 1
         /\ DOMAIN q = 1 .. Len(q) /\ DOMAIN q2 = 1 .. Len(q) + 1
         /\ q2[Len(q) + 1] = r
         /\ \A i \in DOMAIN q : i \in DOMAIN q2 /\ q2[i] = q[i]
         /\ \A i \in DOMAIN q2 : i \in DOMAIN q \/ i = Len(q) + 1
  OBVIOUS

\* The elements of a sequence without its head.
LEMMA TailElements ==
  ASSUME NEW S, NEW q \in Seq(S), q # << >>, NEW q2, q2 = Tail(q)
  PROVE  /\ q2 \in Seq(S)
         /\ 1 \in DOMAIN q /\ q[1] = Head(q)
         /\ \A i \in DOMAIN q2 : i \in Nat /\ i + 1 \in DOMAIN q /\ q2[i] = q[i + 1]
         /\ \A i \in DOMAIN q : i # 1 => i - 1 \in DOMAIN q2 /\ q2[i - 1] = q[i]
  OBVIOUS

\* writeToSegment posts n bytes that it has copied behind the ones still to be read,
\* or to the front of the internal buffer if there are none.
LEMMA PostData ==
  ASSUME NEW q \in Seq(WorkRequest), NEW m \in [0 .. IBufSize - 1 -> Nat],
         NEW at \in 0 .. IBufSize, NEW p, NEW u \in 0 .. SegSize, NEW b \in Int,
         InFlight(q, m, at, p, u, b),
         NEW r \in WorkRequest, r.kind = "data", r.off = u,
         NEW src \in Nat, r.src = src, src = at \/ q = << >>,
         NEW n \in Nat, r.len = n,
         NEW q2, q2 = Append(q, r), NEW m2, m2 = Memcpy(m, src, n, b + u)
  PROVE  InFlight(q2, m2, src + n, p, u + n, b)
<1>1. u + n <= SegSize /\ src + n <= IBufSize
  BY DataFields
<1>2. IBufSize \in Nat /\ SegSize \in Nat
  BY ConstantsAssumption
<1>3. /\ q2 \in Seq(WorkRequest) /\ Len(q) \in Nat
      /\ DOMAIN q = 1 .. Len(q) /\ DOMAIN q2 = 1 .. Len(q) + 1
      /\ q2[Len(q) + 1] = r
      /\ \A i \in DOMAIN q : i \in DOMAIN q2 /\ q2[i] = q[i]
      /\ \A i \in DOMAIN q2 : i \in DOMAIN q \/ i = Len(q) + 1
  BY AppendElements
<1>4. ASSUME NEW i \in DOMAIN q, q[i].kind = "data"
      PROVE  \E x \in Nat, y \in Nat, z \in Nat :
               /\ q[i].src = x /\ q[i].len = y /\ q[i].off = z
               /\ x + y <= src /\ z + y <= u
               /\ \A k \in 0 .. y - 1 : m[x + k] = b + z + k + 1
  <2>1. q[i] \in WorkRequest
    BY <1>3
  <2>2. q[i].src \in Nat /\ q[i].len \in Nat /\ q[i].off \in Nat
    BY <1>4, <2>1, DataFields
  <2>3. q # << >>
    BY <1>4
  <2>4. Loaded(q[i], m, at, u, b)
    BY <1>4 DEF InFlight
  <2>5. q[i].src + q[i].len <= at /\ q[i].off + q[i].len <= u
    BY <1>4, <2>4 DEF Loaded
  <2>6. \A k \in 0 .. q[i].len - 1 : m[q[i].src + k] = b + q[i].off + k + 1
    BY <1>4, <2>4 DEF Loaded
  <2>7. q[i].src + q[i].len <= src
    BY <2>3, <2>5
  <2> QED
    BY <2>2, <2>5, <2>6, <2>7
<1>5. ASSUME NEW i \in DOMAIN q2 PROVE Loaded(q2[i], m2, src + n, u + n, b)
  <2>1. CASE i = Len(q) + 1
    <3>1. ASSUME NEW k \in 0 .. n - 1 PROVE m2[src + k] = b + u + k + 1
      <4>1. src + k \in 0 .. IBufSize - 1 /\ src <= src + k /\ src + k < src + n
        BY <1>1, <1>2
      <4>2. m2[src + k] = (b + u) + ((src + k) - src) + 1
        BY <4>1 DEF Memcpy
      <4> QED
        BY <1>1, <4>2
    <3>2. \A k \in 0 .. r.len - 1 : m2[r.src + k] = b + r.off + k + 1
      BY <3>1, Zenon
    <3>3. r.src + r.len <= src + n /\ r.off + r.len <= u + n
      BY <1>1, <1>2
    <3> QED
      BY <1>3, <2>1, <3>2, <3>3 DEF Loaded
  <2>2. CASE i \in DOMAIN q
    <3> SUFFICES ASSUME q[i].kind = "data" PROVE Loaded(q[i], m2, src + n, u + n, b)
      BY <1>3, <2>2 DEF Loaded
    <3>1. PICK x \in Nat, y \in Nat, z \in Nat :
             /\ q[i].src = x /\ q[i].len = y /\ q[i].off = z
             /\ x + y <= src /\ z + y <= u
             /\ \A k \in 0 .. y - 1 : m[x + k] = b + z + k + 1
      BY <1>4, <2>2
    <3>2. ASSUME NEW k \in 0 .. y - 1 PROVE m2[x + k] = m[x + k]
      <4>1. x + k \in 0 .. IBufSize - 1 /\ ~(src <= x + k)
        BY <1>1, <1>2, <3>1
      <4> QED
        BY <4>1 DEF Memcpy
    <3>3. x + y <= src + n /\ z + y <= u + n
      BY <3>1
    <3> QED
      BY <3>1, <3>2, <3>3 DEF Loaded
  <2> QED
    BY <1>3, <2>1, <2>2
<1>6. Ordered(q2)
  <2> SUFFICES ASSUME NEW i \in DOMAIN q2, NEW j \in DOMAIN q2, i < j,
                      q2[i].kind = "data", q2[j].kind = "data"
               PROVE  q2[i].src + q2[i].len <= q2[j].src
    BY DEF Ordered
  <2>1. i \in DOMAIN q
    BY <1>3
  <2>2. CASE j = Len(q) + 1
    BY <1>3, <1>4, <2>1, <2>2
  <2>3. CASE j \in DOMAIN q
    BY <1>3, <2>1, <2>3 DEF InFlight, Ordered
  <2> QED
    BY <1>3, <2>2, <2>3
<1>7. Filled(p, q2, u + n, b)
  <2> SUFFICES ASSUME NEW o \in 0 .. u + n - 1
               PROVE  p[o] = b + o + 1 \/ \E i \in DOMAIN q2 : Covers(q2[i], o)
    BY DEF Filled
  <2>1. CASE o < u
    <3>1. o \in 0 .. u - 1
      BY <1>1, <2>1
    <3>2. p[o] = b + o + 1 \/ \E i \in DOMAIN q : Covers(q[i], o)
      BY <3>1 DEF InFlight, Filled
    <3> QED
      BY <1>3, <3>2
  <2>2. CASE ~(o < u)
    <3>1. Covers(r, o)
      BY <1>1, <2>2 DEF Covers
    <3>2. Len(q) + 1 \in DOMAIN q2
      BY <1>3
    <3> QED
      BY <1>3, <3>1, <3>2
  <2> QED
    BY <2>1, <2>2
<1> QED
  BY <1>5, <1>6, <1>7 DEF InFlight

\* A header write added to the queue changes nothing of this.
LEMMA PostHeader ==
  ASSUME NEW q \in Seq(WorkRequest), NEW m, NEW at, NEW p, NEW u, NEW b,
         InFlight(q, m, at, p, u, b),
         NEW r \in WorkRequest, r.kind = "header", NEW q2, q2 = Append(q, r)
  PROVE  InFlight(q2, m, at, p, u, b)
<1>1. /\ \A i \in DOMAIN q : i \in DOMAIN q2 /\ q2[i] = q[i]
      /\ \A i \in DOMAIN q2 : i \in DOMAIN q \/ i = Len(q) + 1
      /\ q2[Len(q) + 1] = r
  BY AppendElements
<1>2. \A i \in DOMAIN q2 : q2[i].kind = "data" => i \in DOMAIN q
  BY <1>1
<1>3. \A i \in DOMAIN q2 : Loaded(q2[i], m, at, u, b)
  BY <1>1, <1>2 DEF InFlight, Loaded
<1>4. Ordered(q2)
  BY <1>1, <1>2 DEF InFlight, Ordered
<1>5. Filled(p, q2, u, b)
  BY <1>1 DEF InFlight, Filled
<1> QED
  BY <1>3, <1>4, <1>5 DEF InFlight

\* The card executes the data request at the head of the queue.
LEMMA PopData ==
  ASSUME NEW q \in Seq(WorkRequest), q # << >>, Head(q).kind = "data",
         NEW m, NEW at, NEW p, NEW u \in 0 .. SegSize, NEW b \in Int,
         InFlight(q, m, at, p, u, b),
         NEW q2, q2 = Tail(q), NEW p2, p2 = Written(p, Head(q), m)
  PROVE  InFlight(q2, m, at, p2, u, b)
<1> DEFINE r == Head(q)
<1>1. /\ 1 \in DOMAIN q /\ q[1] = r
      /\ \A i \in DOMAIN q2 : i \in Nat /\ i + 1 \in DOMAIN q /\ q2[i] = q[i + 1]
      /\ \A i \in DOMAIN q : i # 1 => i - 1 \in DOMAIN q2 /\ q2[i - 1] = q[i]
  BY TailElements
<1>2. r \in WorkRequest /\ r.kind = "data"
  BY <1>1
<1> HIDE DEF r
<1>3. r.off \in Nat /\ r.src \in Nat /\ r.len \in Nat /\ r.off + r.len <= SegSize
  BY <1>2, DataFields
<1>4. \A k \in 0 .. r.len - 1 : m[r.src + k] = b + r.off + k + 1
  BY <1>1, <1>2 DEF InFlight, Loaded
<1>5. \A i \in DOMAIN q2 : Loaded(q2[i], m, at, u, b)
  BY <1>1 DEF InFlight
<1>6. Ordered(q2)
  <2> SUFFICES ASSUME NEW i \in DOMAIN q2, NEW j \in DOMAIN q2, i < j,
                      q2[i].kind = "data", q2[j].kind = "data"
               PROVE  q2[i].src + q2[i].len <= q2[j].src
    BY DEF Ordered
  <2>1. i + 1 \in DOMAIN q /\ j + 1 \in DOMAIN q /\ i + 1 < j + 1 /\ q2[i] = q[i + 1] /\ q2[j] = q[j + 1]
    BY <1>1
  <2> QED
    BY <2>1 DEF InFlight, Ordered
<1>7. Filled(p2, q2, u, b)
  <2> SUFFICES ASSUME NEW o \in 0 .. u - 1
               PROVE  p2[o] = b + o + 1 \/ \E i \in DOMAIN q2 : Covers(q2[i], o)
    BY DEF Filled
  <2>1. o \in 0 .. SegSize - 1
    BY ConstantsAssumption
  <2>2. p2[o] = IF r.off <= o /\ o < r.off + r.len THEN m[r.src + (o - r.off)] ELSE p[o]
    BY <2>1 DEF Written, r
  <2>3. CASE r.off <= o /\ o < r.off + r.len
    <3>1. o - r.off \in 0 .. r.len - 1
      BY <1>3, <2>1, <2>3
    <3>2. m[r.src + (o - r.off)] = b + r.off + (o - r.off) + 1
      BY <1>4, <3>1
    <3> QED
      BY <1>3, <2>2, <2>3, <3>2
  <2>4. CASE ~(r.off <= o /\ o < r.off + r.len)
    <3>1. p[o] = b + o + 1 \/ \E i \in DOMAIN q : Covers(q[i], o)
      BY DEF InFlight, Filled
    <3>2. CASE p[o] = b + o + 1
      BY <2>2, <2>4, <3>2
    <3>3. ASSUME NEW i \in DOMAIN q, Covers(q[i], o) PROVE \E j \in DOMAIN q2 : Covers(q2[j], o)
      <4>1. i # 1
        BY <1>1, <2>4, <3>3 DEF Covers
      <4> QED
        BY <1>1, <3>3, <4>1
    <3> QED
      BY <3>1, <3>2, <3>3
  <2> QED
    BY <2>3, <2>4
<1> QED
  BY <1>5, <1>6, <1>7 DEF InFlight

\* A header write that was all there was in the queue leaves all bytes in the payload.
LEMMA PopHeader ==
  ASSUME NEW q \in Seq(WorkRequest), q # << >>, Head(q).kind = "header", Tail(q) = << >>,
         NEW m, NEW at, NEW p, NEW u, NEW b, InFlight(q, m, at, p, u, b)
  PROVE  Holds(p, u, b) /\ InFlight(<< >>, m, at, p, u, b)
<1>1. \A i \in DOMAIN q : q[i].kind = "header"
  <2>1. \A i \in DOMAIN q : i = 1
    BY TailElements
  <2> QED
    BY <2>1, TailElements
<1>2. Holds(p, u, b)
  BY <1>1 DEF InFlight, Filled, Covers, Holds
<1>3. Ordered(<< >>)
  BY DEF Ordered
<1>4. Filled(p, << >>, u, b)
  BY <1>2 DEF Filled, Holds
<1>5. \A i \in DOMAIN << >> : Loaded(<< >>[i], m, at, u, b)
  OBVIOUS
<1> QED
  BY <1>2, <1>3, <1>4, <1>5 DEF InFlight

-----------------------------------------------------------------------------
(***************************************************************************)
(* A step that leaves the bytes of a ring alone keeps its invariant.       *)
(***************************************************************************)

\* The segments of ring v, what its writer has copied and its internal buffer.
SameBytes(v) ==
  /\ payload'[v] = payload[v] /\ sent'[v] = sent[v] /\ sizeUsed'[v] = sizeUsed[v]
  /\ ibuf'[v] = ibuf[v] /\ ioff'[v] = ioff[v]

\* What append still has to copy.
SameChunk(v) == size'[v] = size[v] /\ left'[v] = left[v]

\* The application holds a segment of ring v.
InUse(v) == cpc = "use" /\ held.ring = v

\* The segment the iterator reads next in ring v, and the one it handed out last.
SamePlace(v) == iter'[v] = iter[v] /\ prev'[v] = prev[v] /\ Kept(v)' = Kept(v)

\* What the application has read of ring v and holds of it.
SameHand(v) ==
  /\ consumed'[v] = consumed[v]
  /\ InUse(v)' <=> InUse(v)
  /\ InUse(v) => held' = held

\* Then the bytes handed out are the same,
LEMMA TakenFrame ==
  ASSUME NEW v, SameHand(v)
  PROVE  Taken(v)' = Taken(v)
<1>1. Taken(v) = Len(consumed[v]) + (IF InUse(v) THEN held.size ELSE 0)
  BY DEF Taken, InUse
<1>2. Taken(v)' = Len(consumed'[v]) + (IF InUse(v)' THEN held'.size ELSE 0)
  BY DEF Taken, InUse
<1> QED
  BY <1>1, <1>2 DEF SameHand

\* the segments not handed out continue them,
LEMMA StreamFrame ==
  ASSUME NEW v \in Writers, StreamInv(v), SameMemory(v), SamePlace(v), SameHand(v),
         payload'[v] = payload[v], sent'[v] = sent[v], sizeUsed'[v] = sizeUsed[v]
  PROVE  StreamInv(v)'
<1>1. Kept(v)' = Kept(v)
  BY DEF SamePlace
<1>2. Taken(v)' = Taken(v)
  BY TakenFrame
<1>3. \A s \in Segs : PublishedInv(v, s) => PublishedInv(v, s)'
  BY <1>2 DEF PublishedInv, SameMemory, SamePlace
<1>4. \A s \in Segs : (s # Kept(v) /\ header[v][s].C => PublishedInv(v, s))'
  BY <1>1, <1>3 DEF StreamInv, SameMemory
<1>5. (sent[v] = IF Kept(v) = seg[v] THEN Taken(v)
                 ELSE Taken(v) + Bytes(Dist(iter[v], seg[v])) + sizeUsed[v])'
  BY <1>1, <1>2 DEF StreamInv, SameMemory, SamePlace
<1>6. (cpc = "use" /\ held.ring = v =>
         prev[v] = held.seg /\ Holds(payload[v][held.seg], held.size, Len(consumed[v])))'
  BY DEF StreamInv, SameHand, InUse, SamePlace
<1>7. (\A i \in DOMAIN consumed[v] : consumed[v][i] = i)'
  BY DEF StreamInv, SameHand
<1> QED
  BY <1>4, <1>5, <1>6, <1>7 DEF StreamInv

\* and the whole invariant of the ring is kept.
LEMMA BytesFrame ==
  ASSUME NEW v \in Writers, BytesInv(v), SameMemory(v), SameWriter(v), SamePlace(v),
         SameHand(v), SameBytes(v), SameChunk(v)
  PROVE  BytesInv(v)'
<1>1. StreamInv(v)'
  BY StreamFrame DEF BytesInv, SameBytes
<1>2. InFlightInv(v)'
  BY DEF BytesInv, InFlightInv, SameMemory, SameWriter, SameBytes
<1>3. WordsInv(v)'
  BY DEF BytesInv, WordsInv, SameMemory, SameWriter, SameBytes, SameChunk
<1> QED
  BY <1>1, <1>2, <1>3 DEF BytesInv

\* A step that leaves the iterator alone.
LEMMA HandUnchanged ==
  ASSUME UNCHANGED consumer
  PROVE  (\A v \in Writers : SamePlace(v) /\ SameHand(v)) /\ (LiveInv => LiveInv')
  BY DEF consumer, SamePlace, Kept, Released, SameHand, InUse, LiveInv

\* What a step of writer w that does not leave its segment has to show.
LEMMA WriterBytes ==
  ASSUME DataInv, NEW w \in Writers, UNCHANGED <<memory, consumer>>,
         \A v \in Writers \ {w} :
           SameWriter(v) /\ seg'[v] = seg[v] /\ SameBytes(v) /\ SameChunk(v),
         BytesInv(w)'
  PROVE  LiveInv' /\ \A v \in Writers : BytesInv(v)'
<1>1. ASSUME NEW v \in Writers \ {w} PROVE BytesInv(v)'
  <2>1. SameMemory(v) /\ SamePlace(v) /\ SameHand(v) /\ BytesInv(v)
    BY HandUnchanged DEF memory, SameMemory, DataInv
  <2> QED
    BY <2>1, BytesFrame
<1>2. LiveInv'
  BY HandUnchanged DEF DataInv
<1> QED
  BY <1>1, <1>2

-----------------------------------------------------------------------------
(***************************************************************************)
(* Steps of a writer.                                                      *)
(***************************************************************************)

\* A segment that is not consumable is not the one the consumer keeps.
LEMMA FillingNotKept ==
  ASSUME N >= 2, IInv, NEW w \in Writers, ~header[w][seg[w]].C
  PROVE  Kept(w) # seg[w]
<1> SUFFICES ASSUME Kept(w) = seg[w] PROVE FALSE
  OBVIOUS
<1>1. TypeOK /\ RingInv(w) /\ seg[w] \in Segs
  BY DEF IInv, TypeOK, AppenderType
<1>2. Kept(w) # NoSeg
  BY <1>1, SuccFacts
<1>3. Taking(w)
  BY <1>1, <1>2 DEF RingInv, FlagsInv
<1> QED
  BY <1>1, <1>2, <1>3, KeptIsBehind

\* append takes its bytes, or finds that the current segment has no room: no byte is copied.
LEMMA AppendCallBytes ==
  ASSUME DataInv, NEW w \in Writers,
         \/ \E n \in AppendSizes : Append_(w, n)
         \/ NoRoom(w)
  PROVE  LiveInv' /\ \A v \in Writers : BytesInv(v)'
<1>1. TypeOK /\ BytesInv(w)
  BY DEF DataInv, IInv
<1>2. /\ wpc[w] \in {"idle", "super_append"} /\ wpc'[w] \in {"super_append", "full"}
      /\ UNCHANGED <<memory, sent, seg, sizeUsed, hdr, nextSeg, ibuf, ioff, queue, consumer>>
  BY <1>1 DEF Append_, NoRoom, TypeOK, AppenderType
<1>3. \A v \in Writers \ {w} : SameWriter(v) /\ seg'[v] = seg[v] /\ SameBytes(v) /\ SameChunk(v)
  BY <1>1, <1>2 DEF Append_, NoRoom, SameWriter, SameBytes, SameChunk, TypeOK, AppenderType,
     queue, memory
<1>4. wpc'[w] = "full" => sizeUsed[w] = SegSize
  <2>1. sizeUsed[w] \in 0 .. SegSize
    BY <1>1 DEF TypeOK, AppenderType
  <2> QED
    BY <1>1, <2>1, ConstantsAssumption DEF Append_, NoRoom, Part, TypeOK, AppenderType
<1>5. InFlightInv(w)'
  BY <1>1, <1>2 DEF BytesInv, InFlightInv, queue, memory
<1>6. WordsInv(w)'
  BY <1>1, <1>2, <1>4 DEF BytesInv, WordsInv, queue, memory
<1>7. StreamInv(w)'
  <2>1. SameMemory(w) /\ SamePlace(w) /\ SameHand(w)
    BY <1>2, HandUnchanged DEF memory, SameMemory
  <2> QED
    BY <1>1, <1>2, <2>1, StreamFrame DEF BytesInv, memory
<1> QED
  BY <1>2, <1>3, <1>5, <1>6, <1>7, WriterBytes DEF BytesInv

\* writeToSegment.
LEMMA CopyBytes ==
  ASSUME N >= 2, DataInv, NEW w \in Writers, WriteToSegment(w) \/ WriteFromFront(w)
  PROVE  LiveInv' /\ \A v \in Writers : BytesInv(v)'
<1>1. /\ IInv /\ TypeOK /\ BytesInv(w) /\ RingInv(w)
      /\ sizeUsed[w] \in 0 .. SegSize /\ left[w] \in 0 .. IBufSize /\ size[w] \in Nat
      /\ sent[w] \in Nat /\ seg[w] \in Segs /\ ibuf[w] \in [0 .. IBufSize - 1 -> Nat]
      /\ ioff[w] \in 0 .. IBufSize /\ sq[w] \in Seq(WorkRequest)
  BY DEF DataInv, IInv, TypeOK, AppenderType, QueueType
<1>2. IBufSize \in Nat /\ SegSize \in Nat
  BY ConstantsAssumption
<1>3. wpc[w] \in {"super_append", "drain"} /\ Ready(w)
  BY DEF WriteToSegment, WriteFromFront
<1>4. PICK n \in Nat : n = Part(w) /\ sizeUsed[w] + n <= SegSize /\ n <= IBufSize
  <2>1. Part(w) \in Nat /\ sizeUsed[w] + Part(w) <= SegSize /\ Part(w) <= IBufSize
    <3>1. PICK u \in Nat, l \in Nat :
            u = sizeUsed[w] /\ l = left[w] /\ u <= SegSize /\ l <= IBufSize
      BY <1>1, <1>2
    <3>2. Part(w) = IF u + l <= SegSize THEN l ELSE SegSize - u
      BY <3>1 DEF Part, Fits
    <3>3. \E n \in Nat : /\ n = IF u + l <= SegSize THEN l ELSE SegSize - u
                         /\ u + n <= SegSize /\ n <= IBufSize
      BY <1>2, <3>1
    <3> QED
      BY <3>1, <3>2, <3>3
  <2> QED
    BY <2>1
<1>5. PICK at \in 0 .. IBufSize : /\ CopyAndWrite(w, at) /\ at + n <= IBufSize
                                  /\ at = ioff[w] \/ sq[w] = << >>
  <2>1. CASE WriteToSegment(w)
    BY <1>1, <1>4, <2>1 DEF WriteToSegment
  <2>2. CASE WriteFromFront(w)
    <3>1. sq[w] = << >>
      BY <1>1, <2>2 DEF WriteFromFront, Ready, RingInv, QueueInv
    <3>2. 0 \in 0 .. IBufSize /\ 0 + n <= IBufSize
      BY <1>2, <1>4
    <3> QED
      BY <2>2, <3>1, <3>2 DEF WriteFromFront
  <2> QED
    BY <2>1, <2>2
<1> DEFINE r == [kind |-> "data", seg |-> seg[w], off |-> sizeUsed[w], src |-> at, len |-> n]
<1>6. r \in WorkRequest
  BY <1>1, <1>2, <1>4, <1>5 DEF WorkRequest, DataRequest
<1>7. /\ ibuf'[w] = Memcpy(ibuf[w], at, n, sent[w])
      /\ ioff'[w] = at + n /\ sent'[w] = sent[w] + n /\ sizeUsed'[w] = sizeUsed[w] + n
      /\ sq'[w] = Append(sq[w], r)
      /\ UNCHANGED <<landing, memory, seg, hdr, nextSeg, consumer>>
  BY <1>1, <1>4, <1>5 DEF CopyAndWrite, Post, TypeOK, AppenderType, QueueType
<1>8. \A v \in Writers \ {w} : SameWriter(v) /\ seg'[v] = seg[v] /\ SameBytes(v) /\ SameChunk(v)
  <2>1. \A v \in Writers \ {w} : SameBytes(v) /\ SameChunk(v) /\ wpc'[v] = wpc[v]
    BY <1>1, <1>5 DEF CopyAndWrite, SameBytes, SameChunk, TypeOK, AppenderType, memory
  <2>2. \A v \in Writers \ {w} : sq'[v] = sq[v] /\ countWR'[v] = countWR[v] /\ signaled'[v] = signaled[v]
    BY <1>1, <1>5 DEF CopyAndWrite, Post, CheckSignaled, TypeOK, QueueType
  <2> QED
    BY <1>7, <2>1, <2>2 DEF SameWriter
<1>9. ~header[w][seg[w]].C
  BY <1>1, <1>3 DEF RingInv, WriterInv, Filling
<1>10. InFlightInv(w)'
  <2> DEFINE b == sent[w] - sizeUsed[w]
  <2>1. b \in Int /\ b + sizeUsed[w] = sent[w] /\ sent'[w] - sizeUsed'[w] = b
    BY <1>1, <1>7
  <2>2. /\ r.kind = "data" /\ r.off = sizeUsed[w] /\ r.src = at /\ r.len = n
    OBVIOUS
  <2>3. InFlight(sq[w], ibuf[w], ioff[w], payload[w][seg[w]], sizeUsed[w], b)
    BY <1>1 DEF BytesInv, InFlightInv
  <2>4. ibuf'[w] = Memcpy(ibuf[w], at, n, b + sizeUsed[w])
    BY <1>7, <2>1
  <2> HIDE DEF b, r
  <2>5. at \in Nat
    BY <1>2, <1>5
  <2>6. InFlight(sq'[w], ibuf'[w], at + n, payload[w][seg[w]], sizeUsed[w] + n, b)
    <3>1. PICK q, m, p, u, q2, m2 :
            /\ q = sq[w] /\ m = ibuf[w] /\ p = payload[w][seg[w]] /\ u = sizeUsed[w]
            /\ q2 = sq'[w] /\ m2 = ibuf'[w]
      OBVIOUS
    <3>2. /\ q \in Seq(WorkRequest) /\ m \in [0 .. IBufSize - 1 -> Nat] /\ u \in 0 .. SegSize
          /\ q2 = Append(q, r) /\ m2 = Memcpy(m, at, n, b + u)
          /\ r.off = u /\ (at = ioff[w] \/ q = << >>)
      BY <1>1, <1>5, <1>7, <2>2, <2>4, <3>1
    <3>3. InFlight(q, m, ioff[w], p, u, b)
      BY <2>3, <3>1
    <3>4. InFlight(q2, m2, at + n, p, u + n, b)
      BY <1>1, <1>6, <2>1, <2>2, <2>5, <3>2, <3>3, PostData
    <3> QED
      BY <3>1, <3>4
  <2>7. payload'[w][seg'[w]] = payload[w][seg[w]]
    BY <1>7 DEF memory
  <2> QED
    BY <1>7, <2>1, <2>6, <2>7 DEF InFlightInv
<1> HIDE DEF r
<1>11. /\ wpc'[w] \in {"idle", "super_append", "full"}
       /\ wpc'[w] = "full" => sizeUsed'[w] = SegSize
       /\ wpc'[w] = "idle" => left'[w] = 0 /\ size'[w] = 0
  <2>1. CASE Fits(w)
    <3>1. /\ wpc'[w] = (IF size[w] > 0 THEN "super_append" ELSE "idle")
          /\ left'[w] = Chunk(size[w]) /\ size'[w] = size[w] - Chunk(size[w])
      BY <1>1, <1>5, <2>1 DEF CopyAndWrite, TypeOK, AppenderType
    <3> QED
      BY <1>1, <1>2, <3>1 DEF Chunk
  <2>2. CASE ~Fits(w)
    <3>1. wpc'[w] = "full"
      BY <1>1, <1>5, <2>2 DEF CopyAndWrite, TypeOK, AppenderType
    <3>2. n = SegSize - sizeUsed[w]
      BY <1>4, <2>2 DEF Part
    <3> QED
      BY <1>1, <1>2, <1>7, <3>1, <3>2
  <2> QED
    BY <2>1, <2>2
<1>12. ~landing[w]
  BY <1>1, <1>3, ReadyQueue DEF RingInv
<1>13. WordsInv(w)'
  BY <1>1, <1>3, <1>7, <1>9, <1>11, <1>12 DEF BytesInv, WordsInv, memory
<1>14. StreamInv(w)'
  <2>1. Kept(w) # seg[w] /\ Kept(w)' = Kept(w) /\ Taken(w)' = Taken(w)
    BY <1>1, <1>7, <1>9, FillingNotKept, HandUnchanged, TakenFrame DEF SamePlace
  <2>2. ASSUME NEW s \in Segs, s # Kept(w), header[w][s].C PROVE PublishedInv(w, s)'
    <3>1. s # seg[w] /\ PublishedInv(w, s)
      BY <1>1, <1>9, <2>2 DEF BytesInv, StreamInv
    <3> QED
      BY <1>7, <2>1, <3>1 DEF PublishedInv, memory, consumer
  <2>3. sent'[w] = Taken(w) + Bytes(Dist(iter[w], seg[w])) + sizeUsed'[w]
    <3>1. sent[w] = Taken(w) + Bytes(Dist(iter[w], seg[w])) + sizeUsed[w]
      BY <1>1, <2>1 DEF BytesInv, StreamInv
    <3>2. Taken(w) \in Int
      BY <1>1 DEF Taken, TypeOK, ConsumerType
    <3>3. Bytes(Dist(iter[w], seg[w])) \in Int
      <4>1. iter[w] \in Segs
        BY <1>1 DEF TypeOK, ConsumerType
      <4>2. Dist(iter[w], seg[w]) \in Nat
        BY <1>1, <4>1, DistFacts, ConstantsAssumption
      <4> QED
        BY <4>2, BytesFacts
    <3> QED
      BY <1>1, <1>7, <3>1, <3>2, <3>3
  <2> QED
    BY <1>1, <1>7, <2>1, <2>2, <2>3 DEF BytesInv, StreamInv, memory, consumer
<1> QED
  BY <1>7, <1>8, <1>10, <1>13, <1>14, WriterBytes DEF BytesInv

\* The header is written: in the middle of a segment, to publish it, or by close.
LEMMA HeaderWriteBytes ==
  ASSUME DataInv, NEW w \in Writers, DrainInternalBuffer(w) \/ PublishSegment(w) \/ Close(w)
  PROVE  LiveInv' /\ \A v \in Writers : BytesInv(v)'
<1>1. /\ TypeOK /\ BytesInv(w) /\ RingInv(w)
      /\ hdr[w] \in Header /\ seg[w] \in Segs /\ sq[w] \in Seq(WorkRequest)
  BY DEF DataInv, IInv, TypeOK, AppenderType, QueueType
<1>2. /\ Ready(w) /\ WriteHeaderToRemote(w)
      /\ UNCHANGED <<memory, size, left, sent, seg, sizeUsed, ibuf, ioff, consumer>>
  BY DEF DrainInternalBuffer, PublishSegment, Close
<1> DEFINE r == [kind |-> "header", seg |-> seg[w]]
<1>3. /\ r \in WorkRequest /\ r.kind = "header"
      /\ sq'[w] = Append(sq[w], r) /\ landing' = landing
  BY <1>1, <1>2 DEF WriteHeaderToRemote, Post, TypeOK, QueueType, WorkRequest, HeaderRequest
<1>4. \A v \in Writers \ {w} : SameWriter(v) /\ seg'[v] = seg[v] /\ SameBytes(v) /\ SameChunk(v)
  <2>1. \A v \in Writers \ {w} : SameWriter(v)
    BY <1>1, <1>2 DEF DrainInternalBuffer, PublishSegment, Close, WriteHeaderToRemote, Post,
       CheckSignaled, SameWriter, TypeOK, AppenderType, QueueType
  <2> QED
    BY <1>2, <2>1 DEF SameBytes, SameChunk, memory
<1> HIDE DEF r
<1>5. InFlightInv(w)'
  <2>1. InFlight(sq'[w], ibuf[w], ioff[w], payload[w][seg[w]], sizeUsed[w], sent[w] - sizeUsed[w])
    BY <1>1, <1>3, PostHeader DEF BytesInv, InFlightInv
  <2> QED
    BY <1>2, <2>1 DEF InFlightInv, memory
<1>6. ~landing[w]
  BY <1>1, <1>2, ReadyQueue DEF RingInv
<1>7. WordsInv(w)'
  <2>1. CASE DrainInternalBuffer(w)
    <3>1. wpc[w] = "super_append" /\ wpc'[w] = "drain" /\ hdr' = hdr
      BY <1>1, <2>1 DEF DrainInternalBuffer, TypeOK, AppenderType
    <3> QED
      BY <1>1, <1>2, <1>3, <1>6, <3>1 DEF BytesInv, WordsInv, memory
  <2>2. CASE PublishSegment(w)
    <3>1. /\ wpc[w] = "full" /\ wpc'[w] = "fetch"
          /\ hdr'[w].E = hdr[w].E /\ hdr'[w].counter = sizeUsed[w]
      BY <1>1, <2>2 DEF PublishSegment, TypeOK, AppenderType, SetFlags, SetWords
    <3> QED
      BY <1>1, <1>2, <1>3, <1>6, <3>1 DEF BytesInv, WordsInv, memory
  <2>3. CASE Close(w)
    <3>1. /\ wpc[w] \in {"idle", "closed"} /\ wpc'[w] = "closed"
          /\ hdr'[w].E /\ hdr'[w].counter = sizeUsed[w]
      BY <1>1, <2>3 DEF Close, TypeOK, AppenderType, SetFlags, SetWords
    <3>2. wpc[w] = "idle" => ~header[w][seg[w]].C
      BY <1>1 DEF RingInv, WriterInv, Filling
    <3> QED
      BY <1>1, <1>2, <1>3, <1>6, <3>1, <3>2 DEF BytesInv, WordsInv, memory
  <2> QED
    BY <2>1, <2>2, <2>3
<1>8. StreamInv(w)'
  <2>1. SameMemory(w) /\ SamePlace(w) /\ SameHand(w)
    BY <1>2, HandUnchanged DEF memory, SameMemory
  <2> QED
    BY <1>1, <1>2, <2>1, StreamFrame DEF BytesInv, memory
<1> QED
  BY <1>2, <1>4, <1>5, <1>7, <1>8, WriterBytes DEF BytesInv

\* The read of the counter of the next segment.
LEMMA FetchHeaderBytes ==
  ASSUME DataInv, NEW w \in Writers, FetchHeader(w)
  PROVE  LiveInv' /\ \A v \in Writers : BytesInv(v)'
<1>1. TypeOK /\ BytesInv(w) /\ RingInv(w) /\ hdr[w] \in Header
  BY DEF DataInv, IInv, TypeOK, AppenderType
<1>2. /\ wpc[w] = "fetch" /\ wpc'[w] = "fetch_flags" /\ Ready(w)
      /\ hdr'[w].E = hdr[w].E
      /\ UNCHANGED <<memory, size, left, sent, seg, sizeUsed, ibuf, ioff, sq, landing, consumer>>
  BY <1>1 DEF FetchHeader, TypeOK, AppenderType, SetWords
<1>3. \A v \in Writers \ {w} : SameWriter(v) /\ seg'[v] = seg[v] /\ SameBytes(v) /\ SameChunk(v)
  <2>1. \A v \in Writers \ {w} : SameWriter(v)
    BY <1>1 DEF FetchHeader, CheckSignaled, SameWriter, TypeOK, AppenderType, QueueType
  <2> QED
    BY <1>2, <2>1 DEF SameBytes, SameChunk, memory
<1>4. ~landing[w]
  BY <1>1, <1>2, ReadyQueue DEF RingInv
<1>5. InFlightInv(w)'
  BY <1>1, <1>2 DEF BytesInv, InFlightInv, memory
<1>6. WordsInv(w)'
  BY <1>1, <1>2, <1>4 DEF BytesInv, WordsInv, memory
<1>7. StreamInv(w)'
  <2>1. SameMemory(w) /\ SamePlace(w) /\ SameHand(w)
    BY <1>2, HandUnchanged DEF memory, SameMemory
  <2> QED
    BY <1>1, <1>2, <2>1, StreamFrame DEF BytesInv, memory
<1> QED
  BY <1>2, <1>3, <1>5, <1>6, <1>7, WriterBytes DEF BytesInv

\* Where the segment is that the writer finds writeable.
LEMMA EnterDistance ==
  ASSUME N >= 2, TypeOK, NEW w \in Writers, RingInv(w), wpc[w] = "fetch_flags",
         header[w][nextSeg[w]].W
  PROVE  /\ Kept(w) # nextSeg[w] /\ ~header[w][nextSeg[w]].C
         /\ Kept(w) = seg[w] => Dist(iter[w], nextSeg[w]) = 0
         /\ Kept(w) # seg[w] => Dist(iter[w], nextSeg[w]) = Dist(iter[w], seg[w]) + 1
<1> DEFINE a == seg[w]
           b == nextSeg[w]
           i == iter[w]
           k == Kept(w)
<1>1. a \in Segs /\ b \in Segs /\ i \in Segs /\ k \in Segs \cup {NoSeg}
  BY DEF TypeOK, AppenderType, ConsumerType, Kept
<1>2. b = Succ(a) /\ header[w][a].C
  BY DEF RingInv, WriterInv
<1>3. k # b
  BY <1>1, SuccFacts DEF RingInv, FlagsInv
<1>4. ~header[w][b].C
  BY <1>1, <1>3 DEF RingInv, FlagsInv
<1>5. k # NoSeg => i = Succ(k)
  BY DEF RingInv, ConsumerInv, Kept
<1>6. ASSUME k = a PROVE Dist(i, b) = 0
  <2>1. i = b
    BY <1>1, <1>2, <1>5, <1>6, SuccFacts
  <2> QED
    BY <1>1, <2>1, DistFacts
<1>7. ASSUME k # a PROVE Dist(i, b) = Dist(i, a) + 1
  <2>1. NumFull(w) = Dist(i, a) + 1
    BY <1>2, <1>7 DEF NumFull
  <2>2. i # b
    <3> SUFFICES ASSUME i = b PROVE FALSE
      OBVIOUS
    <3>1. Dist(i, a) \in 0 .. N - 1 /\ Dist(i, b) = 0
      BY <1>1, DistFacts
    <3>2. Dist(i, b) < NumFull(w)
      BY <2>1, <3>1
    <3> QED
      BY <1>1, <1>3, <1>4, <3>2 DEF RingInv, FlagsInv
  <2> QED
    BY <1>1, <1>2, <2>2, DistFacts
<1> QED
  BY <1>3, <1>4, <1>6, <1>7

\* What has been handed out is a number of bytes.
LEMMA TakenType ==
  ASSUME TypeOK, NEW w \in Writers
  PROVE  Taken(w) \in Nat
<1>1. Len(consumed[w]) \in Nat
  BY DEF TypeOK, ConsumerType
<1>2. held.size \in Nat
  BY ConstantsAssumption DEF TypeOK, ConsumerType
<1> QED
  BY <1>1, <1>2 DEF Taken

\* The start of the segment the writer moves into is the end of the one it leaves.
LEMMA FetchFlagsBytes ==
  ASSUME N >= 2, DataInv, NEW w \in Writers, FetchFlags(w)
  PROVE  LiveInv' /\ \A v \in Writers : BytesInv(v)'
<1> DEFINE h == header[w][nextSeg[w]]
<1>1. /\ IInv /\ TypeOK /\ BytesInv(w) /\ RingInv(w) /\ hdr[w] \in Header /\ h \in Header
      /\ nextSeg[w] \in Segs /\ seg[w] \in Segs /\ iter[w] \in Segs
      /\ sizeUsed[w] \in 0 .. SegSize /\ sent[w] \in Nat
  <2>1. IInv /\ TypeOK /\ BytesInv(w) /\ RingInv(w)
    BY DEF DataInv, IInv
  <2>2. /\ nextSeg[w] \in Segs /\ seg[w] \in Segs /\ iter[w] \in Segs /\ hdr[w] \in Header
        /\ sizeUsed[w] \in 0 .. SegSize /\ sent[w] \in Nat
    BY <2>1 DEF TypeOK, AppenderType, ConsumerType
  <2>3. h \in Header
    BY <2>1, <2>2 DEF TypeOK, MemoryType
  <2> QED
    BY <2>1, <2>2, <2>3
<1>2. /\ wpc[w] = "fetch_flags" /\ hdr'[w].E = h.E
      /\ wpc'[w] \in {"super_append", "fetch"}
      /\ UNCHANGED <<memory, size, left, sent, ibuf, ioff, queue, consumer>>
  BY <1>1 DEF FetchFlags, TypeOK, AppenderType, SetFlags
<1>3. \A v \in Writers \ {w} : SameWriter(v) /\ seg'[v] = seg[v] /\ SameBytes(v) /\ SameChunk(v)
  BY <1>1 DEF FetchFlags, SameWriter, SameBytes, SameChunk, TypeOK, AppenderType, queue, memory
<1>4. sq[w] = << >> /\ sq'[w] = << >> /\ ~landing'[w] /\ sizeUsed[w] = SegSize
  BY <1>1, <1>2 DEF RingInv, QueueInv, BytesInv, WordsInv, queue
<1>5. \A s \in Segs : ~header[w][s].E
  BY <1>1, <1>2 DEF BytesInv, WordsInv
<1>6. CASE ~h.W
  <2>1. wpc'[w] = "fetch" /\ seg' = seg /\ sizeUsed' = sizeUsed
    BY <1>1, <1>6 DEF FetchFlags, TypeOK, AppenderType
  <2>2. InFlightInv(w)'
    BY <1>1, <1>2, <2>1 DEF BytesInv, InFlightInv, queue, memory
  <2>3. WordsInv(w)'
    BY <1>1, <1>2, <1>4, <1>5, <2>1 DEF WordsInv, memory
  <2>4. StreamInv(w)'
    <3>1. SameMemory(w) /\ SamePlace(w) /\ SameHand(w)
      BY <1>2, <2>1, HandUnchanged DEF memory, SameMemory
    <3> QED
      BY <1>1, <1>2, <2>1, <3>1, StreamFrame DEF BytesInv, memory
  <2> QED
    BY <1>2, <1>3, <2>2, <2>3, <2>4, WriterBytes DEF BytesInv
<1>7. CASE h.W
  <2>1. wpc'[w] = "super_append" /\ seg'[w] = nextSeg[w] /\ sizeUsed'[w] = 0
    BY <1>1, <1>7 DEF FetchFlags, TypeOK, AppenderType
  <2>2. /\ Kept(w) # nextSeg[w] /\ ~h.C
        /\ Kept(w) = seg[w] => Dist(iter[w], nextSeg[w]) = 0
        /\ Kept(w) # seg[w] => Dist(iter[w], nextSeg[w]) = Dist(iter[w], seg[w]) + 1
    BY <1>1, <1>2, <1>7, EnterDistance
  <2>3. InFlightInv(w)'
    <3>1. \A m, at, p, b : InFlight(<< >>, m, at, p, 0, b)
      BY DEF InFlight, Ordered, Filled
    <3> QED
      BY <1>4, <2>1, <3>1 DEF InFlightInv
  <2>4. WordsInv(w)'
    BY <1>1, <1>2, <1>4, <1>5, <2>1, <2>2 DEF WordsInv, memory
  <2>5. Kept(w)' = Kept(w) /\ Taken(w)' = Taken(w) /\ iter' = iter /\ Taken(w) \in Nat
    BY <1>1, <1>2, HandUnchanged, TakenFrame, TakenType DEF SamePlace, consumer
  <2>6. sent[w] = Taken(w) + Bytes(Dist(iter[w], nextSeg[w])) + 0
    <3>1. CASE Kept(w) = seg[w]
      <4>1. sent[w] = Taken(w)
        BY <1>1, <3>1 DEF BytesInv, StreamInv
      <4> QED
        BY <2>2, <2>5, <3>1, <4>1, BytesFacts
    <3>2. CASE Kept(w) # seg[w]
      <4> DEFINE d == Dist(iter[w], seg[w])
      <4>1. sent[w] = Taken(w) + Bytes(d) + SegSize
        BY <1>1, <1>4, <3>2 DEF BytesInv, StreamInv
      <4>2. d \in Nat
        BY <1>1, DistFacts, ConstantsAssumption
      <4> HIDE DEF d
      <4>3. Bytes(d) \in Nat /\ Bytes(d + 1) = Bytes(d) + SegSize
        BY <4>2, BytesFacts
      <4> QED
        BY <2>2, <2>5, <3>2, <4>1, <4>2, <4>3, ConstantsAssumption DEF d
    <3> QED
      BY <3>1, <3>2
  <2>7. ASSUME NEW s \in Segs, s # Kept(w), header[w][s].C PROVE PublishedInv(w, s)'
    <3>1. s # nextSeg[w] /\ PublishedInv(w, s)
      BY <1>1, <2>2, <2>7 DEF BytesInv, StreamInv
    <3>2. header'[w][s].counter = SegSize
      BY <1>2, <1>4, <3>1 DEF PublishedInv, memory
    <3> QED
      BY <1>2, <2>1, <2>5, <3>1, <3>2 DEF PublishedInv, memory
  <2>8. StreamInv(w)'
    BY <1>1, <1>2, <2>1, <2>2, <2>5, <2>6, <2>7 DEF BytesInv, StreamInv, memory, consumer
  <2> QED
    BY <1>2, <1>3, <2>3, <2>4, <2>8, WriterBytes DEF BytesInv
<1> QED
  BY <1>6, <1>7

-----------------------------------------------------------------------------
(***************************************************************************)
(* Steps of the cards.                                                     *)
(***************************************************************************)

\* What a step of the card of writer w has to show.
LEMMA NicBytes ==
  ASSUME DataInv, NEW w \in Writers, UNCHANGED <<appender, countWR, signaled, consumer>>,
         \A v \in Writers \ {w} :
           /\ header'[v] = header[v] /\ payload'[v] = payload[v]
           /\ sq'[v] = sq[v] /\ landing'[v] = landing[v],
         BytesInv(w)'
  PROVE  LiveInv' /\ \A v \in Writers : BytesInv(v)'
<1>1. ASSUME NEW v \in Writers \ {w} PROVE BytesInv(v)'
  <2>1. SamePlace(v) /\ SameHand(v) /\ BytesInv(v)
    BY HandUnchanged DEF DataInv
  <2>2. SameMemory(v) /\ SameWriter(v) /\ SameBytes(v) /\ SameChunk(v)
    BY DEF SameMemory, SameWriter, SameBytes, SameChunk, appender
  <2> QED
    BY <2>1, <2>2, BytesFrame
<1>2. LiveInv'
  BY HandUnchanged DEF DataInv
<1> QED
  BY <1>1, <1>2

\* The bytes of a request reach the segment of the writer, which is neither consumable
\* nor in the hands of the consumer.
LEMMA LandDataBytes ==
  ASSUME N >= 2, DataInv, NEW w \in Writers, LandData(w)
  PROVE  LiveInv' /\ \A v \in Writers : BytesInv(v)'
<1> DEFINE p2 == Written(payload[w][seg[w]], Head(sq[w]), ibuf[w])
<1>1. /\ IInv /\ TypeOK /\ BytesInv(w) /\ RingInv(w)
      /\ seg[w] \in Segs /\ sizeUsed[w] \in 0 .. SegSize /\ sent[w] \in Nat
      /\ sq[w] \in Seq(WorkRequest) /\ payload[w] \in [Segs -> [0 .. SegSize - 1 -> Nat]]
  BY DEF DataInv, IInv, TypeOK, AppenderType, MemoryType, QueueType
<1>2. /\ sq[w] # << >> /\ Head(sq[w]).kind = "data" /\ sq'[w] = Tail(sq[w])
      /\ \A v \in Writers \ {w} : sq'[v] = sq[v]
      /\ UNCHANGED <<header, appender, landing, countWR, signaled, consumer>>
  BY <1>1 DEF LandData, TypeOK, QueueType
<1>3. 1 \in DOMAIN sq[w] /\ Head(sq[w]) = sq[w][1]
  BY <1>1, <1>2
<1>4. Head(sq[w]).seg = seg[w] /\ ~header[w][seg[w]].C
  BY <1>1, <1>2, <1>3 DEF RingInv, QueueInv, WriterInv
<1>5. /\ payload'[w] = [payload[w] EXCEPT ![seg[w]] = p2]
      /\ \A v \in Writers \ {w} : payload'[v] = payload[v]
  BY <1>1, <1>4 DEF LandData, TypeOK, MemoryType
<1>6. payload'[w][seg[w]] = p2 /\ \A s \in Segs \ {seg[w]} : payload'[w][s] = payload[w][s]
  BY <1>1, <1>5
<1>7. InFlightInv(w)'
  <2>1. sent[w] - sizeUsed[w] \in Int
    BY <1>1, ConstantsAssumption
  <2>2. InFlight(sq'[w], ibuf[w], ioff[w], p2, sizeUsed[w], sent[w] - sizeUsed[w])
    BY <1>1, <1>2, <2>1, PopData DEF BytesInv, InFlightInv
  <2> QED
    BY <1>2, <1>6, <2>2 DEF InFlightInv, appender
<1> HIDE DEF p2
<1>8. WordsInv(w)'
  BY <1>1, <1>2 DEF BytesInv, WordsInv, appender
<1>9. StreamInv(w)'
  <2>1. Kept(w) # seg[w] /\ Kept(w)' = Kept(w) /\ Taken(w)' = Taken(w)
    BY <1>1, <1>2, <1>4, FillingNotKept, HandUnchanged, TakenFrame DEF SamePlace
  <2>2. ASSUME NEW s \in Segs, s # Kept(w), header[w][s].C PROVE PublishedInv(w, s)'
    <3>1. s # seg[w] /\ PublishedInv(w, s)
      BY <1>1, <1>4, <2>2 DEF BytesInv, StreamInv
    <3>2. payload'[w][s] = payload[w][s]
      BY <1>6, <3>1
    <3> QED
      BY <1>2, <2>1, <3>1, <3>2 DEF PublishedInv, appender, consumer
  <2>3. ASSUME cpc = "use", held.ring = w
        PROVE  prev[w] = held.seg /\ Holds(payload'[w][held.seg], held.size, Len(consumed[w]))
    <3>1. prev[w] = held.seg /\ Holds(payload[w][held.seg], held.size, Len(consumed[w]))
      BY <1>1, <2>3 DEF BytesInv, StreamInv
    <3>2. held.seg # seg[w] /\ held.seg \in Segs
      BY <1>1, <2>1, <2>3, <3>1 DEF Kept, Released, TypeOK, ConsumerType
    <3> QED
      BY <1>6, <3>1, <3>2
  <2> QED
    BY <1>1, <1>2, <2>1, <2>2, <2>3 DEF BytesInv, StreamInv, appender, consumer
<1> QED
  BY <1>2, <1>5, <1>7, <1>8, <1>9, NicBytes DEF BytesInv

\* A header write is at the head of the queue of a consumable segment only after a second
\* close, and then it repeats what is there.
LEMMA HeaderHeadWords ==
  ASSUME TypeOK, NEW w \in Writers, RingInv(w), WordsInv(w), sq[w] # << >>,
         Head(sq[w]).kind = "header"
  PROVE  /\ hdr[w].C => hdr[w].counter = sizeUsed[w]
         /\ header[w][seg[w]].C => wpc[w] = "closed" /\ hdr[w].C
<1>1. wpc[w] \in {"drain", "fetch", "closed"}
  BY HeaderHead
<1> QED
  BY <1>1 DEF RingInv, WriterInv, Filling, WordsInv

\* The card writes the counter, the first half of the header.
LEMMA LandCounterBytes ==
  ASSUME DataInv, NEW w \in Writers, LandCounter(w)
  PROVE  LiveInv' /\ \A v \in Writers : BytesInv(v)'
<1> DEFINE h == SetWords(header[w][seg[w]], hdr[w].counter, hdr[w].next)
<1>1. /\ IInv /\ TypeOK /\ BytesInv(w) /\ RingInv(w) /\ seg[w] \in Segs
      /\ header[w] \in [Segs -> Header]
  BY DEF DataInv, IInv, TypeOK, AppenderType, MemoryType
<1>2. /\ Head(sq[w]).seg = seg[w] /\ sq[w] # << >> /\ Head(sq[w]).kind = "header"
  BY <1>1, HeaderHead DEF LandCounter
<1>3. /\ header' = [header EXCEPT ![w][seg[w]] = h]
      /\ landing' = [landing EXCEPT ![w] = TRUE]
      /\ UNCHANGED <<payload, appender, sq, countWR, signaled, consumer>>
  BY <1>2 DEF LandCounter
<1>4. /\ \A v \in Writers \ {w} : header'[v] = header[v] /\ landing'[v] = landing[v]
      /\ header'[w] = [header[w] EXCEPT ![seg[w]] = h]
  BY <1>1, <1>3 DEF TypeOK, MemoryType, QueueType
<1>5. /\ header'[w][seg[w]] = h /\ \A s \in Segs \ {seg[w]} : header'[w][s] = header[w][s]
  BY <1>1, <1>4
<1>6. /\ h.counter = hdr[w].counter
      /\ h.C = header[w][seg[w]].C /\ h.E = header[w][seg[w]].E
  BY DEF SetWords
<1> HIDE DEF h
<1>7. /\ hdr[w].C => hdr[w].counter = sizeUsed[w]
      /\ header[w][seg[w]].C => hdr[w].C
  BY <1>1, <1>2, HeaderHeadWords DEF BytesInv
<1>8. InFlightInv(w)'
  BY <1>1, <1>3 DEF BytesInv, InFlightInv, appender
<1>9. \A s \in Segs : /\ header'[w][s].C = header[w][s].C /\ header'[w][s].E = header[w][s].E
                      /\ s # seg[w] => header'[w][s].counter = header[w][s].counter
  BY <1>5, <1>6
<1>10. WordsInv(w)'
  BY <1>1, <1>3, <1>5, <1>6, <1>9 DEF BytesInv, WordsInv, appender
<1>11. StreamInv(w)'
  <2>1. Kept(w)' = Kept(w) /\ Taken(w)' = Taken(w)
    BY <1>1, <1>3, HandUnchanged, TakenFrame DEF SamePlace
  <2>2. ASSUME NEW s \in Segs, s # Kept(w), header[w][s].C PROVE PublishedInv(w, s)'
    <3>1. PublishedInv(w, s)
      BY <1>1, <2>2 DEF BytesInv, StreamInv
    <3>2. header'[w][s].counter = header[w][s].counter
      BY <1>5, <1>6, <1>7, <2>2, <3>1 DEF PublishedInv
    <3> QED
      BY <1>3, <2>1, <3>1, <3>2 DEF PublishedInv, appender, consumer
  <2> QED
    BY <1>1, <1>3, <1>9, <2>1, <2>2 DEF BytesInv, StreamInv, appender, consumer
<1> QED
  BY <1>3, <1>4, <1>8, <1>10, <1>11, NicBytes DEF BytesInv

\* When the flags of a header land nothing else is in the queue: all bytes its counter
\* stands for are in the payload.
LEMMA LandFlagsBytes ==
  ASSUME DataInv, NEW w \in Writers, LandFlags(w)
  PROVE  LiveInv' /\ \A v \in Writers : BytesInv(v)'
<1> DEFINE h == SetFlags(header[w][seg[w]], hdr[w].W, hdr[w].C, hdr[w].E)
<1>1. /\ IInv /\ TypeOK /\ BytesInv(w) /\ RingInv(w) /\ seg[w] \in Segs
      /\ header[w] \in [Segs -> Header] /\ sq[w] \in Seq(WorkRequest)
      /\ sent[w] \in Nat /\ sizeUsed[w] \in 0 .. SegSize /\ Taken(w) \in Nat /\ iter[w] \in Segs
  BY TakenType DEF DataInv, IInv, TypeOK, AppenderType, MemoryType, QueueType, ConsumerType
<1>2. landing[w] /\ sq[w] # << >> /\ Head(sq[w]).kind = "header"
  BY <1>1 DEF LandFlags, RingInv, QueueInv
<1>3. Head(sq[w]).seg = seg[w] /\ Tail(sq[w]) = << >> /\ wpc[w] \in {"drain", "fetch", "closed"}
  BY <1>1, <1>2, HeaderHead
<1>4. /\ header' = [header EXCEPT ![w][seg[w]] = h]
      /\ sq' = [sq EXCEPT ![w] = << >>]
      /\ landing' = [landing EXCEPT ![w] = FALSE]
      /\ UNCHANGED <<payload, appender, countWR, signaled, consumer>>
  BY <1>3 DEF LandFlags
<1>5. /\ \A v \in Writers \ {w} :
           header'[v] = header[v] /\ sq'[v] = sq[v] /\ landing'[v] = landing[v]
      /\ header'[w] = [header[w] EXCEPT ![seg[w]] = h]
      /\ sq'[w] = << >> /\ ~landing'[w]
  BY <1>1, <1>4 DEF TypeOK, MemoryType, QueueType
<1>6. header'[w][seg[w]] = h /\ \A s \in Segs \ {seg[w]} : header'[w][s] = header[w][s]
  BY <1>1, <1>5
<1>7. h.counter = hdr[w].counter /\ h.C = hdr[w].C /\ h.E = hdr[w].E
  BY <1>1, <1>2 DEF SetFlags, BytesInv, WordsInv
<1> HIDE DEF h
<1>8. /\ hdr[w].C => hdr[w].counter = sizeUsed[w]
      /\ header[w][seg[w]].C => hdr[w].C
  BY <1>1, <1>2, HeaderHeadWords DEF BytesInv
<1>9. /\ Holds(payload[w][seg[w]], sizeUsed[w], sent[w] - sizeUsed[w])
      /\ InFlight(<< >>, ibuf[w], ioff[w], payload[w][seg[w]], sizeUsed[w], sent[w] - sizeUsed[w])
  BY <1>1, <1>2, <1>3, PopHeader DEF BytesInv, InFlightInv
<1>10. InFlightInv(w)'
  BY <1>4, <1>5, <1>9 DEF InFlightInv, appender
<1>11. WordsInv(w)'
  <2>1. \A s \in Segs : header'[w][s].E => s = seg[w] /\ wpc[w] = "closed"
    BY <1>1, <1>6, <1>7 DEF BytesInv, WordsInv
  <2>2. wpc[w] = "closed" => header'[w][seg[w]].E
    BY <1>1, <1>6, <1>7 DEF BytesInv, WordsInv
  <2> QED
    BY <1>1, <1>4, <1>5, <2>1, <2>2 DEF BytesInv, WordsInv, appender
<1>12. StreamInv(w)'
  <2>1. Kept(w)' = Kept(w) /\ Taken(w)' = Taken(w)
    BY <1>1, <1>4, HandUnchanged, TakenFrame DEF SamePlace
  <2>2. ASSUME NEW s \in Segs, s # Kept(w), header'[w][s].C PROVE PublishedInv(w, s)'
    <3>1. CASE s = seg[w]
      <4>1. header'[w][s].counter = sizeUsed[w]
        BY <1>6, <1>7, <1>8, <2>2, <3>1
      <4> DEFINE d == Bytes(Dist(iter[w], seg[w]))
      <4>2. d \in Nat
        <5>1. Dist(iter[w], seg[w]) \in Nat
          BY <1>1, ConstantsAssumption DEF Dist, Segs
        <5> QED
          BY <5>1, BytesFacts
      <4>3. sent[w] = Taken(w) + d + sizeUsed[w]
        BY <1>1, <2>2, <3>1 DEF BytesInv, StreamInv
      <4> HIDE DEF d
      <4>4. sent[w] - sizeUsed[w] = Taken(w) + d
        BY <1>1, <4>2, <4>3, ConstantsAssumption
      <4>5. Holds(payload[w][seg[w]], sizeUsed[w], Taken(w) + d)
        BY <1>9, <4>4
      <4> QED
        BY <1>4, <2>1, <3>1, <4>1, <4>5 DEF PublishedInv, appender, consumer, d
    <3>2. CASE s # seg[w]
      <4>1. header'[w][s] = header[w][s]
        BY <1>6, <3>2
      <4>2. PublishedInv(w, s)
        BY <1>1, <2>2, <4>1 DEF BytesInv, StreamInv
      <4> QED
        BY <1>4, <2>1, <4>1, <4>2 DEF PublishedInv, appender, consumer
    <3> QED
      BY <3>1, <3>2
  <2> QED
    BY <1>1, <1>4, <2>1, <2>2 DEF BytesInv, StreamInv, appender, consumer
<1> QED
  BY <1>4, <1>5, <1>10, <1>11, <1>12, NicBytes DEF BytesInv

-----------------------------------------------------------------------------
(***************************************************************************)
(* Steps of the consumer.                                                  *)
(***************************************************************************)

\* The iterators of the other rings, and their order, stay as they are.
LEMMA EraseOne ==
  ASSUME NEW S, NEW s \in Seq(S), NEW k \in 1 .. Len(s),
         \A i, j \in DOMAIN s : s[i] = s[j] => i = j,
         NEW t, t = Erase(s, k)
  PROVE  /\ \A i, j \in DOMAIN t : t[i] = t[j] => i = j
         /\ \A x : (\E i \in DOMAIN t : t[i] = x) <=> (\E i \in DOMAIN s : s[i] = x) /\ x # s[k]
<1>1. /\ t \in Seq(S) /\ Len(t) = Len(s) - 1 /\ Len(s) \in Nat
      /\ \A i \in 1 .. Len(s) - 1 : t[i] = IF i < k THEN s[i] ELSE s[i + 1]
  <2>1. Len(s) \in Nat
    OBVIOUS
  <2>2. /\ Erase(s, k) \in Seq(S) /\ Len(Erase(s, k)) = Len(s) - 1
        /\ \A i \in 1 .. Len(s) - 1 : Erase(s, k)[i] = IF i < k THEN s[i] ELSE s[i + 1]
    BY EraseProperties
  <2> QED
    BY <2>1, <2>2
<1>2. DOMAIN t = 1 .. Len(s) - 1 /\ DOMAIN s = 1 .. Len(s)
  BY <1>1
<1>3. ASSUME NEW i \in DOMAIN t
      PROVE  \E j \in DOMAIN s : j = (IF i < k THEN i ELSE i + 1) /\ t[i] = s[j] /\ j # k
  <2>1. CASE i < k
    BY <1>1, <1>2, <2>1
  <2>2. CASE ~(i < k)
    <3>1. i + 1 \in DOMAIN s /\ i + 1 # k
      BY <1>1, <1>2, <2>2
    <3> QED
      BY <1>1, <1>2, <2>2, <3>1
  <2> QED
    BY <2>1, <2>2
<1>4. ASSUME NEW i \in DOMAIN t, NEW j \in DOMAIN t, t[i] = t[j] PROVE i = j
  <2>1. PICK a \in DOMAIN s : a = (IF i < k THEN i ELSE i + 1) /\ t[i] = s[a] /\ a # k
    BY <1>3
  <2>2. PICK b \in DOMAIN s : b = (IF j < k THEN j ELSE j + 1) /\ t[j] = s[b] /\ b # k
    BY <1>3
  <2>3. a = b
    BY <1>4, <2>1, <2>2
  <2> QED
    BY <1>2, <2>1, <2>2, <2>3
<1>5. ASSUME NEW j \in DOMAIN s, j # k PROVE \E i \in DOMAIN t : t[i] = s[j]
  <2>1. CASE j < k
    <3>1. j \in 1 .. Len(s) - 1
      BY <1>1, <1>2, <2>1
    <3> QED
      BY <1>1, <1>2, <2>1, <3>1
  <2>2. CASE ~(j < k)
    <3>1. j - 1 \in 1 .. Len(s) - 1 /\ ~(j - 1 < k) /\ (j - 1) + 1 = j
      BY <1>1, <1>2, <1>5, <2>2
    <3> QED
      BY <1>1, <1>2, <3>1
  <2> QED
    BY <2>1, <2>2
<1>6. k \in DOMAIN s
  BY <1>2
<1>7. ASSUME NEW i \in DOMAIN t PROVE (\E j \in DOMAIN s : s[j] = t[i]) /\ t[i] # s[k]
  <2>1. PICK j \in DOMAIN s : t[i] = s[j] /\ j # k
    BY <1>3
  <2> QED
    BY <1>6, <2>1
<1> QED
  BY <1>4, <1>5, <1>7

\* has_next.
LEMMA HasNextBytes ==
  ASSUME DataInv, SkipRing \/ FoundSegment \/ DropRing \/ NoMoreRings
  PROVE  LiveInv' /\ \A v \in Writers : BytesInv(v)'
<1>1. /\ cpc = "has_next" /\ cpc' # "use"
      /\ UNCHANGED <<memory, appender, queue, iter, prev, held, consumed>>
  BY DEF SkipRing, FoundSegment, DropRing, NoMoreRings
<1>2. ASSUME NEW v \in Writers PROVE SamePlace(v)
  <2>1. Released(v)' => prev[v] = NoSeg
    <3>1. Released(v)' => FoundSegment
      BY <1>1 DEF Released, SkipRing, DropRing, NoMoreRings
    <3> QED
      BY <3>1 DEF Released, FoundSegment
  <2>2. ~Released(v)
    BY <1>1 DEF Released
  <2> QED
    BY <1>1, <2>1, <2>2 DEF SamePlace, Kept
<1>3. ASSUME NEW v \in Writers PROVE BytesInv(v)'
  <2>1. SameHand(v) /\ BytesInv(v)
    BY <1>1 DEF SameHand, InUse, DataInv
  <2>2. SameMemory(v) /\ SameWriter(v) /\ SameBytes(v) /\ SameChunk(v)
    BY <1>1 DEF SameMemory, SameWriter, SameBytes, SameChunk, appender, queue, memory
  <2> QED
    BY <1>2, <2>1, <2>2, BytesFrame
<1>4. LiveInv'
  <2>1. CASE DropRing
    <3>1. /\ live \in Seq(Writers) /\ Here \in 1 .. Len(live) /\ live' = Erase(live, Here)
      BY <2>1, HereType DEF DropRing, DataInv, IInv, TypeOK, ConsumerType
    <3>2. \A i, j \in DOMAIN live : live[i] = live[j] => i = j
      BY DEF DataInv, LiveInv
    <3>3. \A i, j \in DOMAIN live' : live'[i] = live'[j] => i = j
      BY <3>1, <3>2, EraseOne
    <3> QED
      BY <1>1, <3>3 DEF LiveInv
  <2>2. CASE live' = live
    BY <1>1, <2>2 DEF DataInv, LiveInv
  <2> QED
    BY <2>1, <2>2 DEF SkipRing, FoundSegment, NoMoreRings
<1> QED
  BY <1>3, <1>4

\* mark_prev_segment changes only the header of the segment the consumer keeps, and
\* lets go of it when it is no longer consumable.
LEMMA MarkBytes ==
  ASSUME N >= 2, DataInv, MarkCounter \/ MarkConsumable \/ MarkWriteable
  PROVE  LiveInv' /\ \A v \in Writers : BytesInv(v)'
<1>1. IInv /\ TypeOK /\ LiveInv
  BY DEF DataInv, IInv
<1>2. PICK w \in Writers : w = live[pos]
  BY <1>1 DEF IInv, TypeOK, ConsumerType, CursorInv, MarkCounter, MarkConsumable, MarkWriteable,
     MarkPrev
<1> DEFINE p == prev[w]
<1>3. PICK at, then, h :
         /\ MarkPrev(at, then, h)
         /\ h.E = header[w][p].E
         /\ \/ at = "mark_counter" /\ then = "mark_consumable"
            \/ at = "mark_consumable" /\ then = "mark_writeable"
            \/ at = "mark_writeable" /\ then = "take" /\ h.C = header[w][p].C
  <2>1. CASE MarkCounter
    BY <1>2, <2>1 DEF MarkCounter, PrevHeader, SetWords
  <2>2. CASE MarkConsumable
    BY <1>2, <2>2 DEF MarkConsumable, PrevHeader, SetFlags
  <2>3. CASE MarkWriteable
    BY <1>2, <2>3 DEF MarkWriteable, PrevHeader, SetFlags
  <2> QED
    BY <2>1, <2>2, <2>3
<1>4. /\ p \in Segs /\ Kept(w) = p /\ seg[w] # p
      /\ Taking(w) /\ (Released(w)' <=> then = "take")
      /\ header'[w] = [header[w] EXCEPT ![p] = h]
      /\ SameWriter(w) /\ UNCHANGED <<seg, iter, prev>>
  BY <1>1, <1>2, <1>3, MarkFacts
<1>5. /\ cpc = at /\ cpc' = then
      /\ header' = [header EXCEPT ![w][p] = h]
      /\ UNCHANGED <<payload, appender, queue, live, pos, held, consumed>>
  BY <1>2, <1>3 DEF MarkPrev
<1>6. cpc # "use" /\ cpc' # "use"
  BY <1>3, <1>5
<1>7. /\ header[w] \in [Segs -> Header] /\ seg[w] \in Segs /\ RingInv(w) /\ BytesInv(w)
  BY <1>1 DEF TypeOK, MemoryType, AppenderType, DataInv, IInv
<1>8. header'[w][p] = h /\ \A s \in Segs \ {p} : header'[w][s] = header[w][s]
  BY <1>4, <1>7
<1>9. \A v \in Writers \ {w} : header'[v] = header[v]
  BY <1>1, <1>5 DEF TypeOK, MemoryType
<1>10. ASSUME NEW v \in Writers \ {w} PROVE BytesInv(v)'
  <2>1. SamePlace(v)
    BY <1>2, <1>4, <1>5 DEF SamePlace, Kept, Released
  <2>2. SameHand(v) /\ BytesInv(v)
    BY <1>5, <1>6 DEF SameHand, InUse, DataInv
  <2>3. SameMemory(v) /\ SameWriter(v) /\ SameBytes(v) /\ SameChunk(v)
    BY <1>5, <1>9 DEF SameMemory, SameWriter, SameBytes, SameChunk, appender, queue
  <2> QED
    BY <2>1, <2>2, <2>3, BytesFrame
<1>11. p # NoSeg /\ seg[w] # NoSeg
  BY <1>4, <1>7, SuccFacts
<1>12. then = "take" => ~h.C
  BY <1>3, <1>4, <1>5, <1>7, <1>11 DEF RingInv, FlagsInv
<1>13. Kept(w)' = (IF then = "take" THEN NoSeg ELSE p) /\ Taken(w)' = Taken(w)
  <2>1. SameHand(w)
    BY <1>5, <1>6 DEF SameHand, InUse
  <2> QED
    BY <1>4, <2>1, TakenFrame DEF Kept
<1> HIDE DEF p
<1>14. header'[w][seg[w]] = header[w][seg[w]]
  BY <1>4, <1>7, <1>8
<1>15. InFlightInv(w)'
  BY <1>5, <1>7 DEF BytesInv, InFlightInv, appender, queue
<1>16. WordsInv(w)'
  <2>1. \A s \in Segs : header'[w][s].E = header[w][s].E
    BY <1>3, <1>8
  <2> QED
    BY <1>5, <1>7, <1>14, <2>1 DEF BytesInv, WordsInv, appender, queue
<1>17. StreamInv(w)'
  <2>1. ASSUME NEW s \in Segs, s # Kept(w)', header'[w][s].C PROVE PublishedInv(w, s)'
    <3>1. s # p
      BY <1>8, <1>12, <1>13, <2>1
    <3>2. header'[w][s] = header[w][s]
      BY <1>8, <3>1
    <3>3. PublishedInv(w, s)
      BY <1>4, <1>7, <2>1, <3>1, <3>2 DEF BytesInv, StreamInv
    <3> QED
      BY <1>4, <1>5, <1>13, <3>2, <3>3 DEF PublishedInv, appender
  <2>2. Kept(w) # seg[w] /\ Kept(w)' # seg[w]
    BY <1>4, <1>11, <1>13
  <2> QED
    BY <1>4, <1>5, <1>6, <1>7, <1>13, <2>1, <2>2 DEF BytesInv, StreamInv, appender
<1>18. LiveInv'
  BY <1>1, <1>5, <1>6 DEF LiveInv
<1> QED
  BY <1>10, <1>15, <1>16, <1>17, <1>18 DEF BytesInv

\* next hands out the segment at iter: a full one, or the last of a closed ring.
LEMMA TakeBytes ==
  ASSUME N >= 2, DataInv, Take
  PROVE  LiveInv' /\ \A v \in Writers : BytesInv(v)'
<1>1. IInv /\ TypeOK /\ LiveInv /\ pos \in DOMAIN live
  BY DEF DataInv, IInv, CursorInv, Take
<1>2. PICK w \in Writers : w = live[pos]
  BY <1>1 DEF TypeOK, ConsumerType
<1> DEFINE a == seg[w]
           i == iter[w]
           c == header[w][i].counter
<1>3. /\ RingInv(w) /\ BytesInv(w) /\ header[w] \in [Segs -> Header] /\ a \in Segs /\ i \in Segs
      /\ sizeUsed[w] \in Nat /\ sent[w] \in Nat /\ consumed[w] \in Seq(Nat)
  BY <1>1, ConstantsAssumption DEF DataInv, IInv, TypeOK, MemoryType, AppenderType, ConsumerType
<1>4. /\ cpc = "take" /\ cpc' = "use"
      /\ held' = [ring |-> w, seg |-> i, size |-> c]
      /\ prev' = [prev EXCEPT ![w] = i]
      /\ iter' = [iter EXCEPT ![w] = header[w][i].next]
      /\ UNCHANGED <<memory, appender, queue, live, consumed>>
  BY <1>2 DEF Take
<1>5. Taking(w) /\ Released(w) /\ ~Released(w)'
  BY <1>2, <1>4 DEF Taking, Released
<1>6. header[w][i].next = Succ(i) /\ header[w][i].C
  BY <1>3, <1>5 DEF RingInv, FlagsInv, ConsumerInv
<1>7. prev'[w] = i /\ iter'[w] = Succ(i)
  BY <1>1, <1>4, <1>6 DEF TypeOK, ConsumerType
<1>8. ASSUME NEW v \in Writers \ {w} PROVE BytesInv(v)'
  <2>1. prev'[v] = prev[v] /\ iter'[v] = iter[v]
    BY <1>1, <1>4 DEF TypeOK, ConsumerType
  <2>2. SamePlace(v) /\ SameHand(v) /\ BytesInv(v)
    BY <1>2, <1>4, <2>1 DEF SamePlace, Kept, Released, SameHand, InUse, DataInv
  <2>3. SameMemory(v) /\ SameWriter(v) /\ SameBytes(v) /\ SameChunk(v)
    BY <1>4 DEF SameMemory, SameWriter, SameBytes, SameChunk, appender, queue, memory
  <2> QED
    BY <2>2, <2>3, BytesFrame
<1>9. Kept(w) = NoSeg /\ Kept(w)' = i /\ Succ(i) \in Segs /\ i # NoSeg /\ a # NoSeg
  BY <1>3, <1>5, <1>7, SuccFacts DEF Kept
<1>10. PublishedInv(w, i)
  BY <1>3, <1>6, <1>9 DEF BytesInv, StreamInv
<1>11. Taken(w) = Len(consumed[w]) /\ Taken(w)' = Len(consumed[w]) + c /\ Taken(w) \in Nat
  <2>1. Taken(w) = Len(consumed[w]) + 0 /\ Taken(w)' = Len(consumed[w]) + c
    BY <1>4 DEF Taken
  <2>2. Len(consumed[w]) \in Nat
    BY <1>3
  <2> QED
    BY <2>1, <2>2
<1>12. /\ c = (IF i = a THEN sizeUsed[w] ELSE SegSize)
       /\ Holds(payload[w][i], c, Len(consumed[w]))
  <2>1. Taken(w) + Bytes(Dist(i, i)) = Len(consumed[w])
    <3>1. Dist(i, i) = 0
      BY <1>3, DistFacts
    <3>2. Bytes(Dist(i, i)) = 0
      BY <3>1, BytesFacts
    <3> QED
      BY <1>11, <3>2
  <2> QED
    BY <1>10, <2>1 DEF PublishedInv
<1>13. ASSUME NEW s \in Segs, s # i
       PROVE  Taken(w)' + Bytes(Dist(Succ(i), s)) = Taken(w) + Bytes(Dist(i, s)) + (c - SegSize)
  <2>1. Dist(Succ(i), s) = Dist(i, s) - 1 /\ Dist(i, s) \in 0 .. N - 1 /\ Dist(Succ(i), s) \in 0 .. N - 1
    BY <1>3, <1>9, <1>13, DistFacts
  <2>2. PICK d \in Nat : Dist(Succ(i), s) = d /\ Dist(i, s) = d + 1
    BY <2>1, ConstantsAssumption
  <2>3. Bytes(d) \in Nat /\ Bytes(d + 1) = Bytes(d) + SegSize
    BY BytesFacts
  <2>4. c \in Nat /\ SegSize \in Nat
    BY <1>3, <1>12, ConstantsAssumption
  <2> HIDE DEF c
  <2> QED
    BY <1>11, <2>2, <2>3, <2>4
<1> HIDE DEF a, i, c
<1>14. (sent[w] = IF Kept(w) = seg[w] THEN Taken(w)
                  ELSE Taken(w) + Bytes(Dist(iter[w], seg[w])) + sizeUsed[w])'
  <2>1. sent[w] = Taken(w) + Bytes(Dist(i, a)) + sizeUsed[w]
    BY <1>3, <1>9 DEF BytesInv, StreamInv, a, i
  <2>2. CASE i = a
    <3>1. Dist(i, a) = 0
      BY <1>3, <2>2, DistFacts
    <3>2. Bytes(Dist(i, a)) = 0
      BY <3>1, BytesFacts
    <3>3. sent[w] = Taken(w)'
      BY <1>3, <1>11, <1>12, <2>1, <2>2, <3>2
    <3> QED
      BY <1>4, <1>9, <2>2, <3>3 DEF appender, a
  <2>3. CASE i # a
    <3>1. Taken(w)' + Bytes(Dist(Succ(i), a)) = Taken(w) + Bytes(Dist(i, a)) + (c - SegSize)
      BY <1>3, <1>13, <2>3
    <3>2. c - SegSize = 0
      BY <1>12, <2>3, ConstantsAssumption
    <3>3. Bytes(Dist(i, a)) \in Nat
      <4>1. Dist(i, a) \in Nat
        BY <1>3, DistFacts, ConstantsAssumption
      <4> QED
        BY <4>1, BytesFacts
    <3>4. sent[w] = Taken(w)' + Bytes(Dist(Succ(i), a)) + sizeUsed[w]
      BY <1>3, <1>11, <2>1, <3>1, <3>2, <3>3
    <3> QED
      BY <1>4, <1>7, <1>9, <2>3, <3>4 DEF appender, a
  <2> QED
    BY <2>2, <2>3
<1>15. ASSUME NEW s \in Segs, s # i, header[w][s].C PROVE PublishedInv(w, s)'
  <2>1. PublishedInv(w, s)
    BY <1>3, <1>9, <1>15, SuccFacts DEF BytesInv, StreamInv
  <2>2. i # a
    <3> SUFFICES ASSUME i = a PROVE FALSE
      OBVIOUS
    <3>1. NumFull(w) = Dist(i, a) + (IF header[w][a].C THEN 1 ELSE 0)
      BY <1>9 DEF NumFull, a, i
    <3>2. NumFull(w) = 1
      BY <1>3, <1>6, <3>1, DistFacts
    <3>3. s # Kept(w) /\ Dist(i, s) < NumFull(w)
      BY <1>3, <1>9, <1>15, SuccFacts DEF RingInv, FlagsInv, i
    <3>4. Dist(i, s) = 0
      BY <1>3, <3>2, <3>3, DistFacts, ConstantsAssumption
    <3> QED
      BY <1>3, <1>15, <3>4, DistFacts
  <2>3. Taken(w)' + Bytes(Dist(Succ(i), s)) = Taken(w) + Bytes(Dist(i, s))
    <3>1. c - SegSize = 0
      BY <1>12, <2>2, ConstantsAssumption
    <3>2. Bytes(Dist(i, s)) \in Nat
      <4>1. Dist(i, s) \in Nat
        BY <1>3, DistFacts, ConstantsAssumption
      <4> QED
        BY <4>1, BytesFacts
    <3> QED
      BY <1>11, <1>13, <1>15, <3>1, <3>2
  <2> QED
    BY <1>4, <1>7, <2>1, <2>3 DEF PublishedInv, appender, memory, i
<1>16. StreamInv(w)'
  <2>1. \A s \in Segs : (s # Kept(w) /\ header[w][s].C => PublishedInv(w, s))'
    BY <1>4, <1>9, <1>15 DEF memory
  <2>2. (cpc = "use" /\ held.ring = w =>
           prev[w] = held.seg /\ Holds(payload[w][held.seg], held.size, Len(consumed[w])))'
    BY <1>4, <1>7, <1>12 DEF memory
  <2>3. (\A j \in DOMAIN consumed[w] : consumed[w][j] = j)'
    BY <1>3, <1>4 DEF BytesInv, StreamInv
  <2> QED
    BY <1>14, <2>1, <2>2, <2>3 DEF StreamInv
<1>17. InFlightInv(w)' /\ WordsInv(w)'
  BY <1>3, <1>4 DEF BytesInv, InFlightInv, WordsInv, appender, queue, memory
<1>18. LiveInv'
  BY <1>1, <1>2, <1>4 DEF LiveInv
<1> QED
  BY <1>8, <1>16, <1>17, <1>18 DEF BytesInv

\* A beginning of the stream and the bytes after it.
LEMMA ContinueStream ==
  ASSUME NEW a \in Seq(Nat), \A i \in DOMAIN a : a[i] = i,
         NEW b \in Seq(Nat), \A i \in 1 .. Len(b) : b[i] = Len(a) + i
  PROVE  /\ a \o b \in Seq(Nat) /\ Len(a \o b) = Len(a) + Len(b)
         /\ \A i \in DOMAIN (a \o b) : (a \o b)[i] = i
<1>1. /\ a \o b \in Seq(Nat) /\ Len(a \o b) = Len(a) + Len(b)
      /\ \A i \in 1 .. Len(a) + Len(b) :
           (a \o b)[i] = IF i <= Len(a) THEN a[i] ELSE b[i - Len(a)]
  BY ConcatProperties
<1>2. Len(a) \in Nat /\ Len(b) \in Nat /\ DOMAIN a = 1 .. Len(a)
  OBVIOUS
<1>3. DOMAIN (a \o b) = 1 .. Len(a) + Len(b)
  BY <1>1
<1>4. ASSUME NEW i \in 1 .. Len(a) + Len(b) PROVE (a \o b)[i] = i
  <2>1. CASE i <= Len(a)
    <3>1. i \in DOMAIN a
      BY <1>2, <2>1
    <3> QED
      BY <1>1, <2>1, <3>1
  <2>2. CASE ~(i <= Len(a))
    <3>1. i - Len(a) \in 1 .. Len(b) /\ Len(a) + (i - Len(a)) = i
      BY <1>2, <2>2
    <3> QED
      BY <1>1, <2>2, <3>1
  <2> QED
    BY <2>1, <2>2
<1> QED
  BY <1>1, <1>3, <1>4

\* The bytes the application reads are the next ones of the stream.
LEMMA UseFacts ==
  ASSUME DataInv, Use, NEW w, w = held.ring
  PROVE  /\ w \in Writers /\ held.size \in Nat
         /\ consumed[w] \in Seq(Nat) /\ Len(consumed[w]) \in Nat
         /\ \E next \in Seq(Nat) :
              /\ Len(next) = held.size
              /\ \A i \in 1 .. held.size : next[i] = Len(consumed[w]) + i
              /\ consumed' = [consumed EXCEPT ![w] = consumed[w] \o next]
         /\ consumed'[w] \in Seq(Nat)
         /\ Len(consumed'[w]) = Len(consumed[w]) + held.size
         /\ \A i \in DOMAIN consumed'[w] : consumed'[w][i] = i
         /\ \A v \in Writers \ {w} : consumed'[v] = consumed[v]
<1>1. /\ TypeOK /\ w \in Writers /\ held.size \in Nat /\ cpc = "use"
      /\ consumed \in [Writers -> Seq(Nat)]
  BY ConstantsAssumption DEF DataInv, IInv, TypeOK, ConsumerType, Use
<1>2. StreamInv(w) /\ consumed[w] \in Seq(Nat) /\ Len(consumed[w]) \in Nat
  BY <1>1 DEF DataInv, BytesInv
<1> DEFINE n == held.size
           k == Len(consumed[w])
           read == [i \in 1 .. n |-> payload[w][held.seg][i - 1]]
           next == [i \in 1 .. n |-> k + i]
<1>3. read = next
  <2>1. Holds(payload[w][held.seg], n, k)
    BY <1>1, <1>2 DEF StreamInv
  <2>2. ASSUME NEW i \in 1 .. n PROVE payload[w][held.seg][i - 1] = k + i
    <3>1. i - 1 \in 0 .. n - 1
      BY <1>1
    <3>2. payload[w][held.seg][i - 1] = k + (i - 1) + 1
      BY <2>1, <3>1 DEF Holds
    <3> QED
      BY <1>2, <3>2
  <2> QED
    BY <2>2
<1>4. consumed' = [consumed EXCEPT ![w] = consumed[w] \o read]
  BY DEF Use
<1>5. /\ next \in Seq(Nat) /\ Len(next) = n /\ \A i \in 1 .. n : next[i] = k + i
  BY <1>1, <1>2
<1>6. consumed' = [consumed EXCEPT ![w] = consumed[w] \o next]
  BY <1>3, <1>4
<1> HIDE DEF read, next
<1>7. consumed'[w] = consumed[w] \o next /\ \A v \in Writers \ {w} : consumed'[v] = consumed[v]
  <2>1. PICK c : c = consumed[w] \o next
    OBVIOUS
  <2>2. consumed' = [consumed EXCEPT ![w] = c]
    BY <1>6, <2>1
  <2>3. consumed'[w] = c /\ \A v \in Writers \ {w} : consumed'[v] = consumed[v]
    BY <1>1, <2>2
  <2> QED
    BY <2>1, <2>3
<1>8. /\ consumed[w] \o next \in Seq(Nat) /\ Len(consumed[w] \o next) = k + n
      /\ \A i \in DOMAIN (consumed[w] \o next) : (consumed[w] \o next)[i] = i
  <2>1. \A i \in DOMAIN consumed[w] : consumed[w][i] = i
    BY <1>2 DEF StreamInv
  <2>2. PICK a \in Seq(Nat) : a = consumed[w]
    BY <1>2
  <2>3. PICK b \in Seq(Nat) : b = next
    BY <1>5
  <2>4. /\ \A i \in DOMAIN a : a[i] = i
        /\ Len(a) = k /\ Len(b) = n /\ \A i \in 1 .. n : b[i] = k + i
    BY <1>5, <2>1, <2>2, <2>3
  <2>5. /\ a \o b \in Seq(Nat) /\ Len(a \o b) = k + n
        /\ \A i \in DOMAIN (a \o b) : (a \o b)[i] = i
    BY <2>4, ContinueStream
  <2> QED
    BY <2>2, <2>3, <2>5
<1>9. \E s \in Seq(Nat) :
         /\ Len(s) = held.size
         /\ \A i \in 1 .. held.size : s[i] = Len(consumed[w]) + i
         /\ consumed' = [consumed EXCEPT ![w] = consumed[w] \o s]
  BY <1>5, <1>6, Zenon
<1>10. /\ consumed'[w] \in Seq(Nat) /\ Len(consumed'[w]) = k + n
       /\ \A i \in DOMAIN consumed'[w] : consumed'[w][i] = i
  BY <1>7, <1>8
<1>11. Len(consumed'[w]) = Len(consumed[w]) + held.size
  BY <1>10
<1>12. \A v \in Writers \ {w} : consumed'[v] = consumed[v]
  BY <1>7
<1> HIDE DEF n, k
<1> QED
  BY <1>1, <1>2, <1>9, <1>10, <1>11, <1>12, Zenon

\* The application has read its segment: what was in its hand is consumed.
LEMMA UseBytes ==
  ASSUME DataInv, Use
  PROVE  LiveInv' /\ \A v \in Writers : BytesInv(v)'
<1>1. PICK w : w = held.ring
  OBVIOUS
<1>2. /\ w \in Writers /\ held.size \in Nat /\ Len(consumed[w]) \in Nat
      /\ Len(consumed'[w]) = Len(consumed[w]) + held.size
      /\ \A i \in DOMAIN consumed'[w] : consumed'[w][i] = i
      /\ \A v \in Writers \ {w} : consumed'[v] = consumed[v]
  BY <1>1, UseFacts
<1>3. /\ cpc = "use" /\ cpc' = "has_next"
      /\ UNCHANGED <<memory, appender, queue, live, pos, iter, prev, held>>
  BY DEF Use
<1>4. \A v \in Writers : SamePlace(v)
  BY <1>3 DEF SamePlace, Kept, Released
<1>5. ASSUME NEW v \in Writers
      PROVE SameMemory(v) /\ SameWriter(v) /\ SameBytes(v) /\ SameChunk(v)
  BY <1>3 DEF SameMemory, SameWriter, SameBytes, SameChunk, appender, queue, memory
<1>6. ASSUME NEW v \in Writers \ {w} PROVE BytesInv(v)'
  <2>1. SameHand(v) /\ BytesInv(v)
    BY <1>1, <1>2, <1>3 DEF SameHand, InUse, DataInv
  <2> QED
    BY <1>4, <1>5, <2>1, BytesFrame
<1>7. BytesInv(w)
  BY <1>2 DEF DataInv
<1>8. Taken(w)' = Taken(w)
  <2>1. Taken(w) = Len(consumed[w]) + held.size
    BY <1>1, <1>3 DEF Taken
  <2>2. Taken(w)' = Len(consumed'[w]) + 0
    BY <1>3 DEF Taken
  <2> QED
    BY <1>2, <2>1, <2>2
<1>9. StreamInv(w)'
  <2>1. Kept(w)' = Kept(w)
    BY <1>2, <1>4 DEF SamePlace
  <2>2. \A s \in Segs : PublishedInv(w, s) => PublishedInv(w, s)'
    BY <1>3, <1>8 DEF PublishedInv, memory, appender
  <2> QED
    BY <1>2, <1>3, <1>7, <1>8, <2>1, <2>2 DEF BytesInv, StreamInv, memory, appender
<1>10. InFlightInv(w)' /\ WordsInv(w)'
  BY <1>3, <1>7 DEF BytesInv, InFlightInv, WordsInv, appender, queue, memory
<1>11. LiveInv'
  BY <1>3 DEF DataInv, LiveInv
<1> QED
  BY <1>6, <1>9, <1>10, <1>11 DEF BytesInv

-----------------------------------------------------------------------------
(***************************************************************************)
(* The theorems.                                                           *)
(***************************************************************************)
\* In the beginning nothing has been appended and no segment is consumable.
LEMMA InitBytes ==
  ASSUME N >= 2, Init
  PROVE  DataInv
<1>1. IInv
  BY InitType, InitRing DEF IInv
<1>2. LiveInv
  BY ConstantsAssumption DEF Init, InitIterator, LiveInv
<1>3. ASSUME NEW w \in Writers PROVE BytesInv(w)
  <2>1. /\ header[w] = [s \in Segs |-> FreshHeader(s)]
        /\ wpc[w] = "idle" /\ seg[w] = 0 /\ hdr[w] = FreshHeader(0)
        /\ size[w] = 0 /\ left[w] = 0 /\ sent[w] = 0 /\ sizeUsed[w] = 0
        /\ sq[w] = << >> /\ landing[w] = FALSE
        /\ cpc = "has_next" /\ iter[w] = 0 /\ prev[w] = NoSeg /\ consumed[w] = << >>
    BY DEF Init, InitMemory, InitWriter, InitIterator
  <2>2. \A s \in Segs : ~header[w][s].C /\ ~header[w][s].E
    BY <2>1 DEF FreshHeader
  <2>3. 0 \in Segs /\ NoSeg # 0 /\ Dist(0, 0) = 0
    BY ConstantsAssumption DEF Segs, NoSeg, Dist
  <2>4. Taken(w) = 0 /\ Kept(w) = NoSeg
    <3>1. Taken(w) = Len(<< >>) + 0
      BY <2>1 DEF Taken
    <3> QED
      BY <2>1, <3>1 DEF Kept, Released
  <2>5. InFlightInv(w)
    <3>1. \A m, at, p, b : InFlight(<< >>, m, at, p, 0, b)
      BY DEF InFlight, Ordered, Filled
    <3> QED
      BY <2>1, <3>1 DEF InFlightInv
  <2>6. WordsInv(w)
    BY <2>1, <2>2 DEF WordsInv, FreshHeader
  <2>7. StreamInv(w)
    <3>1. Bytes(Dist(iter[w], seg[w])) = 0
      BY <2>1, <2>3, BytesFacts
    <3>2. sent[w] = Taken(w) + Bytes(Dist(iter[w], seg[w])) + sizeUsed[w]
      BY <2>1, <2>4, <3>1
    <3> QED
      BY <2>1, <2>2, <2>3, <2>4, <3>2 DEF StreamInv
  <2> QED
    BY <2>5, <2>6, <2>7 DEF BytesInv
<1> QED
  BY <1>1, <1>2, <1>3 DEF DataInv

\* Every step keeps the invariant.
LEMMA DataStep ==
  ASSUME N >= 2, DataInv, [Next]_vars
  PROVE  DataInv'
<1>1. IInv'
  BY InductiveStep DEF DataInv
<1>2. LiveInv' /\ \A v \in Writers : BytesInv(v)'
  <2>1. CASE UNCHANGED vars
    <3>1. UNCHANGED <<memory, appender, queue, consumer>>
      BY <2>1 DEF vars
    <3>2. ASSUME NEW v \in Writers PROVE BytesInv(v)'
      <4>1. SamePlace(v) /\ SameHand(v) /\ BytesInv(v)
        BY <3>1, HandUnchanged DEF DataInv
      <4>2. SameMemory(v) /\ SameWriter(v) /\ SameBytes(v) /\ SameChunk(v)
        BY <3>1 DEF SameMemory, SameWriter, SameBytes, SameChunk, appender, queue, memory
      <4> QED
        BY <4>1, <4>2, BytesFrame
    <3> QED
      BY <3>1, <3>2, HandUnchanged DEF DataInv
  <2>2. ASSUME NEW w \in Writers, NEW n \in AppendSizes, Append_(w, n)
        PROVE  LiveInv' /\ \A v \in Writers : BytesInv(v)'
    BY <2>2, AppendCallBytes
  <2>3. ASSUME NEW w \in Writers, Close(w)
        PROVE  LiveInv' /\ \A v \in Writers : BytesInv(v)'
    BY <2>3, HeaderWriteBytes
  <2>4. ASSUME NEW w \in Writers, WriterStep(w)
        PROVE  LiveInv' /\ \A v \in Writers : BytesInv(v)'
    BY <2>4, AppendCallBytes, CopyBytes, HeaderWriteBytes, FetchHeaderBytes, FetchFlagsBytes
       DEF WriterStep
  <2>5. ASSUME NEW w \in Writers, NicStep(w)
        PROVE  LiveInv' /\ \A v \in Writers : BytesInv(v)'
    BY <2>5, LandDataBytes, LandCounterBytes, LandFlagsBytes DEF NicStep
  <2>6. CASE ConsumerStep
    BY <2>6, HasNextBytes, MarkBytes, TakeBytes, UseBytes DEF ConsumerStep
  <2> QED
    BY <2>1, <2>2, <2>3, <2>4, <2>5, <2>6 DEF Next
<1> QED
  BY <1>1, <1>2 DEF DataInv

\* DataInv holds in every reachable state: wherever a byte is on its way from append to
\* the application, it is in the place that its number in the stream says.
THEOREM DataInvariance ==
  ASSUME N >= 2
  PROVE  Spec => []DataInv
<1>1. Init => DataInv
  BY InitBytes
<1>2. DataInv /\ [Next]_vars => DataInv'
  BY DataStep
<1> QED
  BY <1>1, <1>2, PTL DEF Spec

\* What next() returns of a ring, call after call, is what was appended to it: byte 1,
\* 2, ..., with none missing, repeated or out of place.
THEOREM InOrder ==
  ASSUME N >= 2
  PROVE  Spec => []DeliveredInOrder
<1>1. DataInv => DeliveredInOrder
  BY DEF DataInv, BytesInv, StreamInv, DeliveredInOrder
<1> QED
  BY <1>1, DataInvariance, PTL

\* writeToSegment goes back to the front of the internal buffer only when no request
\* reads it: two requests in flight never read the same bytes.
THEOREM SourcesDisjoint ==
  ASSUME N >= 2
  PROVE  Spec => []InFlightDisjoint
<1>1. ASSUME DataInv, NEW w \in Writers, NEW i \in DOMAIN sq[w], NEW j \in DOMAIN sq[w], i < j
      PROVE  Sources(sq[w][i]) \cap Sources(sq[w][j]) = {}
  <2>1. CASE sq[w][i].kind = "data" /\ sq[w][j].kind = "data"
    <3>1. sq[w] \in Seq(WorkRequest) /\ Ordered(sq[w])
      BY <1>1 DEF DataInv, IInv, TypeOK, QueueType, BytesInv, InFlightInv, InFlight
    <3>2. sq[w][i] \in WorkRequest /\ sq[w][j] \in WorkRequest
      BY <1>1, <3>1
    <3>3. PICK a \in Nat, b \in Nat : sq[w][i].src = a /\ sq[w][i].len = b
      BY <2>1, <3>2, DataFields
    <3>4. PICK c \in Nat, d \in Nat : sq[w][j].src = c /\ sq[w][j].len = d
      BY <2>1, <3>2, DataFields
    <3>5. a + b <= c
      BY <1>1, <2>1, <3>1, <3>3, <3>4 DEF Ordered
    <3>6. Sources(sq[w][i]) = a .. a + b - 1 /\ Sources(sq[w][j]) = c .. c + d - 1
      BY <2>1, <3>3, <3>4 DEF Sources
    <3>7. (a .. a + b - 1) \cap (c .. c + d - 1) = {}
      BY <3>5
    <3> QED
      BY <3>6, <3>7
  <2>2. CASE ~(sq[w][i].kind = "data" /\ sq[w][j].kind = "data")
    BY <2>2 DEF Sources
  <2> QED
    BY <2>1, <2>2
<1>2. DataInv => InFlightDisjoint
  <2> SUFFICES ASSUME DataInv, NEW w \in Writers, NEW i \in DOMAIN sq[w], NEW j \in DOMAIN sq[w],
                      i # j
               PROVE  Sources(sq[w][i]) \cap Sources(sq[w][j]) = {}
    BY DEF InFlightDisjoint
  <2>1. i \in Nat /\ j \in Nat
    BY DEF DataInv, IInv, TypeOK, QueueType
  <2>2. CASE i < j
    BY <1>1, <2>2
  <2>3. CASE j < i
    <3>1. Sources(sq[w][j]) \cap Sources(sq[w][i]) = {}
      BY <1>1, <2>3
    <3> QED
      BY <3>1
  <2> QED
    BY <2>1, <2>2, <2>3
<1> QED
  BY <1>2, DataInvariance, PTL

\* A step does not touch what is consumable and not handed out.
Untouched(w, s) == header'[w][s] = header[w][s] /\ payload'[w][s] = payload[w][s]

\* A segment the writer is still filling is not consumable, so what lands in it touches no
\* other; and a header that lands a second time is the one that is there.
LEMMA NicUntouched ==
  ASSUME N >= 2, DataInv, NEW x \in Writers, NicStep(x),
         NEW w \in Writers, NEW s \in Segs, header[w][s].C, s # prev[w]
  PROVE  Untouched(w, s)
<1>1. /\ IInv /\ TypeOK /\ RingInv(x) /\ BytesInv(x) /\ seg[x] \in Segs /\ sq[x] \in Seq(WorkRequest)
      /\ header \in [Writers -> [Segs -> Header]]
      /\ payload \in [Writers -> [Segs -> [0 .. SegSize - 1 -> Nat]]]
      /\ hdr[x] \in Header
  BY DEF DataInv, IInv, TypeOK, MemoryType, AppenderType, QueueType
<1>2. CASE LandData(x)
  <2>1. /\ sq[x] # << >> /\ Head(sq[x]).kind = "data" /\ UNCHANGED header
    BY <1>2 DEF LandData
  <2>2. 1 \in DOMAIN sq[x] /\ Head(sq[x]) = sq[x][1]
    BY <1>1, <2>1
  <2>3. Head(sq[x]).seg = seg[x] /\ ~header[x][seg[x]].C
    BY <1>1, <2>1, <2>2 DEF RingInv, QueueInv, WriterInv
  <2>4. ~(w = x /\ s = seg[x])
    BY <2>3
  <2>5. PICK p : payload' = [payload EXCEPT ![x][seg[x]] = p]
    BY <1>2, <2>3 DEF LandData
  <2>6. payload'[w][s] = payload[w][s]
    BY <1>1, <2>4, <2>5
  <2> QED
    BY <2>1, <2>6 DEF Untouched
<1>3. CASE LandCounter(x) \/ LandFlags(x)
  <2>1. sq[x] # << >> /\ Head(sq[x]).kind = "header"
    BY <1>1, <1>3 DEF LandCounter, LandFlags, RingInv, QueueInv
  <2>2. Head(sq[x]).seg = seg[x] /\ hdr[x].next = Succ(seg[x])
    BY <1>1, <2>1, HeaderHead
  <2>3. UNCHANGED payload
    BY <1>3 DEF LandCounter, LandFlags
  <2>4. PICK h : /\ header' = [header EXCEPT ![x][seg[x]] = h]
                 /\ \/ h = SetWords(header[x][seg[x]], hdr[x].counter, hdr[x].next)
                    \/ h = SetFlags(header[x][seg[x]], hdr[x].W, hdr[x].C, hdr[x].E)
    BY <1>3, <2>2 DEF LandCounter, LandFlags
  <2>5. CASE w = x /\ s = seg[x]
    <3>1. wpc[x] = "closed" /\ hdr[x].C /\ hdr[x].counter = sizeUsed[x]
      BY <1>1, <2>1, <2>5, HeaderHeadWords DEF BytesInv
    <3>2. s # Kept(w)
      BY SuccFacts DEF Kept
    <3>3. header[x][s].counter = sizeUsed[x]
      BY <1>1, <2>5, <3>2 DEF BytesInv, StreamInv, PublishedInv
    <3>4. header[x][s].E /\ hdr[x].E /\ ~hdr[x].W
      BY <1>1, <2>5, <3>1 DEF BytesInv, WordsInv, RingInv, WriterInv
    <3>5. ~header[x][s].W /\ header[x][s].next = Succ(s)
      BY <1>1, <2>5, <3>2 DEF RingInv, FlagsInv
    <3>6. h = header[x][s]
      <4>1. header[x][s] \in Header
        BY <1>1, <2>5
      <4>2. SetWords(header[x][s], hdr[x].counter, hdr[x].next) = header[x][s]
        BY <2>2, <2>5, <3>1, <3>3, <3>5, <4>1 DEF SetWords, Header
      <4>3. SetFlags(header[x][s], hdr[x].W, hdr[x].C, hdr[x].E) = header[x][s]
        <5>1. /\ hdr[x].W = header[x][s].W /\ hdr[x].C = header[x][s].C
              /\ hdr[x].E = header[x][s].E
          <6>1. /\ hdr[x].W \in BOOLEAN /\ hdr[x].C \in BOOLEAN /\ hdr[x].E \in BOOLEAN
                /\ header[x][s].W \in BOOLEAN /\ header[x][s].C \in BOOLEAN /\ header[x][s].E \in BOOLEAN
            BY <1>1, <4>1 DEF Header
          <6> QED
            BY <2>5, <3>1, <3>4, <3>5, <6>1
        <5> QED
          BY <4>1, <5>1 DEF SetFlags, Header
      <4> QED
        BY <2>4, <2>5, <4>2, <4>3
    <3> QED
      BY <1>1, <2>3, <2>4, <2>5, <3>6 DEF Untouched
  <2>6. CASE ~(w = x /\ s = seg[x])
    BY <1>1, <2>3, <2>4, <2>6 DEF Untouched
  <2> QED
    BY <2>5, <2>6
<1> QED
  BY <1>2, <1>3 DEF NicStep

\* Nor does any other step.
LEMMA StepUntouched ==
  ASSUME N >= 2, DataInv, [Next]_vars,
         NEW w \in Writers, NEW s \in Segs, header[w][s].C, s # prev[w]
  PROVE  Untouched(w, s)
<1>1. CASE UNCHANGED memory
  BY <1>1 DEF memory, Untouched
<1>2. ASSUME NEW x \in Writers, NicStep(x) PROVE Untouched(w, s)
  BY <1>2, NicUntouched
<1>3. CASE MarkCounter \/ MarkConsumable \/ MarkWriteable
  <2>1. PICK h : header' = [header EXCEPT ![live[pos]][prev[live[pos]]] = h] /\ UNCHANGED payload
    BY <1>3 DEF MarkCounter, MarkConsumable, MarkWriteable, MarkPrev
  <2>2. header \in [Writers -> [Segs -> Header]]
    BY DEF DataInv, IInv, TypeOK, MemoryType
  <2> QED
    BY <2>1, <2>2 DEF Untouched
<1>4. ASSUME NEW x \in Writers, NEW n \in AppendSizes, Append_(x, n) PROVE UNCHANGED memory
  BY <1>4 DEF Append_
<1>5. ASSUME NEW x \in Writers, Close(x) PROVE UNCHANGED memory
  BY <1>5 DEF Close
<1>6. ASSUME NEW x \in Writers, WriterStep(x) PROVE UNCHANGED memory
  BY <1>6 DEF WriterStep, WriteToSegment, WriteFromFront, CopyAndWrite, DrainInternalBuffer,
     NoRoom, PublishSegment, FetchHeader, FetchFlags
<1>7. CASE SkipRing \/ FoundSegment \/ DropRing \/ NoMoreRings \/ Take \/ Use
  BY <1>1, <1>7 DEF SkipRing, FoundSegment, DropRing, NoMoreRings, Take, Use
<1>8. CASE UNCHANGED vars
  BY <1>1, <1>8 DEF vars
<1> QED
  BY <1>1, <1>2, <1>3, <1>4, <1>5, <1>6, <1>7, <1>8 DEF Next, ConsumerStep

\* A published segment does not change until next() hands it out: neither the header
\* write in the middle of the next segment, nor a second close, nor data still in the
\* queue touches it.
THEOREM PublishedStable ==
  ASSUME N >= 2
  PROVE  Spec => PublishedIsStable
<1>1. DataInv /\ [Next]_vars =>
        [\A w \in Writers : \A s \in Segs :
           header[w][s].C /\ s # prev[w] =>
             header'[w][s] = header[w][s] /\ payload'[w][s] = payload[w][s]]_vars
  BY StepUntouched DEF Untouched
<1> QED
  BY <1>1, DataInvariance, PTL DEF Spec, PublishedIsStable

-----------------------------------------------------------------------------
(***************************************************************************)
(* The buffer implements the streams of BufferStream.                      *)
(***************************************************************************)
\* Empty rings are empty streams.
LEMMA StreamInit ==
  ASSUME Init
  PROVE  Stream!Init
<1>1. [w \in Writers |-> sent[w] + left[w] + size[w]] = [w \in Writers |-> 0]
  BY DEF Init, InitWriter
<1>2. [w \in Writers |-> wpc[w] = "closed"] = [w \in Writers |-> FALSE]
  BY DEF Init, InitWriter
<1>3. consumed = [w \in Writers |-> << >>]
  BY DEF Init, InitIterator
<1>4. {live[i] : i \in DOMAIN live} = Writers
  BY DEF Init, InitIterator, Writers
<1> QED
  BY <1>1, <1>2, <1>3, <1>4 DEF Stream!Init

\* Steps that no application sees.
LEMMA StreamSame ==
  ASSUME \A w \in Writers : sent'[w] + left'[w] + size'[w] = sent[w] + left[w] + size[w],
         \A w \in Writers : wpc'[w] = "closed" <=> wpc[w] = "closed",
         UNCHANGED <<live, consumed>>
  PROVE  UNCHANGED Stream!vars
<1>1. [w \in Writers |-> sent[w] + left[w] + size[w]]' = [w \in Writers |-> sent[w] + left[w] + size[w]]
  OBVIOUS
<1>2. [w \in Writers |-> wpc[w] = "closed"]' = [w \in Writers |-> wpc[w] = "closed"]
  OBVIOUS
<1>3. {live[i] : i \in DOMAIN live}' = {live[i] : i \in DOMAIN live}
  OBVIOUS
<1> QED
  BY <1>1, <1>2, <1>3 DEF Stream!vars

\* append: its bytes belong to the stream from the call on.
LEMMA StreamAppend ==
  ASSUME DataInv, NEW w \in Writers, NEW n \in AppendSizes, Append_(w, n)
  PROVE  Stream!Next
<1> DEFINE A == [v \in Writers |-> sent[v] + left[v] + size[v]]
           C == [v \in Writers |-> wpc[v] = "closed"]
<1>1. TypeOK /\ n \in Nat /\ WordsInv(w)
  BY ConstantsAssumption DEF DataInv, IInv, BytesInv
<1>2. /\ wpc[w] = "idle" /\ left' = [left EXCEPT ![w] = Chunk(n)]
      /\ size' = [size EXCEPT ![w] = n - Chunk(n)]
      /\ wpc' = [wpc EXCEPT ![w] = "super_append"] /\ UNCHANGED <<sent, consumer>>
  BY DEF Append_
<1>3. left[w] = 0 /\ size[w] = 0 /\ sent[w] \in Nat /\ Chunk(n) \in Nat
  BY <1>1, <1>2, ConstantsAssumption DEF WordsInv, TypeOK, AppenderType, Chunk
<1>4. /\ left'[w] = Chunk(n) /\ size'[w] = n - Chunk(n)
      /\ \A v \in Writers \ {w} : left'[v] = left[v] /\ size'[v] = size[v] /\ wpc'[v] = wpc[v]
      /\ wpc'[w] = "super_append"
  BY <1>1, <1>2 DEF TypeOK, AppenderType
<1>5. A' = [A EXCEPT ![w] = A[w] + n]
  <2>1. sent'[w] + left'[w] + size'[w] = A[w] + n
    BY <1>1, <1>2, <1>3, <1>4
  <2>2. \A v \in Writers \ {w} : sent'[v] + left'[v] + size'[v] = A[v]
    BY <1>2, <1>4
  <2> QED
    BY <2>1, <2>2
<1>6. C' = C
  BY <1>2, <1>4
<1>7. ~C[w] /\ consumed' = consumed /\ live' = live
  BY <1>2 DEF consumer
<1>8. {live[i] : i \in DOMAIN live}' = {live[i] : i \in DOMAIN live}
  BY <1>7
<1>9. Stream!AppendBytes(w)
  BY <1>5, <1>6, <1>7, <1>8 DEF Stream!AppendBytes
<1> QED
  BY <1>9 DEF Stream!Next

\* close ends the stream; nothing is left to copy.
LEMMA StreamClose ==
  ASSUME DataInv, NEW w \in Writers, Close(w)
  PROVE  Stream!Next
<1> DEFINE A == [v \in Writers |-> sent[v] + left[v] + size[v]]
           C == [v \in Writers |-> wpc[v] = "closed"]
<1>1. wpc' = [wpc EXCEPT ![w] = "closed"] /\ UNCHANGED <<sent, left, size, consumer>>
  BY DEF Close
<1>2. wpc'[w] = "closed" /\ \A v \in Writers \ {w} : wpc'[v] = wpc[v]
  BY <1>1 DEF DataInv, IInv, TypeOK, AppenderType
<1>3. C' = [C EXCEPT ![w] = TRUE]
  BY <1>2
<1>4. A' = A /\ consumed' = consumed /\ live' = live
  BY <1>1 DEF consumer
<1>5. {live[i] : i \in DOMAIN live}' = {live[i] : i \in DOMAIN live}
  BY <1>4
<1>6. Stream!CloseStream(w)
  BY <1>3, <1>4, <1>5 DEF Stream!CloseStream
<1> QED
  BY <1>6 DEF Stream!Next

\* super_append moves bytes from the chunk to the internal buffer, and from the rest of
\* the call to the chunk.
LEMMA StreamCopy ==
  ASSUME DataInv, NEW w \in Writers, WriteToSegment(w) \/ WriteFromFront(w)
  PROVE  UNCHANGED Stream!vars
<1>1. TypeOK
  BY DEF DataInv, IInv
<1>2. /\ sizeUsed[w] \in 0 .. SegSize /\ left[w] \in Nat /\ size[w] \in Nat /\ sent[w] \in Nat
      /\ SegSize \in Nat /\ IBufSize \in Nat
  BY <1>1, ConstantsAssumption DEF TypeOK, AppenderType
<1>3. wpc[w] \in {"super_append", "drain"}
  BY DEF WriteToSegment, WriteFromFront
<1>4. PICK at : CopyAndWrite(w, at)
  BY DEF WriteToSegment, WriteFromFront
<1>5. Part(w) \in Nat /\ Chunk(size[w]) \in Nat
  BY <1>2 DEF Part, Fits, Chunk
<1>6. \A v \in Writers \ {w} : /\ sent'[v] = sent[v] /\ left'[v] = left[v]
                               /\ size'[v] = size[v] /\ wpc'[v] = wpc[v]
  BY <1>1, <1>4 DEF CopyAndWrite, TypeOK, AppenderType
<1>7. sent'[w] = sent[w] + Part(w) /\ UNCHANGED consumer
  BY <1>1, <1>4 DEF CopyAndWrite, TypeOK, AppenderType
<1>8. /\ sent'[w] + left'[w] + size'[w] = sent[w] + left[w] + size[w]
      /\ wpc'[w] # "closed"
  <2>1. CASE Fits(w)
    <3>1. /\ left'[w] = Chunk(size[w]) /\ size'[w] = size[w] - Chunk(size[w])
          /\ wpc'[w] # "closed"
      BY <1>1, <1>4, <2>1 DEF CopyAndWrite, TypeOK, AppenderType
    <3>2. Part(w) = left[w]
      BY <2>1 DEF Part
    <3> QED
      BY <1>2, <1>5, <1>7, <3>1, <3>2
  <2>2. CASE ~Fits(w)
    <3>1. left'[w] = left[w] - Part(w) /\ size'[w] = size[w] /\ wpc'[w] # "closed"
      BY <1>1, <1>4, <2>2 DEF CopyAndWrite, TypeOK, AppenderType
    <3> QED
      BY <1>2, <1>5, <1>7, <3>1
  <2> QED
    BY <2>1, <2>2
<1>9. \A v \in Writers : sent'[v] + left'[v] + size'[v] = sent[v] + left[v] + size[v]
  BY <1>6, <1>8
<1>10. \A v \in Writers : wpc'[v] = "closed" <=> wpc[v] = "closed"
  BY <1>3, <1>6, <1>8
<1> QED
  BY <1>7, <1>9, <1>10, StreamSame DEF consumer

\* The other steps of a writer.
LEMMA StreamWriter ==
  ASSUME DataInv, NEW w \in Writers, WriterStep(w)
  PROVE  UNCHANGED Stream!vars
<1>1. CASE WriteToSegment(w) \/ WriteFromFront(w)
  BY <1>1, StreamCopy
<1>2. CASE \/ DrainInternalBuffer(w) \/ NoRoom(w) \/ PublishSegment(w)
           \/ FetchHeader(w) \/ FetchFlags(w)
  <2>1. UNCHANGED <<sent, left, size, live, consumed>>
    BY <1>2 DEF DrainInternalBuffer, NoRoom, PublishSegment, FetchHeader, FetchFlags, consumer
  <2>2. \A v \in Writers : wpc'[v] = "closed" <=> wpc[v] = "closed"
    <3>1. wpc \in [Writers -> {"idle", "super_append", "drain", "full", "fetch",
                               "fetch_flags", "closed"}]
      BY DEF DataInv, IInv, TypeOK, AppenderType
    <3>2. /\ wpc[w] # "closed"
          /\ \E there \in {"drain", "full", "fetch", "fetch_flags", "super_append"} :
                wpc' = [wpc EXCEPT ![w] = there]
      BY <1>2 DEF DrainInternalBuffer, NoRoom, PublishSegment, FetchHeader, FetchFlags
    <3> QED
      BY <3>1, <3>2
  <2> QED
    BY <2>1, <2>2, StreamSame
<1> QED
  BY <1>1, <1>2 DEF WriterStep

\* has_next removes a ring when all of it has been read and its writer has closed it.
LEMMA StreamEnd ==
  ASSUME DataInv, DropRing
  PROVE  Stream!Next
<1> DEFINE A == [v \in Writers |-> sent[v] + left[v] + size[v]]
           C == [v \in Writers |-> wpc[v] = "closed"]
           O == {live[i] : i \in DOMAIN live}
<1>1. /\ TypeOK /\ LiveInv /\ live \in Seq(Writers) /\ Here \in 1 .. Len(live) /\ live[Here] \in Writers
      /\ live' = Erase(live, Here) /\ cpc = "has_next"
      /\ UNCHANGED <<appender, consumed>>
  BY HereType DEF DropRing, DataInv, IInv, TypeOK, ConsumerType
<1>2. PICK w \in Writers : w = live[Here]
  BY <1>1
<1>3. BytesInv(w) /\ prev[w] # NoSeg /\ header[w][prev[w]].E
  BY <1>2 DEF DropRing, PrevIsEnd, DataInv
<1>4. prev[w] \in Segs
  BY <1>1, <1>3 DEF TypeOK, ConsumerType
<1>5. prev[w] = seg[w] /\ wpc[w] = "closed"
  BY <1>3, <1>4 DEF BytesInv, WordsInv
<1>6. Kept(w) = seg[w]
  BY <1>1, <1>5 DEF Kept, Released
<1>7. sent[w] = Taken(w)
  BY <1>3, <1>6 DEF BytesInv, StreamInv
<1>8. Len(consumed[w]) = sent[w]
  <2>1. Taken(w) = Len(consumed[w]) + 0 /\ Len(consumed[w]) \in Nat
    BY <1>1 DEF Taken, TypeOK, ConsumerType
  <2> QED
    BY <1>7, <2>1
<1>9. left[w] = 0 /\ size[w] = 0 /\ sent[w] \in Nat
  BY <1>1, <1>3, <1>5 DEF BytesInv, WordsInv, TypeOK, AppenderType
<1>10. C[w] /\ Len(consumed[w]) = A[w]
  <2>1. C[w]
    BY <1>5, Zenon
  <2>2. A[w] = sent[w] + left[w] + size[w]
    OBVIOUS
  <2>3. Len(consumed[w]) = sent[w] + left[w] + size[w]
    BY <1>8, <1>9
  <2> QED
    BY <2>1, <2>2, <2>3, Zenon
<1>11. A' = A /\ C' = C /\ consumed' = consumed
  BY <1>1 DEF appender
<1>12. O' = O \ {w}
  <2>1. \A i, j \in DOMAIN live : live[i] = live[j] => i = j
    BY <1>1 DEF LiveInv
  <2>2. {live'[i] : i \in DOMAIN live'} = {live[i] : i \in DOMAIN live} \ {live[Here]}
    <3>1. PICK s, k, t : s = live /\ k = Here /\ t = live'
      OBVIOUS
    <3>2. s \in Seq(Writers) /\ k \in 1 .. Len(s) /\ t = Erase(s, k)
          /\ \A i, j \in DOMAIN s : s[i] = s[j] => i = j
      BY <1>1, <2>1, <3>1
    <3>3. \A x : (\E i \in DOMAIN t : t[i] = x) <=> (\E i \in DOMAIN s : s[i] = x) /\ x # s[k]
      BY <3>2, EraseOne
    <3>4. \A x : (\E i \in DOMAIN live' : live'[i] = x)
                   <=> (\E i \in DOMAIN live : live[i] = x) /\ x # live[Here]
      BY <3>1, <3>3
    <3> QED
      BY <3>4
  <2> QED
    BY <1>2, <2>2
<1>13. Stream!ReportEnd(w)
  BY <1>10, <1>11, <1>12 DEF Stream!ReportEnd
<1> QED
  BY <1>13 DEF Stream!Next

\* The application reads the bytes of a segment: at most what has been appended.
LEMMA StreamDeliver ==
  ASSUME N >= 2, DataInv, Use
  PROVE  Stream!Next
<1> DEFINE A == [v \in Writers |-> sent[v] + left[v] + size[v]]
           C == [v \in Writers |-> wpc[v] = "closed"]
           O == {live[i] : i \in DOMAIN live}
<1>1. PICK w : w = held.ring
  OBVIOUS
<1>2. /\ w \in Writers /\ held.size \in Nat /\ Len(consumed[w]) \in Nat
      /\ consumed' = [consumed EXCEPT ![w] =
                        consumed[w] \o [i \in 1 .. held.size |-> Len(consumed[w]) + i]]
  <2>1. w \in Writers /\ held.size \in Nat /\ Len(consumed[w]) \in Nat
    BY <1>1, UseFacts
  <2>2. PICK next \in Seq(Nat) :
             /\ Len(next) = held.size
             /\ \A i \in 1 .. held.size : next[i] = Len(consumed[w]) + i
             /\ consumed' = [consumed EXCEPT ![w] = consumed[w] \o next]
    BY <1>1, UseFacts
  <2>3. next = [i \in 1 .. held.size |-> Len(consumed[w]) + i]
    BY <2>1, <2>2
  <2> QED
    BY <2>1, <2>2, <2>3, Zenon
<1>3. cpc = "use" /\ UNCHANGED <<appender, live>>
  BY DEF Use
<1>4. /\ TypeOK /\ BytesInv(w) /\ LiveInv
      /\ sent[w] \in Nat /\ left[w] \in Nat /\ size[w] \in Nat /\ sizeUsed[w] \in Nat
      /\ iter[w] \in Segs /\ seg[w] \in Segs
  <2>1. TypeOK /\ BytesInv(w) /\ LiveInv
    BY <1>2 DEF DataInv, IInv
  <2>2. sent[w] \in Nat /\ left[w] \in Nat /\ size[w] \in Nat
    BY <1>2, <2>1 DEF TypeOK, AppenderType
  <2>3. sizeUsed[w] \in Nat /\ seg[w] \in Segs
    BY <1>2, <2>1, ConstantsAssumption DEF TypeOK, AppenderType
  <2>4. iter[w] \in Segs
    BY <1>2, <2>1 DEF TypeOK, ConsumerType
  <2> QED
    BY <2>1, <2>2, <2>3, <2>4
<1>5. w \in O
  BY <1>1, <1>3, <1>4 DEF LiveInv
<1>6. Taken(w) = Len(consumed[w]) + held.size
  BY <1>1, <1>3 DEF Taken
<1>7. Taken(w) <= sent[w]
  <2>1. Bytes(Dist(iter[w], seg[w])) \in Nat
    <3>1. Dist(iter[w], seg[w]) \in Nat
      BY <1>4, DistFacts, ConstantsAssumption
    <3> QED
      BY <3>1, BytesFacts
  <2>2. Taken(w) \in Nat
    BY <1>2, <1>6
  <2>3. \/ sent[w] = Taken(w)
        \/ sent[w] = Taken(w) + Bytes(Dist(iter[w], seg[w])) + sizeUsed[w]
    BY <1>4 DEF BytesInv, StreamInv
  <2> QED
    BY <1>4, <2>1, <2>2, <2>3
<1>8. held.size \in 0 .. A[w] - Len(consumed[w])
  BY <1>2, <1>4, <1>6, <1>7
<1>9. A' = A /\ C' = C /\ O' = O
  BY <1>3 DEF appender
<1>10. \E n \in 0 .. A[w] - Len(consumed[w]) :
         consumed' = [consumed EXCEPT ![w] = consumed[w] \o [i \in 1 .. n |-> Len(consumed[w]) + i]]
  BY <1>2, <1>8
<1>11. Stream!Deliver(w)
  BY <1>5, <1>9, <1>10, Zenon DEF Stream!Deliver
<1> QED
  BY <1>2, <1>11 DEF Stream!Next

\* Every step of the buffer is a step of the streams or leaves them alone.
LEMMA StreamStep ==
  ASSUME N >= 2, DataInv, [Next]_vars
  PROVE  [Stream!Next]_(Stream!vars)
<1>1. ASSUME NEW w \in Writers, NEW n \in AppendSizes, Append_(w, n) PROVE Stream!Next
  BY <1>1, StreamAppend
<1>2. ASSUME NEW w \in Writers, Close(w) PROVE Stream!Next
  BY <1>2, StreamClose
<1>3. ASSUME NEW w \in Writers, WriterStep(w) PROVE UNCHANGED Stream!vars
  BY <1>3, StreamWriter
<1>4. CASE UNCHANGED <<appender, live, consumed>>
  <2>1. UNCHANGED <<sent, left, size, wpc, live, consumed>>
    BY <1>4 DEF appender
  <2> QED
    BY <2>1, StreamSame
<1>5. ASSUME NEW w \in Writers, NicStep(w) PROVE UNCHANGED <<appender, live, consumed>>
  BY <1>5 DEF NicStep, LandData, LandCounter, LandFlags, consumer
<1>6. CASE \/ SkipRing \/ FoundSegment \/ NoMoreRings \/ MarkCounter \/ MarkConsumable
           \/ MarkWriteable \/ Take
  <2>1. UNCHANGED <<appender, live, consumed>>
    BY <1>6 DEF SkipRing, FoundSegment, NoMoreRings, MarkCounter, MarkConsumable, MarkWriteable,
       MarkPrev, Take
  <2> QED
    BY <1>4, <2>1
<1>7. CASE DropRing
  BY <1>7, StreamEnd
<1>8. CASE Use
  BY <1>8, StreamDeliver
<1>9. CASE UNCHANGED vars
  BY <1>4, <1>9 DEF vars, consumer
<1> QED
  BY <1>1, <1>2, <1>3, <1>4, <1>5, <1>6, <1>7, <1>8, <1>9 DEF Next, ConsumerStep

\* The BW buffer implements the streams of its appenders: whatever the sizes passed to
\* append, the interleaving of writers, cards and iterator and the number of rings, the
\* application receives every stream in order, and has_next drops a ring only when its
\* writer has closed it and all of it has been read.
THEOREM Refinement ==
  ASSUME N >= 2
  PROVE  Spec => ImplementsStream
<1>1. Init => Stream!Init
  BY StreamInit
<1>2. DataInv /\ [Next]_vars => [Stream!Next]_(Stream!vars)
  BY StreamStep
<1> QED
  BY <1>1, <1>2, DataInvariance, PTL DEF Spec, ImplementsStream, Stream!SafeSpec

================================================================================
