---------------------------- MODULE BufferLatProof ----------------------------
(***************************************************************************)
(* Theorems about BufferLat, for rings of more than one segment and an     *)
(* internal buffer with room for a ring of messages: the writer never uses *)
(* a segment that is not released, nothing in flight is overwritten, sizes *)
(* are reported, and the buffer implements the stream of BufferStream.     *)
(***************************************************************************)
EXTENDS BufferLat, SequenceTheorems, WellFoundedInduction, TLAPS

-----------------------------------------------------------------------------
(***************************************************************************)
(* Places in a ring of n, gone round again and again.                      *)
(***************************************************************************)

\* A set of natural numbers has a least element.
LEMMA LeastElement ==
  ASSUME NEW T \in SUBSET Nat, T # {}
  PROVE  \E x \in T : \A y \in T : x <= y
<1>1. \E x \in T : \A y \in T : ~ (<<y, x>> \in OpToRel(<, Nat))
  BY WFMin, NatLessThanWellFounded
<1>2. \A x, y \in T : ~ (<<y, x>> \in OpToRel(<, Nat)) => x <= y
  BY DEF OpToRel
<1> QED
  BY <1>1, <1>2

\* The k-th step round a ring of n places leads to place s: k % n.
LeadsTo(k, n, s) == s \in 0 .. n - 1 /\ \E q \in Nat : k = q * n + s
Place(k, n) == CHOOSE s : LeadsTo(k, n, s)

LEMMA LeadsOn ==
  ASSUME NEW n \in Nat \ {0}, NEW k \in Nat, NEW s, LeadsTo(k, n, s)
  PROVE  LeadsTo(k + 1, n, IF s = n - 1 THEN 0 ELSE s + 1)
<1>1. PICK q \in Nat : k = q * n + s
  BY DEF LeadsTo
<1>2. s \in 0 .. n - 1
  BY DEF LeadsTo
<1>3. CASE s = n - 1
  <2>1. k + 1 = (q + 1) * n + 0
    BY <1>1, <1>2, <1>3
  <2> QED
    BY <1>2, <1>3, <2>1 DEF LeadsTo
<1>4. CASE s # n - 1
  <2>1. k + 1 = q * n + (s + 1)
    BY <1>1, <1>2
  <2> QED
    BY <1>2, <1>4, <2>1 DEF LeadsTo
<1> QED
  BY <1>3, <1>4

LEMMA LeadsApart ==
  ASSUME NEW n \in Nat \ {0}, NEW a \in Nat, NEW b \in Nat, a < b, b - a < n,
         NEW s, LeadsTo(a, n, s)
  PROVE  ~ LeadsTo(b, n, s)
<1> SUFFICES ASSUME LeadsTo(b, n, s) PROVE FALSE
  OBVIOUS
<1>1. PICK p \in Nat : a = p * n + s
  BY DEF LeadsTo
<1>2. PICK q \in Nat : b = q * n + s
  BY DEF LeadsTo
<1>3. s \in Int
  BY DEF LeadsTo
<1> DEFINE d == q - p
<1>4. b - a = d * n
  BY <1>1, <1>2, <1>3
<1>5. d \in Int /\ 0 < d * n /\ d * n < n
  BY <1>4
<1> HIDE DEF d
<1>6. CASE d <= 0
  BY <1>5, <1>6
<1>7. CASE d >= 1
  <2>1. d * n >= 1 * n
    BY <1>5, <1>7
  <2> QED
    BY <1>5, <2>1
<1> QED
  BY <1>5, <1>6, <1>7

LEMMA LeadsSomewhere ==
  ASSUME NEW n \in Nat \ {0}
  PROVE  \A k \in Nat : \E s : LeadsTo(k, n, s)
<1> DEFINE B == {k \in Nat : ~ \E s : LeadsTo(k, n, s)}
<1>1. SUFFICES ASSUME B # {} PROVE FALSE
  OBVIOUS
<1>2. PICK k \in B : \A j \in B : k <= j
  <2>1. B \in SUBSET Nat
    OBVIOUS
  <2> HIDE DEF B
  <2> QED
    BY <1>1, <2>1, LeastElement
<1>3. k # 0
  <2>1. 0 = 0 * n + 0 /\ 0 \in 0 .. n - 1
    OBVIOUS
  <2>2. LeadsTo(0, n, 0)
    BY <2>1 DEF LeadsTo
  <2> QED
    BY <2>2
<1>4. k - 1 \in Nat /\ k - 1 \notin B
  BY <1>2, <1>3
<1>5. PICK s : LeadsTo(k - 1, n, s)
  BY <1>4
<1>6. (k - 1) + 1 = k
  BY <1>4
<1>7. LeadsTo((k - 1) + 1, n, IF s = n - 1 THEN 0 ELSE s + 1)
  BY <1>4, <1>5, LeadsOn
<1> QED
  BY <1>6, <1>7

\* What is used of places: their type, the first ones, the next one, and that fewer
\* than n steps never lead back.
LEMMA PlaceType ==
  ASSUME NEW n \in Nat \ {0}, NEW k \in Nat
  PROVE  LeadsTo(k, n, Place(k, n)) /\ Place(k, n) \in 0 .. n - 1
<1>1. \E s : LeadsTo(k, n, s)
  BY LeadsSomewhere
<1>2. LeadsTo(k, n, Place(k, n))
  BY <1>1, Zenon DEF Place
<1> QED
  BY <1>2 DEF LeadsTo

LEMMA PlaceUnique ==
  ASSUME NEW n \in Nat \ {0}, NEW k \in Nat, NEW s, LeadsTo(k, n, s)
  PROVE  Place(k, n) = s
<1> DEFINE t == Place(k, n)
<1>1. LeadsTo(k, n, t)
  BY PlaceType
<1> HIDE DEF t
<1>2. PICK p \in Nat : k = p * n + s
  BY DEF LeadsTo
<1>3. PICK q \in Nat : k = q * n + t
  BY <1>1 DEF LeadsTo
<1>4. s \in 0 .. n - 1 /\ t \in 0 .. n - 1
  BY <1>1 DEF LeadsTo
<1> DEFINE d == q - p
<1>5. d \in Int /\ s - t = d * n
  BY <1>2, <1>3, <1>4
<1> HIDE DEF d
<1>6. ~ d >= 1
  <2> SUFFICES ASSUME d >= 1 PROVE FALSE
    OBVIOUS
  <2>1. d * n >= 1 * n
    BY <1>5
  <2> QED
    BY <1>4, <1>5, <2>1
<1>7. ~ d <= -1
  <2> SUFFICES ASSUME d <= -1 PROVE FALSE
    OBVIOUS
  <2>1. d * n <= (-1) * n
    BY <1>5
  <2> QED
    BY <1>4, <1>5, <2>1
<1>8. d = 0
  BY <1>5, <1>6, <1>7
<1>9. d * n = 0
  BY <1>8
<1>10. s = t
  BY <1>4, <1>5, <1>9
<1> QED
  BY <1>10 DEF t

LEMMA PlaceNext ==
  ASSUME NEW n \in Nat \ {0}, NEW k \in Nat
  PROVE  Place(k + 1, n) = IF Place(k, n) = n - 1 THEN 0 ELSE Place(k, n) + 1
BY PlaceType, LeadsOn, PlaceUnique

LEMMA PlaceApart ==
  ASSUME NEW n \in Nat \ {0}, NEW a \in Nat, NEW b \in Nat, a < b, b - a < n
  PROVE  Place(a, n) # Place(b, n)
BY PlaceType, LeadsApart

LEMMA PlaceFirst ==
  ASSUME NEW n \in Nat \ {0}, NEW k \in 0 .. n - 1
  PROVE  Place(k, n) = k
<1>1. k = 0 * n + k
  OBVIOUS
<1>2. LeadsTo(k, n, k)
  BY <1>1 DEF LeadsTo
<1> QED
  BY <1>2, PlaceUnique

-----------------------------------------------------------------------------
(***************************************************************************)
(* The inductive invariant.  Message k goes through segment Seg(k) and     *)
(* through slot Place(k - 1, Slots), and everything there is is told by    *)
(* how far the messages have come.                                         *)
(***************************************************************************)
Seg(k) == Place(k - 1, N)

\* Data requests in the send queue: only its last one may be the header of close.
Data == IF sq # << >> /\ sq[Len(sq)].kind = "header" THEN Len(sq) - 1 ELSE Len(sq)

\* Messages that have landed, and those whose flags have.
Done    == sent - Data
Visible == IF landed = 2 THEN Done + 1 ELSE Done

\* Messages handed out, the first one whose segment is not cleared, and the segments
\* counted as released.
Taken   == IF cpc = "use" THEN Len(consumed) + 1 ELSE Len(consumed)
Oldest  == IF Taken > 0 /\ cpc \notin {"count", "take"} THEN Taken ELSE Taken + 1
Counted == IF Taken > 0 /\ cpc # "take" THEN Taken - 1 ELSE Taken

DataHeader(s) == [counter |-> MsgSize, next |-> Succ(s), W |-> TRUE, C |-> TRUE, E |-> FALSE]
LastHeader(s) == [counter |-> SegSize, next |-> Succ(s), W |-> FALSE, C |-> TRUE, E |-> TRUE]

DataRequest(k) == [kind |-> "data", seg |-> Seg(k), slot |-> Place(k - 1, Slots), msg |-> k]
EndRequest     == [kind |-> "header", seg |-> last]

Header  == [counter : Nat, next : Segs, W : BOOLEAN, C : BOOLEAN, E : BOOLEAN]
Request == [kind : {"data"}, seg : Segs, slot : 0 .. Slots - 1, msg : Nat]
             \cup [kind : {"header"}, seg : Segs]
Reading == [msg : Nat, size : Nat, torn : BOOLEAN]

TypeInv ==
  /\ header \in [Segs -> Header] /\ payload \in [Segs -> Nat] /\ released \in Nat
  /\ wpc \in {"idle", "read_counter", "write", "closed"}
  /\ sent \in Nat /\ cnt \in Nat
  /\ ibuf \in [0 .. Slots - 1 -> [hdr : Header, msg : Nat]]
  /\ sq \in Seq(Request) /\ landed \in 0 .. 2 /\ signaled \in BOOLEAN
  /\ cpc \in {"has_next", "mark_counter", "mark_consumable", "count", "take", "use", "end"}
  /\ held \in [seg : Segs, size : Nat]
  /\ consumed \in Seq(Reading)

\* Where the writer is follows from the messages appended.  It counts on no segment
\* that is not released, and after the first round one less than the ring has is free
\* to a writer that has waited: the consumer holds the last one it was handed back.
WriterInv ==
  /\ cur  = Place(sent, N)
  /\ last = IF sent = 0 THEN 0 ELSE Seg(sent)
  /\ hdr  = IF wpc = "closed" THEN LastHeader(last)
            ELSE IF sent = 0 THEN FreshHeader(last) ELSE DataHeader(last)
  /\ islot = IF sent = 0 THEN 0 ELSE Place(sent - 1, Slots) + 1
  /\ free = cnt - sent /\ free >= 0 /\ (wpc = "write" => free > 0)
  /\ cnt <= released
  /\ cnt = N \/ cnt <= N + Done - 1

\* The send queue holds the last messages appended, then the header of close.
QueueInv ==
  /\ Data <= sent
  /\ \A i \in 1 .. Data : sq[i] = DataRequest(Done + i)
  /\ Len(sq) # Data => /\ wpc = "closed" /\ signaled /\ sent > 0
                       /\ sq[Len(sq)] = EndRequest
  /\ landed > 0 => sq # << >>
  /\ landed = 2 => Data > 0

\* Header and message of every one of them are in the internal buffer.
SlotsInv ==
  \A k \in Done + 1 .. sent :
    ibuf[Place(k - 1, Slots)] = [hdr |-> DataHeader(Seg(k)), msg |-> k]

\* Where the consumer is follows from the messages handed out.
ConsumerInv ==
  /\ iter = Place(Taken, N)
  /\ prev = IF Taken = 0 THEN NoSeg ELSE Seg(Taken)
  /\ cpc = "use" => held.seg = prev
  /\ released = N + Counted
  /\ Taken <= Visible
  /\ cpc \in {"mark_counter", "mark_consumable", "count", "take"} => Taken < Visible
  /\ cpc \in {"mark_counter", "mark_consumable", "count"} => Taken > 0
  /\ cpc = "end" => wpc = "closed" /\ Taken = sent

\* Every header: the ring is linked, the end mark is on the last message, and what can
\* be consumed is what is visible and not cleared.
RingInv ==
  /\ \A s \in Segs :
       /\ header[s].next = Succ(s)
       /\ header[s].W <=> ~ header[s].E
       /\ header[s].E => wpc = "closed" /\ sent > 0 /\ s = last /\ Done = sent
  /\ \A k \in Oldest .. Oldest + N - 1 : (header[Seg(k)].C <=> k <= Visible)

\* The size of message k, or of the segment when the ring is closed behind it.
SizeOf(k, size) == size = MsgSize \/ (k = sent /\ wpc = "closed" /\ size = SegSize)

SizesInv ==
  /\ \A k \in Taken + 1 .. Visible : SizeOf(k, header[Seg(k)].counter)
  /\ landed = 1 /\ Data > 0 => header[Seg(Done + 1)].counter = MsgSize
  /\ cpc = "use" => SizeOf(Taken, held.size)
  /\ \A i \in 1 .. Len(consumed) : SizeOf(i, consumed[i].size)

\* What has landed is there until its segment is released.
ContentInv ==
  /\ \A k \in Oldest .. Done : payload[Seg(k)] = k
  /\ \A i \in 1 .. Len(consumed) : consumed[i].torn \/ consumed[i].msg = i

IInv ==
  /\ TypeInv /\ WriterInv /\ QueueInv /\ SlotsInv
  /\ ConsumerInv /\ RingInv /\ SizesInv /\ ContentInv

\* More than one segment: otherwise the iterator finds the segment it has handed out
\* last to be consumable and hands it out again.  An internal buffer with room for a
\* ring of messages: otherwise it is overwritten while requests read it.
Roomy == N > 1 /\ Slots >= N

-----------------------------------------------------------------------------
(***************************************************************************)
(* What the invariant says of the order of things.                         *)
(***************************************************************************)
LEMMA PlaceRound ==
  ASSUME NEW n \in Nat \ {0}, NEW k \in Nat
  PROVE  Place(k + n, n) = Place(k, n)
<1> DEFINE s == Place(k, n)
<1>1. LeadsTo(k, n, s)
  BY PlaceType
<1> HIDE DEF s
<1>2. PICK q \in Nat : k = q * n + s
  BY <1>1 DEF LeadsTo
<1>3. s \in 0 .. n - 1
  BY <1>1 DEF LeadsTo
<1>4. k + n = (q + 1) * n + s
  BY <1>2, <1>3
<1>5. LeadsTo(k + n, n, s)
  <2>1. q + 1 \in Nat
    OBVIOUS
  <2>2. \E r \in Nat : k + n = r * n + s
    BY <1>4, <2>1
  <2> QED
    BY <1>3, <2>2 DEF LeadsTo
<1>6. Place(k + n, n) = s
  BY <1>5, PlaceUnique
<1> QED
  BY <1>6 DEF s

LEMMA SegType ==
  ASSUME NEW k \in Nat \ {0}
  PROVE  Seg(k) \in Segs
BY PlaceType, LatAssumption DEF Seg, Segs

LEMMA SegNext ==
  ASSUME NEW k \in Nat \ {0}
  PROVE  Succ(Seg(k)) = Seg(k + 1)
<1>1. k - 1 \in Nat /\ (k - 1) + 1 = (k + 1) - 1 /\ N \in Nat \ {0}
  BY LatAssumption
<1> QED
  BY <1>1, PlaceNext DEF Seg, Succ

LEMMA SegApart ==
  ASSUME NEW j \in Nat \ {0}, NEW k \in Nat \ {0}, j # k, k - j < N, j - k < N
  PROVE  Seg(j) # Seg(k)
<1>1. j - 1 \in Nat /\ k - 1 \in Nat /\ N \in Nat \ {0}
  BY LatAssumption
<1>2. CASE j < k
  BY <1>1, <1>2, PlaceApart DEF Seg
<1>3. CASE k < j
  BY <1>1, <1>3, PlaceApart DEF Seg
<1> QED
  BY <1>2, <1>3

LEMMA SegRound ==
  ASSUME NEW k \in Nat \ {0}
  PROVE  Seg(k + N) = Seg(k)
<1>1. k - 1 \in Nat /\ (k - 1) + N = (k + N) - 1 /\ N \in Nat \ {0}
  BY LatAssumption
<1> QED
  BY <1>1, PlaceRound DEF Seg

LEMMA SlotApart ==
  ASSUME NEW j \in Nat \ {0}, NEW k \in Nat \ {0}, j # k, k - j < Slots, j - k < Slots
  PROVE  Place(j - 1, Slots) # Place(k - 1, Slots)
<1>1. j - 1 \in Nat /\ k - 1 \in Nat /\ Slots \in Nat \ {0}
  BY LatAssumption
<1>2. CASE j < k
  BY <1>1, <1>2, PlaceApart
<1>3. CASE k < j
  BY <1>1, <1>3, PlaceApart
<1> QED
  BY <1>2, <1>3

LEMMA Numbers ==
  ASSUME TypeInv
  PROVE  /\ Len(sq) \in Nat /\ Data \in Nat /\ Data <= Len(sq) /\ Len(sq) <= Data + 1
         /\ Done \in Int /\ Visible \in Int /\ Done <= Visible
         /\ Len(consumed) \in Nat /\ Taken \in Nat /\ Oldest \in Nat \ {0} /\ Counted \in Nat
         /\ Counted < Oldest /\ Taken <= Oldest /\ Oldest <= Taken + 1
         /\ N \in Nat \ {0} /\ Slots \in Nat \ {0}
<1>1. Len(sq) \in Nat /\ Len(consumed) \in Nat
  BY LenProperties DEF TypeInv
<1>2. sq # << >> => Len(sq) > 0
  BY <1>1, EmptySeq DEF TypeInv
<1>3. sent \in Nat /\ landed \in 0 .. 2
  BY DEF TypeInv
<1>4. Data \in Nat /\ Data <= Len(sq) /\ Len(sq) <= Data + 1
  BY <1>1, <1>2 DEF Data
<1>5. Done \in Int /\ Visible \in Int /\ Done <= Visible
  BY <1>3, <1>4 DEF Done, Visible
<1>6. Taken \in Nat
  BY <1>1 DEF Taken
<1>7. /\ Oldest \in Nat \ {0} /\ Counted \in Nat
      /\ Counted < Oldest /\ Taken <= Oldest /\ Oldest <= Taken + 1
  BY <1>6 DEF Oldest, Counted
<1> QED
  BY <1>1, <1>4, <1>5, <1>6, <1>7, LatAssumption

\* Everything between the oldest segment in use and the last message is one round.
LEMMA Order ==
  ASSUME TypeInv, WriterInv, QueueInv, ConsumerInv
  PROVE  /\ 0 <= Done /\ Visible <= sent /\ sent <= cnt /\ cnt <= N + Counted
         /\ Taken <= Visible /\ sent < Oldest + N /\ Oldest <= Visible + 1
         /\ (cpc # "take" /\ Taken > 0) => sent < Taken + N
         /\ Visible > 0 => Oldest <= Visible
<1>1. sent \in Nat /\ cnt \in Nat
  BY DEF TypeInv
<1>2. free = cnt - sent /\ free >= 0 /\ cnt <= released
  BY DEF WriterInv
<1>3. Data <= sent /\ (landed = 2 => Data > 0)
  BY DEF QueueInv
<1>4. /\ released = N + Counted /\ Taken <= Visible
  BY DEF ConsumerInv
<1>5. 0 <= Done /\ Visible <= sent
  BY <1>1, <1>3, Numbers DEF Done, Visible
<1>6. cpc # "take" /\ Taken > 0 => Counted = Taken - 1
  BY DEF Counted
<1>7. sent <= cnt /\ cnt <= N + Counted
  BY <1>1, <1>2, <1>4, Numbers
<1>8. sent < Oldest + N /\ Oldest <= Visible + 1
  BY <1>1, <1>4, <1>7, Numbers
<1>9. (cpc # "take" /\ Taken > 0) => sent < Taken + N
  <2>1. Taken \in Int /\ N \in Int
    BY Numbers
  <2>2. SUFFICES ASSUME cpc # "take" /\ Taken > 0
                 PROVE  sent < Taken + N
    OBVIOUS
  <2>3. Counted = Taken - 1
    BY <1>6, <2>2
  <2>4. sent <= cnt /\ cnt <= N + (Taken - 1)
    BY <1>7, <2>3
  <2> QED
    BY <1>1, <2>1, <2>4
<1>10. Visible > 0 => Oldest <= Visible
  <2>1. Taken \in Nat /\ Visible \in Int /\ (cpc \in {"count", "take"} => Taken < Visible)
    BY Numbers DEF ConsumerInv
  <2> QED
    BY <1>4, <2>1 DEF Oldest
<1> QED
  BY <1>4, <1>5, <1>7, <1>8, <1>9, <1>10

-----------------------------------------------------------------------------
(***************************************************************************)
(* The initial states.                                                     *)
(***************************************************************************)
LEMMA HeaderTypes ==
  ASSUME NEW s \in Segs
  PROVE  FreshHeader(s) \in Header /\ DataHeader(s) \in Header /\ LastHeader(s) \in Header
<1>1. Succ(s) \in Segs /\ MsgSize \in Nat /\ SegSize \in Nat
  BY LatAssumption DEF Succ, Segs
<1> QED
  BY <1>1 DEF FreshHeader, DataHeader, LastHeader, Header

LEMMA HeaderFlags ==
  ASSUME NEW s
  PROVE  /\ FreshHeader(s).W /\ ~ FreshHeader(s).C /\ ~ FreshHeader(s).E
         /\ DataHeader(s).W /\ DataHeader(s).C /\ ~ DataHeader(s).E
         /\ ~ LastHeader(s).W /\ LastHeader(s).C /\ LastHeader(s).E
BY Zenon DEF FreshHeader, DataHeader, LastHeader

LEMMA HeaderWords ==
  ASSUME NEW s
  PROVE  /\ FreshHeader(s).next = Succ(s) /\ DataHeader(s).next = Succ(s)
         /\ LastHeader(s).next = Succ(s)
         /\ DataHeader(s).counter = MsgSize /\ LastHeader(s).counter = SegSize
BY DEF FreshHeader, DataHeader, LastHeader

LEMMA Initially == Init => IInv
<1> SUFFICES ASSUME Init PROVE IInv
  OBVIOUS
<1>1. /\ sq = << >> /\ consumed = << >> /\ Len(sq) = 0 /\ Len(consumed) = 0
      /\ sent = 0 /\ landed = 0 /\ cpc = "has_next" /\ wpc = "idle"
  BY DEF Init
<1>2. Data = 0 /\ Done = 0 /\ Visible = 0 /\ Taken = 0 /\ Oldest = 1 /\ Counted = 0
  <2>1. Data = 0 /\ Taken = 0
    BY <1>1 DEF Data, Taken
  <2>2. Done = 0 /\ Oldest = 1 /\ Counted = 0
    BY <1>1, <2>1 DEF Done, Oldest, Counted
  <2> QED
    BY <1>1, <2>1, <2>2 DEF Visible
<1>3. N \in Nat \ {0} /\ Slots \in Nat \ {0} /\ 0 \in Segs
  BY LatAssumption DEF Segs
<1>4. Place(0, N) = 0
  BY <1>3, PlaceFirst DEF Segs
<1>5. TypeInv
  <2>1. header \in [Segs -> Header]
    BY HeaderTypes DEF Init
  <2>2. ibuf \in [0 .. Slots - 1 -> [hdr : Header, msg : Nat]]
    BY <1>3, HeaderTypes DEF Init
  <2>3. sq \in Seq(Request) /\ consumed \in Seq(Reading)
    BY <1>1
  <2>4. held \in [seg : Segs, size : Nat]
    BY <1>3 DEF Init
  <2>5. payload \in [Segs -> Nat] /\ released \in Nat /\ cnt \in Nat
    BY <1>3 DEF Init
  <2>6. signaled \in BOOLEAN
    BY DEF Init
  <2> QED
    BY <1>1, <2>1, <2>2, <2>3, <2>4, <2>5, <2>6 DEF TypeInv
<1>6. WriterInv
  BY <1>1, <1>2, <1>3, <1>4 DEF WriterInv, Init
<1>7. QueueInv /\ SlotsInv
  BY <1>1, <1>2 DEF QueueInv, SlotsInv
<1>8. ConsumerInv
  BY <1>1, <1>2, <1>3, <1>4 DEF ConsumerInv, Init
<1>9. RingInv
  <2>1. \A s \in Segs : header[s] = FreshHeader(s)
    BY DEF Init
  <2>2. ASSUME NEW k \in 1 .. N PROVE header[Seg(k)].C <=> k <= 0
    <3>1. k \in Nat \ {0} /\ ~ (k <= 0)
      BY <1>3
    <3>2. ~ header[Seg(k)].C
      BY <2>1, <3>1, SegType, HeaderFlags
    <3> QED
      BY <3>1, <3>2
  <2>3. \A s \in Segs : header[s].next = Succ(s) /\ header[s].W /\ ~ header[s].E
    BY <2>1, HeaderFlags, HeaderWords
  <2> QED
    BY <1>2, <1>3, <2>2, <2>3 DEF RingInv
<1>10. SizesInv /\ ContentInv
  BY <1>1, <1>2 DEF SizesInv, ContentInv
<1> QED
  BY <1>5, <1>6, <1>7, <1>8, <1>9, <1>10 DEF IInv

-----------------------------------------------------------------------------
(***************************************************************************)
(* Steps of the writer.  They change nothing of what the consumer sees.    *)
(***************************************************************************)
LEMMA ConsumerSame ==
  ASSUME TypeInv, UNCHANGED consumer
  PROVE  /\ Taken' = Taken /\ Oldest' = Oldest /\ Counted' = Counted
         /\ consumed' = consumed /\ cpc' = cpc /\ iter' = iter /\ prev' = prev /\ held' = held
BY DEF consumer, Taken, Oldest, Counted

LEMMA WriterFrame ==
  ASSUME IInv, UNCHANGED <<memory, consumer, landed>>, Done' = Done,
         wpc' = wpc \/ wpc # "closed",
         wpc = "closed" \/ wpc' = "closed" => sent' = sent /\ last' = last,
         landed = 1 /\ Data' > 0 => Data > 0
  PROVE  ConsumerInv' /\ RingInv' /\ SizesInv' /\ ContentInv'
<1>1. /\ Taken' = Taken /\ Oldest' = Oldest /\ Counted' = Counted
      /\ consumed' = consumed /\ cpc' = cpc /\ iter' = iter /\ prev' = prev /\ held' = held
  BY ConsumerSame DEF IInv
<1>2. header' = header /\ payload' = payload /\ released' = released /\ landed' = landed
  BY DEF memory
<1>3. Visible' = Visible
  BY <1>2 DEF Visible
<1>4. wpc = "closed" => wpc' = "closed" /\ sent' = sent /\ last' = last
  OBVIOUS
<1>5. ConsumerInv'
  BY <1>1, <1>2, <1>3, <1>4 DEF IInv, ConsumerInv
<1>6. RingInv'
  BY <1>1, <1>2, <1>3, <1>4 DEF IInv, RingInv
<1>7. SizesInv'
  <2>1. ASSUME NEW k, NEW size, SizeOf(k, size) PROVE SizeOf(k, size)'
    BY <1>4, <2>1 DEF SizeOf
  <2>2. \A k \in Taken + 1 .. Visible : SizeOf(k, header[Seg(k)].counter)'
    BY <1>2, <2>1 DEF IInv, SizesInv
  <2>3. cpc = "use" => SizeOf(Taken, held.size)'
    BY <1>1, <2>1 DEF IInv, SizesInv
  <2>4. \A i \in 1 .. Len(consumed) : SizeOf(i, consumed[i].size)'
    BY <1>1, <2>1 DEF IInv, SizesInv
  <2>5. landed = 1 /\ Data' > 0 => header[Seg(Done + 1)].counter = MsgSize
    BY DEF IInv, SizesInv
  <2> QED
    BY <1>1, <1>2, <1>3, <2>2, <2>3, <2>4, <2>5 DEF SizesInv
<1>8. ContentInv'
  BY <1>1, <1>2 DEF IInv, ContentInv
<1> QED
  BY <1>5, <1>6, <1>7, <1>8

LEMMA RequestTypes ==
  ASSUME NEW k \in Nat \ {0}
  PROVE  DataRequest(k) \in Request
<1>1. k - 1 \in Nat /\ Slots \in Nat \ {0}
  BY LatAssumption
<1>2. Place(k - 1, Slots) \in 0 .. Slots - 1
  BY <1>1, PlaceType
<1> QED
  BY <1>2, SegType DEF DataRequest, Request

\* The slot a message is copied to, and the messages whose slots are left alone.
LEMMA SlotOfNext ==
  ASSUME TypeInv, WriterInv
  PROVE  NextSlot = Place(sent, Slots)
<1>1. sent \in Nat /\ Slots \in Nat \ {0}
  BY LatAssumption DEF TypeInv
<1>2. CASE sent = 0
  <2>1. Place(0, Slots) = 0 /\ islot = 0
    BY <1>1, <1>2, PlaceFirst DEF WriterInv
  <2> QED
    BY <1>1, <1>2, <2>1 DEF NextSlot
<1>3. CASE sent # 0
  <2>1. sent - 1 \in Nat /\ (sent - 1) + 1 = sent
    BY <1>1, <1>3
  <2>2. islot = Place(sent - 1, Slots) + 1
    BY <1>3 DEF WriterInv
  <2>3. Place(sent - 1, Slots) \in 0 .. Slots - 1
    BY <1>1, <2>1, PlaceType
  <2>4. Place(sent, Slots) = IF Place(sent - 1, Slots) = Slots - 1 THEN 0
                             ELSE Place(sent - 1, Slots) + 1
    BY <1>1, <2>1, PlaceNext
  <2> QED
    BY <1>1, <2>2, <2>3, <2>4 DEF NextSlot
<1> QED
  BY <1>2, <1>3

LEMMA SlotsLeftAlone ==
  ASSUME Roomy, TypeInv, WriterInv, QueueInv, free > 0, NEW k \in Done + 1 .. sent, Done >= 0
  PROVE  /\ Place(k - 1, Slots) # Place(sent, Slots)
         /\ Place(k - 1, Slots) # Place(sent, Slots) + 1
<1>1. /\ sent \in Nat /\ cnt \in Nat /\ Data \in Nat /\ Done = sent - Data /\ Done \in Nat
      /\ Slots \in Nat \ {0} /\ N \in Nat \ {0} /\ Slots >= N
  BY Numbers DEF TypeInv, Done, Roomy
<1>2. k \in Nat \ {0} /\ k <= sent
  BY <1>1
<1>3. sent < cnt /\ (cnt = N \/ cnt <= N + Done - 1)
  BY <1>1 DEF WriterInv
<1>4. /\ Place(sent, Slots) \in 0 .. Slots - 1 /\ Place(k - 1, Slots) \in 0 .. Slots - 1
      /\ k - 1 \in Nat
  BY <1>1, <1>2, PlaceType
<1>5. Place(k - 1, Slots) # Place(sent, Slots)
  <2>1. sent - (k - 1) < Slots /\ k - 1 < sent
    BY <1>1, <1>2, <1>3
  <2> QED
    BY <1>1, <1>4, <2>1, PlaceApart
<1>6. Place(k - 1, Slots) # Place(sent, Slots) + 1
  <2>1. CASE cnt = N
    <3>1. sent \in 0 .. Slots - 1 /\ k - 1 \in 0 .. Slots - 1
      BY <1>1, <1>2, <1>3, <2>1
    <3>2. Place(sent, Slots) = sent /\ Place(k - 1, Slots) = k - 1
      BY <1>1, <3>1, PlaceFirst
    <3> QED
      BY <1>1, <1>2, <3>2
  <2>2. CASE cnt <= N + Done - 1
    <3>1. (sent + 1) - (k - 1) < Slots /\ k - 1 < sent + 1
      BY <1>1, <1>2, <1>3, <2>2
    <3>2. sent + 1 \in Nat
      BY <1>1
    <3>3. Place(k - 1, Slots) # Place(sent + 1, Slots)
      BY <1>1, <1>4, <3>1, <3>2, PlaceApart
    <3>4. Place(sent + 1, Slots) = IF Place(sent, Slots) = Slots - 1 THEN 0
                                   ELSE Place(sent, Slots) + 1
      BY <1>1, PlaceNext
    <3> QED
      BY <1>1, <1>4, <3>3, <3>4
  <2> QED
    BY <1>3, <2>1, <2>2
<1> QED
  BY <1>5, <1>6

\* The headers of messages and of the end, made from the one before.
IsHeader(r) ==
  r = [counter |-> r.counter, next |-> r.next, W |-> r.W, C |-> r.C, E |-> r.E]
Filled(r, x, y, z) == [r EXCEPT !.counter = x, !.C = y, !.next = z]
Ended(r, x, w, y, e) == [r EXCEPT !.counter = x, !.W = w, !.C = y, !.E = e]

LEMMA FilledIs ==
  ASSUME NEW r, NEW x, NEW y, NEW z, IsHeader(r)
  PROVE  Filled(r, x, y, z) = [counter |-> x, next |-> z, W |-> r.W, C |-> y, E |-> r.E]
<1> DEFINE r1 == [r EXCEPT !.counter = x]
           r2 == [r1 EXCEPT !.C = y]
<1>1. Filled(r, x, y, z) = [r2 EXCEPT !.next = z]
  BY DEF Filled
<1>2. r1 = [counter |-> x, next |-> r.next, W |-> r.W, C |-> r.C, E |-> r.E]
  BY Z3 DEF IsHeader
<1> HIDE DEF r1
<1>3. r2 = [counter |-> x, next |-> r.next, W |-> r.W, C |-> y, E |-> r.E]
  BY <1>2, Z3
<1> HIDE DEF r2
<1>4. [r2 EXCEPT !.next = z] = [counter |-> x, next |-> z, W |-> r.W, C |-> y, E |-> r.E]
  BY <1>3, Z3
<1> QED
  BY <1>1, <1>4, Zenon

LEMMA EndedIs ==
  ASSUME NEW r, NEW x, NEW w, NEW y, NEW e, IsHeader(r)
  PROVE  Ended(r, x, w, y, e) = [counter |-> x, next |-> r.next, W |-> w, C |-> y, E |-> e]
<1> DEFINE r1 == [r EXCEPT !.counter = x]
           r2 == [r1 EXCEPT !.W = w]
           r3 == [r2 EXCEPT !.C = y]
<1>1. Ended(r, x, w, y, e) = [r3 EXCEPT !.E = e]
  BY DEF Ended
<1>2. r1 = [counter |-> x, next |-> r.next, W |-> r.W, C |-> r.C, E |-> r.E]
  BY Z3 DEF IsHeader
<1> HIDE DEF r1
<1>3. r2 = [counter |-> x, next |-> r.next, W |-> w, C |-> r.C, E |-> r.E]
  BY <1>2, Z3
<1> HIDE DEF r2
<1>4. r3 = [counter |-> x, next |-> r.next, W |-> w, C |-> y, E |-> r.E]
  BY <1>3, Z3
<1> HIDE DEF r3
<1>5. [r3 EXCEPT !.E = e] = [counter |-> x, next |-> r.next, W |-> w, C |-> y, E |-> e]
  BY <1>4, Z3
<1> QED
  BY <1>1, <1>5, Zenon

LEMMA HeadersMade ==
  ASSUME WriterInv
  PROVE  /\ wpc # "closed" => Filled(hdr, MsgSize, TRUE, Succ(cur)) = DataHeader(cur)
         /\ EndHeader = LastHeader(last)
<1>1. hdr = FreshHeader(last) \/ hdr = DataHeader(last) \/ hdr = LastHeader(last)
  BY DEF WriterInv
<1>2. IsHeader(hdr)
  <2>1. CASE hdr = FreshHeader(last)
    BY <2>1 DEF IsHeader, FreshHeader
  <2>2. CASE hdr = DataHeader(last)
    BY <2>2 DEF IsHeader, DataHeader
  <2>3. CASE hdr = LastHeader(last)
    BY <2>3 DEF IsHeader, LastHeader
  <2> QED
    BY <1>1, <2>1, <2>2, <2>3
<1>3. ASSUME wpc # "closed" PROVE Filled(hdr, MsgSize, TRUE, Succ(cur)) = DataHeader(cur)
  <2>1. Filled(hdr, MsgSize, TRUE, Succ(cur))
          = [counter |-> MsgSize, next |-> Succ(cur), W |-> hdr.W, C |-> TRUE, E |-> hdr.E]
    BY <1>2, FilledIs, Zenon
  <2>2. hdr = FreshHeader(last) \/ hdr = DataHeader(last)
    BY <1>3 DEF WriterInv
  <2>3. hdr.W = TRUE /\ hdr.E = FALSE
    <3>1. CASE hdr = FreshHeader(last)
      BY <3>1, Zenon DEF FreshHeader
    <3>2. CASE hdr = DataHeader(last)
      BY <3>2, Zenon DEF DataHeader
    <3> QED
      BY <2>2, <3>1, <3>2, Zenon
  <2> QED
    BY <2>1, <2>3, Zenon DEF DataHeader
<1>4. EndHeader = LastHeader(last)
  <2>1. Ended(hdr, SegSize, FALSE, TRUE, TRUE)
          = [counter |-> SegSize, next |-> hdr.next, W |-> FALSE, C |-> TRUE, E |-> TRUE]
    BY <1>2, EndedIs, Zenon
  <2>2. hdr.next = Succ(last)
    BY <1>1, HeaderWords, Zenon
  <2> QED
    BY <2>1, <2>2, Zenon DEF LastHeader, EndHeader, Ended
<1> QED
  BY <1>3, <1>4

LEMMA Written ==
  ASSUME Roomy, IInv, wpc # "closed", free > 0, NEW sig \in BOOLEAN, WriteMessage(sig)
  PROVE  IInv'
<1> DEFINE h == [hdr EXCEPT !.counter = MsgSize, !.C = TRUE, !.next = Succ(cur)]
           k == sent + 1
<1>1. TypeInv /\ WriterInv /\ QueueInv /\ SlotsInv /\ ConsumerInv
  BY DEF IInv
<1>2. /\ sent \in Nat /\ k \in Nat \ {0} /\ k - 1 = sent
      /\ N \in Nat \ {0} /\ Slots \in Nat \ {0} /\ cnt \in Nat
  BY <1>1, LatAssumption DEF TypeInv
<1>3. cur = Seg(k) /\ cur \in Segs
  BY <1>1, <1>2, SegType DEF WriterInv, Seg
<1>4. h = DataHeader(cur)
  BY <1>1, HeadersMade, Zenon DEF Filled
<1>5. NextSlot = Place(k - 1, Slots) /\ NextSlot \in 0 .. Slots - 1
  BY <1>1, <1>2, SlotOfNext, PlaceType
<1>6. /\ hdr' = DataHeader(cur) /\ ibuf' = CopyMessage(NextSlot, DataHeader(cur))
      /\ islot' = NextSlot + 1 /\ sent' = k /\ free' = free - 1 /\ last' = cur
      /\ cur' = Succ(cur) /\ wpc' = "idle" /\ cnt' = cnt /\ landed' = landed
      /\ sq' = Append(sq, DataRequest(k)) /\ signaled' \in BOOLEAN
      /\ UNCHANGED <<memory, consumer>>
  <2>1. signaled' \in BOOLEAN
    BY Zenon DEF WriteMessage, Post, CheckSignaled
  <2> QED
    BY <1>3, <1>4, <1>5, <2>1 DEF WriteMessage, Post, DataRequest
<1> HIDE DEF h
<1>7. Len(sq) = Data /\ Len(sq) \in Nat /\ sq \in Seq(Request) /\ DataRequest(k) \in Request
  BY <1>1, <1>2, Numbers, RequestTypes DEF QueueInv, TypeInv
<1>8. /\ sq' \in Seq(Request) /\ Len(sq') = Len(sq) + 1 /\ sq'[Len(sq) + 1] = DataRequest(k)
      /\ \A i \in 1 .. Len(sq) : sq'[i] = sq[i]
  BY <1>6, <1>7, AppendProperties
<1>9. Data' = Data + 1
  BY <1>7, <1>8 DEF Data, DataRequest
<1>10. Done' = Done /\ Done \in Nat
  BY <1>1, <1>2, <1>6, <1>7, <1>9, Order DEF Done
<1>11. ConsumerInv' /\ RingInv' /\ SizesInv' /\ ContentInv'
  <2>1. landed = 1 => Data > 0
    BY <1>1, <1>7, EmptySeq DEF QueueInv
  <2> QED
    BY <1>6, <1>10, <2>1, WriterFrame
<1>12. TypeInv'
  <2>1. ibuf' \in [0 .. Slots - 1 -> [hdr : Header, msg : Nat]]
    <3>1. DataHeader(cur) \in Header /\ ibuf \in [0 .. Slots - 1 -> [hdr : Header, msg : Nat]]
      BY <1>1, <1>3, HeaderTypes DEF TypeInv
    <3> QED
      BY <1>2, <1>6, <3>1 DEF CopyMessage
  <2> QED
    BY <1>1, <1>2, <1>6, <1>8, <2>1 DEF TypeInv, memory, consumer
<1>13. WriterInv'
  <2>1. cur' = Place(k, N)
    BY <1>2, <1>3, <1>6, SegNext DEF Seg
  <2>2. cnt \in Nat /\ free = cnt - sent /\ cnt <= released /\ (cnt = N \/ cnt <= N + Done - 1)
    BY <1>1 DEF WriterInv, TypeInv
  <2>3. free' = cnt - k /\ free' >= 0
    BY <1>2, <1>6, <2>2
  <2>4. released' = released
    BY <1>6 DEF memory
  <2>5. islot' = Place(k - 1, Slots) + 1
    BY <1>5, <1>6
  <2> QED
    BY <1>2, <1>3, <1>6, <1>10, <2>1, <2>2, <2>3, <2>4, <2>5 DEF WriterInv
<1>14. QueueInv'
  <2>1. Data <= sent /\ \A i \in 1 .. Data : sq[i] = DataRequest(Done + i)
    BY <1>1 DEF QueueInv
  <2>2. k = Done + (Data + 1)
    BY <1>2, <1>7, <1>10 DEF Done
  <2>3. ASSUME NEW i \in 1 .. Data + 1 PROVE sq'[i] = DataRequest(Done + i)
    BY <1>7, <1>8, <2>1, <2>2
  <2>4. \A i \in 1 .. Data' : sq'[i] = DataRequest(Done' + i)
    BY <1>9, <1>10, <2>3
  <2>5. sq' # << >> /\ Data' > 0 /\ Data' <= sent'
    BY <1>2, <1>6, <1>7, <1>8, <1>9, <2>1
  <2> QED
    BY <1>7, <1>8, <1>9, <2>4, <2>5 DEF QueueInv
<1>15. SlotsInv'
  <2>1. ASSUME NEW j \in Done + 1 .. sent
        PROVE  ibuf'[Place(j - 1, Slots)] = [hdr |-> DataHeader(Seg(j)), msg |-> j]
    <3>1. j \in Nat \ {0} /\ j - 1 \in Nat
      BY <1>2, <1>10
    <3>2. Place(j - 1, Slots) \in 0 .. Slots - 1
      BY <1>2, <3>1, PlaceType
    <3>3. Place(j - 1, Slots) # NextSlot /\ Place(j - 1, Slots) # NextSlot + 1
      BY <1>1, <1>2, <1>5, <1>10, SlotsLeftAlone
    <3>4. ibuf'[Place(j - 1, Slots)] = ibuf[Place(j - 1, Slots)]
      BY <1>6, <3>2, <3>3 DEF CopyMessage
    <3> QED
      BY <1>1, <3>4 DEF SlotsInv
  <2>2. ibuf'[Place(k - 1, Slots)] = [hdr |-> DataHeader(Seg(k)), msg |-> k]
    BY <1>3, <1>5, <1>6 DEF CopyMessage
  <2>3. \A j \in Done + 1 .. k : j \in Done + 1 .. sent \/ j = k
    BY <1>2, <1>10
  <2> QED
    BY <1>6, <1>10, <2>1, <2>2, <2>3 DEF SlotsInv
<1> QED
  BY <1>11, <1>12, <1>13, <1>14, <1>15 DEF IInv

LEMMA AppendStep ==
  ASSUME Roomy, IInv, NEW sig \in BOOLEAN, Append_(sig) \/ AppendAfterWait(sig)
  PROVE  IInv'
<1>1. wpc # "closed" /\ WriteMessage(sig)
  BY DEF Append_, AppendAfterWait
<1>2. free > 0
  BY DEF Append_, AppendAfterWait, IInv, WriterInv
<1> QED
  BY <1>1, <1>2, Written

\* A step that posts nothing changes nothing of what is in flight either.
LEMMA QueueSame ==
  ASSUME IInv, UNCHANGED <<sq, landed, sent, last, ibuf>>,
         wpc = "closed" => wpc' = "closed",
         wpc = "closed" /\ sent > 0 => signaled' = signaled
  PROVE  Data' = Data /\ Done' = Done /\ Visible' = Visible /\ QueueInv' /\ SlotsInv'
<1>1. Data' = Data
  BY DEF Data
<1>2. Done' = Done
  BY <1>1 DEF Done
<1>3. Visible' = Visible
  BY <1>2 DEF Visible
<1>4. EndRequest' = EndRequest
  BY DEF EndRequest
<1>5. QueueInv'
  BY <1>1, <1>2, <1>4 DEF IInv, QueueInv
<1>6. SlotsInv'
  BY <1>2 DEF IInv, SlotsInv
<1> QED
  BY <1>1, <1>2, <1>3, <1>5, <1>6

LEMMA NoFreeSegmentStep ==
  ASSUME IInv, NoFreeSegment
  PROVE  IInv'
<1>1. /\ wpc = "idle" /\ wpc' = "read_counter"
      /\ UNCHANGED <<memory, sent, free, cnt, cur, last, hdr, ibuf, islot, queue, consumer>>
  BY DEF NoFreeSegment
<1>2. UNCHANGED <<sq, landed, signaled>>
  BY <1>1 DEF queue
<1>3. Data' = Data /\ Done' = Done /\ QueueInv' /\ SlotsInv'
  BY <1>1, <1>2, QueueSame
<1>4. ConsumerInv' /\ RingInv' /\ SizesInv' /\ ContentInv'
  BY <1>1, <1>2, <1>3, WriterFrame
<1>5. TypeInv'
  BY <1>1, <1>2 DEF IInv, TypeInv, memory, consumer
<1>6. WriterInv'
  <2>1. released' = released
    BY <1>1 DEF memory
  <2>2. hdr = IF sent = 0 THEN FreshHeader(last) ELSE DataHeader(last)
    BY <1>1 DEF IInv, WriterInv
  <2> QED
    BY <1>1, <1>3, <2>1, <2>2 DEF IInv, WriterInv
<1> QED
  BY <1>3, <1>4, <1>5, <1>6 DEF IInv

\* The counter as read: all that was sent has landed, and the consumer holds the last
\* segment it was handed.
LEMMA ReadCounterStep ==
  ASSUME IInv, ReadCounter
  PROVE  IInv'
<1>1. /\ wpc = "read_counter" /\ sq = << >> /\ cnt' = released
      /\ UNCHANGED <<memory, sent, cur, last, hdr, ibuf, islot, sq, landed, consumer>>
      /\ \/ released = cnt /\ wpc' = wpc /\ free' = free
         \/ released # cnt /\ free' = free + (released - cnt) /\ wpc' = "write"
  BY DEF ReadCounter, Credit
<1>2. signaled' \in BOOLEAN
  BY Zenon DEF ReadCounter, CheckSignaled
<1>3. Data' = Data /\ Done' = Done /\ QueueInv' /\ SlotsInv'
  BY <1>1, QueueSame
<1>4. ConsumerInv' /\ RingInv' /\ SizesInv' /\ ContentInv'
  BY <1>1, <1>3, WriterFrame
<1>5. TypeInv /\ WriterInv /\ QueueInv /\ ConsumerInv /\ released' = released
  BY <1>1 DEF IInv, memory
<1>6. TypeInv'
  BY <1>1, <1>2, <1>5 DEF TypeInv, memory, consumer
<1>7. WriterInv'
  <2>1. cnt \in Nat /\ sent \in Nat /\ released \in Nat /\ cnt <= released
    BY <1>5 DEF TypeInv, WriterInv
  <2>2. free = cnt - sent /\ free >= 0
    BY <1>5 DEF WriterInv
  <2>3. free' = released - sent /\ free' >= 0 /\ (wpc' = "write" => free' > 0)
    BY <1>1, <2>1, <2>2
  <2>4. Done = sent
    BY <1>1, <2>1 DEF Done, Data
  <2>5. released = N \/ released <= N + sent - 1
    <3>1. landed # 2
      BY <1>1, <1>5 DEF QueueInv, Data
    <3>2. Visible = sent
      BY <2>4, <3>1 DEF Visible
    <3>3. released = N + Counted /\ Taken <= sent /\ (cpc = "take" => Taken < sent)
      BY <1>5, <3>2 DEF ConsumerInv
    <3>4. Counted \in Nat /\ Taken \in Nat /\ N \in Nat
      BY <1>5, Numbers
    <3>5. Counted = 0 \/ Counted <= sent - 1
      BY <2>1, <3>3, <3>4 DEF Counted
    <3> QED
      BY <2>1, <3>3, <3>4, <3>5
  <2>6. hdr = IF sent = 0 THEN FreshHeader(last) ELSE DataHeader(last)
    BY <1>1, <1>5 DEF WriterInv
  <2>7. wpc' # "closed"
    BY <1>1
  <2> QED
    BY <1>1, <1>3, <1>5, <2>1, <2>3, <2>4, <2>5, <2>6, <2>7 DEF WriterInv
<1> QED
  BY <1>3, <1>4, <1>6, <1>7 DEF IInv

LEMMA CloseUnusedStep ==
  ASSUME IInv, CloseUnused
  PROVE  IInv'
<1>1. /\ sent = 0 /\ hdr' = EndHeader /\ wpc' = "closed"
      /\ UNCHANGED <<memory, sent, free, cnt, cur, last, ibuf, islot, sq, landed, consumer>>
  BY DEF CloseUnused
<1>2. signaled' \in BOOLEAN
  BY Zenon DEF CloseUnused, CheckSignaled
<1>3. Data' = Data /\ Done' = Done /\ QueueInv' /\ SlotsInv'
  BY <1>1, QueueSame
<1>4. ConsumerInv' /\ RingInv' /\ SizesInv' /\ ContentInv'
  BY <1>1, <1>3, WriterFrame
<1>5. TypeInv'
  BY <1>1, <1>2 DEF IInv, TypeInv, memory, consumer
<1>6. WriterInv'
  <2>1. released' = released
    BY <1>1 DEF memory
  <2>2. hdr' = LastHeader(last')
    BY <1>1, HeadersMade DEF IInv
  <2> QED
    BY <1>1, <1>3, <2>1, <2>2 DEF IInv, WriterInv
<1> QED
  BY <1>3, <1>4, <1>5, <1>6 DEF IInv

LEMMA CloseStep ==
  ASSUME IInv, Close
  PROVE  IInv'
<1>1. /\ sent > 0 /\ hdr' = EndHeader /\ wpc' = "closed" /\ landed' = landed
      /\ sq' = Append(sq, EndRequest)
      /\ UNCHANGED <<memory, sent, free, cnt, cur, last, ibuf, islot, consumer>>
  BY DEF Close, Post, EndRequest
<1>2. signaled'
  BY Zenon DEF Close, Post, CheckSignaled
<1>3. TypeInv /\ WriterInv /\ QueueInv /\ sent \in Nat
  BY DEF IInv, TypeInv
<1>4. Len(sq) = Data
  <2>1. signaled => sq = << >>
    BY DEF Close, Ready
  <2>2. sq = << >> => Data = 0 /\ Len(sq) = 0
    BY DEF Data
  <2> QED
    BY <1>3, <2>1, <2>2 DEF QueueInv
<1>5. last \in Segs
  BY <1>1, <1>3, SegType DEF WriterInv
<1>6. EndRequest \in Request /\ sq \in Seq(Request) /\ Len(sq) \in Nat
  BY <1>3, <1>5, Numbers DEF EndRequest, Request, TypeInv
<1>7. /\ sq' \in Seq(Request) /\ Len(sq') = Len(sq) + 1 /\ sq'[Len(sq) + 1] = EndRequest
      /\ \A i \in 1 .. Len(sq) : sq'[i] = sq[i]
  BY <1>1, <1>6, AppendProperties
<1>8. EndRequest' = EndRequest /\ sq' # << >>
  BY <1>1, <1>6, <1>7 DEF EndRequest
<1>9. Data' = Data
  <2>1. sq'[Len(sq')].kind = "header"
    BY <1>7 DEF EndRequest
  <2>2. Data' = Len(sq') - 1
    BY <1>8, <2>1 DEF Data
  <2> QED
    BY <1>4, <1>6, <1>7, <2>2
<1>10. Done' = Done
  BY <1>1, <1>9 DEF Done
<1>11. ConsumerInv' /\ RingInv' /\ SizesInv' /\ ContentInv'
  BY <1>1, <1>9, <1>10, WriterFrame
<1>12. TypeInv'
  <2>1. signaled' \in BOOLEAN
    BY Zenon DEF Close, Post, CheckSignaled
  <2> QED
    BY <1>1, <1>3, <1>7, <2>1 DEF TypeInv, memory, consumer
<1>13. WriterInv'
  <2>1. released' = released
    BY <1>1 DEF memory
  <2>2. hdr' = LastHeader(last')
    BY <1>1, <1>3, HeadersMade
  <2> QED
    BY <1>1, <1>3, <1>10, <2>1, <2>2 DEF WriterInv
<1>14. QueueInv'
  BY <1>1, <1>2, <1>3, <1>4, <1>6, <1>7, <1>8, <1>9, <1>10 DEF QueueInv
<1>15. SlotsInv'
  BY <1>1, <1>10 DEF IInv, SlotsInv
<1> QED
  BY <1>11, <1>12, <1>13, <1>14, <1>15 DEF IInv

-----------------------------------------------------------------------------
(***************************************************************************)
(* Steps of the network cards.                                             *)
(***************************************************************************)
LEMMA HeadRequest ==
  ASSUME IInv, sq # << >>
  PROVE  /\ Data > 0 => /\ Head(sq) = DataRequest(Done + 1) /\ Done + 1 \in Nat \ {0}
                        /\ Done + 1 <= sent
         /\ Data = 0 => /\ Head(sq) = EndRequest /\ Len(sq) = 1 /\ wpc = "closed"
                        /\ sent > 0 /\ Done = sent /\ landed # 2 /\ Visible = sent
                        /\ last = Seg(sent) /\ hdr = LastHeader(last)
<1>1. TypeInv /\ WriterInv /\ QueueInv /\ ConsumerInv /\ sent \in Nat
  BY DEF IInv, TypeInv
<1>2. /\ Len(sq) \in Nat /\ Data \in Nat /\ Data <= Len(sq) /\ Len(sq) <= Data + 1
      /\ Done \in Int /\ Done >= 0
  BY <1>1, Numbers, Order
<1>3. Len(sq) # 0 /\ Head(sq) = sq[1]
  BY <1>1, EmptySeq, HeadTailProperties DEF TypeInv
<1>4. ASSUME Data > 0
      PROVE  Head(sq) = DataRequest(Done + 1) /\ Done + 1 \in Nat \ {0} /\ Done + 1 <= sent
  BY <1>1, <1>2, <1>3, <1>4 DEF QueueInv, Done
<1>5. ASSUME Data = 0
      PROVE  /\ Head(sq) = EndRequest /\ Len(sq) = 1 /\ wpc = "closed"
             /\ sent > 0 /\ Done = sent /\ landed # 2 /\ Visible = sent
             /\ last = Seg(sent) /\ hdr = LastHeader(last)
  <2>1. Len(sq) = 1
    <3> DEFINE l == Len(sq)
    <3>1. l \in Nat /\ l <= 1 /\ l # 0
      BY <1>2, <1>3, <1>5
    <3> HIDE DEF l
    <3>2. l = 1
      BY <3>1
    <3> QED
      BY <3>2 DEF l
  <2>2. Head(sq) = EndRequest /\ wpc = "closed" /\ sent > 0 /\ landed # 2
    BY <1>1, <1>3, <1>5, <2>1 DEF QueueInv
  <2>3. Done = sent
    BY <1>1, <1>5 DEF Done
  <2> QED
    BY <1>1, <2>1, <2>2, <2>3 DEF WriterInv, Visible
<1> QED
  BY <1>4, <1>5

LEMMA SourceOfHead ==
  ASSUME IInv, sq # << >>
  PROVE  /\ Data > 0 => Source(Head(sq)) = DataHeader(Seg(Done + 1))
         /\ Data = 0 => Source(Head(sq)) = LastHeader(last)
<1>1. ASSUME Data > 0 PROVE Source(Head(sq)) = DataHeader(Seg(Done + 1))
  <2>1. /\ Head(sq) = DataRequest(Done + 1) /\ Done + 1 <= sent /\ Done + 1 \in Nat
        /\ sent \in Nat
    BY <1>1, HeadRequest DEF IInv, TypeInv
  <2>2. Done + 1 \in Done + 1 .. sent
    BY <2>1
  <2>3. ibuf[Place((Done + 1) - 1, Slots)]
          = [hdr |-> DataHeader(Seg(Done + 1)), msg |-> Done + 1]
    BY <2>2 DEF IInv, SlotsInv
  <2> QED
    BY <2>1, <2>3 DEF Source, DataRequest
<1>2. ASSUME Data = 0 PROVE Source(Head(sq)) = LastHeader(last)
  BY <1>2, HeadRequest DEF Source, EndRequest
<1> QED
  BY <1>1, <1>2

\* What the cards leave alone.
LEMMA CardFrame ==
  ASSUME IInv, UNCHANGED <<appender, released, consumer>>, Done' = Done \/ Done' = Done + 1
  PROVE  /\ WriterInv' /\ SlotsInv'
         /\ Taken' = Taken /\ Oldest' = Oldest /\ Counted' = Counted
         /\ Visible' \in Int /\ Visible <= Visible' => ConsumerInv'
<1>1. /\ Taken' = Taken /\ Oldest' = Oldest /\ Counted' = Counted
      /\ consumed' = consumed /\ cpc' = cpc /\ iter' = iter /\ prev' = prev /\ held' = held
  BY ConsumerSame DEF IInv
<1>2. UNCHANGED <<wpc, sent, free, cnt, cur, last, hdr, ibuf, islot, released>>
  BY DEF appender
<1>3. Done \in Int /\ Visible \in Int /\ Taken \in Nat /\ sent \in Nat /\ cnt \in Nat /\ N \in Nat
  BY Numbers DEF IInv, TypeInv
<1>4. WriterInv'
  <2>1. cnt = N \/ cnt <= N + Done - 1
    BY DEF IInv, WriterInv
  <2>2. cnt = N \/ cnt <= N + Done' - 1
    BY <1>3, <2>1
  <2> QED
    BY <1>2, <2>2 DEF IInv, WriterInv
<1>5. SlotsInv'
  <2>1. \A k \in Done' + 1 .. sent : k \in Done + 1 .. sent
    BY <1>3
  <2> QED
    BY <1>2, <2>1 DEF IInv, SlotsInv
<1>6. ASSUME Visible' \in Int, Visible <= Visible' PROVE ConsumerInv'
  BY <1>1, <1>2, <1>3, <1>6 DEF IInv, ConsumerInv
<1> QED
  BY <1>1, <1>4, <1>5, <1>6

\* Headers of the ring after some of the fields of one are set.
LEMMA WholeHeader ==
  ASSUME NEW r \in Header
  PROVE  IsHeader(r)
BY DEF Header, IsHeader

LEMMA WordsSet ==
  ASSUME header \in [Segs -> Header], NEW s \in Segs, NEW x \in Nat, NEW y \in Segs,
         header' = [header EXCEPT ![s].counter = x, ![s].next = y]
  PROVE  /\ header' \in [Segs -> Header]
         /\ header'[s].counter = x /\ header'[s].next = y
         /\ header'[s].W = header[s].W /\ header'[s].C = header[s].C
         /\ header'[s].E = header[s].E
         /\ \A t \in Segs \ {s} : header'[t] = header[t]
<1> DEFINE r  == header[s]
           r1 == [r EXCEPT !.counter = x]
           r2 == [r1 EXCEPT !.next = y]
<1>1. header' = [header EXCEPT ![s] = r2]
  OBVIOUS
<1>2. IsHeader(r)
  BY WholeHeader
<1>3. r.W \in BOOLEAN /\ r.C \in BOOLEAN /\ r.E \in BOOLEAN
  BY DEF Header
<1> HIDE DEF r
<1>4. r1 = [counter |-> x, next |-> r.next, W |-> r.W, C |-> r.C, E |-> r.E]
  BY <1>2, Z3 DEF IsHeader
<1> HIDE DEF r1
<1>5. r2 = [counter |-> x, next |-> y, W |-> r.W, C |-> r.C, E |-> r.E]
  BY <1>4, Z3
<1> HIDE DEF r2
<1>6. r2 \in Header
  BY <1>3, <1>5 DEF Header
<1>7. r2.counter = x /\ r2.next = y /\ r2.W = r.W /\ r2.C = r.C /\ r2.E = r.E
  BY <1>5, Zenon
<1>8. header' \in [Segs -> Header] /\ header'[s] = r2 /\ \A t \in Segs \ {s} : header'[t] = header[t]
  BY <1>1, <1>6
<1> QED
  BY <1>7, <1>8, Zenon DEF r

LEMMA FlagsSet ==
  ASSUME header \in [Segs -> Header], NEW s \in Segs,
         NEW w \in BOOLEAN, NEW c \in BOOLEAN, NEW e \in BOOLEAN,
         header' = [header EXCEPT ![s].W = w, ![s].C = c, ![s].E = e]
  PROVE  /\ header' \in [Segs -> Header]
         /\ header'[s].counter = header[s].counter /\ header'[s].next = header[s].next
         /\ header'[s].W = w /\ header'[s].C = c /\ header'[s].E = e
         /\ \A t \in Segs \ {s} : header'[t] = header[t]
<1> DEFINE r  == header[s]
           r1 == [r EXCEPT !.W = w]
           r2 == [r1 EXCEPT !.C = c]
           r3 == [r2 EXCEPT !.E = e]
<1>1. header' = [header EXCEPT ![s] = r3]
  OBVIOUS
<1>2. IsHeader(r)
  BY WholeHeader
<1>3. r.counter \in Nat /\ r.next \in Segs
  BY DEF Header
<1> HIDE DEF r
<1>4. r1 = [counter |-> r.counter, next |-> r.next, W |-> w, C |-> r.C, E |-> r.E]
  BY <1>2, Z3 DEF IsHeader
<1> HIDE DEF r1
<1>5. r2 = [counter |-> r.counter, next |-> r.next, W |-> w, C |-> c, E |-> r.E]
  BY <1>4, Z3
<1> HIDE DEF r2
<1>6. r3 = [counter |-> r.counter, next |-> r.next, W |-> w, C |-> c, E |-> e]
  BY <1>5, Z3
<1> HIDE DEF r3
<1>7. r3 \in Header
  BY <1>3, <1>6 DEF Header
<1>8. r3.counter = r.counter /\ r3.next = r.next /\ r3.W = w /\ r3.C = c /\ r3.E = e
  BY <1>6, Zenon
<1>9. header' \in [Segs -> Header] /\ header'[s] = r3 /\ \A t \in Segs \ {s} : header'[t] = header[t]
  BY <1>1, <1>7
<1> QED
  BY <1>8, <1>9, Zenon DEF r

\* The messages visible and not taken are in other segments than the one that lands.
LEMMA LandsApart ==
  ASSUME IInv, NEW m \in Nat \ {0}, m <= sent, NEW k \in Int, Oldest <= k, k < Oldest + N,
         Oldest <= m, k # m
  PROVE  Seg(k) # Seg(m) /\ Seg(k) \in Segs
<1>1. /\ Oldest \in Nat \ {0} /\ N \in Nat /\ sent \in Nat /\ sent < Oldest + N
  BY Numbers, Order DEF IInv, TypeInv
<1>2. k \in Nat \ {0} /\ k - m < N /\ m - k < N
  BY <1>1
<1> QED
  BY <1>2, SegApart, SegType

LEMMA LandWordsStep ==
  ASSUME IInv, LandWords
  PROVE  IInv'
<1> DEFINE m == IF Data > 0 THEN Done + 1 ELSE sent
           s == Seg(m)
           x == IF Data > 0 THEN MsgSize ELSE SegSize
<1>1. /\ sq # << >> /\ landed = 0 /\ landed' = 1
      /\ UNCHANGED <<payload, released, appender, sq, signaled, consumer>>
      /\ header' = [header EXCEPT ![Head(sq).seg].counter = Source(Head(sq)).counter,
                                  ![Head(sq).seg].next    = Source(Head(sq)).next]
  BY DEF LandWords
<1>2. TypeInv /\ QueueInv /\ WriterInv /\ ConsumerInv /\ RingInv /\ SizesInv /\ ContentInv
  BY DEF IInv
<1>3. UNCHANGED <<wpc, sent, last>>
  BY <1>1 DEF appender
<1>4. /\ sent \in Nat /\ Data \in Nat /\ Done \in Int /\ 0 <= Done /\ Visible \in Int
      /\ Taken \in Nat /\ Oldest \in Nat \ {0} /\ N \in Nat
      /\ Taken <= Oldest /\ Oldest <= Taken + 1 /\ Visible <= sent
      /\ Oldest <= Visible + 1 /\ (Visible > 0 => Oldest <= Visible) /\ sent < Oldest + N
  BY <1>2, Numbers, Order DEF TypeInv
<1>5. Visible = Done
  BY <1>1 DEF Visible
<1>6. m \in Nat \ {0} /\ m <= sent /\ Oldest <= m
  BY <1>1, <1>4, <1>5, HeadRequest
<1>7. Head(sq).seg = s /\ Source(Head(sq)).counter = x /\ Source(Head(sq)).next = Succ(s)
  <2>1. CASE Data > 0
    <3>1. Head(sq) = DataRequest(Done + 1) /\ Source(Head(sq)) = DataHeader(Seg(Done + 1))
      BY <1>1, <2>1, HeadRequest, SourceOfHead
    <3> QED
      BY <2>1, <3>1, HeaderWords DEF DataRequest
  <2>2. CASE Data = 0
    <3>1. Head(sq) = EndRequest /\ Source(Head(sq)) = LastHeader(last) /\ last = Seg(sent)
      BY <1>1, <2>2, HeadRequest, SourceOfHead
    <3> QED
      BY <2>2, <3>1, HeaderWords DEF EndRequest
  <2> QED
    BY <1>4, <2>1, <2>2
<1>8. s \in Segs /\ x \in Nat /\ Succ(s) \in Segs
  BY <1>6, SegType, LatAssumption DEF Succ, Segs
<1> HIDE DEF s, x
<1>9. /\ header' \in [Segs -> Header]
      /\ header'[s].counter = x /\ header'[s].next = Succ(s)
      /\ header'[s].W = header[s].W /\ header'[s].C = header[s].C
      /\ header'[s].E = header[s].E
      /\ \A t \in Segs \ {s} : header'[t] = header[t]
  <2>1. header' = [header EXCEPT ![s].counter = x, ![s].next = Succ(s)]
    BY <1>1, <1>7
  <2>2. header \in [Segs -> Header]
    BY <1>2 DEF TypeInv
  <2> QED
    BY <1>8, <2>1, <2>2, WordsSet, Zenon
<1>10. Data' = Data /\ Done' = Done /\ Visible' = Visible
  BY <1>1, <1>3, <1>5 DEF Data, Done, Visible
<1>11. /\ WriterInv' /\ SlotsInv' /\ ConsumerInv'
       /\ Taken' = Taken /\ Oldest' = Oldest /\ Counted' = Counted
  BY <1>1, <1>4, <1>10, CardFrame
<1>12. consumed' = consumed /\ cpc' = cpc /\ held' = held /\ payload' = payload
  BY <1>1 DEF consumer
<1>13. TypeInv'
  BY <1>1, <1>2, <1>9 DEF TypeInv, appender, consumer
<1>14. QueueInv'
  BY <1>1, <1>2, <1>3, <1>10 DEF QueueInv, EndRequest
<1>15. RingInv'
  <2>1. ASSUME NEW t \in Segs
        PROVE  /\ header'[t].next = Succ(t) /\ header'[t].W = header[t].W
               /\ header'[t].C = header[t].C /\ header'[t].E = header[t].E
    <3>1. CASE t = s
      BY <1>9, <3>1
    <3>2. CASE t # s
      BY <1>2, <1>9, <3>2 DEF RingInv
    <3> QED
      BY <3>1, <3>2
  <2>2. \A k \in Oldest .. Oldest + N - 1 : Seg(k) \in Segs
    BY <1>4, SegType
  <2> QED
    BY <1>2, <1>3, <1>10, <1>11, <2>1, <2>2 DEF RingInv
<1>16. SizesInv'
  <2>1. ASSUME NEW k, NEW size, SizeOf(k, size) PROVE SizeOf(k, size)'
    BY <1>3, <2>1 DEF SizeOf
  <2>2. ASSUME NEW k \in Taken + 1 .. Visible PROVE SizeOf(k, header[Seg(k)].counter)'
    <3>1. k \in Int /\ Oldest <= k /\ k < Oldest + N /\ k \in Nat \ {0}
      BY <1>4
    <3>2. CASE k = m
      <4>1. Data = 0 /\ k = sent
        BY <1>4, <1>5, <3>2
      <4>2. wpc = "closed" /\ x = SegSize
        BY <1>1, <4>1, HeadRequest DEF x
      <4>3. header'[Seg(k)].counter = x
        BY <1>9, <3>2 DEF s
      <4> QED
        BY <1>3, <4>1, <4>2, <4>3 DEF SizeOf
    <3>3. CASE k # m
      <4>1. Seg(k) # s /\ Seg(k) \in Segs
        BY <1>6, <3>1, <3>3, LandsApart DEF s
      <4>2. header'[Seg(k)] = header[Seg(k)]
        BY <1>9, <4>1
      <4>3. SizeOf(k, header[Seg(k)].counter)
        BY <1>2 DEF SizesInv
      <4> QED
        BY <1>3, <4>2, <4>3 DEF SizeOf
    <3> QED
      BY <3>2, <3>3
  <2>3. Data > 0 => header'[Seg(Done + 1)].counter = MsgSize
    BY <1>9 DEF s, x
  <2>4. cpc = "use" => SizeOf(Taken, held.size)'
    BY <1>2, <1>11, <1>12, <2>1 DEF SizesInv
  <2>5. \A i \in 1 .. Len(consumed) : SizeOf(i, consumed[i].size)'
    BY <1>2, <1>12, <2>1 DEF SizesInv
  <2> QED
    BY <1>10, <1>11, <1>12, <2>2, <2>3, <2>4, <2>5 DEF SizesInv
<1>17. ContentInv'
  BY <1>2, <1>10, <1>11, <1>12 DEF ContentInv
<1> QED
  BY <1>11, <1>13, <1>14, <1>15, <1>16, <1>17 DEF IInv

LEMMA QueueTail ==
  ASSUME IInv, sq # << >>, sq' = Tail(sq), UNCHANGED <<wpc, sent, last, signaled>>
  PROVE  /\ sq' \in Seq(Request)
         /\ Data' = IF Data > 0 THEN Data - 1 ELSE 0
         /\ \A i \in 1 .. Data' : sq'[i] = DataRequest(Done' + i)
         /\ Data' <= sent
         /\ Len(sq') # Data' => /\ wpc' = "closed" /\ signaled' /\ sent' > 0
                               /\ sq'[Len(sq')] = EndRequest'
<1>1. TypeInv /\ QueueInv /\ sq \in Seq(Request) /\ sent \in Nat
  BY DEF IInv, TypeInv
<1>2. /\ Len(sq) \in Nat /\ Data \in Nat /\ Data <= Len(sq) /\ Len(sq) <= Data + 1 /\ Done \in Int
  BY <1>1, Numbers
<1>3. /\ sq' \in Seq(Request) /\ Len(sq') = Len(sq) - 1 /\ Len(sq) # 0
      /\ \A i \in 1 .. Len(sq) - 1 : sq'[i] = sq[i + 1]
  BY <1>1, HeadTailProperties, EmptySeq
<1>4. Len(sq) = Data \/ (Len(sq) = Data + 1 /\ wpc = "closed" /\ signaled /\ sent > 0
                          /\ sq[Len(sq)] = EndRequest)
  BY <1>1, <1>2 DEF QueueInv
<1>5. EndRequest' = EndRequest
  BY DEF EndRequest
<1>6. CASE Data = 0
  <2>1. Len(sq) = 1 /\ Len(sq') = 0
    BY <1>2, <1>3, <1>4, <1>6
  <2>2. sq' = << >>
    BY <1>3, <2>1, EmptySeq
  <2>3. Data' = 0
    BY <2>1, <2>2 DEF Data
  <2> QED
    BY <1>1, <1>3, <1>6, <2>1, <2>3
<1>7. CASE Data > 0
  <2>1. Data' = Data - 1
    <3>1. CASE Len(sq) = Data
      <4>1. CASE Len(sq) = 1
        <5>1. sq' = << >> /\ Len(sq') = 0
          BY <1>3, <4>1, EmptySeq
        <5>2. Data' = 0
          BY <5>1 DEF Data
        <5> QED
          BY <3>1, <4>1, <5>2
      <4>2. CASE Len(sq) # 1
        <5>1. Len(sq) - 1 \in 1 .. Len(sq) - 1 /\ (Len(sq) - 1) + 1 = Len(sq)
          BY <1>2, <1>3, <4>2
        <5>2. sq'[Len(sq')] = sq[Len(sq)]
          BY <1>3, <5>1
        <5>3. Data \in 1 .. Data
          BY <1>2, <1>7
        <5>4. sq[Len(sq)] = DataRequest(Done + Data)
          BY <1>1, <3>1, <5>3 DEF QueueInv
        <5>5. sq'[Len(sq')].kind # "header"
          <6>1. DataRequest(Done + Data).kind = "data"
            BY DEF DataRequest
          <6>2. sq'[Len(sq')].kind = "data"
            BY <5>2, <5>4, <6>1, Zenon
          <6> QED
            BY <6>2
        <5>6. Data' = Len(sq')
          BY <5>5 DEF Data
        <5> QED
          BY <1>3, <3>1, <5>6
      <4> QED
        BY <4>1, <4>2
    <3>2. CASE Len(sq) = Data + 1
      <4>1. Len(sq) - 1 \in 1 .. Len(sq) - 1 /\ (Len(sq) - 1) + 1 = Len(sq)
        BY <1>2, <1>7, <3>2
      <4>2. sq'[Len(sq')] = sq[Len(sq)]
        BY <1>3, <4>1
      <4>3. sq[Len(sq)] = EndRequest
        BY <1>2, <1>4, <3>2
      <4>4. sq'[Len(sq')].kind = "header"
        <5>1. EndRequest.kind = "header"
          BY DEF EndRequest
        <5> QED
          BY <4>2, <4>3, <5>1, Zenon
      <4>5. sq' # << >>
        <5>1. Len(sq') # 0
          BY <1>2, <1>3, <1>7, <3>2
        <5> QED
          BY <5>1, EmptySeq, Zenon
      <4>6. Data' = Len(sq') - 1
        BY <4>4, <4>5 DEF Data
      <4> QED
        BY <1>2, <1>3, <3>2, <4>6
    <3> QED
      BY <1>4, <3>1, <3>2
  <2>2. Done' = Done + 1
    BY <1>1, <1>2, <2>1 DEF Done
  <2>3. ASSUME NEW i \in 1 .. Data' PROVE sq'[i] = DataRequest(Done' + i)
    <3>1. i \in 1 .. Len(sq) - 1 /\ i + 1 \in 1 .. Data /\ Done + (i + 1) = Done' + i
      BY <1>2, <2>1, <2>2
    <3>2. sq'[i] = sq[i + 1] /\ sq[i + 1] = DataRequest(Done + (i + 1))
      BY <1>1, <1>3, <3>1 DEF QueueInv
    <3> QED
      BY <3>1, <3>2
  <2>4. Len(sq') # Data' => /\ wpc' = "closed" /\ signaled' /\ sent' > 0
                            /\ sq'[Len(sq')] = EndRequest'
    <3> SUFFICES ASSUME Len(sq') # Data' PROVE /\ wpc' = "closed" /\ signaled' /\ sent' > 0
                                               /\ sq'[Len(sq')] = EndRequest'
      OBVIOUS
    <3>1. /\ Len(sq) = Data + 1 /\ wpc = "closed" /\ signaled /\ sent > 0
          /\ sq[Len(sq)] = EndRequest
      BY <1>2, <1>3, <1>4, <2>1
    <3>2. Len(sq) - 1 \in 1 .. Len(sq) - 1 /\ (Len(sq) - 1) + 1 = Len(sq)
      BY <1>2, <1>7, <3>1
    <3>3. sq'[Len(sq')] = sq[Len(sq)]
      BY <1>3, <3>2
    <3> QED
      BY <1>5, <3>1, <3>3
  <2>5. Data' <= sent
    BY <1>1, <1>2, <2>1 DEF QueueInv
  <2> QED
    BY <1>3, <1>7, <2>1, <2>3, <2>4, <2>5
<1> QED
  BY <1>2, <1>6, <1>7

LEMMA LandFlagsStep ==
  ASSUME IInv, LandFlags
  PROVE  IInv'
<1> DEFINE m == IF Data > 0 THEN Done + 1 ELSE sent
           s == Seg(m)
           f == Source(Head(sq))
<1>1. /\ landed = 1
      /\ UNCHANGED <<payload, released, appender, signaled, consumer>>
      /\ header' = [header EXCEPT ![Head(sq).seg].W = f.W, ![Head(sq).seg].C = f.C,
                                  ![Head(sq).seg].E = f.E]
      /\ \/ Head(sq).kind = "data" /\ landed' = 2 /\ sq' = sq
         \/ Head(sq).kind = "header" /\ landed' = 0 /\ sq' = Tail(sq)
  BY DEF LandFlags
<1>2. /\ TypeInv /\ QueueInv /\ WriterInv /\ ConsumerInv /\ RingInv /\ SizesInv /\ ContentInv
      /\ sq # << >>
  BY <1>1 DEF IInv, QueueInv
<1>3. UNCHANGED <<wpc, sent, last>>
  BY <1>1 DEF appender
<1>4. /\ sent \in Nat /\ Data \in Nat /\ Done \in Int /\ 0 <= Done /\ Visible \in Int
      /\ Taken \in Nat /\ Oldest \in Nat \ {0} /\ N \in Nat
      /\ Taken <= Oldest /\ Oldest <= Taken + 1 /\ Visible <= sent
      /\ Oldest <= Visible + 1 /\ (Visible > 0 => Oldest <= Visible) /\ sent < Oldest + N
  BY <1>2, Numbers, Order DEF TypeInv
<1>5. Visible = Done
  BY <1>1 DEF Visible
<1>6. m \in Nat \ {0} /\ m <= sent /\ Oldest <= m
  BY <1>2, <1>4, <1>5, HeadRequest
<1>7. /\ Head(sq).seg = s /\ f.C
      /\ Data > 0 => Head(sq).kind = "data" /\ f.W /\ ~ f.E
      /\ Data = 0 => Head(sq).kind = "header" /\ ~ f.W /\ f.E
      /\ f \in Header
  <2>1. CASE Data > 0
    <3>1. Head(sq) = DataRequest(Done + 1) /\ f = DataHeader(Seg(Done + 1))
      BY <1>2, <2>1, HeadRequest, SourceOfHead
    <3>2. Head(sq).kind = "data" /\ Head(sq).seg = s
      BY <2>1, <3>1 DEF DataRequest
    <3>3. f \in Header
      BY <1>6, <2>1, <3>1, SegType, HeaderTypes
    <3>4. f.W /\ f.C /\ ~ f.E
      BY <3>1, HeaderFlags, Zenon
    <3> QED
      BY <2>1, <3>2, <3>3, <3>4
  <2>2. CASE Data = 0
    <3>1. Head(sq) = EndRequest /\ f = LastHeader(last) /\ last = Seg(sent)
      BY <1>2, <2>2, HeadRequest, SourceOfHead
    <3>2. Head(sq).kind = "header" /\ Head(sq).seg = s
      BY <2>2, <3>1 DEF EndRequest
    <3>3. f \in Header
      BY <1>6, <2>2, <3>1, SegType, HeaderTypes
    <3>4. ~ f.W /\ f.C /\ f.E
      BY <3>1, HeaderFlags, Zenon
    <3> QED
      BY <2>2, <3>2, <3>3, <3>4
  <2> QED
    BY <1>4, <2>1, <2>2
<1>8. s \in Segs
  BY <1>6, SegType
<1> HIDE DEF s, f
<1>9. /\ header' \in [Segs -> Header]
      /\ header'[s].counter = header[s].counter /\ header'[s].next = header[s].next
      /\ header'[s].W = f.W /\ header'[s].C = f.C /\ header'[s].E = f.E
      /\ \A t \in Segs \ {s} : header'[t] = header[t]
  <2>1. header' = [header EXCEPT ![s].W = f.W, ![s].C = f.C, ![s].E = f.E]
    BY <1>1, <1>7
  <2>2. header \in [Segs -> Header]
    BY <1>2 DEF TypeInv
  <2>3. f.W \in BOOLEAN /\ f.C \in BOOLEAN /\ f.E \in BOOLEAN
    BY <1>7 DEF Header
  <2> QED
    BY <1>8, <2>1, <2>2, <2>3, FlagsSet, Zenon
<1>10. /\ Data > 0 => landed' = 2 /\ sq' = sq
       /\ Data = 0 => landed' = 0 /\ sq' = Tail(sq)
  BY <1>1, <1>7
<1>11. Data' = Data /\ Done' = Done /\ Visible' = IF Data > 0 THEN Done + 1 ELSE Done
  <2>1. Data' = Data
    <3>1. CASE Data > 0
      BY <1>10, <3>1 DEF Data
    <3>2. CASE Data = 0
      BY <1>1, <1>2, <1>3, <1>10, <3>2, QueueTail
    <3> QED
      BY <1>4, <3>1, <3>2
  <2>2. Done' = Done
    BY <1>3, <2>1 DEF Done
  <2> QED
    BY <1>4, <1>10, <2>1, <2>2 DEF Visible
<1>12. /\ WriterInv' /\ SlotsInv' /\ ConsumerInv'
       /\ Taken' = Taken /\ Oldest' = Oldest /\ Counted' = Counted
  <2>1. Visible' \in Int /\ Visible <= Visible'
    BY <1>4, <1>5, <1>11
  <2> QED
    BY <1>1, <1>4, <1>11, <2>1, CardFrame
<1>13. consumed' = consumed /\ cpc' = cpc /\ held' = held /\ payload' = payload
  BY <1>1 DEF consumer
<1>14. TypeInv' /\ QueueInv'
  <2>0. UNCHANGED <<payload, released, appender, signaled, consumer>>
    BY <1>1
  <2>1. CASE Data > 0
    <3>1. TypeInv'
      <4>1. header' \in [Segs -> Header] /\ landed' \in 0 .. 2 /\ sq' = sq
        BY <1>9, <1>10, <2>1
      <4> QED
        BY <1>2, <2>0, <4>1 DEF TypeInv, appender, consumer
    <3>2. QueueInv'
      BY <1>1, <1>2, <1>3, <1>10, <1>11, <2>1 DEF QueueInv, EndRequest
    <3> QED
      BY <3>1, <3>2
  <2>2. CASE Data = 0
    <3>1. /\ sq' \in Seq(Request) /\ Data' <= sent
          /\ \A i \in 1 .. Data' : sq'[i] = DataRequest(Done' + i)
          /\ Len(sq') # Data' => /\ wpc' = "closed" /\ signaled' /\ sent' > 0
                                /\ sq'[Len(sq')] = EndRequest'
      BY <1>1, <1>2, <1>3, <1>10, <2>2, QueueTail
    <3>2. TypeInv'
      <4>1. header' \in [Segs -> Header] /\ landed' \in 0 .. 2 /\ sq' \in Seq(Request)
        BY <1>9, <1>10, <2>2, <3>1
      <4> QED
        BY <1>2, <2>0, <4>1 DEF TypeInv, appender, consumer
    <3>3. QueueInv'
      BY <1>3, <1>10, <2>2, <3>1 DEF QueueInv
    <3> QED
      BY <3>2, <3>3
  <2> QED
    BY <1>4, <2>1, <2>2
<1>15. RingInv'
  <2>1. ASSUME NEW t \in Segs
        PROVE  /\ header'[t].next = Succ(t)
               /\ header'[t].W <=> ~ header'[t].E
               /\ header'[t].E => wpc' = "closed" /\ sent' > 0 /\ t = last' /\ Done' = sent'
    <3>1. header[t].next = Succ(t) /\ (header[t].W <=> ~ header[t].E)
      BY <1>2 DEF RingInv
    <3>2. header[t].E => wpc = "closed" /\ sent > 0 /\ t = last /\ Done = sent
      BY <1>2 DEF RingInv
    <3>3. CASE t # s
      <4>1. header'[t] = header[t]
        BY <1>9, <3>3
      <4> QED
        BY <1>3, <1>11, <3>1, <3>2, <4>1
    <3>4. CASE t = s
      <4>1. header'[t].next = Succ(t) /\ (header'[t].W <=> f.W) /\ (header'[t].E <=> f.E)
        BY <1>9, <3>1, <3>4
      <4>2. CASE Data > 0
        BY <1>7, <4>1, <4>2
      <4>3. CASE Data = 0
        <5>1. wpc = "closed" /\ sent > 0 /\ t = last /\ Done = sent
          BY <1>2, <3>4, <4>3, HeadRequest DEF s
        <5> QED
          BY <1>3, <1>7, <1>11, <4>1, <4>3, <5>1
      <4> QED
        BY <1>4, <4>2, <4>3
    <3> QED
      BY <3>3, <3>4
  <2>2. ASSUME NEW k \in Oldest .. Oldest + N - 1
        PROVE  header'[Seg(k)].C <=> k <= Visible'
    <3>1. k \in Int /\ Oldest <= k /\ k < Oldest + N
      BY <1>4
    <3>2. header[Seg(k)].C <=> k <= Done
      BY <1>2, <1>5 DEF RingInv
    <3>3. CASE k = m
      <4>1. header'[Seg(k)].C
        BY <1>7, <1>9, <3>3 DEF s
      <4>2. k <= Visible'
        <5>1. Data = 0 => Done = sent
          BY <1>2, HeadRequest
        <5> QED
          BY <1>4, <1>11, <3>3, <5>1
      <4> QED
        BY <4>1, <4>2
    <3>4. CASE k # m
      <4>1. Seg(k) # s /\ Seg(k) \in Segs
        BY <1>6, <3>1, <3>4, LandsApart DEF s
      <4>2. header'[Seg(k)].C <=> k <= Done
        BY <1>9, <3>2, <4>1
      <4>3. (k <= Done) <=> (k <= Visible')
        BY <1>4, <1>11, <3>1, <3>4
      <4> QED
        BY <4>2, <4>3
    <3> QED
      BY <3>3, <3>4
  <2> QED
    BY <1>12, <2>1, <2>2 DEF RingInv
<1>16. SizesInv'
  <2>1. ASSUME NEW k, NEW size, SizeOf(k, size) PROVE SizeOf(k, size)'
    BY <1>3, <2>1 DEF SizeOf
  <2>2. \A t \in Segs : header'[t].counter = header[t].counter
    BY <1>9
  <2>3. ASSUME NEW k \in Taken + 1 .. Visible' PROVE SizeOf(k, header[Seg(k)].counter)'
    <3>1. k \in Nat \ {0} /\ Seg(k) \in Segs
      BY <1>4, <1>11, SegType
    <3>2. SizeOf(k, header[Seg(k)].counter)
      <4>1. CASE k <= Visible
        <5>1. k \in Taken + 1 .. Visible
          BY <1>4, <4>1
        <5> QED
          BY <1>2, <5>1 DEF SizesInv
      <4>2. CASE ~ k <= Visible
        <5>1. k = Done + 1 /\ Data > 0
          BY <1>4, <1>5, <1>11, <3>1, <4>2
        <5> QED
          BY <1>1, <1>2, <5>1 DEF SizesInv, SizeOf
      <4> QED
        BY <4>1, <4>2
    <3> QED
      BY <1>3, <2>2, <3>1, <3>2 DEF SizeOf
  <2>4. cpc = "use" => SizeOf(Taken, held.size)'
    BY <1>2, <1>12, <1>13, <2>1 DEF SizesInv
  <2>5. \A i \in 1 .. Len(consumed) : SizeOf(i, consumed[i].size)'
    BY <1>2, <1>13, <2>1 DEF SizesInv
  <2>6. landed' # 1
    BY <1>4, <1>10
  <2> QED
    BY <1>12, <1>13, <2>3, <2>4, <2>5, <2>6 DEF SizesInv
<1>17. ContentInv'
  BY <1>2, <1>11, <1>12, <1>13 DEF ContentInv
<1> QED
  BY <1>12, <1>14, <1>15, <1>16, <1>17 DEF IInv

LEMMA LandMessageStep ==
  ASSUME IInv, LandMessage
  PROVE  IInv'
<1> DEFINE m == Done + 1
<1>1. /\ landed = 2 /\ landed' = 0 /\ sq' = Tail(sq)
      /\ UNCHANGED <<header, released, appender, signaled, consumer>>
      /\ payload' = [payload EXCEPT ![Head(sq).seg] = ibuf[Head(sq).slot].msg]
  BY DEF LandMessage
<1>2. /\ TypeInv /\ QueueInv /\ WriterInv /\ ConsumerInv /\ RingInv /\ SizesInv /\ ContentInv
      /\ sq # << >> /\ Data > 0
  BY <1>1 DEF IInv, QueueInv
<1>3. UNCHANGED <<wpc, sent, last>>
  BY <1>1 DEF appender
<1>4. /\ sent \in Nat /\ Data \in Nat /\ Done \in Int /\ 0 <= Done
      /\ Oldest \in Nat \ {0} /\ N \in Nat /\ sent < Oldest + N /\ Oldest <= Visible
      /\ Visible = m /\ Done = sent - Data
  <2>1. Visible = m
    BY <1>1 DEF Visible
  <2>2. /\ sent \in Nat /\ Data \in Nat /\ Done \in Int /\ 0 <= Done /\ Visible \in Int
        /\ Oldest \in Nat \ {0} /\ N \in Nat /\ sent < Oldest + N
        /\ (Visible > 0 => Oldest <= Visible)
    BY <1>2, Numbers, Order DEF TypeInv
  <2>3. Done = sent - Data
    BY DEF Done
  <2> QED
    BY <2>1, <2>2, <2>3
<1>5. m \in Nat \ {0} /\ m <= sent /\ Head(sq) = DataRequest(m)
  BY <1>2, HeadRequest
<1>6. payload' = [payload EXCEPT ![Seg(m)] = m]
  <2>1. m \in Done + 1 .. sent
    BY <1>4, <1>5
  <2>2. ibuf[Place(m - 1, Slots)] = [hdr |-> DataHeader(Seg(m)), msg |-> m]
    BY <2>1 DEF IInv, SlotsInv
  <2>3. Head(sq).seg = Seg(m) /\ Head(sq).slot = Place(m - 1, Slots)
    BY <1>5 DEF DataRequest
  <2>4. ibuf[Head(sq).slot].msg = m
    BY <2>2, <2>3
  <2> QED
    BY <1>1, <2>3, <2>4
<1>7. Seg(m) \in Segs /\ payload \in [Segs -> Nat]
  BY <1>2, <1>5, SegType DEF TypeInv
<1>8. /\ payload' \in [Segs -> Nat] /\ payload'[Seg(m)] = m
      /\ \A t \in Segs \ {Seg(m)} : payload'[t] = payload[t]
  BY <1>5, <1>6, <1>7
<1>9. /\ sq' \in Seq(Request) /\ Data' <= sent /\ Data' = Data - 1
      /\ \A i \in 1 .. Data' : sq'[i] = DataRequest(Done' + i)
      /\ Len(sq') # Data' => /\ wpc' = "closed" /\ signaled' /\ sent' > 0
                            /\ sq'[Len(sq')] = EndRequest'
  BY <1>1, <1>2, <1>3, QueueTail
<1>10. Done' = m /\ Visible' = m
  BY <1>1, <1>3, <1>4, <1>9 DEF Done, Visible
<1>11. /\ WriterInv' /\ SlotsInv' /\ ConsumerInv'
       /\ Taken' = Taken /\ Oldest' = Oldest /\ Counted' = Counted
  BY <1>1, <1>4, <1>5, <1>10, CardFrame
<1>12. consumed' = consumed /\ cpc' = cpc /\ held' = held /\ header' = header
  BY <1>1 DEF consumer
<1>13. TypeInv'
  BY <1>1, <1>2, <1>8, <1>9 DEF TypeInv, appender, consumer
<1>14. QueueInv'
  <2>1. landed' = 0 /\ sent' = sent
    BY <1>1, <1>3
  <2> QED
    BY <1>9, <2>1 DEF QueueInv
<1>15. RingInv'
  <2>1. \A t \in Segs : ~ header[t].E
    BY <1>2, <1>4 DEF RingInv
  <2> QED
    BY <1>2, <1>4, <1>10, <1>11, <1>12, <2>1 DEF RingInv
<1>16. SizesInv'
  <2>1. ASSUME NEW k, NEW size, SizeOf(k, size) PROVE SizeOf(k, size)'
    BY <1>3, <2>1 DEF SizeOf
  <2>2. \A k \in Taken + 1 .. Visible : SizeOf(k, header[Seg(k)].counter)'
    BY <1>2, <1>12, <2>1 DEF SizesInv
  <2>3. cpc = "use" => SizeOf(Taken, held.size)'
    BY <1>2, <1>11, <1>12, <2>1 DEF SizesInv
  <2>4. \A i \in 1 .. Len(consumed) : SizeOf(i, consumed[i].size)'
    BY <1>2, <1>12, <2>1 DEF SizesInv
  <2> QED
    BY <1>1, <1>4, <1>10, <1>11, <1>12, <2>2, <2>3, <2>4 DEF SizesInv
<1>17. ContentInv'
  <2>1. ASSUME NEW k \in Oldest .. m PROVE payload'[Seg(k)] = k
    <3>1. CASE k = m
      BY <1>8, <3>1
    <3>2. CASE k # m
      <4>1. k \in Int /\ Oldest <= k /\ k < Oldest + N /\ k \in Oldest .. Done /\ Oldest <= m
        BY <1>4, <1>5, <3>2
      <4>2. Seg(k) # Seg(m) /\ Seg(k) \in Segs
        BY <1>5, <3>2, <4>1, LandsApart
      <4> QED
        BY <1>2, <1>8, <4>1, <4>2 DEF ContentInv
    <3> QED
      BY <3>1, <3>2
  <2> QED
    BY <1>2, <1>10, <1>11, <1>12, <2>1 DEF ContentInv
<1> QED
  BY <1>11, <1>13, <1>14, <1>15, <1>16, <1>17 DEF IInv

-----------------------------------------------------------------------------
(***************************************************************************)
(* Steps of the consumer.                                                  *)
(***************************************************************************)
LEMMA ConsumerFrame ==
  ASSUME IInv, UNCHANGED <<appender, queue>>, released' = released \/ released' = released + 1
  PROVE  /\ WriterInv' /\ QueueInv' /\ SlotsInv'
         /\ Data' = Data /\ Done' = Done /\ Visible' = Visible
         /\ UNCHANGED <<wpc, sent, last, sq, landed>>
         /\ \A k, size : SizeOf(k, size) => SizeOf(k, size)'
<1>1. /\ UNCHANGED <<wpc, sent, free, cnt, cur, last, hdr, ibuf, islot>>
      /\ UNCHANGED <<sq, landed, signaled>>
  BY DEF appender, queue
<1>2. Data' = Data /\ Done' = Done /\ Visible' = Visible /\ QueueInv' /\ SlotsInv'
  BY <1>1, QueueSame
<1>3. WriterInv'
  <2>1. cnt <= released /\ cnt \in Nat /\ released \in Nat
    BY DEF IInv, WriterInv, TypeInv
  <2>2. cnt <= released'
    BY <2>1
  <2> QED
    BY <1>1, <1>2, <2>2 DEF IInv, WriterInv
<1>4. \A k, size : SizeOf(k, size) => SizeOf(k, size)'
  BY <1>1 DEF SizeOf
<1> QED
  BY <1>1, <1>2, <1>3, <1>4

\* Facts about the segment handed out last and the next one.
LEMMA PrevIter ==
  ASSUME IInv
  PROVE  /\ Taken \in Nat /\ Oldest \in Nat \ {0} /\ Visible \in Int /\ Done \in Int
         /\ sent \in Nat /\ N \in Nat \ {0} /\ Taken <= Visible /\ Visible <= sent
         /\ Done <= Visible /\ 0 <= Done
         /\ iter = Seg(Taken + 1) /\ iter \in Segs
         /\ Taken = 0 => prev = NoSeg
         /\ Taken > 0 => prev = Seg(Taken) /\ prev \in Segs /\ prev # NoSeg
         /\ cpc \notin {"count", "take"} /\ Taken > 0 => Oldest = Taken
         /\ cpc \in {"count", "take"} \/ Taken = 0 => Oldest = Taken + 1
<1>1. TypeInv /\ WriterInv /\ QueueInv /\ ConsumerInv
  BY DEF IInv
<1>2. /\ Taken \in Nat /\ Oldest \in Nat \ {0} /\ Visible \in Int /\ Done \in Int
      /\ sent \in Nat /\ N \in Nat \ {0} /\ Taken <= Visible /\ Visible <= sent
      /\ Done <= Visible /\ 0 <= Done
  BY <1>1, Numbers, Order DEF TypeInv
<1>3. (Taken + 1) - 1 = Taken /\ Taken + 1 \in Nat \ {0}
  BY <1>2
<1>4. iter = Seg(Taken + 1) /\ iter \in Segs
  BY <1>1, <1>3, SegType DEF ConsumerInv, Seg
<1>5. Taken = 0 => prev = NoSeg
  BY <1>1 DEF ConsumerInv
<1>6. ASSUME Taken > 0 PROVE prev = Seg(Taken) /\ prev \in Segs /\ prev # NoSeg
  <2>1. prev = Seg(Taken) /\ Taken \in Nat \ {0}
    BY <1>1, <1>2, <1>6 DEF ConsumerInv
  <2>2. prev \in Segs
    BY <2>1, SegType
  <2> QED
    BY <1>2, <2>1, <2>2 DEF Segs, NoSeg
<1>7. /\ cpc \notin {"count", "take"} /\ Taken > 0 => Oldest = Taken
      /\ cpc \in {"count", "take"} \/ Taken = 0 => Oldest = Taken + 1
  BY <1>2 DEF Oldest
<1> QED
  BY <1>2, <1>4, <1>5, <1>6, <1>7

\* The segment handed out last is none of those that follow until the last message.
LEMMA PrevApart ==
  ASSUME IInv, Taken > 0, cpc # "take", NEW k \in Int, Taken < k, k < Taken + N
  PROVE  Seg(k) # prev /\ Seg(k) \in Segs
<1>1. Taken \in Nat \ {0} /\ k \in Nat \ {0} /\ N \in Nat /\ prev = Seg(Taken)
  BY PrevIter
<1> QED
  BY <1>1, SegApart, SegType

LEMMA FoundSegmentStep ==
  ASSUME Roomy, IInv, FoundSegment
  PROVE  IInv'
<1>1. /\ cpc = "has_next" /\ ~ PrevIsEnd /\ header[iter].C
      /\ cpc' = IF prev # NoSeg /\ header[prev].W THEN "mark_counter" ELSE "take"
      /\ UNCHANGED <<memory, appender, queue, iter, prev, held, consumed>>
  BY DEF FoundSegment
<1>2. UNCHANGED <<header, payload, released>>
  BY <1>1 DEF memory
<1>3. TypeInv /\ ConsumerInv /\ RingInv /\ SizesInv /\ ContentInv
  BY DEF IInv
<1>4. /\ WriterInv' /\ QueueInv' /\ SlotsInv'
      /\ Data' = Data /\ Done' = Done /\ Visible' = Visible
      /\ UNCHANGED <<wpc, sent, last, sq, landed>>
      /\ \A k, size : SizeOf(k, size) => SizeOf(k, size)'
  BY <1>1, <1>2, ConsumerFrame
<1>5. Taken < Visible
  <2>1. /\ Taken \in Nat /\ Oldest \in Nat \ {0} /\ Visible \in Int /\ N \in Nat
        /\ (Taken > 0 => Oldest = Taken) /\ (Taken = 0 => Oldest = Taken + 1)
        /\ iter = Seg(Taken + 1)
    BY <1>1, PrevIter
  <2>2. Taken + 1 \in Oldest .. Oldest + N - 1
    BY <2>1 DEF Roomy
  <2>3. header[Seg(Taken + 1)].C <=> Taken + 1 <= Visible
    BY <1>3, <2>2 DEF RingInv
  <2> QED
    BY <1>1, <2>1, <2>3
<1>6. (Taken > 0 => cpc' = "mark_counter") /\ (Taken = 0 => cpc' = "take") /\ Taken \in Nat
  <2>1. /\ Taken \in Nat /\ (Taken = 0 => prev = NoSeg)
        /\ (Taken > 0 => prev \in Segs /\ prev # NoSeg)
    BY PrevIter
  <2>2. ASSUME Taken > 0 PROVE header[prev].W
    <3>1. ~ header[prev].E
      BY <1>1, <2>1, <2>2 DEF PrevIsEnd
    <3> QED
      BY <1>3, <2>1, <2>2, <3>1 DEF RingInv
  <2> QED
    BY <1>1, <2>1, <2>2
<1>7. Taken' = Taken
  BY <1>1, <1>6 DEF Taken
<1>8. Oldest' = Oldest /\ Counted' = Counted
  BY <1>1, <1>6, <1>7 DEF Oldest, Counted
<1>9. cpc' \in {"mark_counter", "take"}
  BY <1>1
<1>10. TypeInv'
  BY <1>1, <1>2, <1>3, <1>9 DEF TypeInv, appender, queue
<1>11. ConsumerInv'
  BY <1>1, <1>2, <1>3, <1>4, <1>5, <1>6, <1>7, <1>8, <1>9 DEF ConsumerInv
<1>12. RingInv'
  BY <1>2, <1>3, <1>4, <1>8 DEF RingInv
<1>13. SizesInv'
  BY <1>1, <1>2, <1>3, <1>4, <1>7, <1>9 DEF SizesInv
<1>14. ContentInv'
  BY <1>1, <1>2, <1>3, <1>4, <1>8 DEF ContentInv
<1> QED
  BY <1>4, <1>10, <1>11, <1>12, <1>13, <1>14 DEF IInv

LEMMA DropRingStep ==
  ASSUME IInv, DropRing
  PROVE  IInv'
<1>1. /\ cpc = "has_next" /\ PrevIsEnd /\ cpc' = "end"
      /\ UNCHANGED <<memory, appender, queue, iter, prev, held, consumed>>
  BY DEF DropRing
<1>2. UNCHANGED <<header, payload, released>>
  BY <1>1 DEF memory
<1>3. TypeInv /\ WriterInv /\ QueueInv /\ ConsumerInv /\ RingInv /\ SizesInv /\ ContentInv
  BY DEF IInv
<1>4. /\ WriterInv' /\ QueueInv' /\ SlotsInv'
      /\ Data' = Data /\ Done' = Done /\ Visible' = Visible
      /\ UNCHANGED <<wpc, sent, last, sq, landed>>
      /\ \A k, size : SizeOf(k, size) => SizeOf(k, size)'
  BY <1>1, <1>2, ConsumerFrame
<1>5. wpc = "closed" /\ Taken = sent
  <2>1. prev # NoSeg /\ header[prev].E
    BY <1>1 DEF PrevIsEnd
  <2>2. Taken \in Nat /\ sent \in Nat /\ Taken > 0 /\ prev \in Segs /\ N \in Nat /\ Taken <= sent
    BY <2>1, PrevIter
  <2>3. wpc = "closed" /\ sent > 0 /\ prev = last
    BY <1>3, <2>1, <2>2 DEF RingInv
  <2>4. prev = Seg(sent)
    BY <1>3, <2>3 DEF WriterInv
  <2>5. sent < Taken + N
    BY <1>1, <1>3, <2>2, Order
  <2>6. ~ Taken < sent
    BY <1>1, <2>2, <2>4, <2>5, PrevApart
  <2> QED
    BY <2>2, <2>3, <2>6
<1>6. Taken' = Taken
  BY <1>1 DEF Taken
<1>7. Oldest' = Oldest /\ Counted' = Counted
  BY <1>1, <1>6 DEF Oldest, Counted
<1>8. TypeInv'
  BY <1>1, <1>2, <1>3 DEF TypeInv, appender, queue
<1>9. ConsumerInv'
  BY <1>1, <1>2, <1>3, <1>4, <1>5, <1>6, <1>7 DEF ConsumerInv
<1>10. RingInv'
  BY <1>2, <1>3, <1>4, <1>7 DEF RingInv
<1>11. SizesInv'
  BY <1>1, <1>2, <1>3, <1>4, <1>6 DEF SizesInv
<1>12. ContentInv'
  BY <1>1, <1>2, <1>3, <1>4, <1>7 DEF ContentInv
<1> QED
  BY <1>4, <1>8, <1>9, <1>10, <1>11, <1>12 DEF IInv

LEMMA CountReleasedStep ==
  ASSUME IInv, CountReleased
  PROVE  IInv'
<1>1. /\ cpc = "count" /\ released' = released + 1 /\ cpc' = "take"
      /\ UNCHANGED <<header, payload, appender, queue, iter, prev, held, consumed>>
  BY DEF CountReleased
<1>2. TypeInv /\ ConsumerInv /\ RingInv /\ SizesInv /\ ContentInv
  BY DEF IInv
<1>3. /\ WriterInv' /\ QueueInv' /\ SlotsInv'
      /\ Data' = Data /\ Done' = Done /\ Visible' = Visible
      /\ UNCHANGED <<wpc, sent, last, sq, landed>>
      /\ \A k, size : SizeOf(k, size) => SizeOf(k, size)'
  BY <1>1, ConsumerFrame
<1>4. Taken' = Taken /\ Taken \in Nat /\ Taken > 0 /\ Taken < Visible /\ N \in Nat
  BY <1>1, <1>2, PrevIter DEF Taken, ConsumerInv
<1>5. Oldest' = Oldest /\ Counted' = Counted + 1 /\ Counted = Taken - 1
  BY <1>1, <1>4 DEF Oldest, Counted
<1>6. TypeInv'
  <2>1. released' \in Nat
    BY <1>1, <1>2 DEF TypeInv
  <2> QED
    BY <1>1, <1>2, <2>1 DEF TypeInv, appender, queue
<1>7. ConsumerInv'
  <2>1. released' = N + Counted'
    BY <1>1, <1>2, <1>4, <1>5 DEF ConsumerInv
  <2> QED
    BY <1>1, <1>2, <1>3, <1>4, <2>1 DEF ConsumerInv
<1>8. RingInv'
  BY <1>1, <1>2, <1>3, <1>5 DEF RingInv
<1>9. SizesInv'
  BY <1>1, <1>2, <1>3, <1>4 DEF SizesInv
<1>10. ContentInv'
  BY <1>1, <1>2, <1>3, <1>5 DEF ContentInv
<1> QED
  BY <1>3, <1>6, <1>7, <1>8, <1>9, <1>10 DEF IInv

LEMMA CounterSet ==
  ASSUME header \in [Segs -> Header], NEW s \in Segs,
         header' = [header EXCEPT ![s].counter = 0]
  PROVE  /\ header' \in [Segs -> Header] /\ header'[s].next = header[s].next
         /\ header'[s].W = header[s].W /\ header'[s].C = header[s].C
         /\ header'[s].E = header[s].E
         /\ \A t \in Segs \ {s} : header'[t] = header[t]
<1> DEFINE r  == header[s]
           r1 == [r EXCEPT !.counter = 0]
<1>1. header' = [header EXCEPT ![s] = r1]
  OBVIOUS
<1>2. IsHeader(r)
  BY WholeHeader
<1>3. r.next \in Segs /\ r.W \in BOOLEAN /\ r.C \in BOOLEAN /\ r.E \in BOOLEAN
  BY DEF Header
<1> HIDE DEF r
<1>4. r1 = [counter |-> 0, next |-> r.next, W |-> r.W, C |-> r.C, E |-> r.E]
  BY <1>2, Z3 DEF IsHeader
<1> HIDE DEF r1
<1>5. r1 \in Header
  BY <1>3, <1>4 DEF Header
<1>6. r1.next = r.next /\ r1.W = r.W /\ r1.C = r.C /\ r1.E = r.E
  BY <1>4, Zenon
<1>7. header' \in [Segs -> Header] /\ header'[s] = r1 /\ \A t \in Segs \ {s} : header'[t] = header[t]
  BY <1>1, <1>5
<1> QED
  BY <1>6, <1>7, Zenon DEF r

LEMMA Cleared ==
  ASSUME header \in [Segs -> Header], NEW s \in Segs,
         header' = [header EXCEPT ![s].C = FALSE, ![s].W = TRUE]
  PROVE  /\ header' \in [Segs -> Header] /\ header'[s].next = header[s].next
         /\ header'[s].counter = header[s].counter
         /\ header'[s].W /\ ~ header'[s].C /\ header'[s].E = header[s].E
         /\ \A t \in Segs \ {s} : header'[t] = header[t]
<1> DEFINE F  == FALSE
           T  == TRUE
           r  == header[s]
           r1 == [r EXCEPT !.C = F]
           r2 == [r1 EXCEPT !.W = T]
<1>1. header' = [header EXCEPT ![s] = r2]
  OBVIOUS
<1>2. IsHeader(r)
  BY WholeHeader
<1>3. r.counter \in Nat /\ r.next \in Segs /\ r.E \in BOOLEAN /\ F \in BOOLEAN /\ T \in BOOLEAN
  BY DEF Header
<1> HIDE DEF r, F, T
<1>4. r1 = [counter |-> r.counter, next |-> r.next, W |-> r.W, C |-> F, E |-> r.E]
  BY <1>2, Z3 DEF IsHeader
<1> HIDE DEF r1
<1>5. r2 = [counter |-> r.counter, next |-> r.next, W |-> T, C |-> F, E |-> r.E]
  BY <1>4, Z3
<1> HIDE DEF r2
<1>6. r2 \in Header
  BY <1>3, <1>5 DEF Header
<1>7. r2.counter = r.counter /\ r2.next = r.next /\ r2.W = T /\ r2.C = F /\ r2.E = r.E
  BY <1>5, Zenon
<1>8. header' \in [Segs -> Header] /\ header'[s] = r2 /\ \A t \in Segs \ {s} : header'[t] = header[t]
  BY <1>1, <1>6
<1> QED
  BY <1>7, <1>8, Zenon DEF r, F, T

LEMMA MarkCounterStep ==
  ASSUME IInv, MarkCounter
  PROVE  IInv'
<1>1. /\ cpc = "mark_counter" /\ cpc' = "mark_consumable"
      /\ header' = [header EXCEPT ![prev].counter = 0]
      /\ UNCHANGED <<payload, released, appender, queue, iter, prev, held, consumed>>
  BY DEF MarkCounter
<1>2. TypeInv /\ WriterInv /\ QueueInv /\ ConsumerInv /\ RingInv /\ SizesInv /\ ContentInv
  BY DEF IInv
<1>3. /\ WriterInv' /\ QueueInv' /\ SlotsInv'
      /\ Data' = Data /\ Done' = Done /\ Visible' = Visible
      /\ UNCHANGED <<wpc, sent, last, sq, landed>>
      /\ \A k, size : SizeOf(k, size) => SizeOf(k, size)'
  BY <1>1, ConsumerFrame
<1>4. /\ Taken \in Nat /\ Taken > 0 /\ Taken < Visible /\ N \in Nat /\ prev \in Segs
      /\ sent \in Nat /\ Visible \in Int /\ Done \in Int /\ Visible <= sent /\ sent < Taken + N
      /\ Oldest \in Nat \ {0}
  BY <1>1, <1>2, PrevIter, Order DEF ConsumerInv
<1>5. Taken' = Taken
  BY <1>1, <1>4 DEF Taken
<1>6. Oldest' = Oldest /\ Counted' = Counted
  BY <1>1, <1>5 DEF Oldest, Counted
<1>7. /\ header' \in [Segs -> Header] /\ header'[prev].next = header[prev].next
      /\ header'[prev].W = header[prev].W /\ header'[prev].C = header[prev].C
      /\ header'[prev].E = header[prev].E
      /\ \A t \in Segs \ {prev} : header'[t] = header[t]
  <2>1. header \in [Segs -> Header]
    BY <1>2 DEF TypeInv
  <2> QED
    BY <1>1, <1>4, <2>1, CounterSet
<1>8. TypeInv'
  <2>1. header' \in [Segs -> Header] /\ cpc' = "mark_consumable"
    BY <1>1, <1>7
  <2>2. UNCHANGED <<payload, released, appender, queue, held, consumed>>
    BY <1>1
  <2> QED
    BY <1>2, <2>1, <2>2 DEF TypeInv, appender, queue
<1>9. ConsumerInv'
  <2>1. UNCHANGED <<released, iter, prev, held>> /\ cpc' = "mark_consumable"
    BY <1>1
  <2> QED
    BY <1>2, <1>3, <1>4, <1>5, <1>6, <2>1 DEF ConsumerInv
<1>10. RingInv'
  <2>1. ASSUME NEW t \in Segs
        PROVE  /\ header'[t].next = header[t].next /\ header'[t].W = header[t].W
               /\ header'[t].C = header[t].C /\ header'[t].E = header[t].E
    <3>1. CASE t = prev
      BY <1>7, <3>1
    <3>2. CASE t # prev
      BY <1>7, <3>2
    <3> QED
      BY <3>1, <3>2
  <2>2. \A k \in Oldest .. Oldest + N - 1 : Seg(k) \in Segs
    BY <1>4, SegType
  <2> QED
    BY <1>2, <1>3, <1>6, <2>1, <2>2 DEF RingInv
<1>11. SizesInv'
  <2>1. ASSUME NEW k \in Int, Taken < k, k <= sent
        PROVE  header'[Seg(k)] = header[Seg(k)]
    BY <1>1, <1>4, <1>7, <2>1, PrevApart
  <2>2. ASSUME NEW k \in Taken + 1 .. Visible PROVE SizeOf(k, header[Seg(k)].counter)'
    <3>1. header'[Seg(k)] = header[Seg(k)]
      BY <1>4, <2>1
    <3>2. SizeOf(k, header[Seg(k)].counter)
      BY <1>2 DEF SizesInv
    <3> QED
      BY <1>3, <3>1, <3>2 DEF SizeOf
  <2>3. ASSUME landed = 1, Data > 0 PROVE header'[Seg(Done + 1)].counter = MsgSize
    <3>1. Visible = Done
      BY <2>3 DEF Visible
    <3>2. Done + 1 <= sent
      BY <1>2, <1>4, <2>3, Numbers DEF Done
    <3>3. header'[Seg(Done + 1)] = header[Seg(Done + 1)]
      BY <1>4, <2>1, <3>1, <3>2
    <3> QED
      BY <1>2, <2>3, <3>3 DEF SizesInv
  <2>4. \A i \in 1 .. Len(consumed) : SizeOf(i, consumed[i].size)'
    BY <1>1, <1>2, <1>3 DEF SizesInv, SizeOf
  <2>5. cpc' # "use" /\ consumed' = consumed
    BY <1>1
  <2> QED
    BY <1>3, <1>5, <2>2, <2>3, <2>4, <2>5 DEF SizesInv
<1>12. ContentInv'
  <2>1. UNCHANGED <<payload, consumed>>
    BY <1>1
  <2> QED
    BY <1>2, <1>3, <1>6, <2>1 DEF ContentInv
<1> QED
  BY <1>3, <1>8, <1>9, <1>10, <1>11, <1>12 DEF IInv

LEMMA MarkConsumableStep ==
  ASSUME IInv, MarkConsumable
  PROVE  IInv'
<1>1. /\ cpc = "mark_consumable" /\ cpc' = "count"
      /\ header' = [header EXCEPT ![prev].C = FALSE, ![prev].W = TRUE]
      /\ UNCHANGED <<payload, released, appender, queue, iter, prev, held, consumed>>
  BY DEF MarkConsumable
<1>2. TypeInv /\ WriterInv /\ QueueInv /\ ConsumerInv /\ RingInv /\ SizesInv /\ ContentInv
  BY DEF IInv
<1>3. /\ WriterInv' /\ QueueInv' /\ SlotsInv'
      /\ Data' = Data /\ Done' = Done /\ Visible' = Visible
      /\ UNCHANGED <<wpc, sent, last, sq, landed>>
      /\ \A k, size : SizeOf(k, size) => SizeOf(k, size)'
  BY <1>1, ConsumerFrame
<1>4. /\ Taken \in Nat \ {0} /\ Taken < Visible /\ N \in Nat \ {0}
      /\ prev \in Segs /\ prev = Seg(Taken)
      /\ sent \in Nat /\ Visible \in Int /\ Visible <= sent /\ sent < Taken + N
      /\ Oldest = Taken
  BY <1>1, <1>2, PrevIter, Order DEF ConsumerInv
<1>5. Taken' = Taken
  BY <1>1, <1>4 DEF Taken
<1>6. Oldest' = Taken + 1 /\ Counted' = Counted
  BY <1>1, <1>4, <1>5 DEF Oldest, Counted
<1>7. /\ header' \in [Segs -> Header] /\ header'[prev].next = header[prev].next
      /\ header'[prev].counter = header[prev].counter
      /\ header'[prev].W /\ ~ header'[prev].C /\ header'[prev].E = header[prev].E
      /\ \A t \in Segs \ {prev} : header'[t] = header[t]
  <2>1. header \in [Segs -> Header]
    BY <1>2 DEF TypeInv
  <2> QED
    BY <1>1, <1>4, <2>1, Cleared
<1>8. TypeInv'
  <2>1. header' \in [Segs -> Header] /\ cpc' = "count"
    BY <1>1, <1>7
  <2>2. UNCHANGED <<payload, released, appender, queue, held, consumed>>
    BY <1>1
  <2> QED
    BY <1>2, <2>1, <2>2 DEF TypeInv, appender, queue
<1>9. ConsumerInv'
  <2>1. UNCHANGED <<released, iter, prev, held>> /\ cpc' = "count"
    BY <1>1
  <2> QED
    BY <1>2, <1>3, <1>4, <1>5, <1>6, <2>1 DEF ConsumerInv
<1>10. RingInv'
  <2>1. ~ header[prev].E
    <3>1. SUFFICES ASSUME header[prev].E PROVE FALSE
      OBVIOUS
    <3>2. prev = last /\ sent > 0
      BY <1>2, <1>4, <3>1 DEF RingInv
    <3>3. prev = Seg(sent)
      BY <1>2, <3>2 DEF WriterInv
    <3> QED
      BY <1>1, <1>4, <3>3, PrevApart
  <2>2. ASSUME NEW t \in Segs
        PROVE  /\ header'[t].next = Succ(t)
               /\ header'[t].W <=> ~ header'[t].E
               /\ header'[t].E => wpc = "closed" /\ sent > 0 /\ t = last /\ Done = sent
    <3>1. CASE t = prev
      BY <1>2, <1>7, <2>1, <3>1 DEF RingInv
    <3>2. CASE t # prev
      <4>1. header'[t] = header[t]
        BY <1>7, <3>2
      <4> QED
        BY <1>2, <4>1 DEF RingInv
    <3> QED
      BY <3>1, <3>2
  <2>3. ASSUME NEW k \in Taken + 1 .. Taken + N PROVE header'[Seg(k)].C <=> k <= Visible
    <3>1. CASE k = Taken + N
      <4>1. Seg(k) = prev
        BY <1>4, <3>1, SegRound
      <4> QED
        BY <1>4, <1>7, <3>1, <4>1
    <3>2. CASE k # Taken + N
      <4>1. k \in Int /\ Taken < k /\ k < Taken + N /\ k \in Oldest .. Oldest + N - 1
        BY <1>4, <3>2
      <4>2. header'[Seg(k)] = header[Seg(k)]
        BY <1>1, <1>4, <1>7, <4>1, PrevApart
      <4> QED
        BY <1>2, <4>1, <4>2 DEF RingInv
    <3> QED
      BY <3>1, <3>2
  <2>4. Oldest' .. Oldest' + N - 1 = Taken + 1 .. Taken + N
    BY <1>4, <1>6
  <2> QED
    BY <1>3, <2>2, <2>3, <2>4 DEF RingInv
<1>11. SizesInv'
  <2>1. \A t \in Segs : header'[t].counter = header[t].counter
    BY <1>7
  <2>2. ASSUME NEW k \in Nat \ {0} PROVE header'[Seg(k)].counter = header[Seg(k)].counter
    BY <2>1, SegType
  <2>3. ASSUME NEW k \in Taken + 1 .. Visible PROVE SizeOf(k, header[Seg(k)].counter)'
    <3>1. header'[Seg(k)].counter = header[Seg(k)].counter
      BY <1>4, <2>2
    <3>2. SizeOf(k, header[Seg(k)].counter)
      BY <1>2 DEF SizesInv
    <3> QED
      BY <1>3, <3>1, <3>2 DEF SizeOf
  <2>4. ASSUME landed = 1, Data > 0 PROVE header'[Seg(Done + 1)].counter = MsgSize
    <3>1. Done + 1 \in Nat \ {0}
      BY <1>2, Order, Numbers
    <3> QED
      BY <1>2, <2>2, <2>4, <3>1 DEF SizesInv
  <2>5. \A i \in 1 .. Len(consumed) : SizeOf(i, consumed[i].size)'
    BY <1>1, <1>2, <1>3 DEF SizesInv, SizeOf
  <2>6. cpc' # "use" /\ consumed' = consumed
    BY <1>1
  <2> QED
    BY <1>3, <1>5, <2>3, <2>4, <2>5, <2>6 DEF SizesInv
<1>12. ContentInv'
  <2>1. UNCHANGED <<payload, consumed>>
    BY <1>1
  <2>2. \A k \in Oldest' .. Done' : k \in Oldest .. Done
    BY <1>3, <1>4, <1>6, PrevIter
  <2> QED
    BY <1>2, <2>1, <2>2 DEF ContentInv
<1> QED
  BY <1>3, <1>8, <1>9, <1>10, <1>11, <1>12 DEF IInv

LEMMA TakeStep ==
  ASSUME IInv, Take
  PROVE  IInv'
<1>1. /\ cpc = "take" /\ cpc' = "use"
      /\ held' = [seg |-> iter, size |-> header[iter].counter]
      /\ prev' = iter /\ iter' = header[iter].next
      /\ UNCHANGED <<memory, appender, queue, consumed>>
  BY DEF Take
<1>2. UNCHANGED <<header, payload, released>>
  BY <1>1 DEF memory
<1>3. TypeInv /\ ConsumerInv /\ RingInv /\ SizesInv /\ ContentInv
  BY DEF IInv
<1>4. /\ WriterInv' /\ QueueInv' /\ SlotsInv'
      /\ Data' = Data /\ Done' = Done /\ Visible' = Visible
      /\ UNCHANGED <<wpc, sent, last, sq, landed>>
      /\ \A k, size : SizeOf(k, size) => SizeOf(k, size)'
  BY <1>1, <1>2, ConsumerFrame
<1>5. /\ Taken \in Nat /\ Taken < Visible /\ Visible \in Int /\ iter = Seg(Taken + 1) /\ iter \in Segs
      /\ Oldest = Taken + 1 /\ N \in Nat
  BY <1>1, <1>3, PrevIter DEF ConsumerInv
<1>6. Taken' = Taken + 1
  <2>1. Taken = Len(consumed)
    BY <1>1 DEF Taken
  <2>2. Taken' = Len(consumed) + 1
    BY <1>1 DEF Taken
  <2> QED
    BY <2>1, <2>2
<1>7. Oldest' = Oldest /\ Counted' = Counted
  <2>1. Oldest' = Taken + 1
    BY <1>1, <1>5, <1>6 DEF Oldest
  <2>2. Counted = Taken
    BY <1>1, <1>5 DEF Counted
  <2>3. Counted' = Taken
    BY <1>1, <1>5, <1>6 DEF Counted
  <2> QED
    BY <1>5, <2>1, <2>2, <2>3
<1>8. held' \in [seg : Segs, size : Nat] /\ held'.seg = iter /\ held'.size = header[iter].counter
  <2>1. header[iter].counter \in Nat
    BY <1>3, <1>5 DEF TypeInv, Header
  <2> QED
    BY <1>1, <1>5, <2>1
<1>9. TypeInv'
  BY <1>1, <1>2, <1>3, <1>8 DEF TypeInv, appender, queue
<1>10. ConsumerInv'
  <2>1. Taken + 1 \in Nat \ {0} /\ (Taken + 1) + 1 = Taken' + 1 /\ (Taken' + 1) - 1 = Taken'
    BY <1>5, <1>6
  <2>2. iter' = Place(Taken', N)
    <3>1. iter' = Succ(iter)
      BY <1>1, <1>3, <1>5 DEF RingInv
    <3>2. Succ(iter) = Seg(Taken' + 1)
      BY <1>5, <2>1, SegNext
    <3> QED
      BY <2>1, <3>1, <3>2 DEF Seg
  <2>3. prev' = Seg(Taken') /\ Taken' # 0 /\ Taken' <= Visible
    BY <1>1, <1>5, <1>6
  <2>4. held'.seg = prev' /\ released' = N + Counted' /\ cpc' = "use"
    BY <1>1, <1>2, <1>3, <1>7, <1>8 DEF ConsumerInv
  <2> QED
    BY <1>4, <2>2, <2>3, <2>4 DEF ConsumerInv
<1>11. RingInv'
  BY <1>2, <1>3, <1>4, <1>7 DEF RingInv
<1>12. SizesInv'
  <2>1. SizeOf(Taken, held.size)'
    <3>1. Taken + 1 \in Taken + 1 .. Visible
      BY <1>5
    <3>2. SizeOf(Taken + 1, header[iter].counter)
      BY <1>3, <1>5, <3>1 DEF SizesInv
    <3> QED
      BY <1>4, <1>6, <1>8, <3>2, Zenon DEF SizeOf
  <2>2. \A k \in Taken' + 1 .. Visible : k \in Taken + 1 .. Visible
    BY <1>5, <1>6
  <2>3. \A k \in Taken' + 1 .. Visible : SizeOf(k, header[Seg(k)].counter)'
    BY <1>2, <1>3, <1>4, <2>2 DEF SizesInv
  <2>4. \A i \in 1 .. Len(consumed) : SizeOf(i, consumed[i].size)'
    BY <1>1, <1>3, <1>4 DEF SizesInv, SizeOf
  <2>5. landed = 1 /\ Data > 0 => header[Seg(Done + 1)].counter = MsgSize
    BY <1>3 DEF SizesInv
  <2>6. consumed' = consumed /\ header' = header
    BY <1>1, <1>2
  <2> QED
    BY <1>4, <2>1, <2>3, <2>4, <2>5, <2>6 DEF SizesInv
<1>13. ContentInv'
  BY <1>1, <1>2, <1>3, <1>4, <1>7 DEF ContentInv
<1> QED
  BY <1>4, <1>9, <1>10, <1>11, <1>12, <1>13 DEF IInv

\* What the application reads is the message in turn, unless it is landing still.
LEMMA ReadsInTurn ==
  ASSUME IInv, cpc = "use"
  PROVE  InFlight(held.seg) \/ payload[held.seg] = Taken
<1>1. TypeInv /\ WriterInv /\ QueueInv /\ ConsumerInv /\ ContentInv
  BY DEF IInv
<1>2. Taken \in Nat /\ Taken > 0
  <2>1. Len(consumed) \in Nat
    BY <1>1, Numbers
  <2> QED
    BY <2>1 DEF Taken
<1>3. /\ Oldest = Taken /\ held.seg = Seg(Taken) /\ Taken <= Visible
      /\ Visible \in Int /\ Done \in Int
  BY <1>1, <1>2, PrevIter DEF ConsumerInv
<1>4. CASE Taken <= Done
  <2>1. Taken \in Oldest .. Done
    BY <1>2, <1>3, <1>4
  <2> QED
    BY <1>1, <1>3, <2>1 DEF ContentInv
<1>5. CASE ~ Taken <= Done
  <2>1. landed = 2
    BY <1>2, <1>3, <1>5 DEF Visible
  <2>2. Visible = Done + 1
    BY <2>1 DEF Visible
  <2>3. Taken = Done + 1 /\ Data > 0
    BY <1>1, <1>2, <1>3, <1>5, <2>1, <2>2 DEF QueueInv
  <2>4. 1 \in 1 .. Data /\ 1 \in 1 .. Len(sq) /\ DOMAIN sq = 1 .. Len(sq)
    <3>1. Data \in Nat /\ Len(sq) \in Nat /\ Data <= Len(sq)
      BY <1>1, Numbers
    <3>2. DOMAIN sq = 1 .. Len(sq)
      BY <1>1, LenProperties DEF TypeInv
    <3> QED
      BY <2>3, <3>1, <3>2
  <2>5. sq[1] = DataRequest(Taken)
    BY <1>1, <2>3, <2>4 DEF QueueInv
  <2>6. sq[1].kind = "data" /\ sq[1].seg = held.seg
    BY <1>3, <2>5 DEF DataRequest
  <2> QED
    BY <2>4, <2>6 DEF InFlight
<1> QED
  BY <1>4, <1>5

LEMMA UseStep ==
  ASSUME IInv, Use
  PROVE  IInv'
<1> DEFINE b == InFlight(held.seg)
           r == [msg |-> payload[held.seg], size |-> held.size, torn |-> b]
<1>1. /\ cpc = "use" /\ cpc' = "has_next" /\ consumed' = Append(consumed, r)
      /\ UNCHANGED <<memory, appender, queue, iter, prev, held>>
  BY DEF Use
<1>2. UNCHANGED <<header, payload, released>>
  BY <1>1 DEF memory
<1>3. TypeInv /\ ConsumerInv /\ RingInv /\ SizesInv /\ ContentInv
  BY DEF IInv
<1>4. /\ WriterInv' /\ QueueInv' /\ SlotsInv'
      /\ Data' = Data /\ Done' = Done /\ Visible' = Visible
      /\ UNCHANGED <<wpc, sent, last, sq, landed>>
      /\ \A k, size : SizeOf(k, size) => SizeOf(k, size)'
  BY <1>1, <1>2, ConsumerFrame
<1>5. b \in BOOLEAN
  BY Zenon DEF InFlight
<1>6. b \/ payload[held.seg] = Taken
  BY <1>1, ReadsInTurn
<1> HIDE DEF b
<1>7. r \in Reading /\ r.msg = payload[held.seg] /\ r.size = held.size /\ (r.torn <=> b)
  <2>1. payload[held.seg] \in Nat /\ held.size \in Nat
    BY <1>3 DEF TypeInv
  <2>2. r \in Reading /\ r.msg = payload[held.seg] /\ r.size = held.size
    BY <1>5, <2>1 DEF Reading
  <2>3. r.torn <=> b
    BY Zenon
  <2> QED
    BY <2>2, <2>3
<1> HIDE DEF r
<1>8. Len(consumed) \in Nat /\ consumed \in Seq(Reading) /\ Taken = Len(consumed) + 1
  BY <1>1, <1>3, Numbers DEF TypeInv, Taken
<1>9. /\ consumed' \in Seq(Reading) /\ Len(consumed') = Len(consumed) + 1
      /\ consumed'[Len(consumed) + 1] = r
      /\ \A i \in 1 .. Len(consumed) : consumed'[i] = consumed[i]
  BY <1>1, <1>7, <1>8, AppendProperties
<1>10. Taken' = Taken
  BY <1>1, <1>8, <1>9 DEF Taken
<1>11. Oldest' = Oldest /\ Counted' = Counted
  BY <1>1, <1>8, <1>10 DEF Oldest, Counted
<1>12. TypeInv'
  <2>1. UNCHANGED <<header, payload, released, appender, queue, held>> /\ cpc' = "has_next"
    BY <1>1, <1>2
  <2> QED
    BY <1>3, <1>9, <2>1 DEF TypeInv, appender, queue
<1>13. ConsumerInv'
  <2>1. UNCHANGED <<released, iter, prev>> /\ cpc' = "has_next"
    BY <1>1, <1>2
  <2> QED
    BY <1>3, <1>4, <1>10, <1>11, <2>1 DEF ConsumerInv
<1>14. RingInv'
  BY <1>2, <1>3, <1>4, <1>11 DEF RingInv
<1>15. \A i \in 1 .. Len(consumed') : i \in 1 .. Len(consumed) \/ i = Taken
  BY <1>8, <1>9
<1>16. SizesInv'
  <2>1. SizeOf(Taken, held.size)
    BY <1>1, <1>3 DEF SizesInv
  <2>2. ASSUME NEW i \in 1 .. Len(consumed') PROVE SizeOf(i, consumed'[i].size)
    <3>1. CASE i \in 1 .. Len(consumed)
      BY <1>3, <1>9, <3>1 DEF SizesInv
    <3>2. CASE i = Taken
      BY <1>7, <1>8, <1>9, <2>1, <3>2
    <3> QED
      BY <1>15, <3>1, <3>2
  <2>3. \A i \in 1 .. Len(consumed') : SizeOf(i, consumed[i].size)'
    BY <1>4, <2>2 DEF SizeOf
  <2>4. \A k \in Taken + 1 .. Visible : SizeOf(k, header[Seg(k)].counter)'
    BY <1>2, <1>3, <1>4 DEF SizesInv
  <2>5. landed = 1 /\ Data > 0 => header[Seg(Done + 1)].counter = MsgSize
    BY <1>3 DEF SizesInv
  <2>6. cpc' # "use"
    BY <1>1
  <2> QED
    BY <1>2, <1>4, <1>10, <2>3, <2>4, <2>5, <2>6 DEF SizesInv
<1>17. ContentInv'
  <2>1. ASSUME NEW i \in 1 .. Len(consumed') PROVE consumed'[i].torn \/ consumed'[i].msg = i
    <3>1. CASE i \in 1 .. Len(consumed)
      BY <1>3, <1>9, <3>1 DEF ContentInv
    <3>2. CASE i = Taken
      <4>1. consumed'[i] = r
        BY <1>8, <1>9, <3>2
      <4> QED
        BY <1>6, <1>7, <3>2, <4>1
    <3> QED
      BY <1>15, <3>1, <3>2
  <2> QED
    BY <1>2, <1>3, <1>4, <1>11, <2>1 DEF ContentInv
<1> QED
  BY <1>4, <1>12, <1>13, <1>14, <1>16, <1>17 DEF IInv

-----------------------------------------------------------------------------
(***************************************************************************)
(* The theorems.                                                           *)
(***************************************************************************)
LEMMA Unchanged ==
  ASSUME IInv, UNCHANGED vars
  PROVE  IInv'
<1>1. UNCHANGED <<memory, consumer, queue, appender>>
  BY DEF vars
<1>2. /\ UNCHANGED <<wpc, sent, free, cnt, cur, last, hdr, ibuf, islot>>
      /\ UNCHANGED <<sq, landed, signaled>>
      /\ UNCHANGED <<header, payload, released>>
  BY <1>1 DEF appender, queue, memory
<1>3. Data' = Data /\ Done' = Done /\ QueueInv' /\ SlotsInv'
  BY <1>2, QueueSame
<1>4. ConsumerInv' /\ RingInv' /\ SizesInv' /\ ContentInv'
  BY <1>1, <1>2, <1>3, WriterFrame
<1>5. TypeInv'
  BY <1>1, <1>2 DEF IInv, TypeInv, consumer
<1>6. WriterInv'
  BY <1>2, <1>3 DEF IInv, WriterInv
<1> QED
  BY <1>3, <1>4, <1>5, <1>6 DEF IInv

LEMMA Inductive ==
  ASSUME Roomy, IInv, [Next]_vars
  PROVE  IInv'
<1>1. ASSUME NEW sig \in BOOLEAN, Append_(sig) \/ AppendAfterWait(sig) PROVE IInv'
  BY <1>1, AppendStep
<1>2. CASE NoFreeSegment
  BY <1>2, NoFreeSegmentStep
<1>3. CASE ReadCounter
  BY <1>3, ReadCounterStep
<1>4. CASE Close
  BY <1>4, CloseStep
<1>5. CASE CloseUnused
  BY <1>5, CloseUnusedStep
<1>6. CASE NicStep
  BY <1>6, LandWordsStep, LandFlagsStep, LandMessageStep DEF NicStep
<1>7. CASE ConsumerStep
  BY <1>7, FoundSegmentStep, DropRingStep, MarkCounterStep, MarkConsumableStep,
     CountReleasedStep, TakeStep, UseStep DEF ConsumerStep
<1>8. CASE UNCHANGED vars
  BY <1>8, Unchanged
<1> QED
  BY <1>1, <1>2, <1>3, <1>4, <1>5, <1>6, <1>7, <1>8 DEF Next, WriterStep

\* The places of writer, messages and consumer in the ring fit together at all times, in
\* a ring of more than one segment with an internal buffer for as many messages.
THEOREM Invariance ==
  ASSUME Roomy
  PROVE  Spec => []IInv
<1>1. Init => IInv
  BY Initially
<1>2. IInv /\ [Next]_vars => IInv'
  BY Inductive
<1> QED
  BY <1>1, <1>2, PTL DEF Spec

LEMMA DataEntry ==
  ASSUME IInv, NEW i \in DOMAIN sq, sq[i].kind = "data"
  PROVE  /\ i \in 1 .. Data /\ sq[i] = DataRequest(Done + i)
         /\ Done + i \in Nat \ {0} /\ Done + i \in Done + 1 .. sent
<1>1. TypeInv /\ WriterInv /\ QueueInv /\ ConsumerInv
  BY DEF IInv
<1>2. /\ Data \in Nat /\ Len(sq) \in Nat /\ Data <= Len(sq) /\ Len(sq) <= Data + 1
      /\ Done \in Int /\ 0 <= Done
  BY <1>1, Numbers, Order
<1>3. sent \in Nat /\ Done = sent - Data
  BY <1>1 DEF TypeInv, Done
<1>4. DOMAIN sq = 1 .. Len(sq)
  BY <1>1, LenProperties DEF TypeInv
<1>5. Len(sq) = Data \/ sq[Len(sq)] = EndRequest
  BY <1>1 DEF QueueInv
<1>6. EndRequest.kind = "header"
  BY DEF EndRequest
<1>7. i = Len(sq) => Len(sq) = Data
  BY <1>5, <1>6
<1>8. i \in 1 .. Data
  <2> DEFINE l == Len(sq)
  <2>1. i \in 1 .. l /\ l \in Nat /\ Data <= l /\ l <= Data + 1 /\ (i = l => l = Data)
    BY <1>2, <1>4, <1>7
  <2> HIDE DEF l
  <2> QED
    BY <1>2, <2>1
<1>9. sq[i] = DataRequest(Done + i)
  BY <1>1, <1>8 DEF QueueInv
<1>10. Done + i \in Nat \ {0} /\ Done + i \in Done + 1 .. sent
  BY <1>2, <1>3, <1>8
<1> QED
  BY <1>8, <1>9, <1>10

\* The writer never writes a segment the consumer has not released.
THEOREM Exclusive ==
  ASSUME Roomy
  PROVE  Spec => []SegmentExclusive
<1>1. ASSUME IInv PROVE SegmentExclusive
  <2>1. TypeInv /\ WriterInv /\ QueueInv /\ ConsumerInv /\ RingInv
    BY <1>1 DEF IInv
  <2>2. /\ sent \in Nat /\ cnt \in Nat /\ Data \in Nat /\ Done \in Int /\ Done = sent - Data
        /\ N \in Nat \ {0} /\ Len(sq) \in Nat /\ DOMAIN sq = 1 .. Len(sq) /\ Oldest \in Nat \ {0}
        /\ Taken \in Nat /\ Visible \in Int
    BY <2>1, Numbers, LenProperties DEF TypeInv, Done
  <2>3. /\ 0 <= Done /\ Taken <= Visible /\ sent < Oldest + N /\ Oldest <= Visible + 1
        /\ (cpc # "take" /\ Taken > 0) => sent < Taken + N
    BY <2>1, Order
  <2>4. free \in 0 .. N
    <3>1. free = cnt - sent /\ free >= 0 /\ (cnt = N \/ cnt <= N + Done - 1)
      BY <2>1 DEF WriterInv
    <3> QED
      BY <2>2, <2>3, <3>1
  <2>5. ASSUME NEW i \in DOMAIN sq, sq[i].kind = "data", i > 1 \/ landed < 2
        PROVE  ~ header[sq[i].seg].C /\ (sq[i].seg # prev \/ cpc = "take")
    <3>1. i \in 1 .. Data
      BY <1>1, <2>5, DataEntry
    <3> DEFINE k == Done + i
    <3>2. sq[i].seg = Seg(k) /\ k \in Nat \ {0} /\ k <= sent
      <4>1. sq[i] = DataRequest(k) /\ k \in Nat \ {0} /\ k \in Done + 1 .. sent
        BY <1>1, <2>5, DataEntry
      <4>2. sq[i].seg = Seg(k)
        BY <4>1 DEF DataRequest
      <4> QED
        BY <2>2, <4>1, <4>2
    <3>3. k > Visible
      <4>1. landed = 2 => i > 1
        BY <2>5
      <4> QED
        BY <2>2, <3>1, <4>1 DEF Visible
    <3> HIDE DEF k
    <3>4. k \in Oldest .. Oldest + N - 1
      BY <2>2, <2>3, <3>2, <3>3
    <3>5. ~ header[Seg(k)].C
      BY <2>1, <2>2, <3>2, <3>3, <3>4 DEF RingInv
    <3>6. Seg(k) # prev \/ cpc = "take"
      <4>1. CASE Taken = 0
        <5>1. prev = NoSeg /\ Seg(k) \in Segs
          BY <2>1, <3>2, <4>1, SegType DEF ConsumerInv
        <5> QED
          BY <2>2, <5>1 DEF Segs, NoSeg
      <4>2. CASE Taken > 0 /\ cpc # "take"
        <5>1. k \in Int /\ Taken < k /\ k < Taken + N
          BY <2>2, <2>3, <3>2, <3>3, <4>2
        <5> QED
          BY <1>1, <4>2, <5>1, PrevApart
      <4> QED
        BY <2>2, <4>1, <4>2
    <3> QED
      BY <3>2, <3>5, <3>6
  <2> QED
    BY <2>4, <2>5 DEF SegmentExclusive
<1> QED
  BY <1>1, Invariance, PTL

\* What a request was posted for is in the internal buffer until it is executed.
THEOREM Intact ==
  ASSUME Roomy
  PROVE  Spec => []InFlightIntact
<1>1. ASSUME IInv PROVE InFlightIntact
  <2>1. ASSUME NEW i \in DOMAIN sq, sq[i].kind = "data"
        PROVE  ibuf[sq[i].slot].msg = sq[i].msg
    <3> DEFINE k == Done + i
    <3>1. sq[i] = DataRequest(k) /\ k \in Done + 1 .. sent
      BY <1>1, <2>1, DataEntry
    <3> HIDE DEF k
    <3>2. sq[i].slot = Place(k - 1, Slots) /\ sq[i].msg = k
      BY <3>1 DEF DataRequest
    <3>3. ibuf[Place(k - 1, Slots)] = [hdr |-> DataHeader(Seg(k)), msg |-> k]
      BY <1>1, <3>1 DEF IInv, SlotsInv
    <3>4. ibuf[Place(k - 1, Slots)].msg = k
      BY <3>3
    <3> QED
      BY <3>2, <3>4
  <2> QED
    BY <2>1 DEF InFlightIntact
<1> QED
  BY <1>1, Invariance, PTL

\* next() reports the size appended, or for the last message that of the segment.
THEOREM Sizes ==
  ASSUME Roomy
  PROVE  Spec => []SizesReported
<1>1. ASSUME IInv PROVE SizesReported
  <2>1. DOMAIN consumed = 1 .. Len(consumed)
    BY <1>1, LenProperties DEF IInv, TypeInv
  <2> QED
    BY <1>1, <2>1 DEF IInv, SizesInv, SizeOf, SizesReported
<1> QED
  BY <1>1, Invariance, PTL

-----------------------------------------------------------------------------
(***************************************************************************)
(* The refinement.  The consumer has received the messages 1, 2, ...; it   *)
(* is told of the end when it has received all of a closed ring.           *)
(***************************************************************************)
Received == [i \in DOMAIN consumed |-> IF consumed[i].torn THEN i ELSE consumed[i].msg]

LEMMA ReceivedIs ==
  ASSUME IInv
  PROVE  Received = [i \in 1 .. Len(consumed) |-> i] /\ Len(consumed) \in Nat
<1>1. DOMAIN consumed = 1 .. Len(consumed) /\ Len(consumed) \in Nat
  BY LenProperties DEF IInv, TypeInv
<1>2. \A i \in 1 .. Len(consumed) : consumed[i].torn \/ consumed[i].msg = i
  BY DEF IInv, ContentInv
<1> QED
  BY <1>1, <1>2 DEF Received

LEMMA StreamInit ==
  ASSUME Init
  PROVE  Stream!Init
<1>1. sent = 0 /\ wpc = "idle" /\ cpc = "has_next" /\ consumed = << >>
  BY DEF Init
<1>2. Received = << >>
  BY <1>1 DEF Received
<1> QED
  BY <1>1, <1>2 DEF Stream!Init, Received

LEMMA StreamSame ==
  ASSUME UNCHANGED <<sent, consumed>>, wpc' = "closed" <=> wpc = "closed",
         cpc' = "end" <=> cpc = "end"
  PROVE  UNCHANGED Stream!vars
<1>1. [w \in {1} |-> wpc' = "closed"] = [w \in {1} |-> wpc = "closed"]
  BY Zenon
<1>2. (IF cpc' = "end" THEN {} ELSE {1}) = (IF cpc = "end" THEN {} ELSE {1})
  OBVIOUS
<1> QED
  BY <1>1, <1>2 DEF Stream!vars

LEMMA StreamAppend ==
  ASSUME IInv, sent' = sent + 1, wpc # "closed", wpc' # "closed", UNCHANGED <<cpc, consumed>>
  PROVE  Stream!Next
<1>1. [w \in {1} |-> wpc' = "closed"] = [w \in {1} |-> wpc = "closed"]
  BY Zenon
<1>2. [w \in {1} |-> sent'] = [[w \in {1} |-> sent] EXCEPT ![1] = sent + 1]
  OBVIOUS
<1>3. Stream!AppendBytes(1)
  BY <1>1, <1>2 DEF Stream!AppendBytes
<1> QED
  BY <1>3 DEF Stream!Next

LEMMA StreamClose ==
  ASSUME IInv, wpc' = "closed", UNCHANGED <<sent, cpc, consumed>>
  PROVE  Stream!Next
<1>1. [w \in {1} |-> wpc' = "closed"] = [[w \in {1} |-> wpc = "closed"] EXCEPT ![1] = TRUE]
  OBVIOUS
<1>2. Stream!CloseStream(1)
  BY <1>1 DEF Stream!CloseStream
<1> QED
  BY <1>2 DEF Stream!Next

LEMMA StreamEnd ==
  ASSUME IInv, IInv', cpc # "end", cpc' = "end", UNCHANGED <<wpc, sent, consumed>>
  PROVE  Stream!Next
<1>1. wpc = "closed" /\ sent = Len(consumed)
  BY DEF IInv, ConsumerInv, Taken
<1>2. Len(Received) = Len(consumed)
  BY ReceivedIs
<1>3. Stream!ReportEnd(1)
  BY <1>1, <1>2 DEF Stream!ReportEnd, Received
<1> QED
  BY <1>3 DEF Stream!Next

LEMMA StreamDeliver ==
  ASSUME IInv, IInv', Use
  PROVE  Stream!Next
<1>1. /\ cpc = "use" /\ cpc' = "has_next" /\ UNCHANGED <<wpc, sent>>
      /\ Len(consumed') = Len(consumed) + 1
  <2>1. Taken \in Nat /\ Len(consumed) \in Nat
    BY Numbers DEF IInv
  <2>2. \E r : consumed' = Append(consumed, r)
    BY DEF Use
  <2>3. Len(consumed') = Len(consumed) + 1
    BY <2>2 DEF IInv, TypeInv
  <2> QED
    BY <2>3 DEF Use, appender
<1> DEFINE n == Len(consumed)
<1>2. n \in Nat /\ Received = [i \in 1 .. n |-> i] /\ Received' = [i \in 1 .. n + 1 |-> i]
  <2>1. DOMAIN consumed' = 1 .. Len(consumed')
    BY LenProperties DEF IInv, TypeInv
  <2>2. \A i \in 1 .. Len(consumed') : consumed'[i].torn \/ consumed'[i].msg = i
    BY DEF IInv, ContentInv
  <2>3. Received' = [i \in 1 .. Len(consumed') |-> i]
    BY <2>1, <2>2 DEF Received
  <2> QED
    BY <1>1, <2>3, ReceivedIs
<1>3. n + 1 <= sent /\ sent \in Nat
  <2>1. Taken = n + 1
    BY <1>1 DEF Taken
  <2> QED
    BY <2>1, PrevIter
<1> HIDE DEF n
<1>4. Received' = Received \o [i \in 1 .. 1 |-> Len(Received) + i] /\ Len(Received) = n
  BY <1>2
<1>5. 1 \in 0 .. sent - Len(Received)
  BY <1>2, <1>3, <1>4
<1>6. [w \in {1} |-> Received'] = [[w \in {1} |-> Received] EXCEPT
         ![1] = [w \in {1} |-> Received][1]
                  \o [i \in 1 .. 1 |-> Len([w \in {1} |-> Received][1]) + i]]
  BY <1>4
<1>7. 1 \in 0 .. [w \in {1} |-> sent][1] - Len([w \in {1} |-> Received][1])
  BY <1>5
<1>8. UNCHANGED <<[w \in {1} |-> sent], [w \in {1} |-> wpc = "closed"],
                  IF cpc = "end" THEN {} ELSE {1}>>
      /\ 1 \in IF cpc = "end" THEN {} ELSE {1}
  BY <1>1
<1>9. Stream!Deliver(1)
  BY <1>6, <1>7, <1>8, Zenon DEF Stream!Deliver, Received
<1> QED
  BY <1>9 DEF Stream!Next

LEMMA StreamStep ==
  ASSUME IInv, IInv', [Next]_vars
  PROVE  [Stream!Next]_(Stream!vars)
<1>1. ASSUME NEW sig \in BOOLEAN, Append_(sig) \/ AppendAfterWait(sig) PROVE Stream!Next
  <2>1. wpc # "closed" /\ WriteMessage(sig)
    BY <1>1 DEF Append_, AppendAfterWait
  <2>2. sent' = sent + 1 /\ wpc' # "closed" /\ UNCHANGED <<cpc, consumed>>
    BY <2>1 DEF WriteMessage, consumer
  <2> QED
    BY <2>1, <2>2, StreamAppend
<1>2. CASE NoFreeSegment
  BY <1>2, StreamSame DEF NoFreeSegment, consumer
<1>3. CASE ReadCounter
  <2>1. wpc # "closed" /\ wpc' # "closed" /\ UNCHANGED <<sent, cpc, consumed>>
    BY <1>3 DEF ReadCounter, consumer
  <2> QED
    BY <2>1, StreamSame
<1>4. CASE Close \/ CloseUnused
  <2>1. wpc' = "closed" /\ UNCHANGED <<sent, cpc, consumed>>
    BY <1>4 DEF Close, CloseUnused, consumer
  <2> QED
    BY <2>1, StreamClose
<1>5. CASE NicStep
  <2>1. UNCHANGED <<appender, consumer>>
    BY <1>5 DEF NicStep, LandWords, LandFlags, LandMessage
  <2>2. UNCHANGED <<wpc, sent, cpc, consumed>>
    BY <2>1 DEF appender, consumer
  <2> QED
    BY <2>2, StreamSame
<1>6. CASE FoundSegment \/ MarkCounter \/ MarkConsumable \/ CountReleased \/ Take
  <2>1. UNCHANGED <<appender, consumed>> /\ cpc # "end" /\ cpc' # "end"
    BY <1>6 DEF FoundSegment, MarkCounter, MarkConsumable, CountReleased, Take
  <2>2. UNCHANGED <<wpc, sent>>
    BY <2>1 DEF appender
  <2> QED
    BY <2>1, <2>2, StreamSame
<1>7. CASE DropRing
  <2>1. UNCHANGED <<appender, consumed>> /\ cpc # "end" /\ cpc' = "end"
    BY <1>7 DEF DropRing
  <2>2. UNCHANGED <<wpc, sent>>
    BY <2>1 DEF appender
  <2> QED
    BY <2>1, <2>2, StreamEnd
<1>8. CASE Use
  BY <1>8, StreamDeliver
<1>9. CASE UNCHANGED vars
  <2>1. UNCHANGED <<wpc, sent, cpc, consumed>>
    BY <1>9 DEF vars, appender, consumer
  <2> QED
    BY <2>1, StreamSame
<1> QED
  BY <1>1, <1>2, <1>3, <1>4, <1>5, <1>6, <1>7, <1>8, <1>9
     DEF Next, WriterStep, ConsumerStep

\* The LAT buffer implements the stream of its appender: every message is received once
\* and in order, and the end is reported after the last one.
THEOREM Refinement ==
  ASSUME Roomy
  PROVE  Spec => ImplementsStream
<1>1. Init => Stream!Init
  BY StreamInit
<1>2. IInv /\ IInv' /\ [Next]_vars => [Stream!Next]_(Stream!vars)
  BY StreamStep
<1> QED
  BY <1>1, <1>2, Invariance, PTL DEF Spec, ImplementsStream, Stream!SafeSpec
================================================================================
