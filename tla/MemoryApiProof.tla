---------------------------- MODULE MemoryApiProof ----------------------------
(***************************************************************************)
(* The proof of ClosedIsReadExactly: IInv is an invariant of the memory    *)
(* API, for every number of processes, rings, segments and bytes.          *)
(***************************************************************************)
EXTENDS MemoryApi, SequenceTheorems, TLAPS

-----------------------------------------------------------------------------
(***************************************************************************)
(* Sizes.                                                                  *)
(***************************************************************************)

\* The sizes of a buffer.
LEMMA Sizes ==
  /\ Rings \in Nat /\ Rings >= 1 /\ N \in Nat /\ N >= 1 /\ SegSize \in Nat /\ SegSize >= 1
  /\ HeaderSize \in Nat /\ Memory \in Nat
  BY SizesAssumption

\* The bytes of one more segment.
LEMMA BytesFacts ==
  /\ Bytes(0) = 0
  /\ \A d \in Nat : Bytes(d) \in Nat /\ Bytes(d + 1) = Bytes(d) + SegSize
<1>1. SegSize \in Nat
  BY Sizes
<1>2. \A d \in Nat : d * SegSize \in Nat /\ (d + 1) * SegSize = d * SegSize + SegSize
  BY <1>1
<1>3. 0 * SegSize = 0
  BY <1>1
<1> QED
  BY <1>2, <1>3 DEF Bytes

\* A ring has room for what its segments hold.
LEMMA BytesGrow ==
  ASSUME NEW d \in Nat, NEW e \in Nat, d <= e
  PROVE  Bytes(d) <= Bytes(e)
<1>1. PICK k \in Nat : e = d + k
  <2>1. e - d \in Nat /\ e = d + (e - d)
    OBVIOUS
  <2> QED
    BY <2>1
<1>2. SegSize \in Nat
  BY Sizes
<1>3. (d + k) * SegSize = d * SegSize + k * SegSize /\ k * SegSize \in Nat /\ d * SegSize \in Nat
  BY <1>2
<1> QED
  BY <1>1, <1>3 DEF Bytes

\* The memory of a read has room for all rings.
LEMMA DataSizeFacts ==
  /\ DataSize \in Nat
  /\ \A r \in Nat : r < Rings => r * Bytes(N) \in Nat /\ r * Bytes(N) + Bytes(N) <= DataSize
<1>1. PICK b \in Nat : b = Bytes(N)
  BY BytesFacts, Sizes
<1>2. DataSize = Rings * b
  <2>1. Rings * N * SegSize = Rings * (N * SegSize)
    BY Sizes
  <2> QED
    BY <1>1, <2>1 DEF DataSize, Bytes
<1>3. Rings * b \in Nat
  BY Sizes
<1>4. ASSUME NEW r \in Nat, r < Rings PROVE r * b \in Nat /\ r * b + b <= Rings * b
  <2>1. PICK k \in Nat : Rings = (r + 1) + k
    <3>1. Rings - (r + 1) \in Nat /\ Rings = (r + 1) + (Rings - (r + 1))
      BY <1>4, Sizes
    <3> QED
      BY <3>1
  <2>2. /\ ((r + 1) + k) * b = r * b + b + k * b /\ k * b \in Nat /\ r * b \in Nat
    OBVIOUS
  <2> QED
    BY <2>1, <2>2
<1> QED
  BY <1>1, <1>2, <1>3, <1>4

\* The first n elements of a sequence.
LEMMA Front ==
  ASSUME NEW S, NEW m \in Nat, NEW s \in [1 .. m -> S], NEW n \in 0 .. m
  PROVE  /\ SubSeq(s, 1, n) \in Seq(S) /\ Len(SubSeq(s, 1, n)) = n
         /\ \A i \in 1 .. n : SubSeq(s, 1, n)[i] = s[i]
<1>1. s \in Seq(S) /\ Len(s) = m
  OBVIOUS
<1>2. \A i \in 1 .. n : s[i] \in S
  OBVIOUS
<1> QED
  BY <1>1, <1>2, SubSeqProperties

-----------------------------------------------------------------------------
(***************************************************************************)
(* Types.                                                                  *)
(***************************************************************************)

\* A writer that has a ring.
OnRing == [ring : 1 .. Rings, seg : 1 .. N, used : 0 .. SegSize, end : BOOLEAN]

\* A segment into which p has written n bytes behind place at; b bytes were written before.
Copied(c, p, at, n, b) ==
  [i \in 1 .. SegSize |-> IF i \in at + 1 .. at + n THEN <<p, b + i - at>> ELSE c[i]]

\* The header super_append writes into a segment it has filled.
FilledHeader(w) == [counter |-> SegSize, writeable |-> FALSE, end |-> w.end]

\* What super_append does: n bytes are written, all k of them or as many as fit.
Wrote(p, w, k, n) ==
  /\ n <= k /\ w.used + n <= SegSize /\ (n < k => w.used + n = SegSize)
  /\ sent' = [sent EXCEPT ![p] = sent[p] + n]
  /\ left' = [left EXCEPT ![p] = k - n]
  /\ writer' = [writer EXCEPT ![p] = [w EXCEPT !.used = w.used + n]]
  /\ pc' = [pc EXCEPT ![p] = IF n = k THEN "open" ELSE "next"]
  /\ header' = IF n = k THEN header ELSE [header EXCEPT ![w.ring][w.seg] = FilledHeader(w)]
  /\ cell' = [cell EXCEPT ![w.ring][w.seg] = Copied(cell[w.ring][w.seg], p, w.used, n, sent[p])]
  /\ UNCHANGED <<joined, reader, used, dead, reads, closed>>

\* Fill is a Wrote for some number of bytes.
LEMMA FillFacts ==
  ASSUME NEW p \in Procs, NEW w \in OnRing, NEW k \in Nat, Fill(p, w, k)
  PROVE  \E n \in Nat : Wrote(p, w, k, n)
<1>1. PICK u \in Nat : u = w.used /\ u <= SegSize
  BY Sizes DEF OnRing
<1> DEFINE n == IF k <= SegSize - w.used THEN k ELSE SegSize - w.used
<1>2. n \in Nat /\ n <= k /\ w.used + n <= SegSize /\ (n < k => w.used + n = SegSize)
  BY <1>1, Sizes
<1>3. /\ sent' = [sent EXCEPT ![p] = sent[p] + n]
      /\ left' = [left EXCEPT ![p] = k - n]
      /\ writer' = [writer EXCEPT ![p] = [w EXCEPT !.used = w.used + n]]
      /\ UNCHANGED <<joined, reader, used, dead, reads, closed>>
  BY DEF Fill
<1>4. pc' = [pc EXCEPT ![p] = IF n = k THEN "open" ELSE "next"]
  BY DEF Fill, GoTo
<1>5. header' = IF n = k THEN header ELSE [header EXCEPT ![w.ring][w.seg] = FilledHeader(w)]
  BY DEF Fill, FilledHeader
<1>6. cell' = [cell EXCEPT ![w.ring][w.seg] = Copied(cell[w.ring][w.seg], p, w.used, n, sent[p])]
  BY DEF Fill, Copied
<1> HIDE DEF n
<1> QED
  BY <1>2, <1>3, <1>4, <1>5, <1>6 DEF Wrote

\* The bytes of a segment are bytes.
LEMMA CopiedType ==
  ASSUME NEW c \in [1 .. SegSize -> Byte], NEW p \in Procs, NEW at \in Nat, NEW n \in Nat,
         NEW b \in Nat
  PROVE  Copied(c, p, at, n, b) \in [1 .. SegSize -> Byte]
<1>1. ASSUME NEW i \in 1 .. SegSize, i \in at + 1 .. at + n PROVE <<p, b + i - at>> \in Byte
  <2>1. b + i - at \in Nat
    BY <1>1, Sizes
  <2> QED
    BY <2>1 DEF Byte
<1>2. ASSUME NEW i \in 1 .. SegSize
      PROVE (IF i \in at + 1 .. at + n THEN <<p, b + i - at>> ELSE c[i]) \in Byte
  BY <1>1
<1> QED
  BY <1>2 DEF Copied

\* super_append keeps the types.
LEMMA FillType ==
  ASSUME TypeInv, NEW p \in Procs, NEW w \in OnRing, NEW k \in Nat, Fill(p, w, k),
         late' \subseteq Procs
  PROVE  TypeInv'
<1>1. PICK n \in Nat : Wrote(p, w, k, n)
  BY FillFacts
<1>2. /\ w.ring \in 1 .. Rings /\ w.seg \in 1 .. N /\ w.used \in Nat /\ w.end \in BOOLEAN
      /\ sent[p] \in Nat
  BY Sizes DEF OnRing, TypeInv
<1>3. sent' \in [Procs -> Nat] /\ left' \in [Procs -> Nat]
  <2>1. sent[p] + n \in Nat /\ k - n \in Nat
    BY <1>1, <1>2 DEF Wrote
  <2> QED
    BY <1>1, <2>1 DEF TypeInv, Wrote
<1>4. pc' \in [Procs -> {"new", "ready", "join", "open", "next", "read_header", "read_data",
                         "returned", "overrun", "crashed"}]
  BY <1>1 DEF TypeInv, Wrote
<1>5. writer' \in [Procs -> [ring : 0 .. Rings, seg : 1 .. N, used : 0 .. SegSize, end : BOOLEAN]]
  <2>1. w.used + n \in 0 .. SegSize
    BY <1>1, <1>2, Sizes DEF Wrote
  <2>2. [w EXCEPT !.used = w.used + n]
          \in [ring : 0 .. Rings, seg : 1 .. N, used : 0 .. SegSize, end : BOOLEAN]
    BY <1>2, <2>1, Sizes DEF OnRing
  <2> QED
    BY <1>1, <2>2 DEF TypeInv, Wrote
<1>6. header' \in [1 .. Rings -> [1 .. N -> Header]]
  <2>1. FilledHeader(w) \in Header
    BY <1>2, Sizes DEF FilledHeader, Header
  <2>2. CASE n = k
    BY <1>1, <2>2 DEF TypeInv, Wrote
  <2>3. CASE n # k
    BY <1>1, <1>2, <2>1, <2>3 DEF TypeInv, Wrote
  <2> QED
    BY <2>2, <2>3
<1>7. cell' \in [1 .. Rings -> [1 .. N -> [1 .. SegSize -> Byte]]]
  <2>1. PICK B : B = [1 .. SegSize -> Byte]
    OBVIOUS
  <2>2. cell \in [1 .. Rings -> [1 .. N -> B]]
    BY <2>1 DEF TypeInv
  <2>3. PICK c : c = Copied(cell[w.ring][w.seg], p, w.used, n, sent[p])
    OBVIOUS
  <2>4. c \in B
    <3>1. cell[w.ring][w.seg] \in B
      BY <1>2, <2>2
    <3> QED
      BY <1>2, <2>1, <2>3, <3>1, CopiedType
  <2>5. cell' = [cell EXCEPT ![w.ring][w.seg] = c]
    BY <1>1, <2>3 DEF Wrote
  <2>6. cell' \in [1 .. Rings -> [1 .. N -> B]]
    BY <1>2, <2>2, <2>4, <2>5
  <2> QED
    BY <2>1, <2>6
<1> QED
  BY <1>1, <1>3, <1>4, <1>5, <1>6, <1>7 DEF TypeInv, Wrote

\* The header and the data of a segment.
LEMMA SegmentType ==
  ASSUME TypeInv, NEW r \in 1 .. Rings, NEW s \in 1 .. N
  PROVE  header[r][s] \in Header /\ cell[r][s] \in [1 .. SegSize -> Byte]
<1>1. header \in [1 .. Rings -> [1 .. N -> Header]]
  BY DEF TypeInv
<1>2. header[r][s] \in Header
  BY <1>1
<1>3. PICK B : B = [1 .. SegSize -> Byte]
  OBVIOUS
<1>4. cell \in [1 .. Rings -> [1 .. N -> B]]
  BY <1>3 DEF TypeInv
<1>5. cell[r][s] \in B
  BY <1>4
<1> QED
  BY <1>2, <1>3, <1>5

\* The segment after s.
LEMMA AfterIs ==
  ASSUME NEW s \in 1 .. N
  PROVE  After(s) = IF s = N THEN 1 ELSE s + 1
<1>1. CASE s = N
  <2>1. N % N = 0
    BY Sizes
  <2> QED
    BY <1>1, <2>1 DEF After
<1>2. CASE s # N
  <2>1. s \in Nat /\ 0 <= s /\ s < N
    BY <1>2, Sizes
  <2>2. s % N = s
    BY <2>1, Sizes
  <2> QED
    BY <1>2, <2>2 DEF After
<1> QED
  BY <1>1, <1>2

\* append and getNextSegment work on a ring.
LEMMA PlaceOfWriter ==
  ASSUME TypeInv, NEW p \in Procs, ProcInv(p), pc[p] \in {"open", "next"}
  PROVE  writer[p] \in OnRing
<1>1. writer[p].ring # 0
  BY DEF ProcInv
<1>2. writer[p] \in [ring : 0 .. Rings, seg : 1 .. N, used : 0 .. SegSize, end : BOOLEAN]
  BY DEF TypeInv
<1> QED
  BY <1>1, <1>2, Sizes DEF OnRing

\* The place of a writer in the next segment.
NextPlace(w) == [w EXCEPT !.seg = After(w.seg), !.used = 0, !.end = header[w.ring][After(w.seg)].end]

\* The fields of that place.
LEMMA NextPlaceIs ==
  ASSUME TypeInv, NEW w \in OnRing
  PROVE  /\ NextPlace(w) \in OnRing
         /\ NextPlace(w).ring = w.ring /\ NextPlace(w).seg = After(w.seg) /\ NextPlace(w).used = 0
         /\ NextPlace(w).end = header[w.ring][After(w.seg)].end
<1>1. w.ring \in 1 .. Rings /\ w.seg \in 1 .. N
  BY DEF OnRing
<1>2. After(w.seg) \in 1 .. N
  BY <1>1, AfterIs, Sizes
<1>3. header[w.ring][After(w.seg)] \in Header
  BY <1>1, <1>2, SegmentType
<1>4. header[w.ring][After(w.seg)].end \in BOOLEAN
  BY <1>3 DEF Header
<1>5. PICK e \in BOOLEAN : e = header[w.ring][After(w.seg)].end
  BY <1>4
<1>6. PICK a \in 1 .. N : a = After(w.seg)
  BY <1>2
<1>7. NextPlace(w) = [w EXCEPT !.seg = a, !.used = 0, !.end = e]
  BY <1>5, <1>6 DEF NextPlace
<1>8. 0 \in 0 .. SegSize
  BY Sizes
<1> QED
  BY <1>5, <1>6, <1>7, <1>8 DEF OnRing

\* append and getNextSegment are super_append at some place of the ring of the writer.
LEMMA AppendIsFill ==
  ASSUME TypeInv, NEW p \in Procs, ProcInv(p),
         (\E k \in AppendSizes : DPI_Append(p, k)) \/ NextSegment(p)
  PROVE  \E w \in OnRing, k \in Nat :
           /\ Fill(p, w, k) /\ w.ring = writer[p].ring /\ late' \subseteq Procs /\ late \subseteq late'
           /\ \/ pc[p] = "open" /\ w = writer[p] /\ (p \in closed => p \in late')
              \/ /\ pc[p] = "next" /\ w = NextPlace(writer[p])
                 /\ header[w.ring][w.seg].writeable /\ writer[p] \in OnRing
<1>1. CASE \E k \in AppendSizes : DPI_Append(p, k)
  <2>1. PICK k \in AppendSizes : DPI_Append(p, k)
    BY <1>1
  <2>2. k \in Nat /\ pc[p] = "open" /\ Fill(p, writer[p], k)
    BY <2>1, SizesAssumption DEF DPI_Append
  <2>3. writer[p] \in OnRing
    BY <2>2, PlaceOfWriter
  <2>4. /\ late' \subseteq Procs /\ late \subseteq late' /\ (p \in closed => p \in late')
    BY <2>1 DEF DPI_Append, TypeInv
  <2> QED
    BY <2>2, <2>3, <2>4
<1>2. CASE NextSegment(p)
  <2>1. pc[p] = "next" /\ header[writer[p].ring][After(writer[p].seg)].writeable /\ UNCHANGED late
    BY <1>2 DEF NextSegment
  <2>2. Fill(p, NextPlace(writer[p]), left[p])
    BY <1>2 DEF NextSegment, NextPlace
  <2>3. writer[p] \in OnRing
    BY <2>1, PlaceOfWriter
  <2>4. /\ NextPlace(writer[p]) \in OnRing /\ NextPlace(writer[p]).ring = writer[p].ring
        /\ NextPlace(writer[p]).seg = After(writer[p].seg)
    BY <2>3, NextPlaceIs
  <2>5. left[p] \in Nat /\ late' \subseteq Procs /\ late \subseteq late'
    BY <2>1 DEF TypeInv
  <2> QED
    BY <2>1, <2>2, <2>3, <2>4, <2>5
<1> QED
  BY <1>1, <1>2

\* What TypeInv says of a reader.
ReaderRecord == [ring : 1 .. Rings, seg : 1 .. N, header : Header, out : Seq(Byte),
                 null : BOOLEAN, exact : BOOLEAN]

\* The fields of a reader.
LEMMA ReaderType ==
  ASSUME TypeInv, NEW p \in Procs
  PROVE  /\ reader[p] \in ReaderRecord /\ reader[p].ring \in 1 .. Rings /\ reader[p].seg \in 1 .. N
         /\ reader[p].header \in Header /\ reader[p].out \in Seq(Byte)
         /\ reader[p].null \in BOOLEAN /\ reader[p].exact \in BOOLEAN
         /\ reader[p].header.counter \in 0 .. SegSize /\ reader[p].header.end \in BOOLEAN
<1>1. reader[p] \in ReaderRecord
  BY DEF TypeInv, ReaderRecord
<1>2. reader[p].header \in Header
  BY <1>1 DEF ReaderRecord
<1> QED
  BY <1>1, <1>2 DEF ReaderRecord, Header

\* The data of a segment.
LEMMA DataType ==
  ASSUME TypeInv, NEW p \in Procs
  PROVE  /\ SegmentData(reader[p]) \in Seq(Byte)
         /\ Len(SegmentData(reader[p])) = reader[p].header.counter
         /\ \A i \in 1 .. reader[p].header.counter :
              SegmentData(reader[p])[i] = cell[reader[p].ring][reader[p].seg][i]
<1>1. /\ cell[reader[p].ring][reader[p].seg] \in [1 .. SegSize -> Byte]
      /\ reader[p].header.counter \in 0 .. SegSize
  BY ReaderType, SegmentType
<1> QED
  BY <1>1, Sizes, Front DEF SegmentData

\* A read before it begins.
LEMMA NoReaderType ==
  /\ Fresh \in Header /\ NoReader \in ReaderRecord
  /\ \A a \in BOOLEAN, b \in BOOLEAN : [NoReader EXCEPT !.null = a, !.exact = b] \in ReaderRecord
<1>1. Fresh \in Header
  BY Sizes DEF Fresh, Header
<1>2. 1 \in 1 .. Rings /\ 1 \in 1 .. N /\ << >> \in Seq(Byte)
  BY Sizes
<1>3. NoReader \in ReaderRecord
  BY <1>1, <1>2 DEF NoReader, ReaderRecord
<1> QED
  BY <1>1, <1>3 DEF ReaderRecord

\* The data read so far, with that of the segment.
ReadSoFar(r) == IF r.null THEN << >> ELSE r.out \o SegmentData(r)

\* The reader after a segment.
Advanced(r) ==
  IF r.header.end /\ r.ring = Rings THEN [r EXCEPT !.out = ReadSoFar(r)]
  ELSE IF r.header.end THEN [r EXCEPT !.out = ReadSoFar(r), !.ring = r.ring + 1, !.seg = 1]
  ELSE [r EXCEPT !.out = ReadSoFar(r), !.seg = After(r.seg)]

\* The rest of the loop of read.
LEMMA ReadDataIs ==
  ASSUME NEW p \in Procs, ReadData(p)
  PROVE  LET r == reader[p] IN
         /\ pc[p] = "read_data"
         /\ dead' = IF r.null /\ r.header.counter > 0 THEN dead \cup {p} ELSE dead
         /\ IF Len(ReadSoFar(r)) > DataSize
            THEN pc' = [pc EXCEPT ![p] = "overrun"] /\ UNCHANGED reader
            ELSE /\ pc' = [pc EXCEPT ![p] = IF r.header.end /\ r.ring = Rings THEN "returned"
                                           ELSE "read_header"]
                 /\ reader' = [reader EXCEPT ![p] = Advanced(reader[p])]
         /\ UNCHANGED <<memory, writer, left, used, reads, sent, closed, late>>
<1> DEFINE r == reader[p]
           data == IF r.null THEN << >> ELSE r.out \o SegmentData(r)
<1>1. data = ReadSoFar(r)
  BY DEF ReadSoFar
<1>2. /\ pc[p] = "read_data"
      /\ dead' = IF r.null /\ r.header.counter > 0 THEN dead \cup {p} ELSE dead
      /\ UNCHANGED <<memory, writer, left, used, reads, sent, closed, late>>
  BY DEF ReadData
<1>3. ASSUME Len(data) > DataSize PROVE pc' = [pc EXCEPT ![p] = "overrun"] /\ UNCHANGED reader
  BY <1>3 DEF ReadData, GoTo
<1>4. ASSUME ~(Len(data) > DataSize)
      PROVE  pc' = [pc EXCEPT ![p] = IF r.header.end /\ r.ring = Rings THEN "returned"
                                     ELSE "read_header"]
  BY <1>4 DEF ReadData, GoTo
<1>5. ASSUME ~(Len(data) > DataSize)
      PROVE  reader' = [reader EXCEPT ![p] =
               IF r.header.end /\ r.ring = Rings THEN [r EXCEPT !.out = data]
               ELSE IF r.header.end THEN [r EXCEPT !.out = data, !.ring = r.ring + 1, !.seg = 1]
               ELSE [r EXCEPT !.out = data, !.seg = After(r.seg)]]
  BY <1>5 DEF ReadData
<1>6. ASSUME ~(Len(data) > DataSize) PROVE reader' = [reader EXCEPT ![p] = Advanced(r)]
  BY <1>1, <1>5, <1>6 DEF Advanced
<1> QED
  BY <1>1, <1>2, <1>3, <1>4, <1>6

\* The reader after a segment is a reader.
LEMMA AdvancedType ==
  ASSUME TypeInv, NEW p \in Procs
  PROVE  ReadSoFar(reader[p]) \in Seq(Byte) /\ Advanced(reader[p]) \in ReaderRecord
<1>1. PICK r \in ReaderRecord : r = reader[p]
  BY ReaderType
<1>2. PICK data \in Seq(Byte) : data = ReadSoFar(r)
  <2>1. r.out \o SegmentData(r) \in Seq(Byte)
    BY <1>1, ReaderType, DataType, ConcatProperties
  <2>2. ReadSoFar(r) \in Seq(Byte)
    BY <2>1 DEF ReadSoFar
  <2> QED
    BY <2>2
<1>3. r.ring \in 1 .. Rings /\ r.seg \in 1 .. N
  BY DEF ReaderRecord
<1>4. After(r.seg) \in 1 .. N /\ 1 \in 1 .. N
  BY <1>3, AfterIs, Sizes
<1>5. r.ring # Rings => r.ring + 1 \in 1 .. Rings
  BY <1>3, Sizes
<1>6. [r EXCEPT !.out = data] \in ReaderRecord
  BY DEF ReaderRecord
<1>7. r.ring # Rings => [r EXCEPT !.out = data, !.ring = r.ring + 1, !.seg = 1] \in ReaderRecord
  BY <1>4, <1>5 DEF ReaderRecord
<1>8. [r EXCEPT !.out = data, !.seg = After(r.seg)] \in ReaderRecord
  BY <1>4 DEF ReaderRecord
<1>9. Advanced(r) \in ReaderRecord
  BY <1>2, <1>6, <1>7, <1>8 DEF Advanced
<1> QED
  BY <1>1, <1>2, <1>9

\* The steps of read keep the type of the reader.
LEMMA ReadType ==
  ASSUME TypeInv, NEW p \in Procs, DPI_Get_buffer(p) \/ ReadStep(p) \/ Use(p)
  PROVE  reader' \in [Procs -> ReaderRecord] /\ used' \in [Procs -> Nat] /\ dead' \subseteq Procs
<1>1. /\ reader \in [Procs -> ReaderRecord] /\ used \in [Procs -> Nat] /\ dead \subseteq Procs
      /\ reader[p] \in ReaderRecord
  BY DEF TypeInv, ReaderRecord
<1>2. CASE DPI_Get_buffer(p)
  <2> DEFINE null == used[p] + DataSize > Memory
             taken == used[p] + (IF null THEN 0 ELSE DataSize) + HeaderSize
  <2>1. null \in BOOLEAN /\ taken \in Nat /\ AllClosed \in BOOLEAN
    BY <1>1, Sizes, DataSizeFacts DEF AllClosed, Covered, Apart
  <2>2. [NoReader EXCEPT !.null = null, !.exact = AllClosed] \in ReaderRecord
    BY <2>1, NoReaderType
  <2>3. /\ \/ UNCHANGED <<used, reader>>
           \/ /\ used' = [used EXCEPT ![p] = taken]
              /\ reader' = [reader EXCEPT ![p] = [NoReader EXCEPT !.null = null, !.exact = AllClosed]]
        /\ UNCHANGED dead
    BY <1>2 DEF DPI_Get_buffer
  <2> HIDE DEF null, taken
  <2> QED
    BY <1>1, <2>1, <2>2, <2>3
<1>3. CASE ReadHeader(p)
  <2>1. header[reader[p].ring][reader[p].seg] \in Header
    BY ReaderType, SegmentType
  <2>2. PICK h \in Header : h = header[reader[p].ring][reader[p].seg]
    BY <2>1
  <2>3. /\ reader' = reader \/ reader' = [reader EXCEPT ![p].header = h]
        /\ UNCHANGED <<used, dead>>
    BY <1>3, <2>2 DEF ReadHeader
  <2>4. [reader[p] EXCEPT !.header = h] \in ReaderRecord
    BY <1>1 DEF ReaderRecord
  <2>5. PICK x \in ReaderRecord : x = [reader[p] EXCEPT !.header = h]
    BY <2>4
  <2>6. reader' = reader \/ reader' = [reader EXCEPT ![p] = x]
    BY <2>3, <2>5
  <2> QED
    BY <1>1, <2>3, <2>6
<1>4. CASE ReadData(p)
  <2>1. /\ UNCHANGED used /\ dead' \subseteq dead \cup {p}
        /\ UNCHANGED reader \/ reader' = [reader EXCEPT ![p] = Advanced(reader[p])]
    BY <1>4, ReadDataIs
  <2> QED
    BY <1>1, <2>1, AdvancedType
<1>5. CASE Use(p)
  BY <1>1, <1>5, NoReaderType DEF Use
<1> QED
  BY <1>2, <1>3, <1>4, <1>5 DEF ReadStep

\* The steps of the writer that append nothing keep the types.
LEMMA CloseType ==
  ASSUME TypeInv, NEW p \in Procs, ProcInv(p), DPI_Close_buffer(p)
  PROVE  TypeInv'
<1>1. pc[p] = "open" /\ writer[p] \in OnRing
  BY PlaceOfWriter DEF DPI_Close_buffer
<1>2. PICK w \in OnRing : w = writer[p]
  BY <1>1
<1>3. w.ring \in 1 .. Rings /\ w.seg \in 1 .. N /\ w.used \in 0 .. SegSize
  BY DEF OnRing
<1>4. ClosingHeader(w) \in Header
  BY <1>3 DEF ClosingHeader, Header
<1>5. header' \in [1 .. Rings -> [1 .. N -> Header]]
  <2>1. header' = [header EXCEPT ![w.ring][w.seg] = ClosingHeader(w)]
    BY <1>2 DEF DPI_Close_buffer
  <2>2. header \in [1 .. Rings -> [1 .. N -> Header]]
    BY DEF TypeInv
  <2> QED
    BY <1>3, <1>4, <2>1, <2>2
<1>6. writer' \in [Procs -> [ring : 0 .. Rings, seg : 1 .. N, used : 0 .. SegSize, end : BOOLEAN]]
  <2>1. writer' = [writer EXCEPT ![p].end = TRUE]
    BY DEF DPI_Close_buffer
  <2>2. writer \in [Procs -> [ring : 0 .. Rings, seg : 1 .. N, used : 0 .. SegSize, end : BOOLEAN]]
    BY DEF TypeInv
  <2> QED
    BY <2>1, <2>2
<1> QED
  BY <1>5, <1>6 DEF DPI_Close_buffer, TypeInv

\* DPI_Init, DPI_Create_buffer, and the writer joins.
LEMMA OpenType ==
  ASSUME TypeInv, NEW p \in Procs,
         DPI_Init(p) \/ UnknownBuffer(p) \/ DPI_Create_buffer(p) \/ Join(p)
  PROVE  TypeInv'
<1>1. pc' \in [Procs -> {"new", "ready", "join", "open", "next", "read_header", "read_data",
                         "returned", "overrun", "crashed"}]
  <2>1. \E x \in {"ready", "join", "open", "crashed"} : pc' = [pc EXCEPT ![p] = x]
    BY DEF DPI_Init, UnknownBuffer, DPI_Create_buffer, Join, GoTo
  <2> QED
    BY <2>1 DEF TypeInv
<1>2. joined' \in 0 .. Rings
  <2>1. joined' = joined \/ joined' = 0 \/ (joined # Rings /\ joined' = joined + 1)
    BY DEF DPI_Init, UnknownBuffer, DPI_Create_buffer, Join, memory
  <2>2. joined \in 0 .. Rings
    BY DEF TypeInv
  <2> QED
    BY <2>1, <2>2, Sizes
<1>3. writer' \in [Procs -> [ring : 0 .. Rings, seg : 1 .. N, used : 0 .. SegSize, end : BOOLEAN]]
  <2>1. PICK W : W = [ring : 0 .. Rings, seg : 1 .. N, used : 0 .. SegSize, end : BOOLEAN]
    OBVIOUS
  <2>2. writer \in [Procs -> W]
    BY <2>1 DEF TypeInv
  <2>3. CASE UNCHANGED writer
    BY <2>1, <2>2, <2>3
  <2>4. CASE ~UNCHANGED writer
    <3>1. /\ joined' = joined + 1 /\ joined # Rings
          /\ writer' = [writer EXCEPT ![p] = [NoWriter EXCEPT !.ring = joined',
                                                !.end = header[joined'][1].end]]
      BY <2>4 DEF DPI_Init, UnknownBuffer, DPI_Create_buffer, Join
    <3>2. joined' \in 1 .. Rings /\ 1 \in 1 .. N
      BY <3>1, Sizes DEF TypeInv
    <3>3. header[joined'][1] \in Header
      BY <3>2, SegmentType
    <3>4. PICK e \in BOOLEAN : e = header[joined'][1].end
      BY <3>3 DEF Header
    <3>5. PICK r \in 0 .. Rings : r = joined'
      BY <1>2
    <3>6. [NoWriter EXCEPT !.ring = r, !.end = e] \in W
      <4>1. 1 \in 1 .. N /\ 0 \in 0 .. SegSize
        BY Sizes
      <4>2. NoWriter \in W
        BY <2>1, <4>1, Sizes DEF NoWriter
      <4> QED
        BY <2>1, <4>2
    <3>7. writer' = [writer EXCEPT ![p] = [NoWriter EXCEPT !.ring = r, !.end = e]]
      BY <3>1, <3>4, <3>5
    <3>8. writer' \in [Procs -> W]
      BY <2>2, <3>6, <3>7
    <3> QED
      BY <2>1, <3>8
  <2> QED
    BY <2>3, <2>4
<1>4. UNCHANGED <<header, cell, left, reader, used, dead, sent, closed, late>>
  BY DEF DPI_Init, UnknownBuffer, DPI_Create_buffer, Join, memory
<1> QED
  BY <1>1, <1>2, <1>3, <1>4 DEF TypeInv

\* Every step keeps the types.
LEMMA TypeStep ==
  ASSUME TypeInv, \A p \in Procs : ProcInv(p), [Next]_vars
  PROVE  TypeInv'
<1>1. CASE UNCHANGED vars
  BY <1>1 DEF vars, memory, TypeInv
<1>2. ASSUME NEW p \in Procs, DPI_Init(p) \/ UnknownBuffer(p) \/ DPI_Create_buffer(p) \/ Join(p)
      PROVE  TypeInv'
  BY <1>2, OpenType
<1>3. ASSUME NEW p \in Procs, (\E k \in AppendSizes : DPI_Append(p, k)) \/ NextSegment(p)
      PROVE  TypeInv'
  <2>1. PICK w \in OnRing, k \in Nat : Fill(p, w, k) /\ late' \subseteq Procs
    BY <1>3, AppendIsFill
  <2> QED
    BY <2>1, FillType
<1>4. ASSUME NEW p \in Procs, DPI_Close_buffer(p) PROVE TypeInv'
  BY <1>4, CloseType
<1>5. ASSUME NEW p \in Procs, DPI_Get_buffer(p) \/ ReadStep(p) \/ Use(p) PROVE TypeInv'
  <2>1. reader' \in [Procs -> ReaderRecord] /\ used' \in [Procs -> Nat] /\ dead' \subseteq Procs
    BY <1>5, ReadType
  <2>2. pc' \in [Procs -> {"new", "ready", "join", "open", "next", "read_header", "read_data",
                           "returned", "overrun", "crashed"}]
    <3>1. \E where \in {"crashed", "read_header", "read_data", "overrun", "returned", "open"} :
             pc' = [pc EXCEPT ![p] = where]
      BY <1>5 DEF DPI_Get_buffer, ReadStep, ReadHeader, ReadData, Use, GoTo
    <3> QED
      BY <3>1 DEF TypeInv
  <2>3. UNCHANGED <<memory, writer, left, sent, closed, late>>
    BY <1>5 DEF DPI_Get_buffer, ReadStep, ReadHeader, ReadData, Use
  <2> QED
    BY <2>1, <2>2, <2>3 DEF TypeInv, ReaderRecord, memory
<1> QED
  BY <1>1, <1>2, <1>3, <1>4, <1>5 DEF Next, DPI_Finalize

-----------------------------------------------------------------------------
(***************************************************************************)
(* Processes.                                                              *)
(***************************************************************************)

\* What a step of p leaves alone: the other processes.
Others(p) ==
  /\ \A q \in Procs \ {p} :
       /\ pc'[q] = pc[q] /\ writer'[q] = writer[q] /\ reader'[q] = reader[q]
       /\ used'[q] = used[q] /\ sent'[q] = sent[q]
  /\ closed \subseteq closed' /\ closed' \subseteq closed \cup {p}
  /\ dead \subseteq dead' /\ dead' \subseteq dead \cup {p}
  /\ late \subseteq late'

\* append and getNextSegment.
LEMMA FillOthers ==
  ASSUME TypeInv, NEW p \in Procs, ProcInv(p),
         (\E k \in AppendSizes : DPI_Append(p, k)) \/ NextSegment(p)
  PROVE  /\ Others(p) /\ writer'[p].ring = writer[p].ring /\ writer[p].ring # 0
         /\ pc'[p] \in {"open", "next"} /\ UNCHANGED <<reader, used, dead, closed>>
<1>1. PICK w \in OnRing, k \in Nat :
        Fill(p, w, k) /\ w.ring = writer[p].ring /\ late \subseteq late'
  BY AppendIsFill
<1>2. PICK n \in Nat : Wrote(p, w, k, n)
  BY <1>1, FillFacts
<1>3. w.ring \in 1 .. Rings
  BY DEF OnRing
<1>4. writer'[p].ring = w.ring
  <2>1. writer'[p] = [w EXCEPT !.used = w.used + n]
    BY <1>2 DEF TypeInv, Wrote
  <2> QED
    BY <2>1 DEF OnRing
<1>5. pc'[p] \in {"open", "next"}
  BY <1>2 DEF TypeInv, Wrote
<1>6. \A q \in Procs \ {p} : pc'[q] = pc[q] /\ writer'[q] = writer[q] /\ sent'[q] = sent[q]
  BY <1>2 DEF TypeInv, Wrote
<1> QED
  BY <1>1, <1>2, <1>3, <1>4, <1>5, <1>6 DEF Others, Wrote

\* The other calls.
LEMMA CallOthers ==
  ASSUME TypeInv, NEW p \in Procs,
         \/ DPI_Init(p) \/ UnknownBuffer(p) \/ DPI_Create_buffer(p) \/ Join(p)
         \/ DPI_Close_buffer(p) \/ DPI_Get_buffer(p) \/ ReadStep(p) \/ Use(p)
  PROVE  Others(p)
<1>1. CASE DPI_Init(p) \/ UnknownBuffer(p) \/ DPI_Create_buffer(p) \/ Join(p)
  <2>1. /\ \E where : pc' = [pc EXCEPT ![p] = where]
        /\ UNCHANGED writer \/ \E w : writer' = [writer EXCEPT ![p] = w]
        /\ UNCHANGED <<left, reader, used, dead, reads, sent, closed, late>>
    BY <1>1 DEF DPI_Init, UnknownBuffer, DPI_Create_buffer, Join, GoTo
  <2>2. \A q \in Procs \ {p} : pc'[q] = pc[q] /\ writer'[q] = writer[q]
    BY <2>1 DEF TypeInv
  <2> QED
    BY <2>1, <2>2 DEF Others
<1>2. CASE DPI_Close_buffer(p)
  BY <1>2 DEF DPI_Close_buffer, Others, TypeInv
<1>3. CASE DPI_Get_buffer(p)
  BY <1>3 DEF DPI_Get_buffer, GoTo, Others, TypeInv
<1>4. CASE ReadHeader(p)
  BY <1>4 DEF ReadHeader, GoTo, Others, TypeInv
<1>5. CASE ReadData(p)
  <2>1. /\ \/ pc' = [pc EXCEPT ![p] = "overrun"] \/ pc' = [pc EXCEPT ![p] = "returned"]
           \/ pc' = [pc EXCEPT ![p] = "read_header"]
        /\ \/ UNCHANGED reader \/ reader' = [reader EXCEPT ![p] = Advanced(reader[p])]
        /\ dead' = dead \/ dead' = dead \cup {p}
        /\ UNCHANGED <<memory, writer, left, used, reads, sent, closed, late>>
    BY <1>5, ReadDataIs
  <2> QED
    BY <2>1 DEF Others, TypeInv
<1>6. CASE Use(p)
  BY <1>6 DEF Use, GoTo, Others, TypeInv
<1> QED
  BY <1>1, <1>2, <1>3, <1>4, <1>5, <1>6 DEF ReadStep

\* A process keeps its ring.
LEMMA RingKept ==
  ASSUME TypeInv, \A p \in Procs : ProcInv(p), NEW p \in Procs,
         \/ DPI_Init(p) \/ UnknownBuffer(p) \/ DPI_Create_buffer(p) \/ Join(p)
         \/ DPI_Close_buffer(p) \/ DPI_Get_buffer(p) \/ ReadStep(p) \/ Use(p)
         \/ (\E k \in AppendSizes : DPI_Append(p, k)) \/ NextSegment(p)
  PROVE  Others(p) /\ \A q \in Procs : writer[q].ring # 0 => writer'[q].ring = writer[q].ring
<1>1. Others(p)
  BY FillOthers, CallOthers
<1>2. writer[p].ring # 0 => writer'[p].ring = writer[p].ring
  <2>1. CASE Join(p)
    BY <2>1 DEF Join, ProcInv
  <2>2. CASE DPI_Close_buffer(p)
    BY <2>2 DEF DPI_Close_buffer, TypeInv
  <2>3. CASE DPI_Init(p) \/ UnknownBuffer(p) \/ DPI_Create_buffer(p) \/ DPI_Get_buffer(p)
             \/ ReadStep(p) \/ Use(p)
    BY <2>3 DEF DPI_Init, UnknownBuffer, DPI_Create_buffer, DPI_Get_buffer, ReadStep, ReadHeader,
       ReadData, Use
  <2>4. CASE (\E k \in AppendSizes : DPI_Append(p, k)) \/ NextSegment(p)
    BY <2>4, FillOthers
  <2> QED
    BY <2>1, <2>2, <2>3, <2>4
<1> QED
  BY <1>1, <1>2 DEF Others

\* So a ring that was closed stays so, and two processes that share one share it for ever.
LEMMA GuardsKept ==
  ASSUME TypeInv, \A q \in Procs : ProcInv(q), NEW p \in Procs, Others(p),
         \A q \in Procs : writer[q].ring # 0 => writer'[q].ring = writer[q].ring
  PROVE  /\ Covered => Covered'
         /\ Apart' => Apart
         /\ late' = {} => late = {}
<1>1. \A q \in closed : q \in Procs /\ q \in closed' /\ writer[q].ring # 0
  BY DEF Others, TypeInv, ProcInv
<1>2. Covered => Covered'
  <2>1. ASSUME NEW r \in 1 .. Rings, NEW q \in closed, writer[q].ring = r
        PROVE  q \in closed' /\ writer'[q].ring = r
    BY <1>1, <2>1
  <2> QED
    BY <2>1 DEF Covered
<1>3. Apart' => Apart
  BY DEF Apart
<1> QED
  BY <1>2, <1>3 DEF Others

\* The other processes stay where they are.
LEMMA ProcOthers ==
  ASSUME \A q \in Procs : ProcInv(q), NEW p \in Procs, Others(p), Covered => Covered'
  PROVE  \A q \in Procs \ {p} : ProcInv(q)'
<1> SUFFICES ASSUME NEW q \in Procs \ {p} PROVE ProcInv(q)'
  OBVIOUS
<1>1. /\ pc'[q] = pc[q] /\ writer'[q] = writer[q] /\ reader'[q] = reader[q] /\ used'[q] = used[q]
      /\ sent'[q] = sent[q] /\ (q \in closed' <=> q \in closed) /\ (q \in dead' <=> q \in dead)
  BY DEF Others
<1>2. Reading(q)' <=> Reading(q)
  BY <1>1 DEF Reading
<1>3. ProcInv(q)
  OBVIOUS
<1> QED
  BY <1>1, <1>2, <1>3 DEF ProcInv

\* The process that makes the step: calls before the buffer is open.
LEMMA OpenProc ==
  ASSUME TypeInv, NEW p \in Procs, ProcInv(p), Covered => Covered',
         DPI_Init(p) \/ UnknownBuffer(p) \/ DPI_Create_buffer(p) \/ Join(p)
  PROVE  ProcInv(p)'
<1>1. UNCHANGED <<reader, used, dead, closed, sent>>
  BY DEF DPI_Init, UnknownBuffer, DPI_Create_buffer, Join
<1>2. ~Reading(p)' /\ p \notin closed /\ sent[p] = 0
  <2>1. pc'[p] \in {"ready", "crashed", "join", "open"}
    BY DEF DPI_Init, UnknownBuffer, DPI_Create_buffer, Join, GoTo, TypeInv
  <2>2. pc[p] \in {"new", "ready", "join"}
    BY DEF DPI_Init, UnknownBuffer, DPI_Create_buffer, Join
  <2> QED
    BY <2>1, <2>2 DEF Reading, ProcInv
<1>3. /\ pc'[p] \in {"new", "ready", "join"} => writer'[p].ring = 0
      /\ pc'[p] \notin {"new", "ready", "join", "crashed"} => writer'[p].ring # 0
  <2>1. CASE DPI_Init(p) \/ UnknownBuffer(p) \/ DPI_Create_buffer(p)
    BY <2>1 DEF DPI_Init, UnknownBuffer, DPI_Create_buffer, GoTo, TypeInv, ProcInv
  <2>2. CASE Join(p) /\ joined = Rings
    BY <2>2 DEF Join, GoTo, TypeInv
  <2>3. CASE Join(p) /\ joined # Rings
    <3>1. /\ pc' = [pc EXCEPT ![p] = "open"] /\ joined' = joined + 1
          /\ writer' = [writer EXCEPT ![p] = [NoWriter EXCEPT !.ring = joined',
                                                !.end = header[joined'][1].end]]
      BY <2>3 DEF Join, GoTo
    <3>2. writer'[p].ring = joined'
      BY <3>1 DEF TypeInv, NoWriter
    <3>3. joined' # 0
      BY <3>1 DEF TypeInv
    <3> QED
      BY <3>1, <3>2, <3>3 DEF TypeInv
  <2> QED
    BY <2>1, <2>2, <2>3
<1> QED
  BY <1>1, <1>2, <1>3 DEF ProcInv

\* DPI_Get_buffer allocates.
LEMMA GetProc ==
  ASSUME TypeInv, NEW p \in Procs, ProcInv(p), Covered => Covered', DPI_Get_buffer(p)
  PROVE  ProcInv(p)'
<1> DEFINE null == used[p] + DataSize > Memory
           taken == used[p] + (IF null THEN 0 ELSE DataSize) + HeaderSize
<1>1. used[p] \in Nat /\ DataSize \in Nat /\ HeaderSize \in Nat /\ Memory \in Nat
  BY Sizes, DataSizeFacts DEF TypeInv
<1>2. taken \in Nat /\ (null => taken + DataSize > Memory) /\ taken >= used[p]
  BY <1>1
<1>3. /\ pc[p] = "open" /\ UNCHANGED <<writer, dead, closed>>
      /\ \/ pc' = [pc EXCEPT ![p] = "crashed"] /\ UNCHANGED <<used, reader>>
         \/ /\ pc' = [pc EXCEPT ![p] = "read_header"] /\ used' = [used EXCEPT ![p] = taken]
            /\ reader' = [reader EXCEPT ![p] = [NoReader EXCEPT !.null = null, !.exact = AllClosed]]
  BY DEF DPI_Get_buffer, GoTo
<1> HIDE DEF taken
<1>4. CASE pc' = [pc EXCEPT ![p] = "crashed"] /\ UNCHANGED <<used, reader>>
  <2>1. pc'[p] = "crashed"
    BY <1>4 DEF TypeInv
  <2> QED
    BY <1>3, <1>4, <2>1 DEF ProcInv, Reading
<1>5. CASE /\ pc' = [pc EXCEPT ![p] = "read_header"] /\ used' = [used EXCEPT ![p] = taken]
           /\ reader' = [reader EXCEPT ![p] = [NoReader EXCEPT !.null = null, !.exact = AllClosed]]
  <2>1. pc'[p] = "read_header" /\ used'[p] = taken
    BY <1>5 DEF TypeInv
  <2>2. reader'[p] = [NoReader EXCEPT !.null = null, !.exact = AllClosed]
    BY <1>5 DEF TypeInv
  <2>3. (reader'[p].null <=> null) /\ (reader'[p].exact <=> AllClosed)
    BY <2>2 DEF NoReader
  <2>4. p \in dead => null
    BY DEF ProcInv
  <2>5. p \in dead' \/ reader'[p].null => used'[p] + DataSize > Memory
    BY <1>2, <1>3, <2>1, <2>3, <2>4
  <2>6. reader'[p].exact => Covered'
    BY <2>3 DEF AllClosed
  <2>7. ~reader'[p].null => p \notin dead'
    BY <1>3, <2>3, <2>4
  <2>8. writer'[p].ring # 0
    BY <1>3 DEF ProcInv
  <2>9. UNCHANGED DataSize
    BY DEF DataSize
  <2> QED
    BY <2>1, <2>5, <2>6, <2>7, <2>8 DEF ProcInv
<1> QED
  BY <1>3, <1>4, <1>5

\* The steps of read.
LEMMA ReadProc ==
  ASSUME TypeInv, NEW p \in Procs, ProcInv(p), Covered => Covered', ReadStep(p) \/ Use(p)
  PROVE  ProcInv(p)'
<1>1. CASE ReadHeader(p)
  <2>1. /\ pc[p] = "read_header" /\ pc'[p] = "read_data" /\ UNCHANGED <<writer, used, dead, closed>>
    BY <1>1 DEF ReadHeader, GoTo, TypeInv
  <2>2. reader'[p].null = reader[p].null /\ reader'[p].exact = reader[p].exact
    <3>1. reader' = reader \/ \E h : reader' = [reader EXCEPT ![p].header = h]
      BY <1>1 DEF ReadHeader
    <3> QED
      BY <3>1 DEF TypeInv
  <2> QED
    BY <2>1, <2>2 DEF ProcInv, Reading
<1>2. CASE ReadData(p)
  <2>1. /\ pc[p] = "read_data" /\ pc'[p] \in {"overrun", "returned", "read_header"}
        /\ UNCHANGED <<writer, used, closed>>
        /\ (p \in dead' => p \in dead \/ reader[p].null)
    <3>1. \E where \in {"overrun", "returned", "read_header"} : pc' = [pc EXCEPT ![p] = where]
      BY <1>2, ReadDataIs
    <3>2. pc[p] = "read_data" /\ UNCHANGED <<writer, used, closed>>
      BY <1>2, ReadDataIs
    <3>3. p \in dead' => p \in dead \/ reader[p].null
      BY <1>2, ReadDataIs
    <3> QED
      BY <3>1, <3>2, <3>3 DEF TypeInv
  <2>2. reader'[p].null = reader[p].null /\ reader'[p].exact = reader[p].exact
    <3>1. UNCHANGED reader \/ reader' = [reader EXCEPT ![p] = Advanced(reader[p])]
      BY <1>2, ReadDataIs
    <3>2. reader'[p] = reader[p] \/ reader'[p] = Advanced(reader[p])
      BY <3>1 DEF TypeInv
    <3>3. \A r \in ReaderRecord : Advanced(r).null = r.null /\ Advanced(r).exact = r.exact
      BY DEF Advanced, ReaderRecord
    <3> QED
      BY <3>2, <3>3, ReaderType
  <2> QED
    BY <2>1, <2>2 DEF ProcInv, Reading
<1>3. CASE Use(p)
  <2>1. /\ pc[p] = "returned" /\ pc'[p] = "open" /\ UNCHANGED <<writer, used, dead, closed>>
        /\ reader'[p] = NoReader
    BY <1>3 DEF Use, GoTo, TypeInv
  <2>2. ~NoReader.null /\ ~NoReader.exact
    BY DEF NoReader
  <2> QED
    BY <2>1, <2>2 DEF ProcInv, Reading
<1> QED
  BY <1>1, <1>2, <1>3 DEF ReadStep

\* Every step keeps what is known of the processes.
LEMMA ProcStep ==
  ASSUME TypeInv, \A q \in Procs : ProcInv(q), NEW p \in Procs,
         \/ DPI_Init(p) \/ UnknownBuffer(p) \/ DPI_Create_buffer(p) \/ Join(p)
         \/ DPI_Close_buffer(p) \/ DPI_Get_buffer(p) \/ ReadStep(p) \/ Use(p)
         \/ (\E k \in AppendSizes : DPI_Append(p, k)) \/ NextSegment(p)
  PROVE  \A q \in Procs : ProcInv(q)'
<1>1. /\ Others(p) /\ ProcInv(p)
      /\ \A q \in Procs : writer[q].ring # 0 => writer'[q].ring = writer[q].ring
  BY RingKept
<1>2. Covered => Covered'
  BY <1>1, GuardsKept
<1>3. \A q \in Procs \ {p} : ProcInv(q)'
  BY <1>1, <1>2, ProcOthers
<1>4. ProcInv(p)'
  <2>1. CASE DPI_Init(p) \/ UnknownBuffer(p) \/ DPI_Create_buffer(p) \/ Join(p)
    BY <1>1, <1>2, <2>1, OpenProc
  <2>2. CASE DPI_Get_buffer(p)
    BY <1>1, <1>2, <2>2, GetProc
  <2>3. CASE ReadStep(p) \/ Use(p)
    BY <1>1, <1>2, <2>3, ReadProc
  <2>4. CASE DPI_Close_buffer(p)
    <3>1. pc[p] = "open" /\ UNCHANGED <<pc, reader, used, dead>>
      BY <2>4 DEF DPI_Close_buffer
    <3>2. writer[p].ring # 0
      BY <1>1, <3>1 DEF ProcInv
    <3>3. writer'[p].ring # 0
      BY <1>1, <3>2
    <3> QED
      BY <1>1, <1>2, <3>1, <3>3 DEF ProcInv, Reading
  <2>5. CASE (\E k \in AppendSizes : DPI_Append(p, k)) \/ NextSegment(p)
    <3>1. /\ writer'[p].ring = writer[p].ring /\ writer[p].ring # 0
          /\ pc'[p] \in {"open", "next"} /\ UNCHANGED <<reader, used, dead, closed>>
      BY <1>1, <2>5, FillOthers
    <3> QED
      BY <1>1, <1>2, <3>1 DEF ProcInv, Reading
  <2> QED
    BY <2>1, <2>2, <2>3, <2>4, <2>5
<1> QED
  BY <1>3, <1>4

-----------------------------------------------------------------------------
(***************************************************************************)
(* Rings that one process writes.                                          *)
(***************************************************************************)

\* A step that leaves a ring and its writer alone.
LEMMA WriterFrame ==
  ASSUME NEW q \in Procs, WriterInv(q), writer'[q] = writer[q], sent'[q] = sent[q],
         q \in closed' <=> q \in closed, pc'[q] = "next" <=> pc[q] = "next",
         header'[writer[q].ring] = header[writer[q].ring],
         cell'[writer[q].ring] = cell[writer[q].ring]
  PROVE  WriterInv(q)'
  BY DEF WriterInv

\* A step that leaves the rings and the writers alone.
LEMMA RingsFrame ==
  ASSUME NEW p \in Procs, RingsInv, UNCHANGED <<header, cell, writer, sent, closed>>, Others(p),
         pc[p] # "next", pc'[p] # "next"
  PROVE  RingsInv'
<1>1. ASSUME NEW q \in Procs, writer[q].ring # 0 PROVE WriterInv(q)'
  <2>1. pc'[q] = "next" <=> pc[q] = "next"
    BY DEF Others
  <2>2. WriterInv(q)
    BY <1>1 DEF RingsInv
  <2> QED
    BY <2>1, <2>2, WriterFrame
<1> QED
  BY <1>1 DEF RingsInv

\* A step of p writes only to the ring of p.
LEMMA RingsOthers ==
  ASSUME NEW p \in Procs, TypeInv, RingsInv, Others(p), Apart',
         writer'[p].ring # 0, writer[p].ring \in {0, writer'[p].ring},
         \A r \in 1 .. Rings : r # writer'[p].ring => header'[r] = header[r] /\ cell'[r] = cell[r],
         WriterInv(p)'
  PROVE  RingsInv'
<1>1. ASSUME NEW q \in Procs \ {p}, writer[q].ring # 0 PROVE WriterInv(q)'
  <2>1. writer'[q] = writer[q] /\ sent'[q] = sent[q] /\ pc'[q] = pc[q] /\ (q \in closed' <=> q \in closed)
    BY DEF Others
  <2>2. writer[q].ring \in 1 .. Rings
    <3>1. writer[q].ring \in 0 .. Rings
      BY DEF TypeInv
    <3> QED
      BY <1>1, <3>1, Sizes
  <2>3. writer[q].ring # writer'[p].ring
    BY <2>1 DEF Apart
  <2>4. WriterInv(q)
    BY <1>1 DEF RingsInv
  <2> QED
    BY <2>1, <2>2, <2>3, <2>4, WriterFrame
<1>2. ASSUME NEW q \in Procs, writer'[q].ring # 0 PROVE WriterInv(q)'
  BY <1>1, <1>2 DEF Others
<1>3. ASSUME NEW r \in 1 .. Rings, \A q \in Procs : writer'[q].ring # r, NEW s \in 1 .. N
      PROVE  header'[r][s] = Fresh
  <2>1. r # writer'[p].ring /\ header'[r] = header[r]
    BY <1>3
  <2>2. r # 0
    BY Sizes
  <2>3. \A q \in Procs : writer[q].ring # r
    BY <1>3, <2>1, <2>2 DEF Others
  <2> QED
    BY <2>1, <2>3 DEF RingsInv
<1> QED
  BY <1>2, <1>3 DEF RingsInv

\* Join: the ring is fresh.
LEMMA JoinRings ==
  ASSUME NEW p \in Procs, TypeInv, RingsInv, ProcInv(p), Others(p), Apart', Join(p)
  PROVE  RingsInv'
<1>1. /\ pc[p] = "join" /\ writer[p].ring = 0 /\ p \notin closed /\ sent[p] = 0
      /\ UNCHANGED <<header, cell, sent, closed>>
  BY DEF Join, ProcInv
<1>2. CASE joined = Rings
  <2>1. UNCHANGED writer /\ pc'[p] = "crashed"
    BY <1>2 DEF Join, GoTo, TypeInv
  <2> QED
    BY <1>1, <2>1, RingsFrame
<1>3. CASE joined # Rings
  <2>1. /\ pc' = [pc EXCEPT ![p] = "open"] /\ joined' = joined + 1
        /\ writer' = [writer EXCEPT ![p] = [NoWriter EXCEPT !.ring = joined',
                                              !.end = header[joined'][1].end]]
    BY <1>3 DEF Join, GoTo
  <2>2. PICK r \in 1 .. Rings : r = joined'
    BY <1>3, <2>1, Sizes DEF TypeInv
  <2>3. PICK w : w = writer'[p]
    OBVIOUS
  <2>4. w.ring = r /\ w.seg = 1 /\ w.used = 0 /\ w.end = header[r][1].end
    BY <2>1, <2>2, <2>3 DEF TypeInv, NoWriter
  <2>5. r # 0 /\ \A q \in Procs : writer[q].ring # r
    <3>1. r # 0
      BY Sizes
    <3>2. \A q \in Procs \ {p} : writer'[q] = writer[q] /\ writer'[p].ring # writer'[q].ring
      BY <2>3, <2>4, <3>1 DEF Apart, Others
    <3> QED
      BY <1>1, <2>3, <2>4, <3>1, <3>2
  <2>6. \A s \in 1 .. N : header[r][s] = Fresh
    BY <2>5 DEF RingsInv
  <2>7. 1 \in 1 .. N /\ 1 - 1 = 0 /\ Bytes(0) = 0
    BY Sizes, BytesFacts
  <2>8. header[r][1] = Fresh /\ w.end = FALSE
    BY <2>4, <2>6, <2>7 DEF Fresh
  <2>9. WriterInv(p)'
    <3>1. pc'[p] = "open"
      BY <2>1 DEF TypeInv
    <3>2. sent'[p] = Bytes(w.seg - 1) + w.used
      BY <1>1, <2>4, <2>7
    <3>3. \A s \in 1 .. N : ~(s < w.seg)
      BY <2>4, Sizes
    <3>4. \A s \in 1 .. N, i \in 1 .. SegSize : ~(s < w.seg \/ (s = w.seg /\ i <= w.used))
      BY <2>4, Sizes
    <3> QED
      BY <1>1, <2>3, <2>4, <2>6, <2>8, <3>1, <3>2, <3>3, <3>4 DEF WriterInv
  <2> QED
    BY <1>1, <2>3, <2>4, <2>5, <2>9, RingsOthers
<1> QED
  BY <1>2, <1>3

\* close writes the header of the current segment.
LEMMA CloseRings ==
  ASSUME NEW p \in Procs, TypeInv, RingsInv, ProcInv(p), Others(p), Apart', DPI_Close_buffer(p)
  PROVE  RingsInv'
<1>1. PICK w \in OnRing : w = writer[p]
  BY PlaceOfWriter DEF DPI_Close_buffer
<1>2. /\ pc[p] = "open" /\ header' = [header EXCEPT ![w.ring][w.seg] = ClosingHeader(w)]
      /\ writer' = [writer EXCEPT ![p].end = TRUE] /\ closed' = closed \cup {p}
      /\ UNCHANGED <<pc, cell, sent>>
  BY <1>1 DEF DPI_Close_buffer
<1>3. w.ring \in 1 .. Rings /\ w.ring # 0 /\ w.seg \in 1 .. N
  BY Sizes DEF OnRing
<1>4. PICK v : v = writer'[p]
  OBVIOUS
<1>5. v.ring = w.ring /\ v.seg = w.seg /\ v.used = w.used /\ v.end = TRUE
  <2>1. v = [w EXCEPT !.end = TRUE]
    BY <1>1, <1>2, <1>4 DEF TypeInv
  <2> QED
    BY <2>1 DEF OnRing
<1>6. /\ \A r \in 1 .. Rings : r # w.ring => header'[r] = header[r]
      /\ \A s \in 1 .. N : s # w.seg => header'[w.ring][s] = header[w.ring][s]
      /\ header'[w.ring][w.seg] = ClosingHeader(w)
  BY <1>2, <1>3 DEF TypeInv
<1>7. ClosingHeader(v) = ClosingHeader(w)
  BY <1>5 DEF ClosingHeader
<1>8. WriterInv(p)
  BY <1>1, <1>3 DEF RingsInv
<1>9. WriterInv(p)'
  <2>1. \A s \in 1 .. N : s < w.seg \/ s > w.seg => header'[w.ring][s] = header[w.ring][s]
    BY <1>3, <1>6
  <2>2. /\ sent'[p] = Bytes(w.seg - 1) + w.used
        /\ \A s \in 1 .. N : s < w.seg => header'[w.ring][s] = Full
        /\ \A s \in 1 .. N : s > w.seg => header'[w.ring][s] = Fresh
        /\ \A s \in 1 .. N : \A i \in 1 .. SegSize :
             s < w.seg \/ (s = w.seg /\ i <= w.used) => cell'[w.ring][s][i] = <<p, Bytes(s - 1) + i>>
    BY <1>1, <1>2, <1>8, <2>1 DEF WriterInv
  <2> QED
    BY <1>2, <1>4, <1>5, <1>6, <1>7, <2>2 DEF WriterInv
<1> QED
  BY <1>1, <1>2, <1>3, <1>4, <1>5, <1>6, <1>9, RingsOthers

\* What super_append finds at place w of the ring of p.
FillInv(p, w) ==
  /\ p \notin closed /\ w.end = FALSE
  /\ sent[p] = Bytes(w.seg - 1) + w.used
  /\ \A s \in 1 .. N : header[w.ring][s] = IF s < w.seg THEN Full ELSE Fresh
  /\ \A s \in 1 .. N : \A i \in 1 .. SegSize :
       s < w.seg \/ (s = w.seg /\ i <= w.used) => cell[w.ring][s][i] = <<p, Bytes(s - 1) + i>>

\* The current segment of an open ring.
LEMMA FillHere ==
  ASSUME NEW p \in Procs, NEW w \in OnRing, w = writer[p], WriterInv(p), pc[p] = "open",
         p \notin closed
  PROVE  FillInv(p, w)
<1>1. w.seg \in 1 .. N
  BY DEF OnRing
<1>2. w.end = FALSE
  BY DEF WriterInv, OnRing
<1>3. ASSUME NEW s \in 1 .. N PROVE header[w.ring][s] = IF s < w.seg THEN Full ELSE Fresh
  <2>1. s < w.seg \/ s = w.seg \/ s > w.seg
    BY <1>1
  <2> QED
    BY <2>1 DEF WriterInv
<1> QED
  BY <1>2, <1>3 DEF WriterInv, FillInv

\* The next one: as nothing makes a segment writeable again, it has not been written before.
LEMMA FillNext ==
  ASSUME TypeInv, NEW p \in Procs, NEW v \in OnRing, v = writer[p], WriterInv(p), pc[p] = "next",
         NEW w \in OnRing, w = NextPlace(v), header[w.ring][w.seg].writeable
  PROVE  FillInv(p, w)
<1>1. /\ w.ring = v.ring /\ w.seg = After(v.seg) /\ w.used = 0
      /\ w.end = header[w.ring][w.seg].end
  BY NextPlaceIs
<1>2. v.seg \in 1 .. N /\ v.used = SegSize /\ p \notin closed /\ 1 \in 1 .. N
  BY Sizes DEF OnRing, WriterInv
<1>3. v.seg # N
  <2>1. SUFFICES ASSUME v.seg = N PROVE FALSE
    OBVIOUS
  <2>2. w.seg = 1
    BY <1>1, <1>2, <2>1, AfterIs
  <2>3. header[v.ring][1] = Full
    <3>1. 1 < v.seg \/ 1 = v.seg
      BY <2>1, Sizes
    <3> QED
      BY <1>2, <3>1 DEF WriterInv
  <2> QED
    BY <1>1, <2>2, <2>3 DEF Full
<1>4. w.seg = v.seg + 1 /\ w.seg \in 1 .. N /\ w.seg - 1 = v.seg
  BY <1>1, <1>2, <1>3, AfterIs, Sizes
<1>5. ASSUME NEW s \in 1 .. N PROVE header[w.ring][s] = IF s < w.seg THEN Full ELSE Fresh
  <2>1. CASE s > v.seg
    BY <1>1, <1>2, <1>4, <2>1 DEF WriterInv
  <2>2. CASE s < v.seg
    BY <1>1, <1>2, <1>4, <2>2 DEF WriterInv
  <2>3. CASE s = v.seg
    <3>1. header[v.ring][v.seg] = Full
      BY <1>2 DEF WriterInv
    <3> QED
      BY <1>1, <1>2, <1>4, <2>3, <3>1
  <2> QED
    BY <1>2, <2>1, <2>2, <2>3
<1>6. w.end = FALSE
  BY <1>1, <1>4, <1>5 DEF Fresh
<1>7. sent[p] = Bytes(w.seg - 1) + w.used
  <2>1. v.seg - 1 \in Nat /\ (v.seg - 1) + 1 = v.seg
    BY <1>2
  <2>2. Bytes((v.seg - 1) + 1) = Bytes(v.seg - 1) + SegSize /\ Bytes((v.seg - 1) + 1) \in Nat
    BY <2>1, BytesFacts
  <2>3. sent[p] = Bytes(v.seg - 1) + SegSize
    BY <1>2 DEF WriterInv
  <2>4. sent[p] = Bytes(v.seg) /\ Bytes(v.seg) \in Nat
    BY <2>1, <2>2, <2>3
  <2> QED
    BY <1>1, <1>4, <2>4
<1>8. ASSUME NEW s \in 1 .. N, NEW i \in 1 .. SegSize, s < w.seg \/ (s = w.seg /\ i <= w.used)
      PROVE  cell[w.ring][s][i] = <<p, Bytes(s - 1) + i>>
  <2>1. s < v.seg \/ (s = v.seg /\ i <= v.used)
    BY <1>1, <1>2, <1>4, <1>8, Sizes
  <2> QED
    BY <1>1, <2>1 DEF WriterInv
<1> QED
  BY <1>2, <1>5, <1>6, <1>7, <1>8 DEF FillInv

\* The ring after super_append.
LEMMA FillWriter ==
  ASSUME TypeInv, NEW p \in Procs, NEW w \in OnRing, NEW k \in Nat, NEW n \in Nat,
         FillInv(p, w), Wrote(p, w, k, n)
  PROVE  /\ WriterInv(p)' /\ writer'[p].ring = w.ring
         /\ \A r \in 1 .. Rings : r # w.ring => header'[r] = header[r] /\ cell'[r] = cell[r]
<1>1. /\ w.ring \in 1 .. Rings /\ w.seg \in 1 .. N /\ w.used \in Nat /\ w.used <= SegSize
      /\ w.seg \in Nat /\ w.seg - 1 \in Nat
  BY Sizes DEF OnRing
<1>2. PICK v : v = writer'[p]
  OBVIOUS
<1>3. v.ring = w.ring /\ v.seg = w.seg /\ v.used = w.used + n /\ v.end = FALSE
  <2>1. v = [w EXCEPT !.used = w.used + n]
    BY <1>2 DEF TypeInv, Wrote
  <2> QED
    BY <2>1 DEF OnRing, FillInv
<1>4. /\ sent'[p] = sent[p] + n /\ pc'[p] = (IF n = k THEN "open" ELSE "next") /\ p \notin closed'
      /\ n <= k /\ w.used + n <= SegSize /\ (n < k => w.used + n = SegSize)
  BY DEF TypeInv, Wrote, FillInv
<1>5. PICK b \in Nat : b = Bytes(w.seg - 1) /\ sent[p] = b + w.used
  BY <1>1, BytesFacts DEF FillInv
<1>6. sent'[p] = Bytes(v.seg - 1) + v.used
  BY <1>1, <1>3, <1>4, <1>5
<1>7. pc'[p] = "next" => n # k /\ v.used = SegSize
  BY <1>3, <1>4
<1>8. /\ \A r \in 1 .. Rings : r # w.ring => header'[r] = header[r]
      /\ \A s \in 1 .. N : s # w.seg => header'[w.ring][s] = header[w.ring][s]
      /\ header'[w.ring][w.seg] = (IF n = k THEN Fresh ELSE Full)
  <2>1. header[w.ring][w.seg] = Fresh
    BY <1>1 DEF FillInv
  <2>2. CASE n = k
    BY <2>1, <2>2 DEF Wrote
  <2>3. CASE n # k
    <3>1. header' = [header EXCEPT ![w.ring][w.seg] = Full]
      BY <2>3 DEF Wrote, FilledHeader, Full, FillInv
    <3>2. header \in [1 .. Rings -> [1 .. N -> Header]]
      BY DEF TypeInv
    <3> QED
      BY <1>1, <2>3, <3>1, <3>2
  <2> QED
    BY <2>2, <2>3
<1>9. ASSUME NEW s \in 1 .. N
      PROVE  /\ s < v.seg => header'[v.ring][s] = Full
             /\ s > v.seg => header'[v.ring][s] = Fresh
  BY <1>1, <1>3, <1>8 DEF FillInv
<1>10. header'[v.ring][v.seg] = IF pc'[p] = "next" THEN Full ELSE Fresh
  BY <1>3, <1>4, <1>8
<1>11. PICK c : c = Copied(cell[w.ring][w.seg], p, w.used, n, sent[p])
  OBVIOUS
<1>12. /\ \A r \in 1 .. Rings : r # w.ring => cell'[r] = cell[r]
       /\ \A s \in 1 .. N : s # w.seg => cell'[w.ring][s] = cell[w.ring][s]
       /\ cell'[w.ring][w.seg] = c
  <2>1. cell' = [cell EXCEPT ![w.ring][w.seg] = c]
    BY <1>11 DEF Wrote
  <2>2. PICK B : B = [1 .. SegSize -> Byte]
    OBVIOUS
  <2>3. cell \in [1 .. Rings -> [1 .. N -> B]]
    BY <2>2 DEF TypeInv
  <2> QED
    BY <1>1, <2>1, <2>3
<1>13. ASSUME NEW s \in 1 .. N, NEW i \in 1 .. SegSize, s < v.seg \/ (s = v.seg /\ i <= v.used)
       PROVE  cell'[v.ring][s][i] = <<p, Bytes(s - 1) + i>>
  <2>1. CASE s # w.seg
    BY <1>3, <1>12, <1>13, <2>1 DEF FillInv
  <2>2. CASE s = w.seg /\ i <= w.used
    <3>1. c[i] = cell[w.ring][w.seg][i]
      <4>1. i \notin w.used + 1 .. w.used + n
        BY <1>1, <2>2, Sizes
      <4> QED
        BY <1>11, <4>1 DEF Copied
    <3> QED
      BY <1>3, <1>12, <2>2, <3>1 DEF FillInv
  <2>3. CASE s = w.seg /\ ~(i <= w.used)
    <3>1. i \in w.used + 1 .. w.used + n
      BY <1>1, <1>3, <1>13, <2>3, Sizes
    <3>2. c[i] = <<p, sent[p] + i - w.used>>
      BY <1>11, <3>1 DEF Copied
    <3>3. sent[p] + i - w.used = Bytes(s - 1) + i
      BY <1>1, <1>5, <2>3, Sizes
    <3> QED
      BY <1>3, <1>12, <2>3, <3>2, <3>3
  <2> QED
    BY <2>1, <2>2, <2>3
<1>14. WriterInv(p)'
  BY <1>2, <1>3, <1>4, <1>6, <1>7, <1>9, <1>10, <1>13 DEF WriterInv
<1> QED
  BY <1>2, <1>3, <1>8, <1>12, <1>14

\* append and getNextSegment.
LEMMA FillRings ==
  ASSUME TypeInv, NEW p \in Procs, RingsInv, ProcInv(p), Apart', late' = {},
         (\E k \in AppendSizes : DPI_Append(p, k)) \/ NextSegment(p)
  PROVE  RingsInv'
<1>1. PICK w \in OnRing, k \in Nat :
           /\ Fill(p, w, k) /\ w.ring = writer[p].ring
           /\ \/ pc[p] = "open" /\ w = writer[p] /\ (p \in closed => p \in late')
              \/ /\ pc[p] = "next" /\ w = NextPlace(writer[p])
                 /\ header[w.ring][w.seg].writeable /\ writer[p] \in OnRing
  BY AppendIsFill
<1>2. Others(p) /\ writer'[p].ring = writer[p].ring /\ writer[p].ring # 0
  BY FillOthers
<1>3. WriterInv(p)
  BY <1>2 DEF RingsInv
<1>4. FillInv(p, w)
  <2>1. CASE pc[p] = "open" /\ w = writer[p] /\ (p \in closed => p \in late')
    BY <1>3, <2>1, FillHere
  <2>2. CASE /\ pc[p] = "next" /\ w = NextPlace(writer[p])
             /\ header[w.ring][w.seg].writeable /\ writer[p] \in OnRing
    BY <1>3, <2>2, FillNext
  <2> QED
    BY <1>1, <2>1, <2>2
<1>5. PICK n \in Nat : Wrote(p, w, k, n)
  BY <1>1, FillFacts
<1>6. /\ WriterInv(p)' /\ writer'[p].ring = w.ring
      /\ \A r \in 1 .. Rings : r # w.ring => header'[r] = header[r] /\ cell'[r] = cell[r]
  BY <1>4, <1>5, FillWriter
<1> QED
  BY <1>2, <1>6, RingsOthers

\* Every step keeps what is known of the rings.
LEMMA RingsStep ==
  ASSUME TypeInv, \A q \in Procs : ProcInv(q), NEW p \in Procs,
         Apart' /\ late' = {}, Apart /\ late = {} => RingsInv,
         \/ DPI_Init(p) \/ UnknownBuffer(p) \/ DPI_Create_buffer(p) \/ Join(p)
         \/ DPI_Close_buffer(p) \/ DPI_Get_buffer(p) \/ ReadStep(p) \/ Use(p)
         \/ (\E k \in AppendSizes : DPI_Append(p, k)) \/ NextSegment(p)
  PROVE  RingsInv'
<1>1. /\ Others(p) /\ ProcInv(p)
      /\ \A q \in Procs : writer[q].ring # 0 => writer'[q].ring = writer[q].ring
  BY RingKept
<1>2. RingsInv
  BY <1>1, GuardsKept
<1>3. CASE Join(p)
  BY <1>1, <1>2, <1>3, JoinRings
<1>4. CASE DPI_Close_buffer(p)
  BY <1>1, <1>2, <1>4, CloseRings
<1>5. CASE (\E k \in AppendSizes : DPI_Append(p, k)) \/ NextSegment(p)
  BY <1>1, <1>2, <1>5, FillRings
<1>6. CASE \/ DPI_Init(p) \/ UnknownBuffer(p) \/ DPI_Create_buffer(p)
           \/ DPI_Get_buffer(p) \/ ReadStep(p) \/ Use(p)
  <2>1. UNCHANGED <<header, cell, writer, sent, closed>> /\ pc[p] # "next"
    BY <1>6 DEF DPI_Init, UnknownBuffer, DPI_Create_buffer, DPI_Get_buffer, ReadStep, ReadHeader,
       ReadData, Use, memory
  <2>2. \E where \in {"ready", "crashed", "join", "read_header", "read_data", "overrun", "returned",
                      "open"} : pc' = [pc EXCEPT ![p] = where]
    BY <1>6 DEF DPI_Init, UnknownBuffer, DPI_Create_buffer, DPI_Get_buffer, ReadStep, ReadHeader,
       ReadData, Use, GoTo
  <2>3. pc'[p] # "next"
    BY <2>2 DEF TypeInv
  <2> QED
    BY <1>1, <1>2, <2>1, <2>3, RingsFrame
<1> QED
  BY <1>3, <1>4, <1>5, <1>6

-----------------------------------------------------------------------------
(***************************************************************************)
(* Reading closed rings.                                                   *)
(***************************************************************************)

\* The writer of a ring.
LEMMA AppenderIs ==
  ASSUME Apart, NEW r, r # 0, NEW p \in Procs, writer[p].ring = r
  PROVE  Appender(r) = p
  BY DEF Appender, Apart

\* If all rings are closed, their writers are the processes that have a ring.
LEMMA ClosedRing ==
  ASSUME TypeInv, AllClosed, NEW r \in 1 .. Rings
  PROVE  /\ Appender(r) \in closed /\ Appender(r) \in Procs /\ writer[Appender(r)].ring = r
         /\ \A p \in Procs : writer[p].ring = r => p \in closed
<1>1. PICK p \in closed : writer[p].ring = r
  BY DEF AllClosed, Covered
<1>2. p \in Procs /\ r # 0 /\ Apart
  BY Sizes DEF TypeInv, AllClosed
<1>3. Appender(r) = p
  BY <1>1, <1>2, AppenderIs
<1> QED
  BY <1>1, <1>2, <1>3, AppenderIs

\* Nothing changes in closed rings, unless a process appends to one or gets one again.
LEMMA Frozen ==
  ASSUME TypeInv, \A q \in Procs : ProcInv(q), RingsInv, AllClosed, Apart', late' = {},
         NEW p \in Procs,
         \/ DPI_Init(p) \/ UnknownBuffer(p) \/ DPI_Create_buffer(p) \/ Join(p)
         \/ DPI_Close_buffer(p) \/ DPI_Get_buffer(p) \/ ReadStep(p) \/ Use(p)
         \/ (\E k \in AppendSizes : DPI_Append(p, k)) \/ NextSegment(p)
  PROVE  UNCHANGED <<header, cell, writer, sent>>
<1>1. writer[p].ring \in 0 .. Rings /\ ProcInv(p) /\ Others(p)
  BY RingKept DEF TypeInv
<1>2. writer[p].ring # 0 => p \in closed /\ WriterInv(p)
  <2>1. ASSUME writer[p].ring # 0 PROVE writer[p].ring \in 1 .. Rings
    BY <1>1, <2>1, Sizes
  <2> QED
    BY <2>1, ClosedRing DEF RingsInv
<1>3. CASE (\E k \in AppendSizes : DPI_Append(p, k)) \/ NextSegment(p)
  <2>1. PICK w \in OnRing, k \in Nat :
           \/ pc[p] = "open" /\ w = writer[p] /\ (p \in closed => p \in late')
           \/ pc[p] = "next"
    BY <1>1, <1>3, AppendIsFill
  <2>2. p \in closed /\ WriterInv(p)
    BY <1>1, <1>2, <1>3, FillOthers
  <2> QED
    BY <2>1, <2>2 DEF WriterInv
<1>4. CASE Join(p)
  <2>1. CASE joined = Rings
    BY <1>4, <2>1 DEF Join
  <2>2. CASE joined # Rings
    <3>1. /\ joined' = joined + 1
          /\ writer' = [writer EXCEPT ![p] = [NoWriter EXCEPT !.ring = joined',
                                                !.end = header[joined'][1].end]]
      BY <1>4, <2>2 DEF Join
    <3>2. PICK r \in 1 .. Rings : r = joined'
      BY <2>2, <3>1, Sizes DEF TypeInv
    <3>3. writer'[p].ring = r /\ r # 0
      BY <3>1, <3>2, Sizes DEF TypeInv, NoWriter
    <3>4. writer[p].ring = 0
      BY <1>1, <1>4 DEF Join, ProcInv
    <3>5. Appender(r) \in Procs \ {p} /\ writer[Appender(r)].ring = r
      BY <3>3, <3>4, ClosedRing
    <3>6. PICK q \in Procs \ {p} : writer[q].ring = r
      BY <3>5
    <3>7. writer'[q] = writer[q]
      BY <1>1 DEF Others
    <3> QED
      BY <3>3, <3>6, <3>7 DEF Apart
  <2> QED
    BY <2>1, <2>2
<1>5. CASE DPI_Close_buffer(p)
  <2>1. PICK w \in OnRing : w = writer[p]
    BY <1>1, <1>5, PlaceOfWriter DEF DPI_Close_buffer
  <2>2. w.ring \in 1 .. Rings /\ w.ring # 0 /\ w.seg \in 1 .. N
    BY Sizes DEF OnRing
  <2>3. header[w.ring][w.seg] = ClosingHeader(w) /\ w.end = TRUE
    BY <1>2, <2>1, <2>2 DEF WriterInv, OnRing
  <2>4. header' = header
    <3>1. header' = [header EXCEPT ![w.ring][w.seg] = ClosingHeader(w)]
      BY <1>5, <2>1 DEF DPI_Close_buffer
    <3>2. header \in [1 .. Rings -> [1 .. N -> Header]]
      BY DEF TypeInv
    <3>3. [header[w.ring] EXCEPT ![w.seg] = ClosingHeader(w)] = header[w.ring]
      BY <2>2, <2>3, <3>2
    <3>4. header' = [header EXCEPT ![w.ring] = header[w.ring]]
      BY <3>1, <3>3
    <3> QED
      BY <2>2, <3>2, <3>4
  <2>5. writer' = writer
    <3>1. writer' = [writer EXCEPT ![p] = [w EXCEPT !.end = TRUE]]
      BY <1>5, <2>1 DEF DPI_Close_buffer
    <3>2. [w EXCEPT !.end = TRUE] = w
      BY <2>3 DEF OnRing
    <3> QED
      BY <2>1, <3>1, <3>2 DEF TypeInv
  <2> QED
    BY <1>5, <2>4, <2>5 DEF DPI_Close_buffer
<1>6. CASE \/ DPI_Init(p) \/ UnknownBuffer(p) \/ DPI_Create_buffer(p)
           \/ DPI_Get_buffer(p) \/ ReadStep(p) \/ Use(p)
  BY <1>6 DEF DPI_Init, UnknownBuffer, DPI_Create_buffer, DPI_Get_buffer, ReadStep, ReadHeader,
     ReadData, Use, memory
<1> QED
  BY <1>3, <1>4, <1>5, <1>6

\* What has been read is read off the same writers.
LEMMA SameRings ==
  ASSUME UNCHANGED <<sent, writer>>
  PROVE  /\ \A r : Appender(r)' = Appender(r)
         /\ \A s, k, m : RingAfterRing(s, k, m) => RingAfterRing(s, k, m)'
<1>1. \A r : Appender(r)' = Appender(r)
  BY DEF Appender
<1>2. ASSUME NEW s, NEW k, NEW m, RingAfterRing(s, k, m) PROVE RingAfterRing(s, k, m)'
  <2>1. PICK cut \in [0 .. Rings -> 0 .. Len(s)] : RingCuts(s, k, m, cut)
    BY <1>2 DEF RingAfterRing
  <2>2. RingCuts(s, k, m, cut)'
    BY <1>1, <2>1 DEF RingCuts
  <2> QED
    BY <2>2 DEF RingAfterRing
<1> QED
  BY <1>1, <1>2

\* More bytes of a ring.
LEMMA ReadMore ==
  ASSUME NEW S, NEW s \in Seq(S), NEW d \in Seq(S), NEW k \in 0 .. Rings, NEW m \in Nat,
         RingAfterRing(s, k, m),
         \A i \in 1 .. Len(d) : d[i] = <<Appender(k + 1), m + i>>,
         \A r \in 1 .. Rings : sent[Appender(r)] \in Nat
  PROVE  RingAfterRing(s \o d, k, m + Len(d))
<1>1. PICK cut \in [0 .. Rings -> 0 .. Len(s)] : RingCuts(s, k, m, cut)
  BY DEF RingAfterRing
<1>2. /\ Len(s \o d) = Len(s) + Len(d) /\ Len(s) \in Nat /\ Len(d) \in Nat
      /\ \A i \in 1 .. Len(s) + Len(d) : (s \o d)[i] = IF i <= Len(s) THEN s[i] ELSE d[i - Len(s)]
  BY ConcatProperties
<1>3. \A r \in 0 .. Rings : cut[r] \in Nat /\ cut[r] <= Len(s)
  BY <1>2
<1>4. ASSUME NEW i \in 1 .. m + Len(d) PROVE (s \o d)[cut[k] + i] = <<Appender(k + 1), i>>
  <2>1. cut[k] + i \in 1 .. Len(s) + Len(d)
    BY <1>1, <1>2, <1>3 DEF RingCuts
  <2>2. CASE i <= m
    <3>1. cut[k] + i <= Len(s) /\ i \in 1 .. m
      BY <1>1, <1>3, <2>2 DEF RingCuts
    <3> QED
      BY <1>1, <1>2, <2>1, <3>1 DEF RingCuts
  <2>3. CASE ~(i <= m)
    <3>1. PICK j \in 1 .. Len(d) : i = m + j
      <4>1. i - m \in 1 .. Len(d) /\ i = m + (i - m)
        BY <1>2, <2>3
      <4> QED
        BY <4>1
    <3>2. ~(cut[k] + i <= Len(s)) /\ (cut[k] + i) - Len(s) = j
      <4>1. PICK a \in Nat, x \in Nat : a = cut[k] /\ x = Len(s)
        BY <1>2, <1>3
      <4>2. x = a + m
        BY <1>1, <4>1 DEF RingCuts
      <4>3. ~(a + i <= x) /\ (a + i) - x = j
        BY <3>1, <4>2
      <4> QED
        BY <4>1, <4>3
    <3>3. (s \o d)[cut[k] + i] = d[j]
      BY <1>2, <2>1, <3>2
    <3> QED
      BY <3>1, <3>3
  <2> QED
    BY <2>2, <2>3
<1>5. Len(s \o d) = cut[k] + (m + Len(d))
  BY <1>1, <1>2, <1>3 DEF RingCuts
<1>6. ASSUME NEW r \in 1 .. k, NEW i \in 1 .. sent[Appender(r)]
      PROVE  (s \o d)[cut[r - 1] + i] = <<Appender(r), i>>
  <2>1. PICK a \in Nat, b \in Nat, n \in Nat :
          /\ a = cut[r - 1] /\ b = cut[r] /\ n = sent[Appender(r)] /\ b = a + n /\ b <= Len(s)
    <3>1. r \in 1 .. Rings /\ r \in 0 .. Rings /\ r - 1 \in 0 .. Rings
      BY Sizes
    <3> QED
      BY <1>1, <1>3, <3>1 DEF RingCuts
  <2>2. a + i \in 1 .. Len(s) + Len(d) /\ a + i <= Len(s)
    <3>1. i \in 1 .. n
      BY <2>1
    <3>2. PICK x \in Nat, y \in Nat : x = Len(s) /\ y = Len(d)
      BY <1>2
    <3>3. a + n <= x
      BY <2>1, <3>2
    <3>4. a + i \in 1 .. x + y /\ a + i <= x
      BY <3>1, <3>3
    <3> QED
      BY <3>2, <3>4
  <2>3. (s \o d)[a + i] = s[a + i]
    BY <1>2, <2>2
  <2> QED
    BY <1>1, <2>1, <2>3 DEF RingCuts
<1>7. RingCuts(s \o d, k, m + Len(d), cut)
  BY <1>1, <1>4, <1>5, <1>6 DEF RingCuts
<1>8. cut \in [0 .. Rings -> 0 .. Len(s \o d)]
  BY <1>2, <1>3
<1> QED
  BY <1>7, <1>8 DEF RingAfterRing

\* All of a ring.
LEMMA ReadRing ==
  ASSUME NEW s, Len(s) \in Nat, NEW k \in 0 .. Rings - 1, NEW m \in Nat, RingAfterRing(s, k, m),
         m = sent[Appender(k + 1)]
  PROVE  RingAfterRing(s, k + 1, 0)
<1>1. PICK cut \in [0 .. Rings -> 0 .. Len(s)] : RingCuts(s, k, m, cut)
  BY DEF RingAfterRing
<1>2. k \in Nat /\ k \in 0 .. Rings /\ k + 1 \in 0 .. Rings /\ 0 \in 0 .. Rings
  BY Sizes
<1>3. PICK new \in [0 .. Rings -> 0 .. Len(s)] : new = [cut EXCEPT ![k + 1] = Len(s)]
  <2>1. [cut EXCEPT ![k + 1] = Len(s)] \in [0 .. Rings -> 0 .. Len(s)]
    BY <1>2
  <2> QED
    BY <2>1
<1>4. new[k + 1] = Len(s) /\ \A r \in 0 .. k : new[r] = cut[r]
  BY <1>2, <1>3, Sizes
<1>5. \A r \in 1 .. k : r \in 0 .. k /\ r - 1 \in 0 .. k
  BY <1>2
<1>6. new[0] = 0 /\ Len(s) = new[k + 1] + 0
  BY <1>1, <1>2, <1>4 DEF RingCuts
<1>7. ASSUME NEW r \in 1 .. k + 1
      PROVE  /\ new[r] = new[r - 1] + sent[Appender(r)]
             /\ \A i \in 1 .. sent[Appender(r)] : s[new[r - 1] + i] = <<Appender(r), i>>
  <2>1. CASE r \in 1 .. k
    <3>1. new[r] = cut[r] /\ new[r - 1] = cut[r - 1]
      BY <1>4, <1>5, <2>1
    <3> QED
      BY <1>1, <2>1, <3>1 DEF RingCuts
  <2>2. CASE r = k + 1
    <3>1. new[r] = Len(s) /\ new[r - 1] = cut[k]
      BY <1>2, <1>4, <2>2
    <3> QED
      BY <1>1, <2>2, <3>1 DEF RingCuts
  <2> QED
    BY <1>2, <2>1, <2>2
<1>8. RingCuts(s, k + 1, 0, new)
  BY <1>6, <1>7 DEF RingCuts
<1> QED
  BY <1>8 DEF RingAfterRing

\* Nothing has been read.
LEMMA ReadNothing == RingAfterRing(<< >>, 0, 0)
<1>1. PICK cut \in [0 .. Rings -> 0 .. Len(<< >>)] : cut = [r \in 0 .. Rings |-> 0]
  <2>1. 0 \in 0 .. Len(<< >>)
    OBVIOUS
  <2>2. [r \in 0 .. Rings |-> 0] \in [0 .. Rings -> 0 .. Len(<< >>)]
    BY <2>1
  <2> QED
    BY <2>2
<1>2. 0 \in 0 .. Rings /\ cut[0] = 0
  BY <1>1, Sizes
<1>3. RingCuts(<< >>, 0, 0, cut)
  BY <1>2 DEF RingCuts
<1> QED
  BY <1>3 DEF RingAfterRing

\* What read finds in a segment of a closed ring, up to the one with the end mark.
LEMMA ClosedSegment ==
  ASSUME TypeInv, RingsInv, AllClosed, NEW r \in 1 .. Rings, NEW s \in 1 .. N,
         NEW w, w = writer[Appender(r)], s <= w.seg
  PROVE  /\ w.seg \in 1 .. N /\ sent[Appender(r)] = Bytes(w.seg - 1) + w.used
         /\ header[r][s].end <=> s = w.seg
         /\ header[r][s].counter = IF s = w.seg THEN w.used ELSE SegSize
         /\ \A i \in 1 .. header[r][s].counter : cell[r][s][i] = <<Appender(r), Bytes(s - 1) + i>>
<1>1. PICK p \in Procs : p = Appender(r) /\ p \in closed /\ writer[p].ring = r
  BY ClosedRing
<1>2. WriterInv(p) /\ w = writer[p]
  <2>1. r # 0
    BY Sizes
  <2> QED
    BY <1>1, <2>1 DEF RingsInv
<1>3. w.ring = r /\ w.seg \in 1 .. N /\ w.used \in 0 .. SegSize
  BY <1>1, <1>2 DEF TypeInv
<1>4. CASE s = w.seg
  <2>1. header[r][s] = ClosingHeader(w)
    BY <1>1, <1>2, <1>3, <1>4 DEF WriterInv
  <2>2. header[r][s].end = TRUE /\ header[r][s].counter = w.used
    BY <2>1 DEF ClosingHeader
  <2>3. ASSUME NEW i \in 1 .. w.used PROVE cell[r][s][i] = <<p, Bytes(s - 1) + i>>
    <3>1. i \in 1 .. SegSize /\ i <= w.used
      BY <1>3, Sizes
    <3> QED
      BY <1>2, <1>3, <1>4, <3>1 DEF WriterInv
  <2> QED
    BY <1>1, <1>2, <1>3, <1>4, <2>2, <2>3 DEF WriterInv
<1>5. CASE s # w.seg
  <2>1. s < w.seg
    BY <1>3, <1>5
  <2>2. header[r][s] = Full
    BY <1>2, <1>3, <2>1 DEF WriterInv
  <2>3. header[r][s].end = FALSE /\ header[r][s].counter = SegSize
    BY <2>2 DEF Full
  <2>4. \A i \in 1 .. SegSize : cell[r][s][i] = <<p, Bytes(s - 1) + i>>
    BY <1>2, <1>3, <2>1 DEF WriterInv
  <2> QED
    BY <1>1, <1>2, <1>3, <1>5, <2>3, <2>4 DEF WriterInv
<1> QED
  BY <1>4, <1>5

\* What is known of a read that goes on in closed rings.
ReadingInv(r) ==
  /\ r.seg <= writer[Appender(r.ring)].seg
  /\ RingAfterRing(r.out, r.ring - 1, Bytes(r.seg - 1))
  /\ Len(r.out) <= (r.ring - 1) * Bytes(N) + Bytes(r.seg - 1)

\* The segment is added to what has been read.
LEMMA ReadSegment ==
  ASSUME TypeInv, RingsInv, AllClosed, NEW p \in Procs, NEW r, r = reader[p], ~r.null,
         ReadingInv(r), r.header = header[r.ring][r.seg]
  PROVE  LET data == ReadSoFar(r) IN
         /\ Len(data) <= DataSize
         /\ r.header.end => /\ RingAfterRing(data, r.ring, 0)
                            /\ Len(data) <= (r.ring - 1) * Bytes(N) + Bytes(N)
         /\ ~r.header.end => /\ r.seg + 1 <= writer[Appender(r.ring)].seg
                             /\ writer[Appender(r.ring)].seg \in 1 .. N
                             /\ RingAfterRing(data, r.ring - 1, Bytes(r.seg))
                             /\ Len(data) <= (r.ring - 1) * Bytes(N) + Bytes(r.seg)
<1>1. /\ r.ring \in 1 .. Rings /\ r.seg \in 1 .. N /\ r.out \in Seq(Byte)
      /\ r.header.counter \in 0 .. SegSize
  BY ReaderType
<1>2. PICK w : w = writer[Appender(r.ring)]
  OBVIOUS
<1>3. PICK n \in Nat : n = r.header.counter /\ n <= SegSize
  BY <1>1, Sizes
<1>4. /\ w.seg \in 1 .. N /\ sent[Appender(r.ring)] = Bytes(w.seg - 1) + w.used
      /\ r.header.end <=> r.seg = w.seg
      /\ n = IF r.seg = w.seg THEN w.used ELSE SegSize
      /\ \A i \in 1 .. n : cell[r.ring][r.seg][i] = <<Appender(r.ring), Bytes(r.seg - 1) + i>>
  <2>1. PICK a \in 1 .. Rings, s \in 1 .. N : a = r.ring /\ s = r.seg
    BY <1>1
  <2> DEFINE h == header[a][s]
  <2>2. w = writer[Appender(a)] /\ s <= w.seg /\ h = r.header
    BY <1>2, <2>1 DEF ReadingInv
  <2>3. /\ w.seg \in 1 .. N /\ sent[Appender(a)] = Bytes(w.seg - 1) + w.used
        /\ h.end <=> s = w.seg
        /\ h.counter = IF s = w.seg THEN w.used ELSE SegSize
        /\ \A i \in 1 .. h.counter : cell[a][s][i] = <<Appender(a), Bytes(s - 1) + i>>
    BY <2>1, <2>2, ClosedSegment
  <2> HIDE DEF h
  <2> QED
    BY <1>3, <2>1, <2>2, <2>3
<1>5. PICK d \in Seq(Byte) : /\ d = SegmentData(r) /\ Len(d) = n
                             /\ \A i \in 1 .. n : d[i] = cell[r.ring][r.seg][i]
  BY <1>3, DataType
<1>6. PICK k \in 0 .. Rings - 1 : k = r.ring - 1 /\ k + 1 = r.ring
  BY <1>1, Sizes
<1>7. PICK m \in Nat : m = Bytes(r.seg - 1) /\ Bytes(r.seg) = m + SegSize
  <2>1. r.seg - 1 \in Nat /\ (r.seg - 1) + 1 = r.seg
    BY <1>1
  <2>2. Bytes(r.seg - 1) \in Nat /\ Bytes((r.seg - 1) + 1) = Bytes(r.seg - 1) + SegSize
    BY <2>1, BytesFacts
  <2> QED
    BY <2>1, <2>2
<1>8. PICK data \in Seq(Byte) : data = ReadSoFar(r) /\ data = r.out \o d
  <2>1. r.out \o d \in Seq(Byte)
    BY <1>1, ConcatProperties
  <2> QED
    BY <1>5, <2>1 DEF ReadSoFar
<1>9. RingAfterRing(data, k, m + n)
  <2>1. \A i \in 1 .. Len(d) : d[i] = <<Appender(k + 1), m + i>>
    BY <1>4, <1>5, <1>6, <1>7
  <2>2. \A x \in 1 .. Rings : sent[Appender(x)] \in Nat
    BY ClosedRing DEF TypeInv
  <2>3. RingAfterRing(r.out, k, m) /\ k \in 0 .. Rings
    BY <1>6, <1>7, Sizes DEF ReadingInv
  <2>4. RingAfterRing(r.out \o d, k, m + Len(d))
    BY <1>1, <2>1, <2>2, <2>3, ReadMore
  <2> QED
    BY <1>5, <1>8, <2>4
<1>10. PICK base \in Nat : base = (r.ring - 1) * Bytes(N) /\ base + Bytes(N) <= DataSize
  BY <1>1, <1>6, DataSizeFacts, Sizes
<1>11. Len(data) \in Nat /\ Len(data) <= base + m + n
  <2>1. Len(data) = Len(r.out) + n /\ Len(r.out) \in Nat
    <3>1. PICK o \in Seq(Byte) : o = r.out
      BY <1>1
    <3>2. Len(o \o d) = Len(o) + Len(d) /\ Len(o) \in Nat
      BY ConcatProperties
    <3> QED
      BY <1>5, <1>8, <3>1, <3>2
  <2>2. Len(r.out) <= base + m
    BY <1>7, <1>10 DEF ReadingInv
  <2> QED
    BY <2>1, <2>2
<1>12. PICK room \in Nat : room = Bytes(N) /\ m + SegSize <= room
  <2>1. Bytes(r.seg) <= Bytes(N) /\ Bytes(N) \in Nat
    <3>1. r.seg \in Nat /\ N \in Nat /\ r.seg <= N
      BY <1>1, Sizes
    <3> QED
      BY <3>1, BytesGrow, BytesFacts
  <2> QED
    BY <1>7, <2>1
<1>13. Len(data) <= DataSize /\ Len(data) <= base + room
  <2>1. PICK l \in Nat, z \in Nat : l = Len(data) /\ z = SegSize
    BY <1>11, Sizes
  <2>2. l <= base + m + n /\ n <= z /\ m + z <= room
    BY <1>3, <1>11, <1>12, <2>1
  <2>3. l <= base + room
    BY <2>2
  <2>4. base + room <= DataSize /\ DataSize \in Nat
    BY <1>10, <1>12, DataSizeFacts
  <2> QED
    BY <2>1, <2>3, <2>4
<1>14. ASSUME r.header.end PROVE RingAfterRing(data, r.ring, 0)
  <2>1. r.seg = w.seg /\ n = w.used
    BY <1>4, <1>14
  <2>2. m + n = sent[Appender(k + 1)]
    BY <1>4, <1>6, <1>7, <2>1
  <2>3. m + n \in Nat
    OBVIOUS
  <2>4. RingAfterRing(data, k + 1, 0)
    BY <1>9, <1>11, <2>2, <2>3, ReadRing
  <2> QED
    BY <1>6, <2>4
<1>15. ASSUME ~r.header.end
       PROVE  /\ r.seg + 1 <= w.seg /\ RingAfterRing(data, k, Bytes(r.seg))
              /\ Len(data) <= base + Bytes(r.seg)
  <2>1. r.seg # w.seg /\ n = SegSize /\ r.seg <= w.seg
    BY <1>2, <1>4, <1>15 DEF ReadingInv
  <2>2. r.seg + 1 <= w.seg
    BY <1>1, <1>4, <2>1
  <2>3. m + n = Bytes(r.seg)
    BY <1>7, <2>1
  <2> QED
    BY <1>9, <1>11, <2>2, <2>3, <1>7
<1> QED
  BY <1>2, <1>4, <1>6, <1>8, <1>10, <1>12, <1>13, <1>14, <1>15

\* A read of another process, while the rings stay as they are.
LEMMA ReaderFrame ==
  ASSUME NEW q \in Procs, ReaderInv(q), UNCHANGED <<header, writer, sent>>,
         pc'[q] = pc[q], reader'[q] = reader[q]
  PROVE  ReaderInv(q)'
<1>1. PICK r : r = reader[q]
  OBVIOUS
<1>2. /\ \A x : Appender(x)' = Appender(x)
      /\ \A s, k, m : RingAfterRing(s, k, m) => RingAfterRing(s, k, m)'
  BY SameRings
<1>3. Reading(q)' <=> Reading(q)
  BY DEF Reading
<1>4. pc'[q] # "overrun"
  BY DEF ReaderInv
<1>5. ASSUME Reading(q), ~r.null
      PROVE  /\ r.seg <= writer'[Appender(r.ring)'].seg
             /\ pc'[q] = "read_data" => r.header = header'[r.ring][r.seg]
             /\ RingAfterRing(r.out, r.ring - 1, Bytes(r.seg - 1))'
             /\ Len(r.out) <= (r.ring - 1) * Bytes(N) + Bytes(r.seg - 1)
  BY <1>1, <1>2, <1>5 DEF ReaderInv
<1>6. ASSUME pc[q] = "returned", ~r.null PROVE RingAfterRing(r.out, Rings, 0)'
  BY <1>1, <1>2, <1>6 DEF ReaderInv
<1>7. r = reader'[q]
  BY <1>1
<1> QED
  BY <1>3, <1>4, <1>5, <1>6, <1>7 DEF ReaderInv

\* A call that is not a read.
LEMMA ReaderElsewhere ==
  ASSUME NEW p \in Procs, pc'[p] \notin {"read_header", "read_data", "returned", "overrun"}
  PROVE  ReaderInv(p)'
  BY DEF ReaderInv, Reading

\* A read begins.
LEMMA GetReader ==
  ASSUME TypeInv, TypeInv', NEW p \in Procs, AllClosed, DPI_Get_buffer(p),
         UNCHANGED <<header, writer, sent>>
  PROVE  ReaderInv(p)'
<1> DEFINE null == used[p] + DataSize > Memory
<1>1. CASE pc' = [pc EXCEPT ![p] = "crashed"]
  BY <1>1, ReaderElsewhere DEF TypeInv
<1>2. CASE /\ pc' = [pc EXCEPT ![p] = "read_header"]
           /\ reader' = [reader EXCEPT ![p] = [NoReader EXCEPT !.null = null, !.exact = AllClosed]]
  <2>1. pc'[p] = "read_header"
    BY <1>2 DEF TypeInv
  <2>2. PICK r : r = reader'[p]
    OBVIOUS
  <2>3. r.ring = 1 /\ r.seg = 1 /\ r.out = << >>
    BY <1>2, <2>2 DEF TypeInv, NoReader
  <2>4. RingAfterRing(<< >>, 0, 0)' /\ Appender(1)' = Appender(1)
    BY ReadNothing, SameRings
  <2>5. 1 <= writer'[Appender(1)'].seg
    <3>1. Appender(1) \in Procs
      BY ClosedRing, Sizes
    <3>2. writer[Appender(1)].seg \in 1 .. N
      BY <3>1 DEF TypeInv
    <3> QED
      BY <2>4, <3>2, Sizes
  <2>6. Bytes(1 - 1) = 0 /\ Len(<< >>) <= (1 - 1) * Bytes(N) + Bytes(1 - 1) /\ 1 - 1 = 0
    <3>1. Bytes(N) \in Nat /\ Bytes(0) = 0
      BY BytesFacts, Sizes
    <3>2. 0 * Bytes(N) = 0 /\ Len(<< >>) = 0
      BY <3>1
    <3> QED
      BY <3>1, <3>2
  <2> QED
    BY <2>1, <2>2, <2>3, <2>4, <2>5, <2>6 DEF ReaderInv, Reading
<1> QED
  BY <1>1, <1>2 DEF DPI_Get_buffer, GoTo

\* The header of a segment is read.
LEMMA HeaderReader ==
  ASSUME TypeInv, NEW p \in Procs, ProcInv(p), ReaderInv(p), ReadHeader(p),
         UNCHANGED <<header, writer, sent>>
  PROVE  ReaderInv(p)'
<1>1. pc[p] = "read_header" /\ pc'[p] = "read_data"
  BY DEF ReadHeader, GoTo, TypeInv
<1>2. PICK r, new : r = reader[p] /\ new = reader'[p]
  OBVIOUS
<1>3. /\ new.ring = r.ring /\ new.seg = r.seg /\ new.out = r.out /\ new.null = r.null
      /\ p \notin dead => new.header = header[r.ring][r.seg]
  <2>1. CASE p \in dead
    BY <1>2, <2>1 DEF ReadHeader
  <2>2. CASE p \notin dead
    <3>1. PICK h : h = header[r.ring][r.seg]
      OBVIOUS
    <3>2. reader' = [reader EXCEPT ![p].header = h]
      BY <1>2, <2>2, <3>1 DEF ReadHeader
    <3>3. new = [r EXCEPT !.header = h] /\ r \in ReaderRecord
      BY <1>2, <3>2, ReaderType DEF TypeInv
    <3> QED
      BY <3>1, <3>3 DEF ReaderRecord
  <2> QED
    BY <2>1, <2>2
<1>4. /\ \A x : Appender(x)' = Appender(x)
      /\ \A s, k, m : RingAfterRing(s, k, m) => RingAfterRing(s, k, m)'
  BY SameRings
<1>5. ASSUME ~new.null
      PROVE  /\ new.seg <= writer'[Appender(new.ring)'].seg
             /\ new.header = header'[new.ring][new.seg]
             /\ RingAfterRing(new.out, new.ring - 1, Bytes(new.seg - 1))'
             /\ Len(new.out) <= (new.ring - 1) * Bytes(N) + Bytes(new.seg - 1)
  <2>1. p \notin dead
    BY <1>1, <1>2, <1>3, <1>5 DEF ProcInv, Reading
  <2>2. /\ r.seg <= writer[Appender(r.ring)].seg
        /\ RingAfterRing(r.out, r.ring - 1, Bytes(r.seg - 1))
        /\ Len(r.out) <= (r.ring - 1) * Bytes(N) + Bytes(r.seg - 1)
    BY <1>1, <1>2, <1>3, <1>5 DEF ReaderInv, Reading
  <2> QED
    BY <1>3, <1>4, <2>1, <2>2
<1> QED
  BY <1>1, <1>2, <1>5 DEF ReaderInv, Reading

\* The data of a segment is read.
LEMMA DataReader ==
  ASSUME TypeInv, RingsInv, AllClosed, NEW p \in Procs, ReaderInv(p), ReadData(p),
         UNCHANGED <<header, writer, sent>>
  PROVE  ReaderInv(p)'
<1>1. PICK r \in ReaderRecord : r = reader[p]
  BY ReaderType
<1>2. pc[p] = "read_data" /\ r.ring \in 1 .. Rings /\ r.seg \in 1 .. N
  BY <1>1, ReadDataIs DEF ReaderRecord
<1>3. PICK data : data = ReadSoFar(r)
  OBVIOUS
<1>4. ~r.null => /\ ReadingInv(r) /\ r.header = header[r.ring][r.seg]
  BY <1>1, <1>2 DEF ReaderInv, Reading, ReadingInv
<1>5. ~(Len(data) > DataSize)
  <2>1. CASE r.null
    <3>1. data = << >> /\ Len(<< >>) = 0
      BY <1>3, <2>1 DEF ReadSoFar
    <3> QED
      BY <3>1, DataSizeFacts
  <2>2. CASE ~r.null
    <3>1. Len(data) <= DataSize
      BY <1>1, <1>3, <1>4, <2>2, ReadSegment
    <3>2. data \in Seq(Byte) /\ Len(data) \in Nat
      BY <1>1, <1>3, AdvancedType
    <3> QED
      BY <3>1, <3>2, DataSizeFacts
  <2> QED
    BY <2>1, <2>2
<1>6. PICK new : new = reader'[p]
  OBVIOUS
<1>7. /\ pc'[p] = (IF r.header.end /\ r.ring = Rings THEN "returned" ELSE "read_header")
      /\ new = Advanced(r)
  <2>1. /\ pc' = [pc EXCEPT ![p] = IF r.header.end /\ r.ring = Rings THEN "returned"
                                   ELSE "read_header"]
        /\ reader' = [reader EXCEPT ![p] = Advanced(r)]
    BY <1>1, <1>3, <1>5, ReadDataIs
  <2> QED
    BY <1>6, <2>1 DEF TypeInv
<1>8. new.null = r.null /\ new.out = data
  BY <1>3, <1>7 DEF Advanced, ReaderRecord
<1>9. /\ \A x : Appender(x)' = Appender(x)
      /\ \A s, k, m : RingAfterRing(s, k, m) => RingAfterRing(s, k, m)'
  BY SameRings
<1>10. CASE r.null
  BY <1>6, <1>7, <1>8, <1>10 DEF ReaderInv, Reading
<1>11. CASE ~r.null /\ r.header.end /\ r.ring = Rings
  <2>1. RingAfterRing(data, Rings, 0)'
    BY <1>1, <1>3, <1>4, <1>9, <1>11, ReadSegment
  <2> QED
    BY <1>6, <1>7, <1>8, <1>11, <2>1 DEF ReaderInv, Reading
<1>12. CASE ~r.null /\ r.header.end /\ r.ring # Rings
  <2>1. pc'[p] = "read_header" /\ new.ring = r.ring + 1 /\ new.seg = 1
    BY <1>7, <1>12 DEF Advanced, ReaderRecord
  <2>2. RingAfterRing(data, r.ring, 0) /\ Len(data) <= (r.ring - 1) * Bytes(N) + Bytes(N)
    BY <1>1, <1>3, <1>4, <1>12, ReadSegment
  <2>3. PICK k \in Nat : k = r.ring /\ k + 1 \in 1 .. Rings
    BY <1>2, <1>12, Sizes
  <2>4. (k + 1) - 1 = k /\ 1 - 1 = 0 /\ Bytes(0) = 0 /\ (k - 1) * Bytes(N) + Bytes(N) = k * Bytes(N) + 0
    <3>1. Bytes(N) \in Nat /\ Bytes(0) = 0
      BY BytesFacts, Sizes
    <3>2. (k - 1) * Bytes(N) + Bytes(N) = k * Bytes(N) + 0
      BY <3>1
    <3> QED
      BY <3>1, <3>2
  <2>5. 1 <= writer'[Appender(k + 1)'].seg
    <3>1. Appender(k + 1) \in Procs
      BY <2>3, ClosedRing
    <3>2. writer[Appender(k + 1)].seg \in 1 .. N
      BY <3>1 DEF TypeInv
    <3> QED
      BY <1>9, <3>2, Sizes
  <2>6. RingAfterRing(data, (k + 1) - 1, Bytes(1 - 1))'
    <3>1. RingAfterRing(data, (k + 1) - 1, Bytes(1 - 1))
      BY <2>2, <2>3, <2>4
    <3> QED
      BY <1>9, <3>1
  <2>7. Len(data) <= ((k + 1) - 1) * Bytes(N) + Bytes(1 - 1)
    BY <2>2, <2>3, <2>4
  <2> QED
    BY <1>6, <1>8, <2>1, <2>3, <2>5, <2>6, <2>7 DEF ReaderInv, Reading
<1>13. CASE ~r.null /\ ~r.header.end
  <2>1. pc'[p] = "read_header" /\ new.ring = r.ring /\ new.seg = After(r.seg)
    BY <1>7, <1>13 DEF Advanced, ReaderRecord
  <2>2. /\ r.seg + 1 <= writer[Appender(r.ring)].seg /\ writer[Appender(r.ring)].seg \in 1 .. N
        /\ RingAfterRing(data, r.ring - 1, Bytes(r.seg))
        /\ Len(data) <= (r.ring - 1) * Bytes(N) + Bytes(r.seg)
    BY <1>1, <1>3, <1>4, <1>13, ReadSegment
  <2>3. After(r.seg) = r.seg + 1 /\ (r.seg + 1) - 1 = r.seg
    BY <1>2, <2>2, AfterIs, Sizes
  <2>4. /\ new.seg <= writer'[Appender(new.ring)'].seg
        /\ RingAfterRing(new.out, new.ring - 1, Bytes(new.seg - 1))'
        /\ Len(new.out) <= (new.ring - 1) * Bytes(N) + Bytes(new.seg - 1)
    BY <1>8, <1>9, <2>1, <2>2, <2>3
  <2> QED
    BY <1>6, <2>1, <2>4 DEF ReaderInv, Reading
<1> QED
  BY <1>10, <1>11, <1>12, <1>13

\* Every step keeps what is known of the reads.
LEMMA ReaderStep ==
  ASSUME IInv, TypeInv', NEW p \in Procs,
         \/ DPI_Init(p) \/ UnknownBuffer(p) \/ DPI_Create_buffer(p) \/ Join(p)
         \/ DPI_Close_buffer(p) \/ DPI_Get_buffer(p) \/ ReadStep(p) \/ Use(p)
         \/ (\E k \in AppendSizes : DPI_Append(p, k)) \/ NextSegment(p),
         NEW q \in Procs, Exact(q)'
  PROVE  ReaderInv(q)'
<1>1. TypeInv /\ (\A x \in Procs : ProcInv(x)) /\ (Apart /\ late = {} => RingsInv)
  BY DEF IInv
<1>2. /\ Others(p) /\ ProcInv(p)
      /\ \A x \in Procs : writer[x].ring # 0 => writer'[x].ring = writer[x].ring
  BY <1>1, RingKept
<1>3. Apart' /\ late' = {} /\ reader'[q].exact
  BY DEF Exact, AllClosed
<1>4. Apart /\ late = {} /\ RingsInv
  BY <1>1, <1>2, <1>3, GuardsKept
<1>5. ASSUME reader[q].exact PROVE AllClosed /\ ReaderInv(q) /\ UNCHANGED <<header, writer, sent>>
  <2>1. AllClosed
    BY <1>1, <1>4, <1>5 DEF ProcInv, AllClosed
  <2>2. ReaderInv(q)
    BY <1>4, <1>5, <2>1 DEF IInv, Exact
  <2>3. UNCHANGED <<header, cell, writer, sent>>
    BY <1>1, <1>3, <1>4, <2>1, Frozen
  <2> QED
    BY <2>1, <2>2, <2>3
<1>6. CASE q # p
  <2>1. pc'[q] = pc[q] /\ reader'[q] = reader[q]
    BY <1>2, <1>6 DEF Others
  <2> QED
    BY <1>3, <1>5, <2>1, ReaderFrame
<1>7. CASE q = p /\ DPI_Get_buffer(p)
  <2>1. UNCHANGED <<header, writer, sent>>
    BY <1>7 DEF DPI_Get_buffer, memory
  <2>2. CASE UNCHANGED reader
    BY <1>1, <1>3, <1>5, <1>7, <2>1, <2>2, GetReader
  <2>3. CASE ~UNCHANGED reader
    <3>1. reader' = [reader EXCEPT ![p] =
            [NoReader EXCEPT !.null = (used[p] + DataSize > Memory), !.exact = AllClosed]]
      BY <1>7, <2>3 DEF DPI_Get_buffer
    <3>2. reader'[p].exact = AllClosed
      BY <1>1, <3>1 DEF TypeInv, NoReader
    <3> QED
      BY <1>1, <1>3, <1>7, <2>1, <3>2, GetReader
  <2> QED
    BY <2>2, <2>3
<1>8. CASE q = p /\ ReadHeader(p)
  <2>1. reader[p].exact
    <3>1. reader' = reader \/ \E h : reader' = [reader EXCEPT ![p].header = h]
      BY <1>8 DEF ReadHeader
    <3>2. reader'[p].exact = reader[p].exact
      <4>1. CASE reader' = reader
        BY <4>1
      <4>2. ASSUME NEW h, reader' = [reader EXCEPT ![p].header = h]
            PROVE  reader'[p].exact = reader[p].exact
        <5>1. reader'[p] = [reader[p] EXCEPT !.header = h]
          BY <1>1, <4>2 DEF TypeInv
        <5>2. \A r \in ReaderRecord : [r EXCEPT !.header = h].exact = r.exact
          BY DEF ReaderRecord
        <5> QED
          BY <1>1, <5>1, <5>2, ReaderType
      <4> QED
        BY <3>1, <4>1, <4>2
    <3> QED
      BY <1>3, <1>8, <3>2
  <2> QED
    BY <1>1, <1>2, <1>5, <1>8, <2>1, HeaderReader
<1>9. CASE q = p /\ ReadData(p)
  <2>1. reader[p].exact
    <3>1. UNCHANGED reader \/ reader' = [reader EXCEPT ![p] = Advanced(reader[p])]
      BY <1>9, ReadDataIs
    <3>2. reader'[p] = reader[p] \/ reader'[p] = Advanced(reader[p])
      BY <1>1, <3>1 DEF TypeInv
    <3>3. \A r \in ReaderRecord : Advanced(r).exact = r.exact
      BY DEF Advanced, ReaderRecord
    <3>4. reader'[p].exact = reader[p].exact
      BY <1>1, <3>2, <3>3, ReaderType
    <3> QED
      BY <1>3, <1>9, <3>4
  <2> QED
    BY <1>1, <1>4, <1>5, <1>9, <2>1, DataReader
<1>10. CASE /\ q = p
            /\ \/ DPI_Init(p) \/ UnknownBuffer(p) \/ DPI_Create_buffer(p) \/ Join(p)
               \/ DPI_Close_buffer(p) \/ Use(p)
               \/ (\E k \in AppendSizes : DPI_Append(p, k)) \/ NextSegment(p)
  <2>1. CASE (\E k \in AppendSizes : DPI_Append(p, k)) \/ NextSegment(p)
    BY <1>1, <1>2, <1>10, <2>1, FillOthers, ReaderElsewhere
  <2>2. CASE DPI_Close_buffer(p)
    BY <1>10, <2>2, ReaderElsewhere DEF DPI_Close_buffer
  <2>3. CASE DPI_Init(p) \/ UnknownBuffer(p) \/ DPI_Create_buffer(p) \/ Join(p) \/ Use(p)
    <3>1. \E where \in {"ready", "crashed", "join", "open"} : pc' = [pc EXCEPT ![p] = where]
      BY <2>3 DEF DPI_Init, UnknownBuffer, DPI_Create_buffer, Join, Use, GoTo
    <3>2. pc'[p] \in {"ready", "crashed", "join", "open"}
      BY <1>1, <3>1 DEF TypeInv
    <3> QED
      BY <1>10, <3>2, ReaderElsewhere
  <2> QED
    BY <1>10, <2>1, <2>2, <2>3
<1> QED
  BY <1>6, <1>7, <1>8, <1>9, <1>10 DEF ReadStep

-----------------------------------------------------------------------------
(***************************************************************************)
(* The theorems.                                                           *)
(***************************************************************************)

\* In the beginning the rings are fresh and no process has one.
LEMMA InitInv == Init => IInv
<1> SUFFICES ASSUME Init PROVE IInv
  OBVIOUS
<1>1. Fresh \in Header /\ NoReader \in ReaderRecord
  BY NoReaderType
<1>2. TypeInv
  <2>1. cell \in [1 .. Rings -> [1 .. N -> [1 .. SegSize -> Byte]]]
    <3>1. PICK b \in Byte : b = << >>
      BY DEF Byte
    <3>2. cell = [r \in 1 .. Rings |-> [s \in 1 .. N |-> [i \in 1 .. SegSize |-> b]]]
      BY <3>1 DEF Init
    <3> QED
      BY <3>2
  <2>2. writer \in [Procs -> [ring : 0 .. Rings, seg : 1 .. N, used : 0 .. SegSize, end : BOOLEAN]]
    <3>1. NoWriter \in [ring : 0 .. Rings, seg : 1 .. N, used : 0 .. SegSize, end : BOOLEAN]
      BY Sizes DEF NoWriter
    <3> QED
      BY <3>1 DEF Init
  <2>3. header \in [1 .. Rings -> [1 .. N -> Header]] /\ reader \in [Procs -> ReaderRecord]
    BY <1>1 DEF Init
  <2>4. joined \in 0 .. Rings
    BY Sizes DEF Init
  <2> QED
    BY <2>1, <2>2, <2>3, <2>4 DEF Init, TypeInv, ReaderRecord
<1>3. \A p \in Procs : /\ pc[p] = "new" /\ writer[p].ring = 0 /\ sent[p] = 0
                       /\ ~reader[p].null /\ ~reader[p].exact
  BY DEF Init, NoWriter, NoReader
<1>4. closed = {} /\ dead = {} /\ header = [r \in 1 .. Rings |-> [s \in 1 .. N |-> Fresh]]
  BY DEF Init
<1>5. \A p \in Procs : ProcInv(p)
  BY <1>3, <1>4 DEF ProcInv, Reading
<1>6. RingsInv
  BY <1>3, <1>4 DEF RingsInv
<1> QED
  BY <1>2, <1>3, <1>5, <1>6 DEF IInv, Exact

\* Every step keeps the invariant.
LEMMA InvStep ==
  ASSUME IInv, [Next]_vars
  PROVE  IInv'
<1>1. TypeInv /\ (\A q \in Procs : ProcInv(q)) /\ (Apart /\ late = {} => RingsInv)
  BY DEF IInv
<1>2. TypeInv'
  BY <1>1, TypeStep
<1>3. CASE UNCHANGED vars
  <2>1. UNCHANGED <<pc, header, cell, writer, reader, used, dead, sent, closed, late>>
    BY <1>3 DEF vars, memory
  <2>2. (Apart' <=> Apart) /\ (Covered' <=> Covered)
    BY <2>1 DEF Apart, Covered
  <2>3. \A q \in Procs : ProcInv(q)'
    BY <1>1, <2>1, <2>2 DEF ProcInv, Reading
  <2>4. Apart' /\ late' = {} => RingsInv'
    <3>1. \A q \in Procs : WriterInv(q) => WriterInv(q)'
      BY <2>1 DEF WriterInv
    <3> QED
      BY <1>1, <2>1, <2>2, <3>1 DEF RingsInv
  <2>5. ASSUME NEW q \in Procs, Exact(q)' PROVE ReaderInv(q)'
    <3>1. Exact(q)
      BY <2>1, <2>2, <2>5 DEF Exact, AllClosed
    <3>2. ReaderInv(q)
      BY <3>1 DEF IInv
    <3> QED
      BY <2>1, <3>2, ReaderFrame
  <2> QED
    BY <1>2, <2>3, <2>4, <2>5 DEF IInv
<1>4. ASSUME NEW p \in Procs,
             \/ DPI_Init(p) \/ UnknownBuffer(p) \/ DPI_Create_buffer(p) \/ Join(p)
             \/ DPI_Close_buffer(p) \/ DPI_Get_buffer(p) \/ ReadStep(p) \/ Use(p)
             \/ (\E k \in AppendSizes : DPI_Append(p, k)) \/ NextSegment(p)
      PROVE  IInv'
  <2>1. \A q \in Procs : ProcInv(q)'
    BY <1>1, <1>4, ProcStep
  <2>2. Apart' /\ late' = {} => RingsInv'
    BY <1>1, <1>4, RingsStep
  <2>3. \A q \in Procs : Exact(q)' => ReaderInv(q)'
    BY <1>2, <1>4, ReaderStep
  <2> QED
    BY <1>2, <2>1, <2>2, <2>3 DEF IInv
<1> QED
  BY <1>3, <1>4 DEF Next, DPI_Finalize

\* The inductive invariant: the memory of a buffer with one writer per ring is told by the
\* place of the writers, and a read of closed rings has what was appended up to its place.
THEOREM Invariance == Spec => []IInv
<1>1. Init => IInv
  BY InitInv
<1>2. IInv /\ [Next]_vars => IInv'
  BY InvStep
<1> QED
  BY <1>1, <1>2, PTL DEF Spec

\* DPI_Get_buffer on a buffer whose rings all have a writer and were closed returns all that
\* was appended, ring after ring, within the memory allocated for it.
THEOREM ReadExactly == Spec => []ClosedIsReadExactly
<1>1. IInv => ClosedIsReadExactly
  BY DEF IInv, ClosedIsReadExactly, ReaderInv, Exact
<1> QED
  BY <1>1, Invariance, PTL

=============================================================================
