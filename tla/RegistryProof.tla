----------------------------- MODULE RegistryProof -----------------------------
(***************************************************************************)
(* Theorems about Registry: entries lead to memory of their own, writers   *)
(* of a buffer registered once have rings of their own, handles stay good, *)
(* and what is written stays, but on nodes where a store went to offset 0. *)
(***************************************************************************)
EXTENDS Registry, SequenceTheorems, TLAPS

(***************************************************************************)
(* What the registry knows of a buffer: a name that is not known has no    *)
(* rings; rings are in allocated memory of a node that exists.             *)
(***************************************************************************)
HandlesInv ==
  /\ \A b \in Names : b \in known <=> registers[b] > 0
  /\ \A b \in known : node[b] \in NodeIds
  /\ \A b \in Names : b \notin known => rings[b] = << >>
  /\ \A b \in Names : \A i \in DOMAIN rings[b] :
       /\ node[b] \in Nodes
       /\ 0 <= First(shape[b], rings[b][i])
       /\ Past(shape[b], rings[b][i]) <= allocated[node[b]]

\* A ring of shape s at o ends before one of shape t at p starts, or the other way round.
Apart(s, o, t, p) == Past(s, o) <= First(t, p) \/ Past(t, p) <= First(s, o)

\* RingsDisjoint, for all names, by where rings start and end.
DisjointInv ==
  \A a, b \in Names : \A i \in DOMAIN rings[a], j \in DOMAIN rings[b] :
    node[a] = node[b] => \/ a = b /\ i = j
                         \/ Apart(shape[a], rings[a][i], shape[b], rings[b][j])

(***************************************************************************)
(* The writers.  A client that has not joined has no ring; one that has is *)
(* in an entry of its buffer, which is among those counted in joined and   *)
(* not another writer's, if the buffer was registered once.                *)
(***************************************************************************)
WritersInv ==
  /\ \A c \in Clients : pc[c] \in {"joined", "writer", "closed"} <=> ring[c] # NoRing
  /\ \A c \in Clients : ring[c] # NoRing /\ registers[buffer[c]] <= 1 =>
       \E i \in DOMAIN rings[buffer[c]] :
         i <= joined[buffer[c]] /\ rings[buffer[c]][i] = ring[c]
  /\ \A c, d \in Clients :
       c # d /\ ring[c] # NoRing /\ buffer[c] = buffer[d] /\ ring[c] = ring[d] =>
         registers[buffer[c]] > 1

\* Client c put what is in unit x of node n, in its ring.
InPlace(n, x, c) ==
  c \in Clients /\ ring[c] # NoRing /\ NodeOf(c) = n /\ x \in OwnUnits(c)

\* Where no store went to offset 0, everything is in the ring of who stored it.
ContentInv ==
  \A n \in Nodes : n \notin strayed =>
    \A x \in Units : content[n][x] = None \/ InPlace(n, x, content[n][x])

\* The step of WrittenIsKept.
KeptOf(c, x) ==
  content[NodeOf(c)][x] = c /\ content'[NodeOf(c)][x] # c =>
    /\ content'[NodeOf(c)][x] # None
    /\ NodeOf(c) \in strayed' \/ registers[buffer[c]] > 1
Kept == \A c \in Clients : ring[c] # NoRing => \A x \in OwnUnits(c) : KeptOf(c, x)

IInv == TypeOK /\ HandlesInv /\ DisjointInv /\ WritersInv /\ ContentInv

-----------------------------------------------------------------------------
LEMMA InitInv == Init => IInv
<1> SUFFICES ASSUME Init PROVE IInv
  OBVIOUS
<1> USE DEF Init
<1>1. TypeOK
  <2>1. up \in BOOLEAN
    BY Zenon
  <2>2. rings \in [Names -> Seq(Units)] /\ \A b \in Names : Len(rings[b]) = 0
    OBVIOUS
  <2>3. buffer \in [Clients -> Names] /\ shape \in [Names -> Shapes]
    BY RegistryAssumption
  <2>4. content \in [Nodes -> [Units -> Clients \cup Shapes \cup {None}]]
    OBVIOUS
  <2>5. allocated \in [Nodes -> 0 .. Room]
    BY RegistryAssumption
  <2> QED
    BY <2>1, <2>2, <2>3, <2>4, <2>5 DEF TypeOK
<1>2. HandlesInv
  BY DEF HandlesInv
<1>3. DisjointInv
  BY DEF DisjointInv
<1>4. WritersInv
  BY DEF WritersInv
<1>5. ContentInv
  BY DEF ContentInv
<1> QED
  BY <1>1, <1>2, <1>3, <1>4, <1>5 DEF IInv

\* A function on 1 .. g is a sequence of length g.
LEMMA FunctionIsSeq ==
  ASSUME NEW S, NEW g \in Nat, NEW f \in [1 .. g -> S]
  PROVE  f \in Seq(S) /\ Len(f) = g
OBVIOUS

\* A sequence with t behind it.
LEMMA ConcatType ==
  ASSUME NEW S, NEW s \in Seq(S), NEW t \in Seq(S)
  PROVE  /\ s \o t \in Seq(S)
         /\ Len(s \o t) = Len(s) + Len(t)
         /\ Len(s) \in Nat /\ Len(t) \in Nat
         /\ DOMAIN (s \o t) = 1 .. Len(s) + Len(t)
         /\ \A i \in 1 .. Len(s) : (s \o t)[i] = s[i]
         /\ \A i \in 1 .. Len(t) : (s \o t)[Len(s) + i] = t[i]
OBVIOUS

\* Multiples of e are at least e apart.
LEMMA MulStep ==
  ASSUME NEW a \in Nat, NEW b \in Nat, NEW e \in Nat, a < b
  PROVE  a * e + e <= b * e
<1> DEFINE d == b - a - 1
<1>1. d \in Nat /\ b = a + 1 + d
  OBVIOUS
<1> HIDE DEF d
<1>2. b * e = a * e + e + d * e
  BY <1>1
<1>3. d * e \in Nat /\ a * e \in Nat
  BY <1>1
<1> QED
  BY <1>2, <1>3

\* What \div gives.
LEMMA DivBound ==
  ASSUME NEW r \in Nat, NEW e \in Nat \ {0}
  PROVE  /\ r \div e \in Nat
         /\ (r \div e) * e <= r
         /\ r < (r \div e) * e + e
OBVIOUS

\* The numbers of a shape.
LEMMA ShapeType ==
  ASSUME NEW s \in Shapes
  PROVE  /\ s.lead \in Nat /\ s.count \in Nat \ {0} /\ s.size \in Nat \ {0}
         /\ Body(s) \in Nat \ {0} /\ Extent(s) \in Nat \ {0}
         /\ HeaderSize \in Nat \ {0} /\ HeaderSize <= s.size
<1>1. /\ s.lead \in Nat /\ s.count \in Nat \ {0} /\ s.size \in Nat \ {0}
      /\ HeaderSize \in Nat \ {0} /\ HeaderSize <= s.size
  BY RegistryAssumption DEF Shape
<1>2. Body(s) \in Nat \ {0}
  <2> DEFINE x == s.count
             y == s.size
  <2>1. x \in Nat \ {0} /\ y \in Nat \ {0}
    BY <1>1
  <2> HIDE DEF x, y
  <2>2. x * y \in Nat \ {0}
    <3>1. (x - 1) * y \in Nat /\ x * y = (x - 1) * y + y
      BY <2>1
    <3> QED
      BY <2>1, <3>1
  <2> QED
    BY <2>2 DEF Body, x, y
<1> QED
  BY <1>1, <1>2 DEF Extent

\* The counter and the headers of a ring are in its units.
LEMMA StoredInRing ==
  ASSUME NEW s \in Shapes, NEW o \in Int
  PROVE  /\ Headers(s, o) \subseteq RingUnits(s, o)
         /\ Counter(s, o) \subseteq RingUnits(s, o)
<1>1. /\ s.lead \in Nat /\ s.count \in Nat \ {0} /\ s.size \in Nat \ {0}
      /\ Body(s) \in Nat \ {0} /\ HeaderSize \in Nat \ {0} /\ HeaderSize <= s.size
  BY ShapeType
<1>2. ASSUME NEW i \in 0 .. s.count - 1, NEW j \in 0 .. HeaderSize - 1
      PROVE  o + i * s.size + j \in RingUnits(s, o)
  <2>1. i \in Nat /\ j \in Nat /\ i < s.count /\ j < s.size
    BY <1>1
  <2>2. i * s.size + s.size <= Body(s)
    BY <1>1, <2>1, MulStep DEF Body
  <2>3. i * s.size \in Nat
    BY <1>1, <2>1
  <2> DEFINE p == i * s.size
  <2> HIDE DEF p
  <2> QED
    BY <1>1, <2>1, <2>2, <2>3 DEF RingUnits, First, Past, p
<1> QED
  BY <1>1, <1>2 DEF Headers, Counter, RingUnits, First, Past

\* What the memory of a node gives for k rings.
LEMMA GrantedType ==
  ASSUME TypeOK, NEW n \in NodeIds, NEW k \in Nat, NEW s \in Shapes
  PROVE  /\ Granted(n, k, s) \in 0 .. k
         /\ n \notin Nodes => Granted(n, k, s) = 0
         /\ n \in Nodes => /\ allocated[n] \in 0 .. Room
                           /\ Granted(n, k, s) * Extent(s) \in Nat
                           /\ allocated[n] + Granted(n, k, s) * Extent(s) <= Room
<1> DEFINE e == Extent(s)
           r == Room - allocated[n]
<1>1. n \in Nat \ {0} /\ NumNodes \in Nat /\ Room \in Nat
  BY RegistryAssumption
<1>2. n \in Nodes <=> n <= NumNodes
  BY <1>1 DEF Nodes
<1>3. CASE n > NumNodes
  BY <1>1, <1>2, <1>3 DEF Granted
<1>4. CASE n <= NumNodes
  <2>1. allocated[n] \in 0 .. Room /\ r \in Nat /\ e \in Nat \ {0}
    BY <1>1, <1>2, <1>4, ShapeType DEF TypeOK
  <2>2. Granted(n, k, s) = IF k * e <= r THEN k ELSE r \div e
    BY <1>1, <1>4 DEF Granted
  <2>3. r = Room - allocated[n] /\ e = Extent(s)
    OBVIOUS
  <2> DEFINE q == r \div e
  <2> HIDE DEF e, r
  <2>4. q \in Nat /\ q * e <= r
    BY <2>1, DivBound
  <2> HIDE DEF q
  <2>5. CASE k * e <= r
    <3>1. k * e \in Nat
      BY <2>1
    <3> QED
      BY <1>1, <1>2, <1>4, <2>1, <2>2, <2>3, <2>5, <3>1
  <2>6. CASE ~(k * e <= r)
    <3>1. q * e \in Nat /\ k * e \in Nat
      BY <2>1, <2>4
    <3>2. ~(k < q)
      <4>1. SUFFICES ASSUME k < q PROVE FALSE
        OBVIOUS
      <4>2. k * e + e <= q * e
        BY <2>1, <2>4, <4>1, MulStep
      <4> QED
        BY <2>1, <2>4, <2>6, <3>1, <4>2
    <3> QED
      BY <1>1, <1>2, <1>4, <2>1, <2>2, <2>3, <2>4, <2>6, <3>1, <3>2 DEF q
  <2> QED
    BY <2>5, <2>6
<1> QED
  BY <1>1, <1>3, <1>4
\* New rings lie behind what is allocated, one after the other, and within the memory.
LEMMA NewRingsType ==
  ASSUME TypeOK, NEW n \in NodeIds, NEW k \in Nat, NEW s \in Shapes
  PROVE  /\ NewRings(n, k, s) \in Seq(Units)
         /\ Len(NewRings(n, k, s)) = Granted(n, k, s)
         /\ DOMAIN NewRings(n, k, s) = 1 .. Granted(n, k, s)
         /\ \A i \in 1 .. Granted(n, k, s) :
              /\ n \in Nodes /\ NewRings(n, k, s)[i] \in Units
              /\ First(s, NewRings(n, k, s)[i]) \in Nat
              /\ allocated[n] <= First(s, NewRings(n, k, s)[i])
              /\ Past(s, NewRings(n, k, s)[i]) \in Nat
              /\ Past(s, NewRings(n, k, s)[i]) <= allocated[n] + Granted(n, k, s) * Extent(s)
         /\ \A i, j \in 1 .. Granted(n, k, s) :
              i # j => Apart(s, NewRings(n, k, s)[i], s, NewRings(n, k, s)[j])
<1> DEFINE g == Granted(n, k, s)
           e == Extent(s)
           o == allocated[n]
           N(i) == o + (i - 1) * e + s.lead
<1>1. /\ g \in 0 .. k
      /\ n \notin Nodes => g = 0
      /\ n \in Nodes => o \in 0 .. Room /\ g * e \in Nat /\ o + g * e <= Room
  BY GrantedType
<1>2. /\ s.lead \in Nat /\ Body(s) \in Nat \ {0} /\ e \in Nat \ {0} /\ Room \in Nat
      /\ e = s.lead + Body(s)
  BY ShapeType, RegistryAssumption DEF Extent
<1>3. NewRings(n, k, s) = [i \in 1 .. g |-> N(i)]
  BY DEF NewRings
<1> HIDE DEF g, e, o
<1>4. ASSUME NEW i \in 1 .. g
      PROVE  /\ n \in Nodes /\ o \in Nat
             /\ (i - 1) * e \in Nat /\ (i - 1) * e + e <= g * e /\ g * e \in Nat
  <2>1. n \in Nodes /\ o \in 0 .. Room /\ g * e \in Nat
    BY <1>1
  <2>2. i - 1 \in Nat /\ g \in Nat /\ i - 1 < g
    BY <1>1
  <2>3. (i - 1) * e \in Nat
    BY <1>2, <2>2
  <2>4. (i - 1) * e + e <= g * e
    BY <1>2, <2>2, MulStep
  <2> QED
    BY <1>2, <2>1, <2>3, <2>4
<1>5. ASSUME NEW i \in 1 .. g
      PROVE  /\ N(i) \in Units /\ N(i) \in Nat
             /\ First(s, N(i)) = o + (i - 1) * e
             /\ Past(s, N(i)) = o + (i - 1) * e + e
             /\ First(s, N(i)) \in Nat /\ o <= First(s, N(i))
             /\ Past(s, N(i)) \in Nat /\ Past(s, N(i)) <= o + g * e
  <2> DEFINE p == (i - 1) * e
             q == g * e
  <2>1. o \in Nat /\ p \in Nat /\ q \in Nat /\ p + e <= q /\ o + q <= Room
    BY <1>1, <1>4
  <2>2. N(i) = o + p + s.lead
    OBVIOUS
  <2> HIDE DEF p, q
  <2>3. N(i) \in Units /\ N(i) \in Nat
    BY <1>2, <2>1, <2>2 DEF Units
  <2>4. First(s, N(i)) = o + p /\ Past(s, N(i)) = o + p + e
    BY <1>2, <2>1, <2>2 DEF First, Past
  <2> QED
    BY <1>2, <2>1, <2>3, <2>4 DEF p, q
<1>6. ASSUME NEW i \in 1 .. g, NEW j \in 1 .. g, i < j
      PROVE  Past(s, N(i)) <= First(s, N(j))
  <2>1. i - 1 \in Nat /\ j - 1 \in Nat /\ i - 1 < j - 1
    BY <1>1, <1>6
  <2>2. (i - 1) * e + e <= (j - 1) * e
    BY <1>2, <2>1, MulStep
  <2>3. /\ Past(s, N(i)) = o + (i - 1) * e + e
        /\ First(s, N(j)) = o + (j - 1) * e
    BY <1>5
  <2>4. (i - 1) * e \in Nat /\ (j - 1) * e \in Nat /\ o \in Nat
    BY <1>4
  <2> DEFINE p == (i - 1) * e
             q == (j - 1) * e
  <2> HIDE DEF p, q
  <2> QED
    BY <1>2, <2>2, <2>3, <2>4 DEF p, q
<1> HIDE DEF N
<1>7. \A i, j \in 1 .. g : i # j => Apart(s, N(i), s, N(j))
  <2>1. \A i, j \in 1 .. g : i # j => i < j \/ j < i
    BY <1>1
  <2> QED
    BY <1>6, <2>1 DEF Apart
<1>8. [i \in 1 .. g |-> N(i)] \in [1 .. g -> Units] /\ g \in Nat
  BY <1>1, <1>5
<1>9. NewRings(n, k, s) \in Seq(Units) /\ Len(NewRings(n, k, s)) = g
  BY <1>3, <1>8, FunctionIsSeq
<1>10. /\ DOMAIN NewRings(n, k, s) = 1 .. g
       /\ \A i \in 1 .. g : NewRings(n, k, s)[i] = N(i)
  BY <1>3
<1> QED
  BY <1>4, <1>5, <1>7, <1>9, <1>10 DEF g, e, o

\* The memory after an allocation: what is in allocated memory stays, if nothing is
\* refused, and in any case is not as the node server leaves a new ring.
LEMMA AllocRingsEffect ==
  ASSUME TypeOK, NEW n \in NodeIds, NEW k \in Nat, NEW s \in Shapes, AllocRings(n, k, s)
  PROVE  /\ allocated' \in [Nodes -> 0 .. Room]
         /\ content' \in [Nodes -> [Units -> Clients \cup Shapes \cup {None}]]
         /\ dead' \subseteq Nodes
         /\ strayed \subseteq strayed' /\ strayed' \subseteq Nodes
         /\ \A m \in Nodes :
              /\ allocated[m] <= allocated'[m]
              /\ m = n => allocated'[m] = allocated[m] + Granted(n, k, s) * Extent(s)
         /\ \A m \in Nodes : \A x \in Units :
              \/ content'[m][x] = content[m][x]
              \/ content'[m][x] = None /\ allocated[m] <= x
              \/ content'[m][x] \in Shapes /\ m \in strayed'
<1>1. n \in Nodes => /\ allocated[n] \in 0 .. Room
                     /\ Granted(n, k, s) * Extent(s) \in Nat
                     /\ allocated[n] + Granted(n, k, s) * Extent(s) <= Room
  BY GrantedType
<1>2. n \in Nat \ {0} /\ Room \in Nat /\ NumNodes \in Nat
  BY RegistryAssumption
<1>3. /\ allocated \in [Nodes -> 0 .. Room]
      /\ content \in [Nodes -> [Units -> Clients \cup Shapes \cup {None}]]
      /\ dead \subseteq Nodes /\ strayed \subseteq Nodes
  BY DEF TypeOK
<1>4. CASE n > NumNodes
  <2>1. UNCHANGED <<dead, allocated, content, strayed>> /\ n \notin Nodes
    BY <1>2, <1>4 DEF AllocRings, memory, Nodes
  <2>2. \A m \in Nodes : allocated[m] \in Int
    BY <1>2, <1>3
  <2> QED
    BY <1>3, <2>1, <2>2
<1>5. CASE n <= NumNodes
  <2> DEFINE f == [x \in Units |-> IF Refused(n, k, s) /\ x \in Misplaced(s) THEN s
                                   ELSE IF x \in Formatted(n, k, s) THEN None
                                   ELSE content[n][x]]
             u == Granted(n, k, s) * Extent(s)
  <2>1. n \in Nodes
    BY <1>2, <1>5 DEF Nodes
  <2>2. /\ allocated' = [allocated EXCEPT ![n] = @ + u]
        /\ content'   = [content EXCEPT ![n] = f]
        /\ strayed' = IF Refused(n, k, s) THEN strayed \cup {n} ELSE strayed
        /\ dead' = dead \/ dead' = dead \cup {n}
    BY <1>2, <1>5 DEF AllocRings
  <2>3. u \in Nat /\ allocated[n] \in 0 .. Room /\ allocated[n] + u <= Room
    BY <1>1, <2>1
  <2> HIDE DEF u
  <2>4. /\ allocated' \in [Nodes -> 0 .. Room]
        /\ allocated'[n] = allocated[n] + u
        /\ \A m \in Nodes : m # n => allocated'[m] = allocated[m]
    BY <1>2, <1>3, <2>1, <2>2, <2>3
  <2>5. \A m \in Nodes : allocated[m] <= allocated'[m]
    <3>1. \A m \in Nodes : allocated[m] \in Int
      BY <1>2, <1>3
    <3>2. allocated[n] <= allocated'[n]
      BY <2>1, <2>3, <2>4, <3>1
    <3> QED
      BY <2>4, <3>1, <3>2
  <2>6. f \in [Units -> Clients \cup Shapes \cup {None}]
    <3>1. content[n] \in [Units -> Clients \cup Shapes \cup {None}]
      BY <1>3, <2>1, Zenon
    <3> QED
      BY <3>1
  <2>7. \A x \in Formatted(n, k, s) : allocated[n] <= x
    <3>1. SUFFICES ASSUME NEW i \in 1 .. Granted(n, k, s),
                          NEW x \in Counter(s, NewRings(n, k, s)[i])
                                      \cup Headers(s, NewRings(n, k, s)[i])
                   PROVE  allocated[n] <= x
      BY DEF Formatted
    <3> DEFINE o == NewRings(n, k, s)[i]
    <3>2. o \in Units /\ First(s, o) \in Nat /\ allocated[n] <= First(s, o) /\ Past(s, o) \in Nat
      BY NewRingsType
    <3> HIDE DEF o
    <3>3. o \in Int
      BY <1>2, <3>2 DEF Units
    <3>4. x \in RingUnits(s, o)
      BY <3>1, <3>3, StoredInRing DEF o
    <3> QED
      BY <1>2, <2>3, <3>2, <3>4 DEF RingUnits
  <2>8. /\ content' \in [Nodes -> [Units -> Clients \cup Shapes \cup {None}]]
        /\ content'[n] = f
        /\ \A m \in Nodes : m # n => content'[m] = content[m]
    <3> HIDE DEF f
    <3> QED
      BY <1>3, <2>1, <2>2, <2>6
  <2>9. ASSUME NEW m \in Nodes, NEW x \in Units
        PROVE  \/ content'[m][x] = content[m][x]
               \/ content'[m][x] = None /\ allocated[m] <= x
               \/ content'[m][x] \in Shapes /\ m \in strayed'
    <3>1. CASE m # n
      BY <2>8, <3>1
    <3>2. CASE m = n
      <4>1. content'[n][x] = IF Refused(n, k, s) /\ x \in Misplaced(s) THEN s
                             ELSE IF x \in Formatted(n, k, s) THEN None
                             ELSE content[n][x]
        BY <2>8
      <4> QED
        BY <2>2, <2>7, <3>2, <4>1
    <3> QED
      BY <3>1, <3>2
  <2>10. strayed \subseteq strayed' /\ strayed' \subseteq Nodes /\ dead' \subseteq Nodes
    BY <1>3, <2>1, <2>2
  <2> QED
    BY <2>4, <2>5, <2>8, <2>9, <2>10 DEF u
<1> QED
  BY <1>2, <1>4, <1>5

-----------------------------------------------------------------------------
\* Where a ring of an entry lies.
LEMMA EntryType ==
  ASSUME IInv, NEW b \in Names, NEW i \in DOMAIN rings[b]
  PROVE  /\ shape[b] \in Shapes /\ node[b] \in Nodes
         /\ rings[b][i] \in Units /\ rings[b][i] \in Nat
         /\ First(shape[b], rings[b][i]) \in Nat
         /\ First(shape[b], rings[b][i]) <= rings[b][i]
         /\ Past(shape[b], rings[b][i]) \in Nat
         /\ rings[b][i] < Past(shape[b], rings[b][i])
         /\ Past(shape[b], rings[b][i]) <= allocated[node[b]]
         /\ allocated[node[b]] \in 0 .. Room
<1>1. Room \in Nat
  BY RegistryAssumption
<1>2. /\ shape[b] \in Shapes /\ rings[b] \in Seq(Units)
      /\ node[b] \in Nodes /\ 0 <= First(shape[b], rings[b][i])
      /\ Past(shape[b], rings[b][i]) <= allocated[node[b]]
      /\ allocated \in [Nodes -> 0 .. Room]
  BY DEF IInv, TypeOK, HandlesInv
<1>3. rings[b][i] \in Units /\ rings[b][i] \in Nat
  BY <1>1, <1>2 DEF Units
<1>4. shape[b].lead \in Nat /\ Body(shape[b]) \in Nat \ {0}
  BY <1>2, ShapeType
<1> QED
  BY <1>1, <1>2, <1>3, <1>4 DEF First, Past

\* Entries with a unit in common are the same.
LEMMA OverlapIsSame ==
  ASSUME IInv, NEW a \in Names, NEW b \in Names,
         NEW i \in DOMAIN rings[a], NEW j \in DOMAIN rings[b], node[a] = node[b],
         NEW x \in RingUnits(shape[a], rings[a][i]), x \in RingUnits(shape[b], rings[b][j])
  PROVE  a = b /\ i = j
<1>1. /\ First(shape[a], rings[a][i]) \in Nat /\ Past(shape[a], rings[a][i]) \in Nat
      /\ First(shape[b], rings[b][j]) \in Nat /\ Past(shape[b], rings[b][j]) \in Nat
  BY EntryType
<1>2. ~Apart(shape[a], rings[a][i], shape[b], rings[b][j])
  BY <1>1 DEF Apart, RingUnits
<1> QED
  BY <1>2 DEF IInv, DisjointInv

\* So are entries with the same offset.
LEMMA SameOffsetIsSame ==
  ASSUME IInv, NEW a \in Names, NEW b \in Names,
         NEW i \in DOMAIN rings[a], NEW j \in DOMAIN rings[b], node[a] = node[b],
         rings[a][i] = rings[b][j]
  PROVE  a = b /\ i = j
<1>1. rings[a][i] \in RingUnits(shape[a], rings[a][i])
  BY EntryType DEF RingUnits
<1>2. rings[b][j] \in RingUnits(shape[b], rings[b][j])
  BY EntryType DEF RingUnits
<1> QED
  BY <1>1, <1>2, OverlapIsSame

\* The ring of a writer is an entry of its buffer.
LEMMA WriterType ==
  ASSUME IInv, NEW c \in Clients, ring[c] # NoRing
  PROVE  /\ buffer[c] \in Names /\ ShapeOf(c) \in Shapes /\ NodeOf(c) \in Nodes
         /\ buffer[c] \in known
         /\ OwnUnits(c) \subseteq Units
         /\ \A x \in OwnUnits(c) : x \in Nat /\ x < allocated[NodeOf(c)]
         /\ Headers(ShapeOf(c), ring[c]) \subseteq OwnUnits(c)
         /\ Counter(ShapeOf(c), ring[c]) \subseteq OwnUnits(c)
<1>1. buffer[c] \in Names /\ rings[buffer[c]] \in Seq(Units)
  BY DEF IInv, TypeOK
<1>2. PICK i \in DOMAIN rings[buffer[c]] : rings[buffer[c]][i] = ring[c]
  BY DEF IInv, TypeOK
<1>3. /\ ShapeOf(c) \in Shapes /\ NodeOf(c) \in Nodes /\ ring[c] \in Nat
      /\ First(ShapeOf(c), ring[c]) \in Nat /\ Past(ShapeOf(c), ring[c]) \in Nat
      /\ Past(ShapeOf(c), ring[c]) <= allocated[NodeOf(c)]
      /\ allocated[NodeOf(c)] \in 0 .. Room
  BY <1>1, <1>2, EntryType DEF ShapeOf, NodeOf
<1>4. Room \in Nat
  BY RegistryAssumption
<1>5. \A x \in OwnUnits(c) : x \in Units /\ x \in Nat /\ x < allocated[NodeOf(c)]
  BY <1>3, <1>4 DEF OwnUnits, RingUnits, Units
<1>6. /\ Headers(ShapeOf(c), ring[c]) \subseteq OwnUnits(c)
      /\ Counter(ShapeOf(c), ring[c]) \subseteq OwnUnits(c)
  BY <1>3, StoredInRing DEF OwnUnits
<1>7. buffer[c] \in known
  BY <1>1, <1>2 DEF IInv, HandlesInv
<1> QED
  BY <1>1, <1>3, <1>5, <1>6, <1>7

\* Writers of one node with a unit in common were given the same ring.
LEMMA OverlapIsSameRing ==
  ASSUME IInv, NEW c \in Clients, NEW d \in Clients, ring[c] # NoRing, ring[d] # NoRing,
         NodeOf(c) = NodeOf(d), NEW x \in OwnUnits(c), x \in OwnUnits(d)
  PROVE  SameRing(c, d) /\ buffer[c] = buffer[d]
<1>1. buffer[c] \in Names /\ buffer[d] \in Names
  BY DEF IInv, TypeOK
<1>2. PICK i \in DOMAIN rings[buffer[c]] : rings[buffer[c]][i] = ring[c]
  BY DEF IInv, TypeOK
<1>3. PICK j \in DOMAIN rings[buffer[d]] : rings[buffer[d]][j] = ring[d]
  BY DEF IInv, TypeOK
<1>4. buffer[c] = buffer[d] /\ i = j
  BY <1>1, <1>2, <1>3, OverlapIsSame DEF OwnUnits, ShapeOf, NodeOf
<1> QED
  BY <1>2, <1>3, <1>4 DEF SameRing, NodeOf

\* Where no store went to offset 0 nobody is led astray.
LEMMA NotAstray ==
  ASSUME IInv, NEW c \in Clients, ring[c] # NoRing, NodeOf(c) \notin strayed
  PROVE  ~Astray(c)
<1>1. SUFFICES ASSUME NEW x \in Headers(ShapeOf(c), ring[c]) PROVE Proper(c, x)
  BY DEF Astray
<1>2. NodeOf(c) \in Nodes /\ x \in OwnUnits(c) /\ x \in Units
  BY <1>1, WriterType
<1>3. CASE content[NodeOf(c)][x] = None
  BY <1>3 DEF Proper
<1>4. CASE InPlace(NodeOf(c), x, content[NodeOf(c)][x])
  <2> DEFINE d == content[NodeOf(c)][x]
  <2>1. d \in Clients /\ ring[d] # NoRing /\ NodeOf(d) = NodeOf(c) /\ x \in OwnUnits(d)
    BY <1>4 DEF InPlace
  <2> HIDE DEF d
  <2>2. SameRing(d, c)
    BY <1>2, <2>1, OverlapIsSameRing
  <2> QED
    BY <2>1, <2>2 DEF Proper, d
<1> QED
  BY <1>2, <1>3, <1>4 DEF IInv, ContentInv

-----------------------------------------------------------------------------
\* The places of clients.
Places == {"idle", "retrieve", "join", "joined", "writer", "closed", "crashed"}

(***************************************************************************)
(* Content stays in place when writers keep their rings, and what is new   *)
(* in memory is as the node server leaves it.                              *)
(***************************************************************************)
LEMMA ContentKept ==
  ASSUME IInv,
         strayed \subseteq strayed',
         \A c \in Clients : ring[c] # NoRing =>
            /\ ring'[c] = ring[c] /\ buffer'[c] = buffer[c]
            /\ node'[buffer[c]] = node[buffer[c]] /\ shape'[buffer[c]] = shape[buffer[c]],
         \A n \in Nodes : n \notin strayed' =>
            \A x \in Units : content'[n][x] = None \/ content'[n][x] = content[n][x]
  PROVE  ContentInv'
<1>1. SUFFICES ASSUME NEW n \in Nodes, n \notin strayed', NEW x \in Units,
                      content'[n][x] # None
               PROVE  InPlace(n, x, content[n][x])'
  BY DEF ContentInv
<1> DEFINE c == content[n][x]
<1>2. content'[n][x] = c /\ n \notin strayed /\ c # None
  BY <1>1
<1>3. InPlace(n, x, c)
  BY <1>1, <1>2 DEF IInv, ContentInv
<1> HIDE DEF c
<1>4. /\ c \in Clients /\ ring[c] # NoRing /\ NodeOf(c) = n /\ x \in OwnUnits(c)
  BY <1>3 DEF InPlace
<1>5. /\ ring'[c] = ring[c] /\ buffer'[c] = buffer[c]
      /\ node'[buffer[c]] = node[buffer[c]] /\ shape'[buffer[c]] = shape[buffer[c]]
  BY <1>4
<1>6. /\ c \in Clients /\ ring'[c] # NoRing /\ node'[buffer'[c]] = n
      /\ x \in RingUnits(shape'[buffer'[c]], ring'[c])
  BY <1>4, <1>5 DEF NodeOf, ShapeOf, OwnUnits
<1>7. (content[n][x])' = c
  BY <1>2
<1> QED
  BY <1>6, <1>7 DEF InPlace, NodeOf, ShapeOf, OwnUnits, RingUnits, First, Past, Body

\* Nobody is a writer of a buffer without rings.
LEMMA NoWriterYet ==
  ASSUME IInv, NEW b \in Names, b \notin known, NEW c \in Clients, ring[c] # NoRing
  PROVE  buffer[c] # b
BY WriterType

(***************************************************************************)
(* A register request, by a client that keeps its ring, or that turns to   *)
(* the buffer and has no ring yet.                                         *)
(***************************************************************************)
LEMMA HandleRegisterInv ==
  ASSUME IInv, NEW b \in Names, NEW n \in NodeIds, NEW k \in Appenders, NEW s \in Shapes,
         HandleRegister(b, n, k, s),
         ring' = ring,
         buffer' \in [Clients -> Names],
         pc' \in [Clients -> Places],
         \A c \in Clients : ring[c] # NoRing => buffer'[c] = buffer[c],
         \A c \in Clients : pc'[c] \in {"joined", "writer", "closed"} <=> ring[c] # NoRing
  PROVE  IInv'
<1>1. k \in Nat /\ n \in Nat \ {0} /\ Room \in Nat
  BY RegistryAssumption
<1>2. TypeOK /\ HandlesInv /\ DisjointInv /\ WritersInv
  BY DEF IInv
<1>3. /\ joined' = [joined EXCEPT ![b] = 0]
      /\ registers' = [registers EXCEPT ![b] = @ + 1]
      /\ created' = created
  BY DEF HandleRegister
<1>4. /\ joined' \in [Names -> Nat] /\ joined'[b] = 0
      /\ registers' \in [Names -> Nat] /\ registers'[b] = registers[b] + 1
      /\ \A a \in Names : a # b => joined'[a] = joined[a] /\ registers'[a] = registers[a]
      /\ registers[b] \in Nat
  BY <1>2, <1>3 DEF TypeOK
<1>5. up' \in BOOLEAN
  <2>1. up' = up \/ up' = (dead' = dead)
    BY Zenon DEF HandleRegister
  <2> QED
    BY <1>2, <2>1, Zenon DEF TypeOK
<1>6. CASE b \notin known
  <2>1. /\ known' = known \cup {b}
        /\ node'  = [node EXCEPT ![b] = n]
        /\ shape' = [shape EXCEPT ![b] = s]
        /\ rings' = [rings EXCEPT ![b] = NewRings(n, k, s)]
        /\ AllocRings(n, k, s)
    BY <1>6 DEF HandleRegister
  <2> DEFINE g == Granted(n, k, s)
             u == g * Extent(s)
             new == NewRings(n, k, s)
  <2>2. /\ allocated' \in [Nodes -> 0 .. Room]
        /\ content' \in [Nodes -> [Units -> Clients \cup Shapes \cup {None}]]
        /\ dead' \subseteq Nodes
        /\ strayed \subseteq strayed' /\ strayed' \subseteq Nodes
        /\ \A m \in Nodes : /\ allocated[m] <= allocated'[m]
                            /\ m = n => allocated'[m] = allocated[m] + u
        /\ \A m \in Nodes : \A x \in Units :
             \/ content'[m][x] = content[m][x]
             \/ content'[m][x] = None
             \/ m \in strayed'
    BY <1>1, <1>2, <2>1, AllocRingsEffect
  <2>3. /\ new \in Seq(Units)
        /\ DOMAIN new = 1 .. g
        /\ \A i \in 1 .. g :
             /\ n \in Nodes /\ new[i] \in Units
             /\ First(s, new[i]) \in Nat /\ allocated[n] <= First(s, new[i])
             /\ Past(s, new[i]) \in Nat /\ Past(s, new[i]) <= allocated[n] + u
        /\ \A i, j \in 1 .. g : i # j => Apart(s, new[i], s, new[j])
    BY <1>1, <1>2, NewRingsType
  <2>4. n \in Nodes => u \in Nat /\ allocated[n] \in 0 .. Room
    BY <1>1, <1>2, GrantedType
  <2> HIDE DEF g, u
  <2>5. /\ rings' \in [Names -> Seq(Units)]
        /\ rings'[b] = new
        /\ \A a \in Names : a # b => rings'[a] = rings[a]
        /\ node' \in [Names -> NodeIds \cup {0}]
        /\ node'[b] = n
        /\ \A a \in Names : a # b => node'[a] = node[a]
        /\ shape' \in [Names -> Shapes]
        /\ shape'[b] = s
        /\ \A a \in Names : a # b => shape'[a] = shape[a]
        /\ known' \subseteq Names
    BY <1>2, <2>1, <2>3 DEF TypeOK
  <2> HIDE DEF new
  <2>6. \A c \in Clients : ring[c] # NoRing => buffer[c] # b /\ buffer[c] \in Names
    BY <1>6, NoWriterYet DEF IInv, TypeOK
  <2>7. TypeOK'
    <3>1. \A a \in Names : joined'[a] <= Len(rings'[a])
      <4>1. Len(rings'[b]) \in Nat
        BY <2>5
      <4>2. 0 <= Len(rings'[b])
        BY <4>1
      <4>3. \A a \in Names : joined[a] <= Len(rings[a])
        BY <1>2 DEF TypeOK
      <4> QED
        BY <1>4, <2>5, <4>2, <4>3
    <3>2. \A c \in Clients : ring'[c] # NoRing =>
            \E i \in DOMAIN rings'[buffer'[c]] : rings'[buffer'[c]][i] = ring'[c]
      BY <1>2, <2>5, <2>6 DEF TypeOK
    <3>3. ring' \in [Clients -> Units \cup {NoRing}] /\ created' \in [Names -> Nat]
      BY <1>2, <1>3 DEF TypeOK
    <3> QED
      BY <1>4, <1>5, <2>2, <2>5, <3>1, <3>2, <3>3 DEF TypeOK, Places, Units, NoRing, Nodes
  <2>8. HandlesInv'
    <3>1. \A a \in Names : a \in known' <=> registers'[a] > 0
      <4>1. \A a \in Names : a \in known <=> registers[a] > 0
        BY <1>2 DEF HandlesInv
      <4>2. registers'[b] > 0
        BY <1>4
      <4> QED
        BY <1>4, <2>1, <4>1, <4>2
    <3>2. \A a \in Names : a \notin known' => rings'[a] = << >>
      BY <1>2, <2>1, <2>5 DEF HandlesInv
    <3>3. ASSUME NEW a \in Names, NEW i \in DOMAIN rings'[a]
          PROVE  /\ node'[a] \in Nodes
                 /\ 0 <= First(shape'[a], rings'[a][i])
                 /\ Past(shape'[a], rings'[a][i]) <= allocated'[node'[a]]
      <4>1. CASE a = b
        <5>1. /\ n \in Nodes /\ First(s, new[i]) \in Nat
              /\ Past(s, new[i]) <= allocated[n] + u
          BY <2>3, <2>5, <3>3, <4>1
        <5>2. 0 <= First(s, new[i])
          BY <5>1
        <5> QED
          BY <2>2, <2>5, <4>1, <5>1, <5>2
      <4>2. CASE a # b
        <5>1. /\ i \in DOMAIN rings[a] /\ rings'[a] = rings[a]
              /\ shape'[a] = shape[a] /\ node'[a] = node[a]
          BY <2>5, <3>3, <4>2
        <5>2. /\ node[a] \in Nodes /\ First(shape[a], rings[a][i]) \in Nat
              /\ Past(shape[a], rings[a][i]) \in Nat
              /\ Past(shape[a], rings[a][i]) <= allocated[node[a]]
              /\ allocated[node[a]] \in 0 .. Room
          BY <5>1, EntryType
        <5>3. allocated'[node[a]] \in 0 .. Room /\ allocated[node[a]] <= allocated'[node[a]]
          BY <2>2, <5>2
        <5>4. /\ 0 <= First(shape[a], rings[a][i])
              /\ Past(shape[a], rings[a][i]) <= allocated'[node[a]]
          BY <1>1, <5>2, <5>3
        <5> QED
          BY <5>1, <5>2, <5>4
      <4> QED
        BY <4>1, <4>2
    <3>4. \A a \in known' : node'[a] \in NodeIds
      BY <1>2, <2>1, <2>5 DEF HandlesInv, TypeOK
    <3> QED
      BY <3>1, <3>2, <3>3, <3>4 DEF HandlesInv, Nodes, First, Past, Body
  <2>9. DisjointInv'
    <3>1. ASSUME NEW a \in Names, a # b, NEW i \in DOMAIN rings'[a], NEW j \in DOMAIN rings'[b],
                 node'[a] = node'[b]
          PROVE  Past(shape'[a], rings'[a][i]) <= First(shape'[b], rings'[b][j])
      <4>1. i \in DOMAIN rings[a] /\ node[a] = n
        BY <2>5, <3>1
      <4>2. /\ Past(shape[a], rings[a][i]) \in Nat
            /\ Past(shape[a], rings[a][i]) <= allocated[n]
        BY <4>1, EntryType
      <4>3. /\ allocated[n] \in 0 .. Room /\ First(s, new[j]) \in Nat
            /\ allocated[n] <= First(s, new[j])
        BY <2>3, <2>4, <2>5, <3>1
      <4>4. Past(shape[a], rings[a][i]) <= First(s, new[j])
        BY <1>1, <4>2, <4>3
      <4> QED
        BY <2>5, <3>1, <4>4
    <3>2. ASSUME NEW i \in DOMAIN rings'[b], NEW j \in DOMAIN rings'[b], i # j
          PROVE  Apart(s, rings'[b][i], s, rings'[b][j])
      BY <2>3, <2>5, <3>2
    <3>3. ASSUME NEW a \in Names, NEW d \in Names, NEW i \in DOMAIN rings'[a],
                 NEW j \in DOMAIN rings'[d], node'[a] = node'[d], ~(a = d /\ i = j)
          PROVE  Apart(shape'[a], rings'[a][i], shape'[d], rings'[d][j])
      <4>1. CASE a # b /\ d # b
        <5>1. /\ i \in DOMAIN rings[a] /\ j \in DOMAIN rings[d] /\ node[a] = node[d]
              /\ rings'[a] = rings[a] /\ rings'[d] = rings[d]
              /\ shape'[a] = shape[a] /\ shape'[d] = shape[d]
          BY <2>5, <3>3, <4>1
        <5> QED
          BY <1>2, <3>3, <5>1 DEF DisjointInv
      <4>2. CASE a = b /\ d # b
        BY <3>1, <3>3, <4>2 DEF Apart
      <4>3. CASE a # b /\ d = b
        BY <3>1, <3>3, <4>3 DEF Apart
      <4>4. CASE a = b /\ d = b
        BY <2>5, <3>2, <3>3, <4>4
      <4> QED
        BY <4>1, <4>2, <4>3, <4>4
    <3> QED
      BY <3>3 DEF DisjointInv, Apart, First, Past, Body
  <2>10. WritersInv'
    <3>1. ASSUME NEW c \in Clients, ring[c] # NoRing
          PROVE  /\ buffer'[c] = buffer[c] /\ buffer[c] \in Names
                 /\ registers'[buffer[c]] = registers[buffer[c]]
                 /\ joined'[buffer[c]] = joined[buffer[c]]
                 /\ rings'[buffer[c]] = rings[buffer[c]]
      BY <1>4, <2>5, <2>6, <3>1
    <3>2. ASSUME NEW c \in Clients, ring'[c] # NoRing, (registers[buffer[c]] <= 1)'
          PROVE  \E i \in DOMAIN rings'[buffer'[c]] :
                   i <= joined'[buffer'[c]] /\ rings'[buffer'[c]][i] = ring'[c]
      BY <1>2, <3>1, <3>2 DEF WritersInv
    <3>3. ASSUME NEW c \in Clients, NEW d \in Clients, c # d, ring'[c] # NoRing,
                 buffer'[c] = buffer'[d], ring'[c] = ring'[d]
          PROVE  registers'[buffer'[c]] > 1
      BY <1>2, <3>1, <3>3 DEF WritersInv
    <3> QED
      BY <3>2, <3>3 DEF WritersInv, NoRing
  <2>11. ContentInv'
    <3>1. \A c \in Clients : ring[c] # NoRing =>
            /\ ring'[c] = ring[c] /\ buffer'[c] = buffer[c]
            /\ node'[buffer[c]] = node[buffer[c]] /\ shape'[buffer[c]] = shape[buffer[c]]
      BY <2>5, <2>6
    <3> QED
      BY <2>2, <3>1, ContentKept
  <2> QED
    BY <2>7, <2>8, <2>9, <2>10, <2>11 DEF IInv
<1>7. CASE b \in known
  <2>1. UNCHANGED <<known, node, shape, rings, dead, allocated, content, strayed>>
    BY <1>7 DEF HandleRegister, memory
  <2>2. registers'[b] > 1
    BY <1>2, <1>4, <1>7 DEF HandlesInv
  <2>3. TypeOK'
    <3>1. \A a \in Names : joined'[a] <= Len(rings'[a])
      <4>1. /\ rings' = rings /\ rings[b] \in Seq(Units)
            /\ \A a \in Names : joined[a] <= Len(rings[a])
        BY <1>2, <2>1 DEF TypeOK
      <4>2. 0 <= Len(rings[b])
        BY <4>1
      <4> QED
        BY <1>4, <4>1, <4>2
    <3>2. \A c \in Clients : ring'[c] # NoRing =>
            \E i \in DOMAIN rings'[buffer'[c]] : rings'[buffer'[c]][i] = ring'[c]
      BY <1>2, <2>1 DEF TypeOK
    <3> QED
      BY <1>2, <1>3, <1>4, <1>5, <2>1, <3>1, <3>2 DEF TypeOK, Places
  <2>4. HandlesInv'
    <3>1. \A a \in Names : a \in known' <=> registers'[a] > 0
      <4>1. \A a \in Names : a \in known <=> registers[a] > 0
        BY <1>2 DEF HandlesInv
      <4>2. registers'[b] > 0
        BY <1>4
      <4> QED
        BY <1>4, <1>7, <2>1, <4>1, <4>2
    <3> QED
      BY <1>2, <2>1, <3>1 DEF HandlesInv
  <2>5. DisjointInv'
    BY <1>2, <2>1 DEF DisjointInv
  <2>6. WritersInv'
    <3>1. ASSUME NEW c \in Clients, ring[c] # NoRing
          PROVE  /\ buffer'[c] = buffer[c] /\ buffer[c] \in Names
                 /\ registers'[buffer[c]] > 1 \/
                      /\ registers'[buffer[c]] = registers[buffer[c]]
                      /\ joined'[buffer[c]] = joined[buffer[c]]
      BY <1>2, <1>4, <2>2, <3>1 DEF TypeOK
    <3>2. ASSUME NEW c \in Clients, ring'[c] # NoRing, (registers[buffer[c]] <= 1)'
          PROVE  \E i \in DOMAIN rings'[buffer'[c]] :
                   i <= joined'[buffer'[c]] /\ rings'[buffer'[c]][i] = ring'[c]
      <4>1. registers'[buffer[c]] \in Nat
        BY <1>4, <3>1, <3>2
      <4> QED
        BY <1>2, <2>1, <3>1, <3>2, <4>1 DEF WritersInv
    <3>3. ASSUME NEW c \in Clients, NEW d \in Clients, c # d, ring'[c] # NoRing,
                 buffer'[c] = buffer'[d], ring'[c] = ring'[d]
          PROVE  registers'[buffer'[c]] > 1
      BY <1>2, <3>1, <3>3 DEF WritersInv
    <3> QED
      BY <3>2, <3>3 DEF WritersInv
  <2>7. ContentInv'
    <3>1. \A c \in Clients : ring[c] # NoRing =>
            /\ ring'[c] = ring[c] /\ buffer'[c] = buffer[c]
            /\ node'[buffer[c]] = node[buffer[c]] /\ shape'[buffer[c]] = shape[buffer[c]]
      BY <2>1
    <3> QED
      BY <2>1, <3>1, ContentKept
  <2> QED
    BY <2>3, <2>4, <2>5, <2>6, <2>7 DEF IInv
<1> QED
  BY <1>6, <1>7

\* A client goes on without the registry giving it anything.
LEMMA ClientMovesInv ==
  ASSUME IInv,
         UNCHANGED <<server, memory, ring, history>>,
         buffer' \in [Clients -> Names],
         pc' \in [Clients -> Places],
         \A c \in Clients : ring[c] # NoRing => buffer'[c] = buffer[c],
         \A c \in Clients : pc'[c] \in {"joined", "writer", "closed"} <=> ring[c] # NoRing
  PROVE  IInv'
<1>1. TypeOK /\ HandlesInv /\ DisjointInv /\ WritersInv
  BY DEF IInv
<1>2. UNCHANGED <<up, known, node, shape, rings, joined, dead, allocated, content, ring,
                registers, created, strayed>>
  BY DEF server, memory, history
<1>3. TypeOK'
  <2>1. up' \in BOOLEAN
    BY <1>1, <1>2, Zenon DEF TypeOK
  <2>2. \A c \in Clients : ring'[c] # NoRing =>
          \E i \in DOMAIN rings'[buffer'[c]] : rings'[buffer'[c]][i] = ring'[c]
    BY <1>1, <1>2 DEF TypeOK
  <2> QED
    BY <1>1, <1>2, <2>1, <2>2 DEF TypeOK, Places
<1>4. HandlesInv'
  BY <1>1, <1>2 DEF HandlesInv
<1>5. DisjointInv'
  BY <1>1, <1>2 DEF DisjointInv
<1>6. WritersInv'
  <2>1. ASSUME NEW c \in Clients, ring'[c] # NoRing, (registers[buffer[c]] <= 1)'
        PROVE  \E i \in DOMAIN rings'[buffer'[c]] :
                 i <= joined'[buffer'[c]] /\ rings'[buffer'[c]][i] = ring'[c]
    BY <1>1, <1>2, <2>1 DEF WritersInv
  <2>2. ASSUME NEW c \in Clients, NEW d \in Clients, c # d, ring'[c] # NoRing,
               buffer'[c] = buffer'[d], ring'[c] = ring'[d]
        PROVE  registers'[buffer'[c]] > 1
    BY <1>1, <1>2, <2>2 DEF WritersInv
  <2>3. \A c \in Clients : pc'[c] \in {"joined", "writer", "closed"} <=> ring'[c] # NoRing
    BY <1>2
  <2> QED
    BY <2>1, <2>2, <2>3 DEF WritersInv
<1>7. ContentInv'
  BY <1>2, ContentKept
<1> QED
  BY <1>3, <1>4, <1>5, <1>6, <1>7 DEF IInv

LEMMA RegisterBufferInv ==
  ASSUME IInv, NEW c \in Clients, NEW b \in Names, NEW n \in NodeIds, NEW k \in Appenders,
         NEW s \in Shapes, RegisterBuffer(c, b, n, k, s)
  PROVE  IInv'
<1>1. HandleRegister(b, n, k, s) /\ UNCHANGED <<pc, buffer, ring>>
  BY DEF RegisterBuffer, clients
<1> QED
  BY <1>1, HandleRegisterInv DEF IInv, TypeOK, WritersInv, Places

LEMMA CreateBufferInv ==
  ASSUME IInv, NEW c \in Clients, NEW b \in Names, NEW n \in NodeIds, NEW k \in Appenders,
         NEW s \in Shapes, CreateBuffer(c, b, n, k, s)
  PROVE  IInv'
<1>1. /\ HandleRegister(b, n, k, s) /\ ring' = ring
      /\ buffer' \in [Clients -> Names]
      /\ pc' \in [Clients -> Places]
  BY DEF CreateBuffer, IInv, TypeOK, Places
<1>2. ring[c] = NoRing
  BY DEF CreateBuffer, IInv, TypeOK, WritersInv
<1>3. \A d \in Clients : ring[d] # NoRing => buffer'[d] = buffer[d]
  BY <1>2 DEF CreateBuffer, IInv, TypeOK, Places
<1>4. \A d \in Clients : pc'[d] \in {"joined", "writer", "closed"} <=> ring[d] # NoRing
  BY <1>2 DEF CreateBuffer, IInv, TypeOK, WritersInv
<1> QED
  BY <1>1, <1>3, <1>4, HandleRegisterInv

LEMMA RetrieveBufferInv ==
  ASSUME IInv, NEW c \in Clients, RetrieveBuffer(c)
  PROVE  IInv'
<1>1. /\ UNCHANGED <<server, memory, ring, history>> /\ buffer' = buffer
      /\ pc' \in [Clients -> Places]
  BY DEF RetrieveBuffer, IInv, TypeOK, Places
<1>2. \A d \in Clients : pc'[d] \in {"joined", "writer", "closed"} <=> ring[d] # NoRing
  BY DEF RetrieveBuffer, IInv, TypeOK, WritersInv
<1> QED
  BY <1>1, <1>2, ClientMovesInv DEF IInv, TypeOK, Places

LEMMA NewWriterInv ==
  ASSUME IInv, NEW c \in Clients, NEW b \in Names, NewWriter(c, b)
  PROVE  IInv'
<1>1. /\ UNCHANGED <<server, memory, ring, history>>
      /\ buffer' \in [Clients -> Names]
      /\ pc' \in [Clients -> Places]
  BY DEF NewWriter, IInv, TypeOK, Places
<1>2. ring[c] = NoRing
  BY DEF NewWriter, IInv, TypeOK, WritersInv
<1>3. \A d \in Clients : ring[d] # NoRing => buffer'[d] = buffer[d]
  BY <1>2 DEF NewWriter, IInv, TypeOK, Places
<1>4. \A d \in Clients : pc'[d] \in {"joined", "writer", "closed"} <=> ring[d] # NoRing
  BY <1>2 DEF NewWriter, IInv, TypeOK, WritersInv
<1> QED
  BY <1>1, <1>3, <1>4, ClientMovesInv

LEMMA JoinFailsInv ==
  ASSUME IInv, NEW c \in Clients, JoinFails(c)
  PROVE  IInv'
<1>1. /\ UNCHANGED <<server, memory, ring, history>> /\ buffer' = buffer
      /\ pc' \in [Clients -> Places]
  BY DEF JoinFails, IInv, TypeOK, Places
<1>2. \A d \in Clients : pc'[d] \in {"joined", "writer", "closed"} <=> ring[d] # NoRing
  BY DEF JoinFails, IInv, TypeOK, WritersInv
<1> QED
  BY <1>1, <1>2, ClientMovesInv DEF IInv, TypeOK, Places

(***************************************************************************)
(* The ring given to an appender is the first entry that is not counted:   *)
(* with one registration no writer is in it yet.                           *)
(***************************************************************************)
LEMMA JoinBufferInv ==
  ASSUME IInv, NEW c \in Clients, JoinBuffer(c)
  PROVE  IInv'
<1> DEFINE b == buffer[c]
           e == joined[b] + 1
<1>1. TypeOK /\ HandlesInv /\ DisjointInv /\ WritersInv /\ Room \in Nat
  BY RegistryAssumption DEF IInv
<1>2. /\ UNCHANGED <<up, known, node, shape, rings, dead, allocated, content,
                   registers, created, strayed, buffer>>
      /\ ring' = [ring EXCEPT ![c] = rings[b][e]]
      /\ joined' = [joined EXCEPT ![b] = joined[b] + 1]
      /\ pc' = [pc EXCEPT ![c] = "joined"]
      /\ pc[c] = "join" /\ joined[b] # Len(rings[b])
  BY DEF JoinBuffer, HandleJoin, CanJoin, memory, history
<1>3. b \in Names /\ rings[b] \in Seq(Units) /\ joined[b] \in Nat /\ joined[b] <= Len(rings[b])
  BY <1>1 DEF TypeOK
<1>4. e \in 1 .. Len(rings[b]) /\ DOMAIN rings[b] = 1 .. Len(rings[b]) /\ Len(rings[b]) \in Nat
  BY <1>2, <1>3
<1>5. rings[b][e] \in Units
  BY <1>3, <1>4, ElementOfSeq
<1>6. ring[c] = NoRing
  BY <1>1, <1>2 DEF WritersInv
<1>7. /\ ring' \in [Clients -> Units \cup {NoRing}] /\ ring'[c] = rings[b][e]
      /\ \A d \in Clients : d # c => ring'[d] = ring[d]
      /\ ring'[c] # NoRing
  BY <1>1, <1>2, <1>5 DEF TypeOK, Units, NoRing
<1>8. /\ joined' \in [Names -> Nat] /\ joined'[b] = joined[b] + 1
      /\ \A a \in Names : a # b => joined'[a] = joined[a]
  BY <1>1, <1>2, <1>3 DEF TypeOK
<1>9. /\ pc' \in [Clients -> Places]
      /\ pc'[c] = "joined" /\ \A d \in Clients : d # c => pc'[d] = pc[d]
  BY <1>1, <1>2 DEF TypeOK, Places
<1> HIDE DEF b, e
<1>10. TypeOK'
  <2>1. up' \in BOOLEAN
    BY <1>1, <1>2, Zenon DEF TypeOK
  <2>2. ASSUME NEW d \in Clients, ring'[d] # NoRing
        PROVE  \E i \in DOMAIN rings'[buffer'[d]] : rings'[buffer'[d]][i] = ring'[d]
    <3>1. CASE d = c
      BY <1>2, <1>4, <1>7, <3>1 DEF b
    <3>2. CASE d # c
      BY <1>1, <1>2, <1>7, <2>2, <3>2 DEF TypeOK
    <3> QED
      BY <3>1, <3>2
  <2>3. \A a \in Names : joined'[a] <= Len(rings'[a])
    <3>1. joined'[b] <= Len(rings[b])
      BY <1>4, <1>8 DEF e
    <3>2. \A a \in Names : joined[a] <= Len(rings[a])
      BY <1>1 DEF TypeOK
    <3> QED
      BY <1>2, <1>8, <3>1, <3>2
  <2> QED
    BY <1>1, <1>2, <1>7, <1>8, <1>9, <2>1, <2>2, <2>3 DEF TypeOK, Places
<1>11. HandlesInv'
  BY <1>1, <1>2 DEF HandlesInv
<1>12. DisjointInv'
  BY <1>1, <1>2 DEF DisjointInv
<1>13. WritersInv'
  <2>1. \A d \in Clients : pc'[d] \in {"joined", "writer", "closed"} <=> ring'[d] # NoRing
    BY <1>1, <1>7, <1>9 DEF WritersInv
  <2>2. ASSUME NEW d \in Clients, ring'[d] # NoRing, registers'[buffer'[d]] <= 1
        PROVE  \E i \in DOMAIN rings'[buffer'[d]] :
                 i <= joined'[buffer'[d]] /\ rings'[buffer'[d]][i] = ring'[d]
    <3>1. CASE d = c
      <4>1. e <= joined'[b]
        BY <1>3, <1>8 DEF e
      <4> QED
        BY <1>2, <1>4, <1>7, <3>1, <4>1 DEF b
    <3>2. CASE d # c
      <4>1. ring[d] # NoRing /\ registers[buffer[d]] <= 1 /\ ring'[d] = ring[d]
        BY <1>2, <1>7, <2>2, <3>2
      <4>2. PICK i \in DOMAIN rings[buffer[d]] :
              i <= joined[buffer[d]] /\ rings[buffer[d]][i] = ring[d]
        BY <1>1, <4>1 DEF WritersInv
      <4>3. buffer[d] \in Names /\ rings[buffer[d]] \in Seq(Units)
        BY <1>1 DEF TypeOK
      <4>4. joined[buffer[d]] \in Nat /\ i \in Nat
        BY <1>1, <4>2, <4>3 DEF TypeOK
      <4>5. i <= joined'[buffer[d]]
        <5>1. CASE buffer[d] = b
          BY <1>8, <4>2, <4>4, <5>1
        <5>2. CASE buffer[d] # b
          BY <1>8, <4>2, <4>3, <5>2
        <5> QED
          BY <5>1, <5>2
      <4> QED
        BY <1>2, <4>1, <4>2, <4>5
    <3> QED
      BY <3>1, <3>2
  <2>3. ASSUME NEW d \in Clients, d # c, buffer[d] = b, ring'[d] = ring'[c]
        PROVE  registers[b] > 1
    <3>1. SUFFICES ASSUME registers[b] <= 1 PROVE FALSE
      BY <1>1, <1>3 DEF TypeOK
    <3>2. ring[d] = rings[b][e] /\ ring[d] # NoRing
      BY <1>7, <2>3
    <3>3. PICK i \in DOMAIN rings[b] : i <= joined[b] /\ rings[b][i] = ring[d]
      BY <1>1, <2>3, <3>1, <3>2 DEF WritersInv
    <3>4. i = e
      BY <1>3, <1>4, <3>2, <3>3, SameOffsetIsSame
    <3> QED
      BY <1>3, <3>3, <3>4 DEF e
  <2>4. ASSUME NEW d1 \in Clients, NEW d2 \in Clients, d1 # d2, ring'[d1] # NoRing,
               buffer'[d1] = buffer'[d2], ring'[d1] = ring'[d2]
        PROVE  registers'[buffer'[d1]] > 1
    <3>1. CASE d1 = c
      BY <1>2, <2>3, <2>4, <3>1 DEF b
    <3>2. CASE d2 = c
      BY <1>2, <2>3, <2>4, <3>2 DEF b
    <3>3. CASE d1 # c /\ d2 # c
      BY <1>1, <1>2, <1>7, <2>4, <3>3 DEF WritersInv
    <3> QED
      BY <3>1, <3>2, <3>3
  <2> QED
    BY <2>1, <2>2, <2>4 DEF WritersInv
<1>14. ContentInv'
  <2>1. \A d \in Clients : ring[d] # NoRing => ring'[d] = ring[d]
    BY <1>6, <1>7
  <2> QED
    BY <1>2, <2>1, ContentKept
<1> QED
  BY <1>10, <1>11, <1>12, <1>13, <1>14 DEF IInv

(***************************************************************************)
(* A client stores unit x of its node, in its own ring or led astray.      *)
(***************************************************************************)
LEMMA StoreInv ==
  ASSUME IInv, NEW c \in Clients, ring[c] # NoRing, NEW x \in Units,
         x \in OwnUnits(c) \/ Astray(c),
         content' = [content EXCEPT ![NodeOf(c)][x] = c],
         UNCHANGED <<server, dead, allocated, buffer, ring, history>>,
         pc' \in [Clients -> Places],
         \A d \in Clients : pc'[d] \in {"joined", "writer", "closed"} <=> ring[d] # NoRing
  PROVE  IInv' /\ Kept
<1> DEFINE m == NodeOf(c)
<1>1. TypeOK /\ HandlesInv /\ DisjointInv /\ WritersInv
  BY DEF IInv
<1>2. UNCHANGED <<up, known, node, shape, rings, joined, dead, allocated, buffer, ring,
                  registers, created, strayed>>
  BY DEF server, history
<1>3. m \in Nodes
  BY WriterType
<1>4. m \notin strayed => x \in OwnUnits(c)
  BY NotAstray
<1> HIDE DEF m
<1>5. /\ content' \in [Nodes -> [Units -> Clients \cup Shapes \cup {None}]]
      /\ \A k \in Nodes : \A y \in Units :
           content'[k][y] = IF k = m /\ y = x THEN c ELSE content[k][y]
  <2>1. content \in [Nodes -> [Units -> Clients \cup Shapes \cup {None}]]
    BY <1>1 DEF TypeOK
  <2>2. content' = [content EXCEPT ![m] = [content[m] EXCEPT ![x] = c]]
    BY DEF m
  <2>3. content[m] \in [Units -> Clients \cup Shapes \cup {None}]
    BY <1>3, <2>1, Zenon
  <2>4. [content[m] EXCEPT ![x] = c] \in [Units -> Clients \cup Shapes \cup {None}]
    BY <2>3
  <2>5. content' \in [Nodes -> [Units -> Clients \cup Shapes \cup {None}]]
    BY <1>3, <2>1, <2>2, <2>4
  <2>6. /\ content'[m] = [content[m] EXCEPT ![x] = c]
        /\ \A k \in Nodes : k # m => content'[k] = content[k]
    BY <1>3, <2>1, <2>2
  <2> QED
    BY <2>3, <2>5, <2>6
<1>6. TypeOK'
  <2>1. up' \in BOOLEAN
    BY <1>1, <1>2, Zenon DEF TypeOK
  <2> QED
    BY <1>1, <1>2, <1>5, <2>1 DEF TypeOK, Places
<1>7. HandlesInv'
  BY <1>1, <1>2 DEF HandlesInv
<1>8. DisjointInv'
  BY <1>1, <1>2 DEF DisjointInv
<1>9. WritersInv'
  BY <1>1, <1>2 DEF WritersInv
<1>10. ContentInv'
  <2>1. SUFFICES ASSUME NEW k \in Nodes, k \notin strayed, NEW y \in Units
                 PROVE  content'[k][y] = None \/ InPlace(k, y, content'[k][y])
    BY <1>2 DEF ContentInv, InPlace, NodeOf, OwnUnits, ShapeOf
  <2>2. CASE k = m /\ y = x
    BY <1>4, <1>5, <2>1, <2>2 DEF InPlace, m
  <2>3. CASE ~(k = m /\ y = x)
    BY <1>5, <2>1, <2>3 DEF IInv, ContentInv
  <2> QED
    BY <2>2, <2>3
<1>11. Kept
  <2>1. SUFFICES ASSUME NEW d \in Clients, ring[d] # NoRing, NEW y \in OwnUnits(d),
                        content'[NodeOf(d)][y] # content[NodeOf(d)][y],
                        content'[NodeOf(d)][y] # d
                 PROVE  /\ content'[NodeOf(d)][y] # None
                        /\ NodeOf(d) \in strayed \/ registers[buffer[d]] > 1
    BY <1>2 DEF Kept, KeptOf
  <2>2. NodeOf(d) \in Nodes /\ y \in Units
    BY <2>1, WriterType
  <2>3. NodeOf(d) = m /\ y = x /\ content'[NodeOf(d)][y] = c
    BY <1>5, <2>1, <2>2
  <2>4. c # d /\ c # None
    BY <2>1, <2>3, RegistryAssumption
  <2>5. CASE m \notin strayed
    <3>1. x \in OwnUnits(c) /\ x \in OwnUnits(d)
      BY <1>4, <2>1, <2>3, <2>5
    <3>2. SameRing(d, c) /\ buffer[d] = buffer[c]
      BY <2>1, <2>3, <3>1, OverlapIsSameRing DEF m
    <3> QED
      BY <1>1, <2>1, <2>3, <2>4, <3>2 DEF WritersInv, SameRing
  <2> QED
    BY <2>3, <2>4, <2>5
<1> QED
  BY <1>6, <1>7, <1>8, <1>9, <1>10, <1>11 DEF IInv

LEMMA AppendUnitInv ==
  ASSUME IInv, NEW c \in Clients, NEW x \in Units, AppendUnit(c, x)
  PROVE  IInv' /\ Kept
<1>1. ring[c] # NoRing
  BY DEF AppendUnit, IInv, WritersInv
<1>2. /\ x \in OwnUnits(c) \/ Astray(c)
      /\ content' = [content EXCEPT ![NodeOf(c)][x] = c]
      /\ UNCHANGED <<server, dead, allocated, buffer, ring, history>>
  BY DEF AppendUnit
<1>3. /\ pc' \in [Clients -> Places]
      /\ \A d \in Clients : pc'[d] \in {"joined", "writer", "closed"} <=> ring[d] # NoRing
  BY <1>1 DEF AppendUnit, IInv, TypeOK, WritersInv, Places
<1> QED
  BY <1>1, <1>2, <1>3, StoreInv

LEMMA ReleaseUnitInv ==
  ASSUME IInv, NEW c \in Clients, NEW x \in Units, ReleaseUnit(c, x)
  PROVE  IInv' /\ Kept
<1>1. ring[c] # NoRing
  BY DEF ReleaseUnit, IInv, WritersInv
<1>2. x \in OwnUnits(c) \/ Astray(c)
  BY <1>1, WriterType DEF ReleaseUnit
<1>3. /\ content' = [content EXCEPT ![NodeOf(c)][x] = c]
      /\ UNCHANGED <<server, dead, allocated, buffer, ring, history>> /\ pc' = pc
  BY DEF ReleaseUnit, clients
<1>4. /\ pc' \in [Clients -> Places]
      /\ \A d \in Clients : pc'[d] \in {"joined", "writer", "closed"} <=> ring[d] # NoRing
  BY <1>3 DEF IInv, TypeOK, WritersInv, Places
<1> QED
  BY <1>1, <1>2, <1>3, <1>4, StoreInv

LEMMA CloseWriterInv ==
  ASSUME IInv, NEW c \in Clients, NEW x \in Units, CloseWriter(c, x)
  PROVE  IInv' /\ Kept
<1>1. ring[c] # NoRing
  BY DEF CloseWriter, IInv, WritersInv
<1>2. x \in OwnUnits(c) \/ Astray(c)
  BY <1>1, WriterType DEF CloseWriter
<1>3. /\ content' = [content EXCEPT ![NodeOf(c)][x] = c]
      /\ UNCHANGED <<server, dead, allocated, buffer, ring, history>>
  BY DEF CloseWriter
<1>4. /\ pc' \in [Clients -> Places]
      /\ \A d \in Clients : pc'[d] \in {"joined", "writer", "closed"} <=> ring[d] # NoRing
  BY <1>1 DEF CloseWriter, IInv, TypeOK, WritersInv, Places
<1> QED
  BY <1>1, <1>2, <1>3, <1>4, StoreInv

LEMMA CloseUnusedInv ==
  ASSUME IInv, NEW c \in Clients, CloseUnused(c)
  PROVE  IInv' /\ Kept
<1> DEFINE m == NodeOf(c)
           f == [x \in Units |-> IF x < HeaderSize THEN c ELSE content[m][x]]
<1>1. TypeOK /\ HandlesInv /\ DisjointInv /\ WritersInv
  BY DEF IInv
<1>2. ring[c] # NoRing
  BY DEF CloseUnused, IInv, WritersInv
<1>3. m \in Nodes
  BY <1>2, WriterType
<1>4. /\ UNCHANGED <<up, known, node, shape, rings, joined, dead, allocated, buffer, ring,
                     registers, created>>
      /\ content' = [content EXCEPT ![m] = f]
      /\ strayed' = strayed \cup {m}
      /\ pc' = [pc EXCEPT ![c] = "closed"]
  BY DEF CloseUnused, server
<1> HIDE DEF m
<1>5. /\ content' \in [Nodes -> [Units -> Clients \cup Shapes \cup {None}]]
      /\ \A k \in Nodes : \A y \in Units :
           content'[k][y] = content[k][y] \/ (k = m /\ content'[k][y] = c)
  <2>1. content \in [Nodes -> [Units -> Clients \cup Shapes \cup {None}]]
    BY <1>1 DEF TypeOK
  <2>2. content[m] \in [Units -> Clients \cup Shapes \cup {None}]
    BY <1>3, <2>1, Zenon
  <2>3. f \in [Units -> Clients \cup Shapes \cup {None}]
    BY <2>2
  <2>4. \A y \in Units : f[y] = content[m][y] \/ f[y] = c
    OBVIOUS
  <2> HIDE DEF f
  <2> QED
    BY <1>3, <1>4, <2>1, <2>3, <2>4
<1>6. /\ pc' \in [Clients -> Places]
      /\ \A d \in Clients : pc'[d] \in {"joined", "writer", "closed"} <=> ring[d] # NoRing
  BY <1>1, <1>2, <1>4 DEF TypeOK, WritersInv, Places
<1>7. TypeOK'
  <2>1. up' \in BOOLEAN
    BY <1>1, <1>4, Zenon DEF TypeOK
  <2>2. strayed' \subseteq Nodes
    BY <1>1, <1>3, <1>4 DEF TypeOK
  <2> QED
    BY <1>1, <1>4, <1>5, <1>6, <2>1, <2>2 DEF TypeOK, Places
<1>8. HandlesInv'
  BY <1>1, <1>4 DEF HandlesInv
<1>9. DisjointInv'
  BY <1>1, <1>4 DEF DisjointInv
<1>10. WritersInv'
  BY <1>1, <1>4, <1>6 DEF WritersInv
<1>11. ContentInv'
  BY <1>4, <1>5, ContentKept
<1>12. Kept
  <2>1. SUFFICES ASSUME NEW d \in Clients, ring[d] # NoRing, NEW y \in OwnUnits(d),
                        content'[NodeOf(d)][y] # content[NodeOf(d)][y]
                 PROVE  content'[NodeOf(d)][y] # None /\ NodeOf(d) \in strayed'
    BY DEF Kept, KeptOf
  <2>2. NodeOf(d) \in Nodes /\ y \in Units
    BY <2>1, WriterType
  <2>3. NodeOf(d) = m /\ content'[NodeOf(d)][y] = c
    BY <1>5, <2>1, <2>2
  <2> QED
    BY <1>4, <2>3, RegistryAssumption
<1> QED
  BY <1>7, <1>8, <1>9, <1>10, <1>11, <1>12 DEF IInv

(***************************************************************************)
(* The new ring of a buffer lies behind every ring of its node, and is     *)
(* added behind the entries writers may have.                              *)
(***************************************************************************)
LEMMA CreateRingInv ==
  ASSUME IInv, NEW b \in Names, CreateRing(b)
  PROVE  IInv'
<1> DEFINE n == node[b]
           s == shape[b]
           u == Granted(n, 1, s) * Extent(s)
           len == Len(rings[b])
<1>1. TypeOK /\ HandlesInv /\ DisjointInv /\ WritersInv /\ Room \in Nat
  BY RegistryAssumption DEF IInv
<1>2. /\ UNCHANGED <<known, node, shape, joined, pc, buffer, ring, registers>>
      /\ AllocRings(n, 1, s)
      /\ created' = [created EXCEPT ![b] = @ + 1]
      /\ b \in known
      /\ \/ /\ Granted(n, 1, s) = 1
            /\ rings' = [rings EXCEPT ![b] = @ \o NewRings(n, 1, s)]
         \/ /\ Granted(n, 1, s) = 0 /\ rings' = rings
  BY DEF CreateRing, clients
<1>3. up' \in BOOLEAN
  <2>1. up' = up \/ up' = FALSE
    BY Zenon DEF CreateRing
  <2> QED
    BY <1>1, <2>1, Zenon DEF TypeOK
<1>4. n \in NodeIds /\ s \in Shapes
  BY <1>1, <1>2 DEF HandlesInv, TypeOK
<1>5. /\ allocated' \in [Nodes -> 0 .. Room]
      /\ content' \in [Nodes -> [Units -> Clients \cup Shapes \cup {None}]]
      /\ dead' \subseteq Nodes
      /\ strayed \subseteq strayed' /\ strayed' \subseteq Nodes
      /\ \A m \in Nodes : /\ allocated[m] <= allocated'[m]
                          /\ m = n => allocated'[m] = allocated[m] + u
      /\ \A m \in Nodes : \A x \in Units :
           \/ content'[m][x] = content[m][x]
           \/ content'[m][x] = None
           \/ m \in strayed'
  BY <1>1, <1>2, <1>4, AllocRingsEffect
<1>6. /\ \A a \in Names : rings[a] \in Seq(Units)
      /\ rings \in [Names -> Seq(Units)]
  BY <1>1 DEF TypeOK
<1>7. \A m \in Nodes : allocated[m] \in Int /\ allocated'[m] \in Int
  BY <1>1, <1>5 DEF TypeOK
<1>8. created' \in [Names -> Nat]
  BY <1>1, <1>2 DEF TypeOK
<1>9. len \in Nat /\ DOMAIN rings[b] = 1 .. len
  BY <1>6
<1> HIDE DEF len
\* What becomes of the entries: those that were there stay, and there may be one more.
<1>10. /\ rings' \in [Names -> Seq(Units)]
       /\ \A a \in Names : a # b => rings'[a] = rings[a]
       /\ Len(rings'[b]) \in {len, len + 1}
       /\ DOMAIN rings'[b] = 1 .. Len(rings'[b])
       /\ \A i \in 1 .. len : rings'[b][i] = rings[b][i]
       /\ Len(rings'[b]) = len + 1 =>
            /\ n \in Nodes /\ First(s, rings'[b][len + 1]) \in Nat
            /\ allocated[n] <= First(s, rings'[b][len + 1])
            /\ Past(s, rings'[b][len + 1]) \in Nat
            /\ Past(s, rings'[b][len + 1]) <= allocated[n] + u
  <2>1. CASE Granted(n, 1, s) = 0 /\ rings' = rings
    <3>1. len # len + 1
      BY <1>9
    <3> QED
      BY <1>6, <1>9, <2>1, <3>1 DEF len
  <2>2. CASE Granted(n, 1, s) = 1 /\ rings' = [rings EXCEPT ![b] = @ \o NewRings(n, 1, s)]
    <3> DEFINE new == NewRings(n, 1, s)
    <3>1. /\ new \in Seq(Units) /\ Len(new) = 1
          /\ n \in Nodes /\ First(s, new[1]) \in Nat /\ allocated[n] <= First(s, new[1])
          /\ Past(s, new[1]) \in Nat /\ Past(s, new[1]) <= allocated[n] + u
      <4>1. /\ new \in Seq(Units) /\ Len(new) = Granted(n, 1, s)
            /\ \A i \in 1 .. Granted(n, 1, s) :
                 /\ n \in Nodes /\ First(s, new[i]) \in Nat /\ allocated[n] <= First(s, new[i])
                 /\ Past(s, new[i]) \in Nat /\ Past(s, new[i]) <= allocated[n] + u
        BY <1>1, <1>4, NewRingsType
      <4> HIDE DEF new, u
      <4>2. Len(new) = 1 /\ 1 \in 1 .. Granted(n, 1, s)
        BY <2>2, <4>1
      <4> QED
        BY <4>1, <4>2
    <3> HIDE DEF new, u
    <3>2. rings' = [rings EXCEPT ![b] = rings[b] \o new]
      BY <2>2 DEF new
    <3>3. /\ rings[b] \o new \in Seq(Units)
          /\ Len(rings[b] \o new) = len + 1
          /\ \A i \in 1 .. len : (rings[b] \o new)[i] = rings[b][i]
          /\ (rings[b] \o new)[len + 1] = new[1]
          /\ DOMAIN (rings[b] \o new) = 1 .. len + 1
      <4>0. rings[b] \in Seq(Units) /\ new \in Seq(Units)
        BY <1>6, <3>1
      <4>1. /\ rings[b] \o new \in Seq(Units)
            /\ Len(rings[b] \o new) = len + Len(new)
            /\ DOMAIN (rings[b] \o new) = 1 .. len + Len(new)
        BY <4>0, ConcatType DEF len
      <4>2. /\ \A i \in 1 .. len : (rings[b] \o new)[i] = rings[b][i]
            /\ \A i \in 1 .. Len(new) : (rings[b] \o new)[len + i] = new[i]
        BY <4>0, ConcatType DEF len
      <4>3. Len(new) = 1 /\ 1 \in 1 .. Len(new)
        BY <3>1
      <4> QED
        BY <4>1, <4>2, <4>3
    <3>4. /\ rings' \in [Names -> Seq(Units)] /\ rings'[b] = rings[b] \o new
          /\ \A a \in Names : a # b => rings'[a] = rings[a]
      BY <1>6, <3>2, <3>3
    <3> QED
      BY <1>9, <3>1, <3>3, <3>4
  <2> QED
    BY <1>2, <2>1, <2>2
<1> HIDE DEF n, s, u
<1>11. \A a \in Names : /\ DOMAIN rings[a] \subseteq DOMAIN rings'[a]
                        /\ \A i \in DOMAIN rings[a] : rings'[a][i] = rings[a][i]
  <2>1. DOMAIN rings[b] \subseteq DOMAIN rings'[b]
    <3>1. 1 .. len \subseteq 1 .. len + 1
      BY <1>9
    <3> QED
      BY <1>9, <1>10, <3>1
  <2> QED
    BY <1>9, <1>10, <2>1
\* An entry that was not there is the new ring.
<1>12. ASSUME NEW a \in Names, NEW i \in DOMAIN rings'[a], i \notin DOMAIN rings[a]
       PROVE  /\ a = b /\ i = len + 1 /\ n \in Nodes
              /\ First(s, rings'[a][i]) \in Nat /\ allocated[n] <= First(s, rings'[a][i])
              /\ Past(s, rings'[a][i]) \in Nat
              /\ Past(s, rings'[a][i]) <= allocated[n] + u
  <2>1. a = b
    BY <1>10, <1>12
  <2>2. i \in 1 .. Len(rings'[b]) /\ i \notin 1 .. len
    BY <1>9, <1>10, <1>12, <2>1
  <2>3. Len(rings'[b]) = len + 1 /\ i = len + 1
    <3>1. CASE Len(rings'[b]) = len
      BY <2>2, <3>1
    <3>2. CASE Len(rings'[b]) = len + 1
      BY <1>9, <2>2, <3>2
    <3> QED
      BY <1>10, <3>1, <3>2
  <2> QED
    BY <1>10, <2>1, <2>3
<1>13. TypeOK'
  <2>1. \A a \in Names : joined'[a] <= Len(rings'[a])
    <3>1. \A a \in Names : joined[a] \in Nat /\ joined[a] <= Len(rings[a])
      BY <1>1 DEF TypeOK
    <3>2. joined[b] <= Len(rings'[b])
      <4>1. joined[b] \in Nat /\ joined[b] <= len
        BY <3>1 DEF len
      <4>2. joined[b] <= len + 1
        BY <1>9, <4>1
      <4> QED
        BY <1>10, <4>1, <4>2
    <3> QED
      BY <1>2, <1>10, <3>1, <3>2
  <2>2. \A c \in Clients : ring'[c] # NoRing =>
          \E i \in DOMAIN rings'[buffer'[c]] : rings'[buffer'[c]][i] = ring'[c]
    BY <1>1, <1>2, <1>11 DEF TypeOK
  <2> QED
    BY <1>1, <1>2, <1>3, <1>5, <1>8, <1>10, <2>1, <2>2 DEF TypeOK
<1>14. HandlesInv'
  <2>1. ASSUME NEW a \in Names, NEW i \in DOMAIN rings'[a]
        PROVE  /\ node[a] \in Nodes /\ 0 <= First(shape[a], rings'[a][i])
               /\ Past(shape[a], rings'[a][i]) <= allocated'[node[a]]
    <3>1. CASE i \in DOMAIN rings[a]
      <4>1. /\ node[a] \in Nodes /\ First(shape[a], rings[a][i]) \in Nat
            /\ Past(shape[a], rings[a][i]) \in Nat
            /\ Past(shape[a], rings[a][i]) <= allocated[node[a]]
            /\ rings'[a][i] = rings[a][i]
        BY <1>11, <3>1, EntryType
      <4>2. /\ 0 <= First(shape[a], rings[a][i])
            /\ Past(shape[a], rings[a][i]) <= allocated'[node[a]]
        BY <1>5, <1>7, <4>1
      <4> QED
        BY <4>1, <4>2
    <3>2. CASE i \notin DOMAIN rings[a]
      <4>1. /\ a = b /\ n \in Nodes
            /\ First(s, rings'[a][i]) \in Nat
            /\ Past(s, rings'[a][i]) <= allocated[n] + u
        BY <1>12, <2>1, <3>2
      <4>2. 0 <= First(s, rings'[a][i]) /\ allocated'[n] = allocated[n] + u
        BY <1>5, <4>1
      <4> QED
        BY <4>1, <4>2 DEF n, s
    <3> QED
      BY <3>1, <3>2
  <2>2. \A a \in Names : a \notin known => rings'[a] = << >>
    BY <1>1, <1>2, <1>10 DEF HandlesInv
  <2> QED
    BY <1>1, <1>2, <2>1, <2>2 DEF HandlesInv, First, Past, Body
<1>15. DisjointInv'
  <2>1. ASSUME NEW a \in Names, NEW d \in Names, NEW i \in DOMAIN rings[a],
               NEW j \in DOMAIN rings'[d], j \notin DOMAIN rings[d], node[a] = node[d]
        PROVE  Past(shape[a], rings'[a][i]) <= First(shape[d], rings'[d][j])
    <3>1. /\ d = b /\ n \in Nodes
          /\ First(s, rings'[d][j]) \in Nat /\ allocated[n] <= First(s, rings'[d][j])
      BY <1>12, <2>1
    <3>2. /\ Past(shape[a], rings[a][i]) \in Nat
          /\ Past(shape[a], rings[a][i]) <= allocated[n]
      BY <2>1, <3>1, EntryType DEF n
    <3>3. Past(shape[a], rings[a][i]) <= First(s, rings'[d][j])
      BY <1>7, <3>1, <3>2
    <3> QED
      BY <1>11, <2>1, <3>1, <3>3 DEF s
  <2>2. ASSUME NEW a \in Names, NEW d \in Names, NEW i \in DOMAIN rings'[a],
               NEW j \in DOMAIN rings'[d], node[a] = node[d], ~(a = d /\ i = j)
        PROVE  Apart(shape[a], rings'[a][i], shape[d], rings'[d][j])
    <3>1. CASE i \in DOMAIN rings[a] /\ j \in DOMAIN rings[d]
      BY <1>1, <1>11, <2>2, <3>1 DEF DisjointInv
    <3>2. CASE i \notin DOMAIN rings[a] /\ j \in DOMAIN rings[d]
      BY <2>1, <2>2, <3>2 DEF Apart
    <3>3. CASE i \in DOMAIN rings[a] /\ j \notin DOMAIN rings[d]
      BY <2>1, <2>2, <3>3 DEF Apart
    <3>4. CASE i \notin DOMAIN rings[a] /\ j \notin DOMAIN rings[d]
      BY <1>12, <2>2, <3>4
    <3> QED
      BY <3>1, <3>2, <3>3, <3>4
  <2> QED
    BY <1>2, <2>2 DEF DisjointInv, Apart, First, Past, Body
<1>16. WritersInv'
  BY <1>1, <1>2, <1>11 DEF WritersInv, TypeOK
<1>17. ContentInv'
  BY <1>2, <1>5, ContentKept
<1> QED
  BY <1>13, <1>14, <1>15, <1>16, <1>17 DEF IInv

LEMMA InductiveStep == IInv /\ [Next]_vars => IInv'
<1> SUFFICES ASSUME IInv, [Next]_vars PROVE IInv'
  OBVIOUS
<1>1. ASSUME NEW c \in Clients, NEW b \in Names, NEW n \in NodeIds, NEW k \in Appenders,
             NEW s \in Shapes, RegisterBuffer(c, b, n, k, s) \/ CreateBuffer(c, b, n, k, s)
      PROVE  IInv'
  BY <1>1, RegisterBufferInv, CreateBufferInv
<1>2. ASSUME NEW c \in Clients,
             RetrieveBuffer(c) \/ JoinBuffer(c) \/ JoinFails(c) \/ CloseUnused(c)
      PROVE  IInv'
  BY <1>2, RetrieveBufferInv, JoinBufferInv, JoinFailsInv, CloseUnusedInv
<1>3. ASSUME NEW c \in Clients, NEW b \in Names, NewWriter(c, b)
      PROVE  IInv'
  BY <1>3, NewWriterInv
<1>4. ASSUME NEW c \in Clients, NEW x \in Units,
             AppendUnit(c, x) \/ ReleaseUnit(c, x) \/ CloseWriter(c, x)
      PROVE  IInv'
  BY <1>4, AppendUnitInv, ReleaseUnitInv, CloseWriterInv
<1>5. ASSUME NEW b \in Names, CreateRing(b)
      PROVE  IInv'
  BY <1>5, CreateRingInv
<1>6. CASE UNCHANGED vars
  <2>1. /\ UNCHANGED <<server, memory, ring, history>> /\ buffer' = buffer /\ pc' = pc
    BY <1>6 DEF vars, clients
  <2> QED
    BY <2>1, ClientMovesInv DEF IInv, TypeOK, WritersInv, Places
<1> QED
  BY <1>1, <1>2, <1>3, <1>4, <1>5, <1>6 DEF Next

\* The inductive invariant holds in every state.
THEOREM Invariance == Spec => []IInv
<1>1. IInv /\ UNCHANGED vars => IInv'
  BY InductiveStep
<1> QED
  BY InitInv, InductiveStep, PTL DEF Spec

(***************************************************************************)
(* Type correctness; with it, that the count of joined appenders never     *)
(* gets past the rings, and that a writer's ring is an entry of its        *)
(* buffer.                                                                 *)
(***************************************************************************)
THEOREM TypeCorrect == Spec => []TypeOK
<1>1. IInv => TypeOK
  BY DEF IInv
<1> QED
  BY <1>1, Invariance, PTL

(***************************************************************************)
(* No two entries of the registry lead to the same memory.                 *)
(***************************************************************************)
THEOREM Disjoint == Spec => []RingsDisjoint
<1>1. IInv => RingsDisjoint
  <2> SUFFICES ASSUME IInv, NEW a \in known, NEW b \in known,
                      NEW i \in DOMAIN rings[a], NEW j \in DOMAIN rings[b],
                      node[a] = node[b], ~(a = b /\ i = j)
               PROVE  RingUnits(shape[a], rings[a][i]) \cap RingUnits(shape[b], rings[b][j]) = {}
    BY DEF RingsDisjoint
  <2>1. a \in Names /\ b \in Names
    BY DEF IInv, TypeOK
  <2> QED
    BY <2>1, OverlapIsSame
<1> QED
  BY <1>1, Invariance, PTL

(***************************************************************************)
(* Writers share a ring only of a buffer registered more than once.        *)
(***************************************************************************)
THEOREM Exclusive == Spec => []ExclusiveUnlessRegisteredAgain
<1>1. IInv => ExclusiveUnlessRegisteredAgain
  <2> SUFFICES ASSUME IInv, NEW c \in Clients, NEW d \in Clients, c # d, SameRing(c, d)
               PROVE  registers[buffer[c]] > 1
    BY DEF ExclusiveUnlessRegisteredAgain
  <2>1. ring[c] # NoRing /\ ring[c] = ring[d] /\ node[buffer[c]] = node[buffer[d]]
    BY DEF SameRing, NodeOf
  <2>2. buffer[c] \in Names /\ buffer[d] \in Names
    BY DEF IInv, TypeOK
  <2>3. PICK i \in DOMAIN rings[buffer[c]] : rings[buffer[c]][i] = ring[c]
    BY <2>1 DEF IInv, TypeOK
  <2>4. PICK j \in DOMAIN rings[buffer[d]] : rings[buffer[d]][j] = ring[d]
    BY <2>1 DEF IInv, TypeOK
  <2>5. buffer[c] = buffer[d]
    BY <2>1, <2>2, <2>3, <2>4, SameOffsetIsSame
  <2> QED
    BY <2>1, <2>5 DEF IInv, WritersInv
<1> QED
  BY <1>1, Invariance, PTL

-----------------------------------------------------------------------------
\* The step of HandlesGrow.
GrowOf(b) ==
  /\ node'[b] = node[b] /\ shape'[b] = shape[b]
  /\ Len(rings[b]) <= Len(rings'[b])
  /\ \A i \in DOMAIN rings[b] : rings'[b][i] = rings[b][i]
Grow == \A b \in known : GrowOf(b)

LEMMA GrowStep == IInv /\ [Next]_vars => Grow
<1> SUFFICES ASSUME IInv, [Next]_vars, NEW b \in known PROVE GrowOf(b)
  BY DEF Grow
<1>1. b \in Names /\ rings[b] \in Seq(Units) /\ Len(rings[b]) \in Nat
  BY DEF IInv, TypeOK
<1>2. CASE node'[b] = node[b] /\ shape'[b] = shape[b] /\ rings'[b] = rings[b]
  BY <1>1, <1>2 DEF GrowOf
<1>3. CASE UNCHANGED <<node, shape, rings>>
  BY <1>2, <1>3
<1>4. ASSUME NEW a \in Names, NEW n \in NodeIds, NEW k \in Appenders, NEW s \in Shapes,
             HandleRegister(a, n, k, s)
      PROVE  GrowOf(b)
  <2>1. CASE a \in known
    BY <1>3, <1>4, <2>1 DEF HandleRegister
  <2>2. CASE a \notin known
    BY <1>1, <1>2, <1>4, <2>2 DEF HandleRegister, IInv, TypeOK
  <2> QED
    BY <2>1, <2>2
<1>5. ASSUME NEW a \in Names, CreateRing(a)
      PROVE  GrowOf(b)
  <2> DEFINE new == NewRings(node[a], 1, shape[a])
  <2>1. CASE rings' = rings
    BY <1>3, <1>5, <2>1 DEF CreateRing
  <2>2. CASE rings' = [rings EXCEPT ![a] = @ \o new]
    <3>1. node' = node /\ shape' = shape /\ a \in known
      BY <1>5 DEF CreateRing
    <3>2. new \in Seq(Units)
      BY <3>1, NewRingsType DEF IInv, HandlesInv, TypeOK
    <3>3. rings'[b] = rings[b] \/ rings'[b] = rings[b] \o new
      BY <1>1, <2>2 DEF IInv, TypeOK
    <3> HIDE DEF new
    <3>4. CASE rings'[b] = rings[b] \o new
      <4>1. /\ Len(new) \in Nat /\ Len(rings[b] \o new) = Len(rings[b]) + Len(new)
            /\ DOMAIN rings[b] = 1 .. Len(rings[b])
            /\ \A i \in 1 .. Len(rings[b]) : (rings[b] \o new)[i] = rings[b][i]
        <5>1. DOMAIN rings[b] = 1 .. Len(rings[b])
          BY <1>1
        <5> QED
          BY <1>1, <3>2, <5>1, ConcatType
      <4>2. Len(rings[b]) <= Len(rings[b] \o new)
        BY <1>1, <4>1
      <4> QED
        BY <3>1, <3>4, <4>1, <4>2 DEF GrowOf
    <3> QED
      BY <1>2, <3>1, <3>3, <3>4
  <2> QED
    BY <1>5, <2>1, <2>2 DEF CreateRing
<1>6. ASSUME NEW c \in Clients, NEW a \in Names, NEW n \in NodeIds, NEW k \in Appenders,
             NEW s \in Shapes, RegisterBuffer(c, a, n, k, s) \/ CreateBuffer(c, a, n, k, s)
      PROVE  GrowOf(b)
  BY <1>4, <1>6 DEF RegisterBuffer, CreateBuffer
<1>7. ASSUME NEW c \in Clients,
             RetrieveBuffer(c) \/ JoinBuffer(c) \/ JoinFails(c) \/ CloseUnused(c)
      PROVE  GrowOf(b)
  BY <1>3, <1>7 DEF RetrieveBuffer, JoinBuffer, HandleJoin, JoinFails, CloseUnused, server
<1>8. ASSUME NEW c \in Clients, NEW a \in Names, NewWriter(c, a)
      PROVE  GrowOf(b)
  BY <1>3, <1>8 DEF NewWriter, server
<1>9. ASSUME NEW c \in Clients, NEW x \in Units,
             AppendUnit(c, x) \/ ReleaseUnit(c, x) \/ CloseWriter(c, x)
      PROVE  GrowOf(b)
  BY <1>3, <1>9 DEF AppendUnit, ReleaseUnit, CloseWriter, server
<1>10. CASE UNCHANGED vars
  BY <1>3, <1>10 DEF vars, server
<1> QED
  BY <1>5, <1>6, <1>7, <1>8, <1>9, <1>10 DEF Next

(***************************************************************************)
(* A handle retrieved earlier stays good.                                  *)
(***************************************************************************)
THEOREM HandlesStayGood == Spec => HandlesGrow
<1>1. IInv /\ [Next]_vars => [Grow]_vars
  BY GrowStep
<1> QED
  BY <1>1, Invariance, PTL DEF Spec, HandlesGrow, Grow, GrowOf

\* An allocation leaves the rings of writers alone, or the node is one that refused.
LEMMA AllocKeeps ==
  ASSUME IInv, NEW n \in NodeIds, NEW k \in Nat, NEW s \in Shapes, AllocRings(n, k, s)
  PROVE  Kept
<1>1. SUFFICES ASSUME NEW d \in Clients, ring[d] # NoRing, NEW y \in OwnUnits(d),
                      content'[NodeOf(d)][y] # content[NodeOf(d)][y]
               PROVE  content'[NodeOf(d)][y] # None /\ NodeOf(d) \in strayed'
  BY DEF Kept, KeptOf
<1>2. NodeOf(d) \in Nodes /\ y \in Units /\ y \in Nat /\ y < allocated[NodeOf(d)]
  BY <1>1, WriterType
<1>3. allocated[NodeOf(d)] \in Nat
  BY <1>2, RegistryAssumption DEF IInv, TypeOK
<1>4. \/ content'[NodeOf(d)][y] = content[NodeOf(d)][y]
      \/ content'[NodeOf(d)][y] = None /\ allocated[NodeOf(d)] <= y
      \/ content'[NodeOf(d)][y] \in Shapes /\ NodeOf(d) \in strayed'
  BY <1>2, AllocRingsEffect DEF IInv
<1>5. ~(allocated[NodeOf(d)] <= y)
  BY <1>2, <1>3
<1> QED
  BY <1>1, <1>4, <1>5, RegistryAssumption

LEMMA KeptStep == IInv /\ [Next]_vars => Kept
<1> SUFFICES ASSUME IInv, [Next]_vars PROVE Kept
  OBVIOUS
<1>1. CASE content' = content
  BY <1>1 DEF Kept, KeptOf
<1>2. ASSUME NEW c \in Clients, NEW b \in Names, NEW n \in NodeIds, NEW k \in Appenders,
             NEW s \in Shapes, RegisterBuffer(c, b, n, k, s) \/ CreateBuffer(c, b, n, k, s)
      PROVE  Kept
  <2>1. HandleRegister(b, n, k, s) /\ k \in Nat
    BY <1>2, RegistryAssumption DEF RegisterBuffer, CreateBuffer
  <2> QED
    BY <1>1, <2>1, AllocKeeps DEF HandleRegister, memory
<1>3. ASSUME NEW b \in Names, CreateRing(b)
      PROVE  Kept
  <2>1. AllocRings(node[b], 1, shape[b]) /\ node[b] \in NodeIds /\ shape[b] \in Shapes
    BY <1>3 DEF CreateRing, IInv, HandlesInv, TypeOK
  <2> QED
    BY <2>1, AllocKeeps
<1>4. ASSUME NEW c \in Clients, NEW x \in Units,
             AppendUnit(c, x) \/ ReleaseUnit(c, x) \/ CloseWriter(c, x)
      PROVE  Kept
  BY <1>4, AppendUnitInv, ReleaseUnitInv, CloseWriterInv
<1>5. ASSUME NEW c \in Clients, CloseUnused(c)
      PROVE  Kept
  BY <1>5, CloseUnusedInv
<1>6. ASSUME NEW c \in Clients, RetrieveBuffer(c) \/ JoinBuffer(c) \/ JoinFails(c)
      PROVE  Kept
  BY <1>1, <1>6 DEF RetrieveBuffer, JoinBuffer, HandleJoin, JoinFails, memory
<1>7. ASSUME NEW c \in Clients, NEW b \in Names, NewWriter(c, b)
      PROVE  Kept
  BY <1>1, <1>7 DEF NewWriter, memory
<1>8. CASE UNCHANGED vars
  BY <1>1, <1>8 DEF vars, memory
<1> QED
  BY <1>2, <1>3, <1>4, <1>5, <1>6, <1>7, <1>8 DEF Next

(***************************************************************************)
(* What is stored in a ring stays until its writer or reader stores there  *)
(* again, unless the buffer was registered twice or a store on that node   *)
(* went to offset 0; and no ring is laid out over another.                 *)
(***************************************************************************)
THEOREM WrittenStays == Spec => WrittenIsKept
<1>1. IInv /\ [Next]_vars => [Kept]_vars
  BY KeptStep
<1> QED
  BY <1>1, Invariance, PTL DEF Spec, WrittenIsKept, Kept, KeptOf
================================================================================
