----------------------------- MODULE RdmaMemProof -----------------------------
(***************************************************************************)
(* Theorems about RdmaMem: whatever is allocated and released, no byte is  *)
(* given out twice or beyond the memory, and none is missing but in        *)
(* regions whose release was reported as failed.                           *)
(***************************************************************************)
EXTENDS RdmaMem, SequenceTheorems, WellFoundedInduction, TLAPS

(***************************************************************************)
(* A set of natural numbers has a least element.  It stands in for         *)
(* induction: the least number without a property is looked at.            *)
(***************************************************************************)
LEMMA LeastElement ==
  ASSUME NEW T \in SUBSET Nat, T # {}
  PROVE  \E x \in T : \A y \in T : x <= y
<1>1. \E x \in T : \A y \in T : ~ (<<y, x>> \in OpToRel(<, Nat))
  BY WFMin, NatLessThanWellFounded
<1>2. \A x, y \in T : ~ (<<y, x>> \in OpToRel(<, Nat)) => x <= y
  BY DEF OpToRel
<1> QED
  BY <1>1, <1>2

\* f is the function of the sums of the first k offsets in s, k = 0 .. m.
IsSum(f, m, s) == f = [k \in 0 .. m |-> IF k = 0 THEN 0 ELSE f[k - 1] + s[k].offset]

\* There is such a function ...
LEMMA SumExists ==
  ASSUME NEW n \in Nat, NEW s
  PROVE  \A m \in 0 .. n : \E f : IsSum(f, m, s)
<1> DEFINE B == {m \in 0 .. n : ~ \E f : IsSum(f, m, s)}
<1>1. SUFFICES ASSUME B # {} PROVE FALSE
  OBVIOUS
<1>2. PICK m \in B : \A j \in B : m <= j
  <2>1. B \in SUBSET Nat
    OBVIOUS
  <2> HIDE DEF B
  <2> QED
    BY <1>1, <2>1, LeastElement
<1>3. m # 0
  <2>1. IsSum([k \in 0 .. 0 |-> 0], 0, s)
    BY DEF IsSum
  <2> QED
    BY <2>1
<1>4. m - 1 \in 0 .. n /\ m - 1 \notin B /\ m \in Nat
  BY <1>2, <1>3
<1>5. PICK f : IsSum(f, m - 1, s)
  BY <1>4
<1> DEFINE g == [k \in 0 .. m |-> IF k = m THEN f[m - 1] + s[m].offset ELSE f[k]]
<1>6. \A k \in 0 .. m - 1 : g[k] = f[k]
  BY <1>4
<1>7. \A k \in 0 .. m - 1 : f[k] = IF k = 0 THEN 0 ELSE f[k - 1] + s[k].offset
  BY <1>5 DEF IsSum
<1>8. \A k \in 0 .. m : g[k] = IF k = 0 THEN 0 ELSE g[k - 1] + s[k].offset
  <2> SUFFICES ASSUME NEW k \in 0 .. m PROVE g[k] = IF k = 0 THEN 0 ELSE g[k - 1] + s[k].offset
    OBVIOUS
  <2>1. CASE k = m
    <3>1. m - 1 \in 0 .. m - 1
      BY <1>3, <1>4
    <3> QED
      BY <1>3, <1>6, <2>1, <3>1
  <2>2. CASE k # m
    <3>1. k \in 0 .. m - 1 /\ (k # 0 => k - 1 \in 0 .. m - 1)
      BY <1>4, <2>2
    <3> QED
      BY <1>6, <1>7, <3>1
  <2> QED
    BY <2>1, <2>2
<1>9. IsSum(g, m, s)
  <2> HIDE DEF g
  <2>1. g = [k \in 0 .. m |-> g[k]]
    BY DEF g
  <2> QED
    BY <1>8, <2>1 DEF IsSum
<1> QED
  BY <1>9

\* ... and a sum of natural numbers is at least the last of them.
LEMMA SumBound ==
  ASSUME NEW m \in Nat, NEW s, \A k \in 1 .. m : s[k].offset \in Nat, NEW f, IsSum(f, m, s)
  PROVE  f[m] \in Nat /\ (m > 0 => s[m].offset <= f[m])
<1>1. \A k \in 0 .. m : f[k] = IF k = 0 THEN 0 ELSE f[k - 1] + s[k].offset
  BY DEF IsSum
<1> DEFINE B == {k \in 0 .. m : f[k] \notin Nat}
<1>2. B = {}
  <2>1. SUFFICES ASSUME B # {} PROVE FALSE
    OBVIOUS
  <2>2. PICK k \in B : \A j \in B : k <= j
    <3>1. B \in SUBSET Nat
      OBVIOUS
    <3> HIDE DEF B
    <3> QED
      BY <2>1, <3>1, LeastElement
  <2>3. k # 0
    BY <1>1
  <2>4. k - 1 \in 0 .. m /\ k - 1 \notin B /\ k \in 1 .. m
    BY <2>2, <2>3
  <2>5. f[k] = f[k - 1] + s[k].offset /\ s[k].offset \in Nat /\ f[k - 1] \in Nat
    BY <1>1, <2>3, <2>4
  <2> QED
    BY <2>5
<1>3. \A k \in 0 .. m : f[k] \in Nat
  BY <1>2
<1>4. CASE m > 0
  <2>1. m - 1 \in 0 .. m /\ m \in 0 .. m /\ m \in 1 .. m
    BY <1>4
  <2>2. f[m] = f[m - 1] + s[m].offset
    BY <1>1, <1>4, <2>1
  <2> QED
    BY <1>3, <2>1, <2>2
<1> QED
  BY <1>3, <1>4

\* lastOffset is not below the offset of the entry looked at before.
LEMMA LastOffsetBound ==
  ASSUME free \in Seq(Region), NEW i \in DOMAIN free
  PROVE  LastOffset(i) \in Nat /\ (i > 1 => free[i - 1].offset <= LastOffset(i))
<1> DEFINE f == CHOOSE sum : IsSum(sum, i - 1, free)
<1>1. i \in 1 .. Len(free) /\ Len(free) \in Nat /\ i - 1 \in Nat
  OBVIOUS
<1>2. \A k \in 1 .. i - 1 : free[k].offset \in Nat
  <2> SUFFICES ASSUME NEW k \in 1 .. i - 1 PROVE free[k].offset \in Nat
    OBVIOUS
  <2>1. k \in 1 .. Len(free)
    BY <1>1
  <2>2. free[k] \in Region
    BY <2>1, ElementOfSeq
  <2> QED
    BY <2>2, MemAssumption DEF Region
<1>3. IsSum(f, i - 1, free)
  <2>1. i - 1 \in 0 .. i - 1
    BY <1>1
  <2>2. \E sum : IsSum(sum, i - 1, free)
    BY <1>1, <2>1, SumExists
  <2> QED
    BY <2>2, Zenon
<1>4. LastOffset(i) = f[i - 1]
  BY Zenon DEF LastOffset, IsSum
<1> HIDE DEF f
<1>5. f[i - 1] \in Nat /\ (i - 1 > 0 => free[i - 1].offset <= f[i - 1])
  BY <1>1, <1>2, <1>3, SumBound
<1> QED
  BY <1>1, <1>4, <1>5

-----------------------------------------------------------------------------
\* A list with t behind it.
LEMMA ConcatType ==
  ASSUME NEW S, NEW s \in Seq(S), NEW t \in Seq(S)
  PROVE  /\ s \o t \in Seq(S)
         /\ Len(s \o t) = Len(s) + Len(t)
         /\ \A j \in 1 .. Len(s) : (s \o t)[j] = s[j]
         /\ \A j \in 1 .. Len(t) : (s \o t)[Len(s) + j] = t[j]
OBVIOUS

\* The entries lo .. hi of a list are replaced by m.
Splice(s, lo, m, hi) == SubSeq(s, 1, lo - 1) \o <<m>> \o SubSeq(s, hi + 1, Len(s))
IsSplice(u, S, s, lo, m, hi) ==
  /\ u \in Seq(S) /\ Len(u) = lo + Len(s) - hi /\ u[lo] = m
  /\ \A j \in 1 .. lo - 1 : u[j] = s[j]
  /\ \A j \in lo + 1 .. lo + Len(s) - hi : u[j] = s[j + hi - lo]

LEMMA Spliced ==
  ASSUME NEW S, NEW s \in Seq(S), NEW m \in S, NEW lo \in Nat, NEW hi \in Nat,
         1 <= lo, lo <= hi + 1, hi <= Len(s)
  PROVE  IsSplice(Splice(s, lo, m, hi), S, s, lo, m, hi)
<1> DEFINE a == SubSeq(s, 1, lo - 1)
           b == SubSeq(s, hi + 1, Len(s))
           am == a \o <<m>>
<1>0. Len(s) \in Nat
  OBVIOUS
<1>1. /\ a \in Seq(S) /\ Len(a) = lo - 1
      /\ \A j \in 1 .. lo - 1 : a[j] = s[j]
  BY <1>0
<1>2. /\ b \in Seq(S) /\ Len(b) = Len(s) - hi
      /\ \A j \in 1 .. Len(s) - hi : b[j] = s[hi + j]
  BY <1>0
<1> HIDE DEF a, b
<1>3. /\ am \in Seq(S) /\ Len(am) = lo /\ am[lo] = m
      /\ \A j \in 1 .. lo - 1 : am[j] = a[j]
  BY <1>1
<1> HIDE DEF am
<1>4. /\ am \o b \in Seq(S) /\ Len(am \o b) = lo + Len(s) - hi
      /\ \A j \in 1 .. lo : (am \o b)[j] = am[j]
      /\ \A j \in 1 .. Len(s) - hi : (am \o b)[lo + j] = b[j]
  <2>1. /\ am \o b \in Seq(S) /\ Len(am \o b) = Len(am) + Len(b)
        /\ \A j \in 1 .. Len(am) : (am \o b)[j] = am[j]
        /\ \A j \in 1 .. Len(b) : (am \o b)[Len(am) + j] = b[j]
    <3>1. am \in Seq(S) /\ b \in Seq(S)
      BY <1>2, <1>3
    <3> QED
      BY <3>1, ConcatType
  <2>2. lo + (Len(s) - hi) = lo + Len(s) - hi
    BY <1>0
  <2> QED
    BY <1>2, <1>3, <2>1, <2>2
<1>5. \A j \in lo + 1 .. lo + Len(s) - hi :
        j - lo \in 1 .. Len(s) - hi /\ lo + (j - lo) = j /\ hi + (j - lo) = j + hi - lo
  BY <1>0
<1>6. ASSUME NEW j \in lo + 1 .. lo + Len(s) - hi
      PROVE  (am \o b)[j] = s[j + hi - lo]
  <2>1. (am \o b)[lo + (j - lo)] = b[j - lo] /\ b[j - lo] = s[hi + (j - lo)]
    BY <1>2, <1>4, <1>5
  <2> QED
    BY <1>5, <2>1
<1>7. lo \in 1 .. lo /\ \A j \in 1 .. lo - 1 : j \in 1 .. lo
  OBVIOUS
<1> QED
  BY <1>1, <1>3, <1>4, <1>6, <1>7 DEF am, a, b, Splice, IsSplice

\* The entry i of a list is deleted.
LEMMA Deleted ==
  ASSUME NEW S, NEW s \in Seq(S), NEW i \in 1 .. Len(s)
  PROVE  LET u == SubSeq(s, 1, i - 1) \o SubSeq(s, i + 1, Len(s))
         IN  /\ u \in Seq(S) /\ Len(u) = Len(s) - 1
             /\ \A j \in 1 .. Len(s) - 1 : u[j] = IF j < i THEN s[j] ELSE s[j + 1]
<1> DEFINE a == SubSeq(s, 1, i - 1)
           b == SubSeq(s, i + 1, Len(s))
<1>0. Len(s) \in Nat
  OBVIOUS
<1>1. /\ a \in Seq(S) /\ Len(a) = i - 1
      /\ \A j \in 1 .. i - 1 : a[j] = s[j]
  BY <1>0
<1>2. /\ b \in Seq(S) /\ Len(b) = Len(s) - i
      /\ \A j \in 1 .. Len(s) - i : b[j] = s[i + j]
  BY <1>0
<1> HIDE DEF a, b
<1>3. /\ a \o b \in Seq(S) /\ Len(a \o b) = Len(s) - 1
      /\ \A j \in 1 .. i - 1 : (a \o b)[j] = a[j]
      /\ \A j \in 1 .. Len(s) - i : (a \o b)[i - 1 + j] = b[j]
  <2>1. /\ a \o b \in Seq(S) /\ Len(a \o b) = Len(a) + Len(b)
        /\ \A j \in 1 .. Len(a) : (a \o b)[j] = a[j]
        /\ \A j \in 1 .. Len(b) : (a \o b)[Len(a) + j] = b[j]
    <3>1. a \in Seq(S) /\ b \in Seq(S)
      BY <1>1, <1>2
    <3> QED
      BY <3>1, ConcatType
  <2>2. i - 1 + (Len(s) - i) = Len(s) - 1
    BY <1>0
  <2> QED
    BY <1>1, <1>2, <2>1, <2>2
<1>4. ASSUME NEW j \in 1 .. Len(s) - 1, ~(j < i)
      PROVE  (a \o b)[j] = s[j + 1]
  <2>1. j - i + 1 \in 1 .. Len(s) - i /\ i - 1 + (j - i + 1) = j /\ i + (j - i + 1) = j + 1
    BY <1>0, <1>4
  <2>2. (a \o b)[i - 1 + (j - i + 1)] = b[j - i + 1] /\ b[j - i + 1] = s[i + (j - i + 1)]
    BY <1>2, <1>3, <2>1
  <2> QED
    BY <2>1, <2>2
<1>5. ASSUME NEW j \in 1 .. Len(s) - 1, j < i
      PROVE  (a \o b)[j] = s[j]
  <2>1. j \in 1 .. i - 1
    BY <1>0, <1>5
  <2> QED
    BY <1>1, <1>3, <2>1
<1> QED
  BY <1>3, <1>4, <1>5 DEF a, b

-----------------------------------------------------------------------------
End(r) == r.offset + r.size
Apart(r, s) == End(r) <= s.offset \/ End(s) <= r.offset

\* A list of regions of the memory in the order of addresses, no two of which meet.
InOrder(s) ==
  /\ s \in Seq(Region)
  /\ \A i \in DOMAIN s : End(s[i]) <= MemSize
  /\ \A i, j \in DOMAIN s : i < j => End(s[i]) < s[j].offset

\* The regions in use and the dropped ones.
GivenOut ==
  /\ used \subseteq Region /\ lost \subseteq Region /\ used \cap lost = {}
  /\ \A r \in used \cup lost : End(r) <= MemSize
  /\ \A r, s \in used \cup lost : r # s => Apart(r, s)

\* What is given out is not free.
NotFree == \A r \in used \cup lost : \A i \in DOMAIN free : Apart(r, free[i])

\* Address x is given out, or free.
Covered(x) ==
  \/ \E r \in used \cup lost : x \in Bytes(r)
  \/ \E i \in DOMAIN free : x \in Bytes(free[i])

IInv ==
  /\ InOrder(free) /\ GivenOut /\ NotFree
  /\ \A x \in 0 .. MemSize - 1 : Covered(x)

\* Regions are made of integers.
LEMMA RegionType ==
  ASSUME NEW r \in Region
  PROVE  /\ r.offset \in 0 .. MemSize - 1 /\ r.size \in 1 .. MemSize /\ MemSize \in Nat \ {0}
         /\ r.offset \in Int /\ r.size \in Int /\ r.size >= 1 /\ r.offset >= 0
         /\ End(r) \in Int /\ End(r) = r.offset + r.size /\ r.offset < End(r)
         /\ \A x \in Int : x \in Bytes(r) <=> r.offset <= x /\ x < End(r)
         /\ Bytes(r) \subseteq Int
<1>1. r.offset \in 0 .. MemSize - 1 /\ r.size \in 1 .. MemSize /\ MemSize \in Nat \ {0}
  BY MemAssumption DEF Region
<1>2. r.offset \in Int /\ r.size \in Int /\ r.size >= 1 /\ r.offset >= 0
  BY <1>1
<1> QED
  BY <1>1, <1>2 DEF End, Bytes

LEMMA MakeRegion ==
  ASSUME NEW o \in Nat, NEW k \in Nat \ {0}, o + k <= MemSize
  PROVE  [offset |-> o, size |-> k] \in Region
<1>1. o \in 0 .. MemSize - 1 /\ k \in 1 .. MemSize
  BY MemAssumption
<1> QED
  BY <1>1 DEF Region

\* The entries of the free list.
LEMMA EntryType ==
  ASSUME NEW s, InOrder(s)
  PROVE  /\ Len(s) \in Nat /\ DOMAIN s = 1 .. Len(s)
         /\ \A i \in 1 .. Len(s) :
              /\ s[i] \in Region
              /\ s[i].offset \in Int /\ End(s[i]) \in Int
              /\ 0 <= s[i].offset /\ s[i].offset < End(s[i]) /\ End(s[i]) <= MemSize
         /\ \A i, j \in 1 .. Len(s) : i < j => End(s[i]) < s[j].offset
<1>1. Len(s) \in Nat /\ DOMAIN s = 1 .. Len(s)
  BY DEF InOrder
<1>2. \A i \in 1 .. Len(s) : s[i] \in Region
  BY ElementOfSeq DEF InOrder
<1> QED
  BY <1>1, <1>2, RegionType DEF InOrder

LEMMA InitInv == Init => IInv
<1> SUFFICES ASSUME Init PROVE IInv
  OBVIOUS
<1> DEFINE all == [offset |-> 0, size |-> MemSize]
<1>1. all \in Region /\ End(all) = MemSize /\ all.offset = 0 /\ all.size = MemSize
  BY MemAssumption DEF Region, End
<1>2. free = <<all>> /\ used = {} /\ lost = {}
  BY DEF Init
<1> HIDE DEF all
<1>3. free \in Seq(Region) /\ DOMAIN free = {1} /\ free[1] = all
  BY <1>1, <1>2
<1>4. InOrder(free)
  BY <1>1, <1>3, MemAssumption DEF InOrder
<1>5. GivenOut /\ NotFree
  BY <1>2 DEF GivenOut, NotFree
<1>6. \A x \in 0 .. MemSize - 1 : Covered(x)
  BY <1>1, <1>3, MemAssumption DEF Covered, Bytes
<1> QED
  BY <1>4, <1>5, <1>6 DEF IInv

\* The entry internalAlloc takes.
LEMMA FirstFitType ==
  ASSUME InOrder(free), NEW n \in Nat, Fitting(n) # {}
  PROVE  FirstFit(n) \in Fitting(n)
<1>1. Fitting(n) \in SUBSET Nat
  BY EntryType DEF Fitting
<1>2. \E i \in Fitting(n) : \A j \in Fitting(n) : i <= j
  BY <1>1, LeastElement
<1> QED
  BY <1>2, Zenon DEF FirstFit

(***************************************************************************)
(* The list after n bytes were taken from entry i: every entry is one that *)
(* was there, or the rest of entry i, and every byte but those n is there. *)
(***************************************************************************)
LEMMA TakeFrontInOrder ==
  ASSUME InOrder(free), NEW i \in 1 .. Len(free), NEW n \in Nat \ {0}, n <= free[i].size
  PROVE  LET u == TakeFront(free, i, n)
         IN  /\ InOrder(u)
             /\ \A k \in DOMAIN u : \E j \in 1 .. Len(free) :
                  /\ free[j].offset <= u[k].offset /\ End(u[k]) <= End(free[j])
                  /\ j = i => free[i].offset + n <= u[k].offset
             /\ \A x \in Int : \A j \in 1 .. Len(free) :
                  x \in Bytes(free[j]) /\ ~(j = i /\ x < free[i].offset + n)
                    => \E k \in DOMAIN u : x \in Bytes(u[k])
<1>1. /\ Len(free) \in Nat /\ DOMAIN free = 1 .. Len(free)
      /\ \A k \in 1 .. Len(free) :
              /\ free[k] \in Region
              /\ free[k].offset \in Int /\ End(free[k]) \in Int
              /\ 0 <= free[k].offset /\ free[k].offset < End(free[k]) /\ End(free[k]) <= MemSize
      /\ \A k, j \in 1 .. Len(free) : k < j => End(free[k]) < free[j].offset
  BY EntryType
<1>2. free \in Seq(Region)
  BY DEF InOrder
<1>3. \A r \in Region : \A x \in Int : x \in Bytes(r) <=> r.offset <= x /\ x < End(r)
  BY RegionType
<1>4. CASE free[i].size > n
  <2> DEFINE rest == [offset |-> free[i].offset + n, size |-> free[i].size - n]
             u == [free EXCEPT ![i] = rest]
  <2>1. /\ free[i].size \in Int /\ free[i].offset \in Int /\ free[i].offset >= 0
        /\ End(free[i]) = free[i].offset + free[i].size
    BY <1>1, RegionType
  <2>2. /\ rest.offset = free[i].offset + n /\ End(rest) = End(free[i])
        /\ rest.offset \in Int /\ End(rest) \in Int
        /\ free[i].offset <= rest.offset
    BY <2>1 DEF End
  <2>3. rest \in Region
    <3>1. /\ free[i].offset + n \in Nat /\ free[i].size - n \in Nat \ {0}
          /\ free[i].offset + n + (free[i].size - n) <= MemSize
      BY <1>1, <1>4, <2>1
    <3> QED
      BY <3>1, MakeRegion
  <2> HIDE DEF rest
  <2>4. /\ u \in Seq(Region) /\ DOMAIN u = 1 .. Len(free) /\ u[i] = rest
        /\ \A k \in 1 .. Len(free) : k # i => u[k] = free[k]
    BY <1>1, <1>2, <2>3
  <2>5. TakeFront(free, i, n) = u
    BY <1>4 DEF TakeFront, rest
  <2> HIDE DEF u
  <2>6. InOrder(u)
    <3>1. ASSUME NEW k \in DOMAIN u PROVE End(u[k]) <= MemSize
      BY <1>1, <2>2, <2>4
    <3>2. ASSUME NEW k \in DOMAIN u, NEW j \in DOMAIN u, k < j PROVE End(u[k]) < u[j].offset
      <4>1. k \in 1 .. Len(free) /\ j \in 1 .. Len(free) /\ End(free[k]) < free[j].offset
        BY <1>1, <2>4, <3>2
      <4>2. End(u[k]) = End(free[k])
        BY <2>2, <2>4, <4>1
      <4>3. free[j].offset <= u[j].offset /\ u[j].offset \in Int
        BY <1>1, <2>2, <2>4, <4>1
      <4> QED
        BY <1>1, <4>1, <4>2, <4>3
    <3> QED
      BY <2>4, <3>1, <3>2 DEF InOrder
  <2>7. ASSUME NEW k \in DOMAIN u
        PROVE  \E j \in 1 .. Len(free) :
                  /\ free[j].offset <= u[k].offset /\ End(u[k]) <= End(free[j])
                  /\ j = i => free[i].offset + n <= u[k].offset
    <3>1. CASE k = i
      BY <1>1, <2>1, <2>2, <2>4, <3>1
    <3>2. CASE k # i
      BY <1>1, <2>4, <3>2
    <3> QED
      BY <3>1, <3>2
  <2>8. ASSUME NEW x \in Int, NEW j \in 1 .. Len(free),
               x \in Bytes(free[j]), ~(j = i /\ x < free[i].offset + n)
        PROVE  x \in Bytes(u[j]) /\ j \in DOMAIN u
    <3>1. CASE j = i
      <4>1. x < End(free[i]) /\ free[i].offset + n <= x
        BY <1>1, <1>3, <2>1, <2>8, <3>1
      <4> QED
        BY <1>3, <2>2, <2>3, <2>4, <3>1, <4>1
    <3>2. CASE j # i
      BY <2>4, <2>8, <3>2
    <3> QED
      BY <3>1, <3>2
  <2> QED
    BY <2>5, <2>6, <2>7, <2>8
<1>5. CASE ~(free[i].size > n)
  <2> DEFINE u == SubSeq(free, 1, i - 1) \o SubSeq(free, i + 1, Len(free))
  <2>1. TakeFront(free, i, n) = u
    BY <1>5 DEF TakeFront
  <2>2. /\ u \in Seq(Region) /\ Len(u) = Len(free) - 1
        /\ \A j \in 1 .. Len(free) - 1 : u[j] = IF j < i THEN free[j] ELSE free[j + 1]
    BY <1>2, Deleted
  <2> HIDE DEF u
  <2>3. DOMAIN u = 1 .. Len(free) - 1
    BY <1>1, <2>2
  <2> DEFINE at(k) == IF k < i THEN k ELSE k + 1
  <2>4. ASSUME NEW k \in DOMAIN u
        PROVE  at(k) \in 1 .. Len(free) /\ at(k) # i /\ u[k] = free[at(k)]
    BY <1>1, <2>2, <2>3
  <2>5. \A k, j \in DOMAIN u : k < j => at(k) < at(j)
    BY <1>1, <2>3
  <2>6. InOrder(u)
    <3> HIDE DEF at
    <3>1. \A k \in DOMAIN u : End(u[k]) <= MemSize
      BY <1>1, <2>4
    <3>2. \A k, j \in DOMAIN u : k < j => End(u[k]) < u[j].offset
      BY <1>1, <2>4, <2>5
    <3> QED
      BY <2>2, <3>1, <3>2 DEF InOrder
  <2>7. ASSUME NEW k \in DOMAIN u
        PROVE  \E j \in 1 .. Len(free) :
                  /\ free[j].offset <= u[k].offset /\ End(u[k]) <= End(free[j])
                  /\ j = i => free[i].offset + n <= u[k].offset
    <3> HIDE DEF at
    <3>1. free[at(k)].offset <= u[k].offset /\ End(u[k]) <= End(free[at(k)])
      BY <1>1, <2>4
    <3> QED
      BY <2>4, <3>1
  <2>8. ASSUME NEW x \in Int, NEW j \in 1 .. Len(free),
               x \in Bytes(free[j]), ~(j = i /\ x < free[i].offset + n)
        PROVE  \E k \in DOMAIN u : x \in Bytes(u[k])
    <3>1. j # i
      <4>1. /\ free[i].size \in Int /\ free[i].offset \in Int
            /\ End(free[i]) = free[i].offset + free[i].size
        BY <1>1, RegionType
      <4>2. End(free[i]) <= free[i].offset + n
        BY <1>5, <4>1
      <4>3. j = i => x < End(free[i])
        BY <1>1, <1>3, <2>8
      <4> QED
        BY <1>1, <2>8, <4>1, <4>2, <4>3
    <3>2. CASE j < i
      <4>1. j \in DOMAIN u /\ u[j] = free[j]
        BY <1>1, <2>2, <2>3, <3>2
      <4> QED
        BY <2>8, <4>1
    <3>3. CASE j > i
      <4>1. j - 1 \in 1 .. Len(free) - 1 /\ ~(j - 1 < i) /\ (j - 1) + 1 = j
        BY <1>1, <3>3
      <4>2. j - 1 \in DOMAIN u /\ u[j - 1] = free[j]
        BY <2>2, <2>3, <4>1
      <4> QED
        BY <2>8, <4>2
    <3> QED
      BY <1>1, <3>1, <3>2, <3>3
  <2> QED
    BY <2>1, <2>6, <2>7, <2>8
<1> QED
  BY <1>4, <1>5

LEMMA AllocInv ==
  ASSUME IInv, NEW n \in Sizes, Alloc(n)
  PROVE  IInv'
<1> DEFINE i == FirstFit(n)
           f == free[i]
           g == [offset |-> f.offset, size |-> n]
           u == TakeFront(free, i, n)
<1>1. n \in Nat \ {0} /\ MemSize \in Nat
  BY MemAssumption
<1>2. /\ lost' = lost /\ free' = u
      /\ used' = {r \in used : r.offset # f.offset} \cup {g}
  BY DEF Alloc
<1>3. i \in 1 .. Len(free) /\ n <= f.size
  <2>1. i \in Fitting(n)
    BY <1>1, FirstFitType DEF Alloc, IInv
  <2>2. DOMAIN free = 1 .. Len(free)
    BY EntryType DEF IInv
  <2> HIDE DEF i
  <2>3. i \in 1 .. Len(free) /\ free[i].size >= n
    BY <2>1, <2>2 DEF Fitting
  <2>4. free[i] \in Region
    BY <2>3, EntryType DEF IInv
  <2>5. free[i].size \in Int
    BY <2>4, RegionType
  <2> QED
    BY <1>1, <2>3, <2>5
<1> HIDE DEF i
<1>4. /\ f \in Region /\ f.offset \in Int /\ f.size \in Int /\ End(f) = f.offset + f.size
      /\ f.offset >= 0 /\ End(f) \in Int /\ End(f) <= MemSize /\ f.offset < End(f)
  <2>1. f \in Region /\ End(f) <= MemSize
    BY <1>3, EntryType DEF IInv
  <2> QED
    BY <2>1, RegionType
<1> HIDE DEF f
<1>5. /\ g \in Region /\ g.offset = f.offset /\ End(g) = f.offset + n /\ End(g) <= End(f)
      /\ \A x \in Int : x \in Bytes(g) <=> f.offset <= x /\ x < f.offset + n
  <2>1. /\ f.offset \in Nat /\ f.offset + n <= MemSize /\ f.offset + n <= End(f)
    BY <1>1, <1>3, <1>4
  <2>2. g \in Region
    BY <1>1, <2>1, MakeRegion
  <2>3. g.offset = f.offset /\ End(g) = f.offset + n
    BY DEF End
  <2> QED
    BY <2>1, <2>2, <2>3, RegionType
<1> HIDE DEF g
<1>6. /\ InOrder(u)
      /\ \A k \in DOMAIN u : \E j \in 1 .. Len(free) :
           /\ free[j].offset <= u[k].offset /\ End(u[k]) <= End(free[j])
           /\ j = i => f.offset + n <= u[k].offset
      /\ \A x \in Int : \A j \in 1 .. Len(free) :
           x \in Bytes(free[j]) /\ ~(j = i /\ x < f.offset + n)
             => \E k \in DOMAIN u : x \in Bytes(u[k])
  BY <1>1, <1>3, TakeFrontInOrder DEF IInv, f
<1> HIDE DEF u
<1>7. /\ Len(free) \in Nat /\ DOMAIN free = 1 .. Len(free)
      /\ \A k \in 1 .. Len(free) :
              /\ free[k] \in Region
              /\ free[k].offset \in Int /\ End(free[k]) \in Int
              /\ free[k].offset < End(free[k])
      /\ \A k, j \in 1 .. Len(free) : k < j => End(free[k]) < free[j].offset
  BY EntryType DEF IInv
<1>8. \A r \in used \cup lost :
        /\ r \in Region /\ r.offset \in Int /\ End(r) \in Int /\ r.offset < End(r)
        /\ Apart(r, g) /\ r.offset # f.offset
  <2> SUFFICES ASSUME NEW r \in used \cup lost
               PROVE  /\ r \in Region /\ r.offset \in Int /\ End(r) \in Int /\ r.offset < End(r)
                      /\ Apart(r, g) /\ r.offset # f.offset
    OBVIOUS
  <2>1. r \in Region
    BY DEF IInv, GivenOut
  <2>2. r.offset \in Int /\ End(r) \in Int /\ r.offset < End(r)
    BY <2>1, RegionType
  <2>3. Apart(r, f)
    BY <1>3, <1>7 DEF IInv, NotFree, f
  <2> QED
    BY <1>1, <1>4, <1>5, <2>1, <2>2, <2>3 DEF Apart
<1>9. used' = used \cup {g}
  BY <1>2, <1>8
<1>10. InOrder(free')
  BY <1>2, <1>6
<1>11. GivenOut'
  <2>1. used' \subseteq Region /\ lost' \subseteq Region
    BY <1>2, <1>5, <1>9 DEF IInv, GivenOut
  <2>2. used' \cap lost' = {}
    <3>1. g \notin lost
      BY <1>5, <1>8
    <3> QED
      BY <1>2, <1>9, <3>1 DEF IInv, GivenOut
  <2>3. \A r \in used' \cup lost' : End(r) <= MemSize
    <3>1. End(g) <= MemSize
      BY <1>1, <1>4, <1>5
    <3> QED
      BY <1>2, <1>9, <3>1 DEF IInv, GivenOut
  <2>4. \A r, s \in used' \cup lost' : r # s => Apart(r, s)
    <3>1. \A r \in used \cup lost : Apart(r, g) /\ Apart(g, r)
      BY <1>8 DEF Apart
    <3> QED
      BY <1>2, <1>9, <3>1 DEF IInv, GivenOut
  <2> QED
    BY <2>1, <2>2, <2>3, <2>4 DEF GivenOut
<1>12. NotFree'
  <2> SUFFICES ASSUME NEW r \in used' \cup lost', NEW k \in DOMAIN u
               PROVE  Apart(r, u[k])
    BY <1>2 DEF NotFree
  <2>1. PICK j \in 1 .. Len(free) :
          /\ free[j].offset <= u[k].offset /\ End(u[k]) <= End(free[j])
          /\ j = i => f.offset + n <= u[k].offset
    BY <1>6
  <2>2. u[k].offset \in Int /\ End(u[k]) \in Int
    BY <1>6, EntryType
  <2>3. CASE r \in used \cup lost
    <3>1. Apart(r, free[j])
      BY <1>7, <2>3 DEF IInv, NotFree
    <3> QED
      BY <1>7, <1>8, <2>1, <2>2, <2>3, <3>1 DEF Apart
  <2>4. CASE r = g
    <3>1. CASE j = i
      BY <1>5, <2>1, <2>4, <3>1 DEF Apart
    <3>2. CASE j < i
      <4>1. End(free[j]) < f.offset
        BY <1>3, <1>7, <3>2 DEF f
      <4> QED
        BY <1>4, <1>5, <1>7, <2>1, <2>2, <2>4, <4>1 DEF Apart
    <3>3. CASE i < j
      <4>1. End(f) < free[j].offset
        BY <1>3, <1>7, <3>3 DEF f
      <4>2. End(g) \in Int
        BY <1>1, <1>4, <1>5
      <4> QED
        BY <1>4, <1>5, <1>7, <2>1, <2>2, <2>4, <4>1, <4>2 DEF Apart
    <3> QED
      BY <1>3, <1>7, <3>1, <3>2, <3>3
  <2> QED
    BY <1>2, <1>9, <2>3, <2>4
<1>13. ASSUME NEW x \in 0 .. MemSize - 1
       PROVE  Covered(x)'
  <2>1. CASE \E r \in used \cup lost : x \in Bytes(r)
    BY <1>2, <1>9, <2>1 DEF Covered
  <2>2. CASE \E j \in DOMAIN free : x \in Bytes(free[j])
    <3>1. PICK j \in DOMAIN free : x \in Bytes(free[j])
      BY <2>2
    <3>2. CASE j = i /\ x < f.offset + n
      <4>1. f.offset <= x
        BY <1>4, <3>1, <3>2, RegionType DEF f
      <4>2. x \in Bytes(g)
        BY <1>5, <3>2, <4>1
      <4> QED
        BY <1>9, <4>2 DEF Covered
    <3>3. CASE ~(j = i /\ x < f.offset + n)
      <4>1. \E k \in DOMAIN u : x \in Bytes(u[k])
        BY <1>6, <1>7, <3>1, <3>3
      <4> QED
        BY <1>2, <4>1 DEF Covered
    <3> QED
      BY <3>2, <3>3
  <2> QED
    BY <2>1, <2>2 DEF IInv, Covered
<1> QED
  BY <1>10, <1>11, <1>12, <1>13 DEF IInv, InOrder

-----------------------------------------------------------------------------
(***************************************************************************)
(* Where a region in use is put into the list: behind every entry before   *)
(* the slot and in front of the others.                                    *)
(***************************************************************************)
LEMMA SlotPlace ==
  ASSUME IInv, NEW r \in used, NEW i \in Slots(r)
  PROVE  /\ i \in 1 .. Len(free)
         /\ \A j \in 1 .. Len(free) : /\ j < i => End(free[j]) <= r.offset
                                      /\ j >= i => End(r) <= free[j].offset
<1>1. /\ Len(free) \in Nat /\ DOMAIN free = 1 .. Len(free)
      /\ \A k \in 1 .. Len(free) :
              /\ free[k] \in Region
              /\ free[k].offset \in Int /\ End(free[k]) \in Int
              /\ free[k].offset < End(free[k])
      /\ \A k, j \in 1 .. Len(free) : k < j => End(free[k]) < free[j].offset
  BY EntryType DEF IInv
<1>2. i \in 1 .. Len(free) /\ LastOffset(i) <= r.offset /\ r.offset < free[i].offset
  BY <1>1 DEF Slots
<1>3. LastOffset(i) \in Nat /\ (i > 1 => free[i - 1].offset <= LastOffset(i))
  BY <1>1, <1>2, LastOffsetBound DEF IInv, InOrder
<1>4. r.offset \in Int /\ End(r) \in Int /\ r.offset < End(r)
  BY RegionType DEF IInv, GivenOut
<1>5. \A j \in 1 .. Len(free) : Apart(r, free[j])
  BY <1>1 DEF IInv, NotFree
<1>6. ASSUME NEW j \in 1 .. Len(free), j < i
      PROVE  End(free[j]) <= r.offset
  <2>1. i - 1 \in 1 .. Len(free) /\ i > 1 /\ (j < i - 1 \/ j = i - 1)
    BY <1>2, <1>6
  <2>2. free[i - 1].offset <= r.offset
    BY <1>1, <1>2, <1>3, <1>4, <2>1
  <2>3. End(free[i - 1]) <= r.offset
    BY <1>1, <1>4, <1>5, <2>1, <2>2 DEF Apart
  <2>4. CASE j < i - 1
    <3>1. End(free[j]) < free[i - 1].offset
      BY <1>1, <2>1, <2>4
    <3> QED
      BY <1>1, <1>4, <2>1, <2>2, <3>1
  <2> QED
    BY <2>1, <2>3, <2>4
<1>7. ASSUME NEW j \in 1 .. Len(free), j >= i
      PROVE  End(r) <= free[j].offset
  <2>1. End(r) <= free[i].offset
    BY <1>1, <1>2, <1>4, <1>5 DEF Apart
  <2>2. CASE j = i
    BY <2>1, <2>2
  <2>3. CASE j > i
    <3>1. End(free[i]) < free[j].offset
      BY <1>1, <1>2, <2>3
    <3> QED
      BY <1>1, <1>2, <1>4, <2>1, <3>1
  <2> QED
    BY <1>2, <1>7, <2>2, <2>3
<1> QED
  BY <1>2, <1>6, <1>7

(***************************************************************************)
(* The list with a released region in it: still in order and without two   *)
(* entries that meet, apart from what is given out, and with every byte of *)
(* the region and of the entries before.                                   *)
(***************************************************************************)
LEMMA ReleasedInOrder ==
  ASSUME IInv, NEW r \in used, NEW i \in Slots(r)
  PROVE  LET u == MergeFreeMem(InsertAt(free, i, r), i)
         IN  /\ InOrder(u)
             /\ \A s \in used \cup lost : s # r => \A k \in DOMAIN u : Apart(s, u[k])
             /\ \A x \in Int : x \in Bytes(r) \/ (\E j \in DOMAIN free : x \in Bytes(free[j]))
                  => \E k \in DOMAIN u : x \in Bytes(u[k])
<1> DEFINE n == Len(free)
           t == InsertAt(free, i, r)
<1>1. /\ n \in Nat /\ DOMAIN free = 1 .. n
      /\ \A k \in 1 .. n :
           /\ free[k] \in Region
           /\ free[k].offset \in Int /\ End(free[k]) \in Int
           /\ free[k].offset < End(free[k]) /\ End(free[k]) <= MemSize
      /\ \A k, j \in 1 .. n : k < j => End(free[k]) < free[j].offset
  BY EntryType DEF IInv
<1>2. /\ i \in 1 .. n
      /\ \A j \in 1 .. n : /\ j < i => End(free[j]) <= r.offset
                           /\ j >= i => End(r) <= free[j].offset
  BY SlotPlace
<1>3. /\ r \in Region /\ r.offset \in Int /\ End(r) \in Int /\ r.offset < End(r)
      /\ End(r) <= MemSize
  BY RegionType DEF IInv, GivenOut
<1>4. /\ t \in Seq(Region) /\ Len(t) = n + 1 /\ t[i] = r
      /\ \A j \in 1 .. i - 1 : t[j] = free[j]
      /\ \A j \in i + 1 .. n + 1 : t[j] = free[j - 1]
  <2>1. /\ free \in Seq(Region) /\ i \in Nat /\ i - 1 \in Nat /\ 1 <= i
        /\ i <= (i - 1) + 1 /\ i - 1 <= n /\ (i - 1) + 1 = i
    BY <1>1, <1>2 DEF IInv, InOrder
  <2> DEFINE v == Splice(free, i, r, i - 1)
  <2>2. /\ v \in Seq(Region) /\ Len(v) = i + n - (i - 1) /\ v[i] = r
        /\ \A j \in 1 .. i - 1 : v[j] = free[j]
        /\ \A j \in i + 1 .. i + n - (i - 1) : v[j] = free[j + (i - 1) - i]
    <3>1. r \in Region
      BY <1>3
    <3> QED
      <4>1. IsSplice(v, Region, free, i, r, i - 1)
        BY <2>1, <3>1, Spliced
      <4> HIDE DEF v
      <4> QED
        BY <4>1 DEF IsSplice
  <2>3. t = v
    BY <2>1 DEF InsertAt, Splice
  <2>4. i + n - (i - 1) = n + 1 /\ \A j \in i + 1 .. n + 1 : j + (i - 1) - i = j - 1
    BY <1>1, <2>1
  <2> HIDE DEF t, v
  <2> QED
    BY <2>2, <2>3, <2>4
<1> HIDE DEF t
\* The list before it is merged.
<1>5. \A j \in 1 .. n + 1 :
        /\ t[j] \in Region /\ t[j].offset \in Int /\ End(t[j]) \in Int
        /\ 0 <= t[j].offset /\ t[j].offset < End(t[j]) /\ End(t[j]) <= MemSize
        /\ End(t[j]) = t[j].offset + t[j].size /\ t[j].size \in Int
  <2> SUFFICES ASSUME NEW j \in 1 .. n + 1
               PROVE  t[j] \in Region /\ End(t[j]) <= MemSize
    BY RegionType
  <2>1. CASE j < i
    <3>1. j \in 1 .. i - 1 /\ j \in 1 .. n
      BY <1>1, <1>2, <2>1
    <3> QED
      BY <1>1, <1>4, <3>1
  <2>2. CASE j > i
    <3>1. j \in i + 1 .. n + 1 /\ j - 1 \in 1 .. n
      BY <1>1, <1>2, <2>2
    <3> QED
      BY <1>1, <1>4, <3>1
  <2>3. CASE j = i
    BY <1>3, <1>4, <2>3
  <2> QED
    BY <1>2, <2>1, <2>2, <2>3
<1>6. ASSUME NEW j \in 1 .. n + 1, NEW k \in 1 .. n + 1, j < k, j # i, k # i
      PROVE  End(t[j]) < t[k].offset
  <2>1. CASE k < i
    <3>1. j \in 1 .. i - 1 /\ k \in 1 .. i - 1 /\ j \in 1 .. n /\ k \in 1 .. n
      BY <1>1, <1>2, <1>6, <2>1
    <3> QED
      BY <1>1, <1>4, <1>6, <3>1
  <2>2. CASE j < i /\ k > i
    <3>1. j \in 1 .. i - 1 /\ k \in i + 1 .. n + 1 /\ j \in 1 .. n /\ k - 1 \in 1 .. n /\ j < k - 1
      BY <1>1, <1>2, <2>2
    <3> QED
      BY <1>1, <1>4, <3>1
  <2>3. CASE j > i
    <3>1. /\ j \in i + 1 .. n + 1 /\ k \in i + 1 .. n + 1
          /\ j - 1 \in 1 .. n /\ k - 1 \in 1 .. n /\ j - 1 < k - 1
      BY <1>1, <1>2, <1>6, <2>3
    <3> QED
      BY <1>1, <1>4, <3>1
  <2> QED
    BY <1>2, <1>6, <2>1, <2>2, <2>3
<1>7. \A j \in 1 .. n + 1 : j < i => End(t[j]) <= t[i].offset
  BY <1>1, <1>2, <1>4
<1>8. ASSUME NEW j \in 1 .. n + 1, j > i
      PROVE  End(t[i]) <= t[j].offset
  <2>1. j \in i + 1 .. n + 1 /\ j - 1 \in 1 .. n /\ j - 1 >= i
    BY <1>1, <1>2, <1>8
  <2> QED
    BY <1>2, <1>4, <2>1
\* The entries that are merged.
<1> DEFINE lo == IF i > 1 /\ t[i - 1].offset + t[i - 1].size = t[i].offset THEN i - 1 ELSE i
           hi == IF i < Len(t) /\ t[i].offset + t[i].size = t[i + 1].offset THEN i + 1 ELSE i
           m == [offset |-> t[lo].offset,
                 size   |-> t[i].size + (IF lo < i THEN t[lo].size ELSE 0)
                                      + (IF i < hi THEN t[hi].size ELSE 0)]
           u == Splice(t, lo, m, hi)
<1>9. MergeFreeMem(t, i) = u
  BY DEF MergeFreeMem, Splice
<1>10. /\ \/ lo = i - 1 /\ i > 1 /\ End(t[i - 1]) = t[i].offset
          \/ lo = i /\ (i > 1 => End(t[i - 1]) # t[i].offset)
       /\ \/ hi = i + 1 /\ End(t[i]) = t[i + 1].offset
          \/ hi = i /\ End(t[i]) # t[i + 1].offset
  BY <1>1, <1>2, <1>4 DEF End
<1>11. m.offset = t[lo].offset /\ m.size = t[i].size + (IF lo < i THEN t[lo].size ELSE 0)
                                                     + (IF i < hi THEN t[hi].size ELSE 0)
  OBVIOUS
<1>12. m = [offset |-> m.offset, size |-> m.size]
  OBVIOUS
<1> HIDE DEF lo, hi, m, u
<1>13. /\ i - 1 <= lo /\ lo <= i /\ i <= hi /\ hi <= i + 1
       /\ lo \in 1 .. n + 1 /\ hi \in 1 .. n + 1 /\ i \in 1 .. n + 1 /\ i + 1 \in 1 .. n + 1
       /\ lo \in Nat /\ hi \in Nat /\ i \in Nat
  BY <1>1, <1>2, <1>10
<1>14. End(m) = End(t[hi]) /\ m.offset \in Int /\ m.size \in Int /\ m.size >= 1
  <2>1. /\ t[i].offset \in Int /\ t[i].size \in Int /\ End(t[i]) = t[i].offset + t[i].size
        /\ t[lo].offset \in Int /\ t[lo].size \in Int /\ End(t[lo]) = t[lo].offset + t[lo].size
        /\ t[hi].offset \in Int /\ t[hi].size \in Int /\ End(t[hi]) = t[hi].offset + t[hi].size
        /\ t[i].offset < End(t[i]) /\ t[lo].offset < End(t[lo]) /\ t[hi].offset < End(t[hi])
    BY <1>5, <1>13
  <2>2. (lo < i /\ End(t[lo]) = t[i].offset) \/ lo = i
    BY <1>10, <1>13
  <2>3. (i < hi /\ End(t[i]) = t[hi].offset) \/ hi = i
    BY <1>10, <1>13
  <2> QED
    <3>1. End(m) = m.offset + m.size
      BY DEF End
    <3>2. CASE lo = i /\ hi = i
      BY <1>11, <1>13, <2>1, <3>1, <3>2
    <3>3. CASE lo < i /\ hi = i
      BY <1>11, <1>13, <2>1, <2>2, <3>1, <3>3
    <3>4. CASE lo = i /\ i < hi
      <4>1. m.size = t[i].size + t[hi].size /\ m.offset = t[i].offset
        BY <1>11, <1>13, <2>1, <3>4
      <4>2. End(t[i]) = t[hi].offset
        BY <1>13, <2>3, <3>4
      <4> QED
        BY <2>1, <3>1, <4>1, <4>2
    <3>5. CASE lo < i /\ i < hi
      <4>1. m.size = t[i].size + t[lo].size + t[hi].size /\ m.offset = t[lo].offset
        BY <1>11, <2>1, <3>5
      <4>2. End(t[i]) = t[hi].offset /\ End(t[lo]) = t[i].offset
        BY <1>13, <2>2, <2>3, <3>5
      <4> QED
        BY <2>1, <3>1, <4>1, <4>2
    <3> QED
      BY <2>2, <2>3, <3>2, <3>3, <3>4, <3>5
<1>15. m \in Region
  <2>1. m.offset \in Nat /\ m.size \in Nat \ {0}
    BY <1>5, <1>11, <1>13, <1>14
  <2>2. m.offset + m.size <= MemSize
    BY <1>5, <1>13, <1>14 DEF End
  <2> QED
    BY <1>12, <2>1, <2>2, MakeRegion
<1> DEFINE d == hi - lo
           l == n + 1 - d
<1>16. d \in 0 .. 2 /\ l \in Nat /\ lo <= l
  BY <1>1, <1>2, <1>13
<1>17. /\ u \in Seq(Region) /\ DOMAIN u = 1 .. l /\ u[lo] = m
       /\ \A j \in 1 .. lo - 1 : u[j] = t[j]
       /\ \A j \in lo + 1 .. l : u[j] = t[j + d]
  <2>1. 1 <= lo /\ lo <= hi + 1 /\ hi <= Len(t)
    BY <1>1, <1>4, <1>13
  <2>2. /\ u \in Seq(Region) /\ Len(u) = lo + Len(t) - hi /\ u[lo] = m
        /\ \A j \in 1 .. lo - 1 : u[j] = t[j]
        /\ \A j \in lo + 1 .. lo + Len(t) - hi : u[j] = t[j + hi - lo]
    <3>1. t \in Seq(Region) /\ m \in Region /\ lo \in Nat /\ hi \in Nat
      BY <1>4, <1>13, <1>15
    <3> QED
      <4>1. IsSplice(u, Region, t, lo, m, hi)
        BY <2>1, <3>1, Spliced DEF u
      <4> QED
        BY <4>1 DEF IsSplice
  <2>3. lo + (n + 1) - hi = l /\ \A j \in lo + 1 .. l : j + hi - lo = j + d
    BY <1>1, <1>13
  <2>4. DOMAIN u = 1 .. Len(u)
    BY <2>2
  <2> QED
    BY <1>4, <2>2, <2>3, <2>4
\* Entry k of the new list reaches from entry a(k) to entry b(k) of the other.
<1> DEFINE a(k) == IF k <= lo THEN k ELSE k + d
           b(k) == IF k < lo THEN k ELSE k + d
<1>18. ASSUME NEW k \in 1 .. l
       PROVE  /\ a(k) \in 1 .. n + 1 /\ b(k) \in 1 .. n + 1
              /\ u[k].offset = t[a(k)].offset /\ End(u[k]) = End(t[b(k)])
              /\ a(k) = i => lo = i
              /\ b(k) = i => hi = i
  <2>1. lo + d = hi /\ hi = lo + d
    BY <1>13
  <2>2. CASE k < lo
    <3>1. k \in 1 .. lo - 1 /\ k \in 1 .. n + 1 /\ a(k) = k /\ b(k) = k /\ k # i
      BY <1>1, <1>13, <1>16, <2>2
    <3> QED
      BY <1>17, <3>1
  <2>3. CASE k = lo
    <3>1. a(k) = lo /\ b(k) = hi
      BY <1>13, <2>1, <2>3
    <3> QED
      BY <1>11, <1>13, <1>14, <1>17, <2>3, <3>1
  <2>4. CASE k > lo
    <3>1. /\ k \in lo + 1 .. l /\ k + d \in 1 .. n + 1 /\ a(k) = k + d /\ b(k) = k + d
          /\ k + d > hi /\ k + d # i
      BY <1>1, <1>13, <1>16, <2>1, <2>4
    <3> QED
      BY <1>17, <3>1
  <2> QED
    BY <1>13, <1>16, <2>2, <2>3, <2>4
<1>19. \A j, k \in 1 .. l : j < k => b(j) < a(k)
  BY <1>13, <1>16
<1> HIDE DEF a, b, d, l
<1>20. ASSUME lo = i, NEW j \in 1 .. n + 1, j < i
       PROVE  End(t[j]) < t[i].offset
  <2>1. i - 1 \in 1 .. n + 1 /\ i > 1 /\ (j < i - 1 \/ j = i - 1) /\ i - 1 # i
    BY <1>13, <1>20
  <2>2. End(t[i - 1]) < t[i].offset
    BY <1>5, <1>7, <1>10, <1>13, <1>20, <2>1
  <2>3. CASE j < i - 1
    <3>1. End(t[j]) < t[i - 1].offset
      BY <1>6, <1>20, <2>1, <2>3
    <3> QED
      BY <1>5, <1>13, <2>1, <2>2, <3>1
  <2> QED
    BY <2>1, <2>2, <2>3
<1>21. ASSUME hi = i, NEW j \in 1 .. n + 1, j > i
       PROVE  End(t[i]) < t[j].offset
  <2>1. j > i + 1 \/ j = i + 1
    BY <1>13, <1>21
  <2>2. End(t[i]) < t[i + 1].offset
    <3>1. End(t[i]) <= t[i + 1].offset
      BY <1>8, <1>13
    <3> QED
      BY <1>5, <1>10, <1>13, <1>21, <3>1
  <2>3. CASE j > i + 1
    <3>1. End(t[i + 1]) < t[j].offset
      BY <1>6, <1>13, <1>21, <2>3
    <3> QED
      BY <1>5, <1>13, <2>2, <3>1
  <2> QED
    BY <2>1, <2>2, <2>3
<1>22. InOrder(u)
  <2>1. ASSUME NEW k \in 1 .. l PROVE End(u[k]) <= MemSize
    BY <1>5, <1>18
  <2>2. ASSUME NEW j \in 1 .. l, NEW k \in 1 .. l, j < k
        PROVE  End(u[j]) < u[k].offset
    <3> DEFINE p == b(j)
               q == a(k)
    <3>1. /\ p \in 1 .. n + 1 /\ q \in 1 .. n + 1 /\ p < q
          /\ u[k].offset = t[q].offset /\ End(u[j]) = End(t[p])
          /\ (p = i => hi = i) /\ (q = i => lo = i)
      BY <1>18, <1>19, <2>2
    <3> HIDE DEF p, q
    <3>2. CASE p = i
      BY <1>13, <1>21, <3>1, <3>2
    <3>3. CASE q = i
      BY <1>13, <1>20, <3>1, <3>3
    <3>4. CASE p # i /\ q # i
      BY <1>6, <3>1, <3>4
    <3> QED
      BY <3>1, <3>2, <3>3, <3>4
  <2> QED
    BY <1>17, <2>1, <2>2 DEF InOrder
<1>23. ASSUME NEW s \in used \cup lost, s # r, NEW k \in DOMAIN u
       PROVE  Apart(s, u[k])
  <2>1. s.offset \in Int /\ End(s) \in Int /\ s.offset < End(s)
    BY RegionType DEF IInv, GivenOut
  <2>2. Apart(s, r)
    BY <1>23 DEF IInv, GivenOut
  <2>3. ASSUME NEW j \in 1 .. n + 1 PROVE Apart(s, t[j])
    <3>1. CASE j < i
      <4>1. j \in 1 .. i - 1 /\ j \in 1 .. n
        BY <1>1, <1>2, <3>1
      <4> QED
        BY <1>1, <1>4, <4>1 DEF IInv, NotFree
    <3>2. CASE j > i
      <4>1. j \in i + 1 .. n + 1 /\ j - 1 \in 1 .. n
        BY <1>1, <1>2, <3>2
      <4> QED
        BY <1>1, <1>4, <4>1 DEF IInv, NotFree
    <3>3. CASE j = i
      BY <1>4, <2>2, <3>3
    <3> QED
      BY <1>2, <3>1, <3>2, <3>3
  <2>4. CASE k < lo
    <3>1. k \in 1 .. lo - 1 /\ k \in 1 .. n + 1
      BY <1>13, <1>16, <1>17, <2>4
    <3> QED
      BY <1>17, <2>3, <3>1
  <2>5. CASE k > lo
    <3>1. k \in lo + 1 .. l /\ k + d \in 1 .. n + 1
      BY <1>1, <1>13, <1>16, <1>17, <2>5 DEF l
    <3> QED
      BY <1>17, <2>3, <3>1
  <2>6. CASE k = lo
    <3>1. Apart(s, t[lo]) /\ Apart(s, t[i]) /\ Apart(s, t[hi])
      BY <1>13, <2>3
    <3>2. (lo < i /\ End(t[lo]) = t[i].offset) \/ lo = i
      BY <1>10, <1>13
    <3>3. (i < hi /\ End(t[i]) = t[hi].offset) \/ hi = i
      BY <1>10, <1>13
    <3>4. /\ t[i].offset \in Int /\ End(t[i]) \in Int /\ t[i].offset < End(t[i])
          /\ t[lo].offset \in Int /\ End(t[lo]) \in Int /\ t[lo].offset < End(t[lo])
          /\ t[hi].offset \in Int /\ End(t[hi]) \in Int /\ t[hi].offset < End(t[hi])
      BY <1>5, <1>13
    <3>5. End(s) <= t[lo].offset \/ End(t[hi]) <= s.offset
      BY <2>1, <3>1, <3>2, <3>3, <3>4 DEF Apart
    <3> QED
      BY <1>11, <1>14, <1>17, <2>6, <3>5 DEF Apart
  <2> QED
    BY <1>13, <1>16, <1>17, <2>4, <2>5, <2>6
<1>24. ASSUME NEW x \in Int, NEW j \in 1 .. n + 1, x \in Bytes(t[j])
       PROVE  \E k \in DOMAIN u : x \in Bytes(u[k])
  <2>1. CASE j < lo
    <3>1. j \in 1 .. lo - 1 /\ j \in 1 .. l
      BY <1>13, <1>16, <2>1
    <3> QED
      BY <1>17, <1>24, <3>1
  <2>2. CASE j > hi
    <3>1. j - d \in lo + 1 .. l /\ j - d \in 1 .. l /\ (j - d) + d = j
      BY <1>1, <1>13, <1>16, <2>2 DEF l, d
    <3>2. u[j - d] = t[(j - d) + d]
      BY <1>17, <3>1
    <3> QED
      BY <1>17, <1>24, <3>1, <3>2
  <2>3. CASE lo <= j /\ j <= hi
    <3>1. j = lo \/ j = i \/ j = hi
      BY <1>13, <2>3
    <3>2. (lo < i /\ End(t[lo]) = t[i].offset) \/ lo = i
      BY <1>10, <1>13
    <3>3. (i < hi /\ End(t[i]) = t[hi].offset) \/ hi = i
      BY <1>10, <1>13
    <3>4. /\ t[i].offset \in Int /\ End(t[i]) \in Int /\ t[i].offset < End(t[i])
          /\ t[lo].offset \in Int /\ End(t[lo]) \in Int /\ t[lo].offset < End(t[lo])
          /\ t[hi].offset \in Int /\ End(t[hi]) \in Int /\ t[hi].offset < End(t[hi])
      BY <1>5, <1>13
    <3>5. t[j].offset <= x /\ x < End(t[j])
      BY <1>5, <1>24, RegionType
    <3>6. t[lo].offset <= x /\ x < End(t[hi])
      BY <3>1, <3>2, <3>3, <3>4, <3>5
    <3>7. x \in Bytes(m)
      BY <1>11, <1>14, <1>15, <3>6, RegionType
    <3>8. lo \in DOMAIN u
      BY <1>13, <1>16, <1>17
    <3> QED
      BY <1>17, <3>7, <3>8
  <2> QED
    BY <1>13, <2>1, <2>2, <2>3
<1>25. ASSUME NEW x \in Int, x \in Bytes(r) \/ (\E j \in DOMAIN free : x \in Bytes(free[j]))
       PROVE  \E j \in 1 .. n + 1 : x \in Bytes(t[j])
  <2>1. CASE x \in Bytes(r)
    BY <1>4, <1>13, <2>1
  <2>2. ASSUME NEW j \in DOMAIN free, x \in Bytes(free[j])
        PROVE  \E k \in 1 .. n + 1 : x \in Bytes(t[k])
    <3>1. CASE j < i
      <4>1. j \in 1 .. i - 1 /\ j \in 1 .. n + 1
        BY <1>1, <1>2, <3>1
      <4> QED
        BY <1>4, <2>2, <4>1
    <3>2. CASE j >= i
      <4>1. j + 1 \in i + 1 .. n + 1 /\ j + 1 \in 1 .. n + 1 /\ (j + 1) - 1 = j
        BY <1>1, <1>2, <3>2
      <4>2. t[j + 1] = free[j]
        BY <1>4, <4>1
      <4> QED
        BY <2>2, <4>1, <4>2
    <3> QED
      BY <1>1, <1>2, <3>1, <3>2
  <2> QED
    BY <1>25, <2>1, <2>2
<1>26. MergeFreeMem(InsertAt(free, i, r), i) = u
  BY <1>9 DEF t
<1>27. ASSUME NEW x \in Int, x \in Bytes(r) \/ (\E j \in DOMAIN free : x \in Bytes(free[j]))
       PROVE  \E k \in DOMAIN u : x \in Bytes(u[k])
  BY <1>24, <1>25, <1>27
<1> QED
  BY <1>22, <1>23, <1>26, <1>27

LEMMA FreeInv ==
  ASSUME IInv, NEW r \in used, Free(r)
  PROVE  IInv'
<1>1. lost' = lost /\ used' = used \ {r}
  BY DEF Free
<1>2. /\ r \in Region /\ r \notin lost /\ End(r) <= MemSize
      /\ \A s \in used' \cup lost' : s \in used \cup lost /\ s # r
      /\ \A s \in used \cup lost : s # r => s \in used' \cup lost'
  BY <1>1 DEF IInv, GivenOut
<1>3. GivenOut'
  BY <1>1, <1>2 DEF IInv, GivenOut
<1>4. /\ InOrder(free')
      /\ \A s \in used \cup lost : s # r => \A k \in DOMAIN free' : Apart(s, free'[k])
      /\ \A x \in Int : x \in Bytes(r) \/ (\E j \in DOMAIN free : x \in Bytes(free[j]))
           => \E k \in DOMAIN free' : x \in Bytes(free'[k])
  <2>1. CASE free = << >> /\ free' = <<r>>
    <3>1. free' \in Seq(Region) /\ DOMAIN free' = {1} /\ free'[1] = r /\ DOMAIN free = {}
      BY <1>2, <2>1
    <3>2. InOrder(free')
      BY <1>2, <3>1 DEF InOrder
    <3>3. \A s \in used \cup lost : s # r => Apart(s, r)
      BY DEF IInv, GivenOut
    <3> QED
      BY <3>1, <3>2, <3>3
  <2>2. CASE Slots(r) # {} /\ free' = LET i == CHOOSE i \in Slots(r) : \A j \in Slots(r) : i <= j
                                      IN  MergeFreeMem(InsertAt(free, i, r), i)
    <3> DEFINE i == CHOOSE i \in Slots(r) : \A j \in Slots(r) : i <= j
    <3>1. Slots(r) \in SUBSET Nat
      BY EntryType DEF IInv, Slots
    <3>2. \E k \in Slots(r) : \A j \in Slots(r) : k <= j
      BY <2>2, <3>1, LeastElement
    <3>3. i \in Slots(r)
      BY <3>2, Zenon
    <3>4. free' = MergeFreeMem(InsertAt(free, i, r), i)
      BY <2>2
    <3> HIDE DEF i
    <3> QED
      BY <3>3, <3>4, ReleasedInOrder
  <2> QED
    BY <2>1, <2>2 DEF Free
<1>5. NotFree'
  BY <1>2, <1>4 DEF NotFree
<1>6. ASSUME NEW x \in 0 .. MemSize - 1
      PROVE  Covered(x)'
  <2>1. CASE \E s \in used \cup lost : s # r /\ x \in Bytes(s)
    BY <1>2, <2>1 DEF Covered
  <2>2. CASE x \in Bytes(r) \/ (\E j \in DOMAIN free : x \in Bytes(free[j]))
    BY <1>4, <2>2 DEF Covered
  <2> QED
    BY <2>1, <2>2 DEF IInv, Covered
<1> QED
  BY <1>3, <1>4, <1>5, <1>6 DEF IInv, InOrder

LEMMA FreeFailsInv ==
  ASSUME IInv, NEW r \in used, FreeFails(r)
  PROVE  IInv'
<1>1. /\ free' = free /\ used' = used \ {r} /\ lost' = lost \cup {r}
      /\ used' \cup lost' = used \cup lost
  BY DEF FreeFails
<1>2. GivenOut'
  BY <1>1 DEF IInv, GivenOut
<1>3. NotFree'
  BY <1>1 DEF IInv, NotFree
<1>4. \A x \in 0 .. MemSize - 1 : Covered(x)'
  BY <1>1 DEF IInv, Covered
<1>5. InOrder(free')
  BY <1>1 DEF IInv
<1> QED
  BY <1>2, <1>3, <1>4, <1>5 DEF IInv, InOrder

LEMMA InductiveStep == IInv /\ [Next]_vars => IInv'
<1> SUFFICES ASSUME IInv, [Next]_vars PROVE IInv'
  OBVIOUS
<1>1. ASSUME NEW n \in Sizes, Alloc(n) PROVE IInv'
  BY <1>1, AllocInv
<1>2. ASSUME NEW r \in used, Free(r) PROVE IInv'
  BY <1>2, FreeInv
<1>3. ASSUME NEW r \in used, FreeFails(r) PROVE IInv'
  BY <1>3, FreeFailsInv
<1>4. CASE UNCHANGED vars
  BY <1>4 DEF vars, IInv, InOrder, GivenOut, NotFree, Covered
<1> QED
  BY <1>1, <1>2, <1>3, <1>4 DEF Next, AllocFails

\* The inductive invariant holds in every state.
THEOREM Invariance == Spec => []IInv
BY InitInv, InductiveStep, PTL DEF Spec

(***************************************************************************)
(* Type correctness: regions stay inside the memory; the free list is in   *)
(* the order of addresses and no two entries of it meet.                   *)
(***************************************************************************)
THEOREM TypeCorrect == Spec => []TypeOK
<1>1. IInv => TypeOK
  BY DEF IInv, InOrder, GivenOut, TypeOK, End
<1> QED
  BY <1>1, Invariance, PTL

\* Regions that are apart have no byte in common.
LEMMA ApartBytes ==
  ASSUME NEW r \in Region, NEW s \in Region, Apart(r, s)
  PROVE  Bytes(r) \cap Bytes(s) = {}
<1> SUFFICES ASSUME NEW x \in Bytes(r), x \in Bytes(s) PROVE FALSE
  OBVIOUS
<1>1. /\ x \in Int /\ r.offset <= x /\ x < End(r) /\ r.offset \in Int /\ End(r) \in Int
      /\ s.offset <= x /\ x < End(s) /\ s.offset \in Int /\ End(s) \in Int
  BY RegionType
<1> QED
  BY <1>1 DEF Apart

(***************************************************************************)
(* No byte is given out twice, whatever the order of the requests and      *)
(* whatever releases failed.                                               *)
(***************************************************************************)
THEOREM NothingTwice == Spec => []NoOverlap
<1>1. IInv => NoOverlap
  <2> SUFFICES ASSUME IInv PROVE NoOverlap
    OBVIOUS
  <2>1. /\ \A r \in used \cup lost : r \in Region
        /\ \A i \in DOMAIN free : free[i] \in Region
    BY EntryType DEF IInv, GivenOut
  <2>2. \A i, j \in DOMAIN free : i # j => Apart(free[i], free[j])
    <3> SUFFICES ASSUME NEW i \in DOMAIN free, NEW j \in DOMAIN free, i < j
                 PROVE  Apart(free[i], free[j]) /\ Apart(free[j], free[i])
      BY EntryType DEF IInv
    <3>1. End(free[i]) < free[j].offset /\ End(free[i]) \in Int /\ free[j].offset \in Int
      BY EntryType DEF IInv
    <3> QED
      BY <3>1 DEF Apart
  <2>3. \A r, s \in used \cup lost : r # s => Bytes(r) \cap Bytes(s) = {}
    BY <2>1, ApartBytes DEF IInv, GivenOut
  <2>4. \A r \in used \cup lost : \A i \in DOMAIN free : Bytes(r) \cap Bytes(free[i]) = {}
    BY <2>1, ApartBytes DEF IInv, NotFree
  <2>5. \A i, j \in DOMAIN free : i # j => Bytes(free[i]) \cap Bytes(free[j]) = {}
    BY <2>1, <2>2, ApartBytes
  <2> QED
    BY <2>3, <2>4, <2>5 DEF NoOverlap
<1> QED
  BY <1>1, Invariance, PTL

(***************************************************************************)
(* Every byte is in use or free, unless its release was reported as        *)
(* failed.                                                                 *)
(***************************************************************************)
THEOREM NothingLost == Spec => []Accounted
<1>1. IInv => Accounted
  <2> SUFFICES ASSUME IInv PROVE Accounted
    OBVIOUS
  <2> DEFINE out == {Bytes(r) : r \in used \cup lost}
             in == {Bytes(free[i]) : i \in DOMAIN free}
             bytes == (UNION out) \cup (UNION in)
  <2>1. ASSUME NEW x \in 0 .. MemSize - 1 PROVE x \in bytes
    <3>1. Covered(x)
      BY DEF IInv
    <3>2. ASSUME NEW r \in used \cup lost, x \in Bytes(r) PROVE x \in UNION out
      <4>1. Bytes(r) \in out
        OBVIOUS
      <4> HIDE DEF out
      <4> QED
        BY <3>2, <4>1
    <3>3. ASSUME NEW i \in DOMAIN free, x \in Bytes(free[i]) PROVE x \in UNION in
      <4>1. Bytes(free[i]) \in in
        OBVIOUS
      <4> HIDE DEF in
      <4> QED
        BY <3>3, <4>1
    <3> HIDE DEF out, in
    <3> QED
      BY <3>1, <3>2, <3>3 DEF Covered
  <2>2. ASSUME NEW r \in Region, End(r) <= MemSize, NEW x \in Bytes(r)
        PROVE  x \in 0 .. MemSize - 1
    <3>1. /\ x \in Int /\ r.offset <= x /\ x < End(r) /\ End(r) \in Int /\ r.offset \in Int
          /\ 0 <= r.offset /\ MemSize \in Int
      BY RegionType
    <3> QED
      BY <2>2, <3>1
  <2>3. /\ \A r \in used \cup lost : r \in Region /\ End(r) <= MemSize
        /\ \A i \in DOMAIN free : free[i] \in Region /\ End(free[i]) <= MemSize
    BY EntryType DEF IInv, GivenOut
  <2>4. ASSUME NEW x \in bytes PROVE x \in 0 .. MemSize - 1
    <3>1. \/ \E r \in used \cup lost : x \in Bytes(r)
          \/ \E i \in DOMAIN free : x \in Bytes(free[i])
      <4>1. (\E S \in out : x \in S) \/ (\E S \in in : x \in S)
        <5> HIDE DEF out, in
        <5> QED
          OBVIOUS
      <4> QED
        BY <4>1
    <3> QED
      BY <2>2, <2>3, <3>1
  <2> HIDE DEF bytes
  <2>5. 0 .. MemSize - 1 = bytes
    BY <2>1, <2>4
  <2> QED
    BY <2>5 DEF Accounted, bytes
<1> QED
  BY <1>1, Invariance, PTL
================================================================================
