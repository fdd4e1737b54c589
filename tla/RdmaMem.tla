-------------------------------- MODULE RdmaMem --------------------------------
(***************************************************************************)
(* The allocator of RDMAManager: the registered memory of a node, given    *)
(* out first fit and merged again when a region is released.  On a server  *)
(* the calls come from the handler thread under m_memLock, one at a time.  *)
(* The callers release what they were given, and ask for something: the    *)
(* release of an offset that is not in use (which puts an empty region     *)
(* into the list) and a request for 0 bytes are left out.                  *)
(*                                                                         *)
(* A definition introduced by "Fault:" is no part of the specification: it *)
(* is the definition after it with a mistake, to show that a property      *)
(* notices the mistake.                                                    *)
(***************************************************************************)
EXTENDS Integers, Sequences

CONSTANTS
  MemSize,  \* m_memSize
  Sizes     \* sizes asked for

ASSUME MemAssumption ==
  /\ MemSize \in Nat \ {0}
  /\ Sizes \subseteq Nat \ {0}

VARIABLES
  free,  \* m_rdmaMem: the free regions, as a list
  used,  \* m_usedRdmaMem: the regions given out
  lost   \* history: regions whose release returned false

vars == <<free, used, lost>>

Region == [offset : 0 .. MemSize - 1, size : 1 .. MemSize]

\* The addresses of a region.
Bytes(r) == r.offset .. r.offset + r.size - 1

Init ==
  /\ free = <<[offset |-> 0, size |-> MemSize]>>
  /\ used = {}
  /\ lost = {}

-----------------------------------------------------------------------------
\* internalAlloc: the first entry of the list that is large enough.
Fitting(n) == {i \in DOMAIN free : free[i].size >= n}
FirstFit(n) == CHOOSE i \in Fitting(n) : \A j \in Fitting(n) : i <= j

\* Fault: the rest of the region starts one byte too early.
TakeFrontShort(s, i, n) ==
  IF s[i].size > n
  THEN [s EXCEPT ![i] = [offset |-> s[i].offset + n - 1, size |-> s[i].size - n + 1]]
  ELSE SubSeq(s, 1, i - 1) \o SubSeq(s, i + 1, Len(s))

\* The list after n bytes have been taken from the front of entry i.
TakeFront(s, i, n) ==
  IF s[i].size > n
  THEN [s EXCEPT ![i] = [offset |-> s[i].offset + n, size |-> s[i].size - n]]
  ELSE SubSeq(s, 1, i - 1) \o SubSeq(s, i + 1, Len(s))

Alloc(n) ==
  /\ Fitting(n) # {}
  /\ LET i == FirstFit(n)
     IN  /\ used' = {r \in used : r.offset # free[i].offset}
                      \cup {[offset |-> free[i].offset, size |-> n]}
         /\ free' = TakeFront(free, i, n)
  /\ UNCHANGED lost

\* internalAlloc, when no entry is large enough: the null region is returned.
AllocFails(n) == Fitting(n) = {} /\ UNCHANGED vars

\* internalFree: the value of lastOffset when the loop looks at entry i.
LastOffset(i) ==
  LET sum[k \in 0 .. i - 1] == IF k = 0 THEN 0 ELSE sum[k - 1] + free[k].offset
  IN  sum[i - 1]

\* The entries in front of which a region may be put, and the list with it there.
Slots(r) == {i \in DOMAIN free : LastOffset(i) <= r.offset /\ r.offset < free[i].offset}
InsertAt(s, i, r) == SubSeq(s, 1, i - 1) \o <<r>> \o SubSeq(s, i, Len(s))

\* Fault: the region put in is merged with its predecessor only.
MergeBackwards(s, i) ==
  IF i > 1 /\ s[i - 1].offset + s[i - 1].size = s[i].offset
  THEN SubSeq(s, 1, i - 2)
         \o <<[offset |-> s[i - 1].offset, size |-> s[i - 1].size + s[i].size]>>
         \o SubSeq(s, i + 1, Len(s))
  ELSE s

\* Fault: the following entry is deleted, its size is not added.
MergeForgetful(s, i) ==
  IF i < Len(s) /\ s[i].offset + s[i].size = s[i + 1].offset
  THEN SubSeq(s, 1, i) \o SubSeq(s, i + 2, Len(s))
  ELSE s

\* mergeFreeMem: entry i becomes one with its neighbours where they meet.
MergeFreeMem(s, i) ==
  LET lo == IF i > 1 /\ s[i - 1].offset + s[i - 1].size = s[i].offset THEN i - 1 ELSE i
      hi == IF i < Len(s) /\ s[i].offset + s[i].size = s[i + 1].offset THEN i + 1 ELSE i
      merged == [offset |-> s[lo].offset,
                 size   |-> s[i].size + (IF lo < i THEN s[lo].size ELSE 0)
                                      + (IF i < hi THEN s[hi].size ELSE 0)]
  IN  SubSeq(s, 1, lo - 1) \o <<merged>> \o SubSeq(s, hi + 1, Len(s))

\* internalFree, when it finds a place for the region, and when it does not.
Free(r) ==
  /\ used' = used \ {r}
  /\ \/ /\ free = << >>
        /\ free' = <<r>>
     \/ /\ Slots(r) # {}
        /\ LET i == CHOOSE i \in Slots(r) : \A j \in Slots(r) : i <= j
           IN  free' = MergeFreeMem(InsertAt(free, i, r), i)
  /\ UNCHANGED lost

FreeFails(r) ==
  /\ free # << >> /\ Slots(r) = {}
  /\ used' = used \ {r}
  /\ lost' = lost \cup {r}
  /\ UNCHANGED free

Next ==
  \/ \E n \in Sizes : Alloc(n)
  \/ \E n \in Sizes : AllocFails(n)
  \/ \E r \in used : Free(r)
  \/ \E r \in used : FreeFails(r)

Spec == Init /\ [][Next]_vars

-----------------------------------------------------------------------------
\* No region reaches beyond the registered memory.  The list stays in the order of
\* addresses and no two entries meet: what has been released in pieces can be
\* allocated as a whole.
TypeOK ==
  /\ free \in Seq(Region) /\ used \subseteq Region /\ lost \subseteq Region
  /\ \A r \in used \cup {free[i] : i \in DOMAIN free} : r.offset + r.size <= MemSize
  /\ \A i, j \in DOMAIN free : i < j => free[i].offset + free[i].size < free[j].offset

(***************************************************************************)
(* No byte is given out twice: the regions in use, the entries of the free *)
(* list and the regions that were dropped do not overlap.                  *)
(***************************************************************************)
NoOverlap ==
  /\ \A r, s \in used \cup lost : r # s => Bytes(r) \cap Bytes(s) = {}
  /\ \A r \in used \cup lost : \A i \in DOMAIN free : Bytes(r) \cap Bytes(free[i]) = {}
  /\ \A i, j \in DOMAIN free : i # j => Bytes(free[i]) \cap Bytes(free[j]) = {}

(***************************************************************************)
(* A byte is in use or free unless its release was reported as failed:     *)
(* a release that returned true has given back the whole region.           *)
(***************************************************************************)
Accounted ==
  0 .. MemSize - 1 =
    (UNION {Bytes(r) : r \in used \cup lost}) \cup (UNION {Bytes(free[i]) : i \in DOMAIN free})

================================================================================
