--------------------------- MODULE RdmaTransferProof ---------------------------
(***************************************************************************)
(* Theorems about RdmaTransfer, for any number of nodes, any size of the   *)
(* queues and any number of calls, receives and faults.                    *)
(***************************************************************************)
EXTENDS RdmaTransfer, SequenceTheorems, FiniteSetTheorems, WellFoundedInduction, TLAPS

-----------------------------------------------------------------------------
(***************************************************************************)
(* Send queues.                                                            *)
(***************************************************************************)
Requests == [op : {"access", "send", "mcast"}, to : Nodes \cup {Group}, signaled : BOOLEAN,
             st : {"posted", "ok", "failed"}]

\* Executed in order.
InOrder(s) == \A i, j \in 1 .. Len(s) : i < j /\ s[i].st = "posted" => s[j].st = "posted"

\* No request from i on is signaled.
SilentFrom(s, i) == \A j \in i .. Len(s) : ~ s[j].signaled

\* At most k requests at the end, none of them signaled.
CountedBy(s, k) == \A i \in 1 .. Len(s) : SilentFrom(s, i) => Len(s) - i + 1 <= k

\* Of all but the last request there is no completion unless it fails.
SilentButLast(s) == \A i \in 1 .. Len(s) - 1 : ~ s[i].signaled

\* The last request has not been executed with success.
LastNotOk(s) == Len(s) > 0 => s[Len(s)].st # "ok"

\* A set of natural numbers has a least element.
LEMMA LeastElement ==
  ASSUME NEW T \in SUBSET Nat, T # {}
  PROVE  \E x \in T : \A y \in T : x <= y
<1>1. \E x \in T : \A y \in T : ~ (<<y, x>> \in OpToRel(<, Nat))
  BY WFMin, NatLessThanWellFounded
<1>2. \A x, y \in T : ~ (<<y, x>> \in OpToRel(<, Nat)) => x <= y
  BY DEF OpToRel
<1> QED
  BY <1>1, <1>2

\* A request that is posted (PostSend).
LEMMA Posted ==
  ASSUME NEW s \in Seq(Requests), NEW r \in Requests, r.st = "posted", InOrder(s)
  PROVE  /\ Append(s, r) \in Seq(Requests) /\ Len(Append(s, r)) = Len(s) + 1
         /\ InOrder(Append(s, r)) /\ LastNotOk(Append(s, r))
<1> DEFINE t == Append(s, r)
<1>1. t \in Seq(Requests) /\ Len(t) = Len(s) + 1 /\ Len(s) \in Nat
  OBVIOUS
<1>2. t[Len(s) + 1] = r /\ \A i \in 1 .. Len(s) : t[i] = s[i]
  OBVIOUS
<1> HIDE DEF t
<1>3. InOrder(t)
  BY <1>1, <1>2 DEF InOrder
<1>4. LastNotOk(t)
  BY <1>1, <1>2 DEF LastNotOk
<1> QED
  BY <1>1, <1>3, <1>4 DEF t

\* A request that is counted, or signaled.
LEMMA PostedCounted ==
  ASSUME NEW s \in Seq(Requests), NEW r \in Requests, NEW k \in Nat, NEW l \in Nat,
         CountedBy(s, k), r.signaled \/ l = k + 1
  PROVE  CountedBy(Append(s, r), l)
<1> DEFINE t == Append(s, r)
<1>1. Len(t) = Len(s) + 1 /\ Len(s) \in Nat
  OBVIOUS
<1>2. t[Len(s) + 1] = r /\ \A i \in 1 .. Len(s) : t[i] = s[i]
  OBVIOUS
<1> HIDE DEF t
<1> SUFFICES ASSUME NEW i \in 1 .. Len(t), SilentFrom(t, i) PROVE Len(t) - i + 1 <= l
  BY DEF CountedBy, t
<1>3. Len(s) + 1 \in i .. Len(t)
  BY <1>1
<1>4. ~ r.signaled
  BY <1>2, <1>3 DEF SilentFrom
<1>5. CASE i = Len(s) + 1
  BY <1>1, <1>4, <1>5
<1>6. CASE i \in 1 .. Len(s)
  <2>1. \A j \in i .. Len(s) : j \in i .. Len(t) /\ t[j] = s[j]
    BY <1>1, <1>2, <1>6
  <2>2. SilentFrom(s, i)
    BY <2>1 DEF SilentFrom
  <2>3. Len(s) - i + 1 <= k
    BY <1>6, <2>2 DEF CountedBy
  <2> QED
    BY <1>1, <1>4, <1>6, <2>3
<1> QED
  BY <1>1, <1>5, <1>6

LEMMA PostedSilent ==
  ASSUME NEW s \in Seq(Requests), NEW r, \A i \in 1 .. Len(s) : ~ s[i].signaled
  PROVE  SilentButLast(Append(s, r))
<1> DEFINE t == Append(s, r)
<1>1. Len(t) = Len(s) + 1 /\ Len(s) \in Nat /\ \A i \in 1 .. Len(s) : t[i] = s[i]
  OBVIOUS
<1> HIDE DEF t
<1>2. \A i \in 1 .. Len(t) - 1 : ~ t[i].signaled
  BY <1>1
<1> QED
  BY <1>2 DEF SilentButLast, t

\* The requests after one whose completion is taken (TakeCompletion).
Rest(s, f) == SubSeq(s, f + 1, Len(s))

LEMMA Taken ==
  ASSUME NEW s \in Seq(Requests), NEW f \in 1 .. Len(s), InOrder(s)
  PROVE  /\ Rest(s, f) \in Seq(Requests) /\ Len(Rest(s, f)) = Len(s) - f /\ Len(Rest(s, f)) \in Nat
         /\ InOrder(Rest(s, f)) /\ (LastNotOk(s) => LastNotOk(Rest(s, f)))
         /\ \A k \in Nat : CountedBy(s, k) => CountedBy(Rest(s, f), k)
<1> DEFINE t == Rest(s, f)
<1> HIDE DEF t
<1>1. /\ t \in Seq(Requests) /\ Len(t) = Len(s) - f /\ Len(s) \in Nat /\ Len(t) \in Nat
      /\ \A i \in 1 .. Len(t) : i + f \in 1 .. Len(s) /\ t[i] = s[i + f]
  <2> DEFINE b == SubSeq(s, f + 1, Len(s))
  <2>1. Len(s) \in Nat /\ f \in Nat /\ f <= Len(s)
    OBVIOUS
  <2>2. /\ b \in Seq(Requests) /\ Len(b) = Len(s) - f
        /\ \A i \in 1 .. Len(s) - f : b[i] = s[f + i]
    BY <2>1
  <2> HIDE DEF b
  <2>3. t = b
    BY DEF b, t, Rest
  <2> QED
    BY <2>1, <2>2, <2>3
<1>2. InOrder(t)
  <2> SUFFICES ASSUME NEW i \in 1 .. Len(t), NEW j \in 1 .. Len(t), i < j, t[i].st = "posted"
               PROVE  t[j].st = "posted"
    BY DEF InOrder
  <2>1. i + f < j + f /\ s[i + f].st = "posted"
    BY <1>1
  <2>2. s[j + f].st = "posted"
    BY <1>1, <2>1 DEF InOrder
  <2> QED
    BY <1>1, <2>2
<1>3. LastNotOk(s) => LastNotOk(t)
  <2>1. CASE Len(t) = 0
    BY <2>1 DEF LastNotOk
  <2>2. CASE Len(t) # 0
    <3>1. Len(t) \in 1 .. Len(t) /\ Len(t) + f = Len(s) /\ Len(s) > 0
      BY <1>1, <2>2
    <3>2. t[Len(t)] = s[Len(s)]
      BY <1>1, <3>1
    <3> QED
      BY <3>1, <3>2 DEF LastNotOk
  <2> QED
    BY <2>1, <2>2
<1>4. ASSUME NEW k \in Nat, CountedBy(s, k) PROVE CountedBy(t, k)
  <2> SUFFICES ASSUME NEW i \in 1 .. Len(t), SilentFrom(t, i) PROVE Len(t) - i + 1 <= k
    BY DEF CountedBy
  <2>1. SilentFrom(s, i + f)
    <3> SUFFICES ASSUME NEW j \in i + f .. Len(s) PROVE ~ s[j].signaled
      BY DEF SilentFrom
    <3>1. j - f \in i .. Len(t) /\ j - f \in 1 .. Len(t) /\ (j - f) + f = j
      BY <1>1
    <3>2. t[j - f] = s[j]
      BY <1>1, <3>1
    <3> QED
      BY <3>1, <3>2 DEF SilentFrom
  <2>2. Len(s) - (i + f) + 1 <= k
    BY <1>1, <1>4, <2>1 DEF CountedBy
  <2> QED
    BY <1>1, <2>2
<1> QED
  BY <1>1, <1>2, <1>3, <1>4 DEF t

\* The first request not executed yet is executed, or fails (Complete).
Marked(s, i, st) == [s EXCEPT ![i].st = st]

LEMMA Finished ==
  ASSUME NEW s \in Seq(Requests), InOrder(s), NEW i \in 1 .. Len(s), s[i].st = "posted",
         \A j \in 1 .. Len(s) : s[j].st = "posted" => i <= j,
         NEW st \in {"ok", "failed"}
  PROVE  /\ Marked(s, i, st) \in Seq(Requests) /\ Len(Marked(s, i, st)) = Len(s)
         /\ InOrder(Marked(s, i, st)) /\ (st = "failed" => LastNotOk(Marked(s, i, st)))
         /\ (SilentButLast(s) => SilentButLast(Marked(s, i, st)))
         /\ \A k \in Nat : CountedBy(s, k) => CountedBy(Marked(s, i, st), k)
<1> DEFINE t == Marked(s, i, st)
<1>1. Len(s) \in Nat /\ DOMAIN s = 1 .. Len(s) /\ \A j \in 1 .. Len(s) : s[j] \in Requests
  OBVIOUS
<1> DEFINE r == [s[i] EXCEPT !.st = st]
<1>2. r \in Requests /\ r.st = st
  BY <1>1 DEF Requests
<1>3. r.signaled <=> s[i].signaled
  BY <1>1, Zenon DEF Requests
<1>4. t = [s EXCEPT ![i] = r]
  BY DEF Marked
<1> HIDE DEF r, t
<1>5. /\ t \in Seq(Requests) /\ Len(t) = Len(s) /\ t[i] = r
      /\ \A j \in 1 .. Len(s) : j # i => t[j] = s[j]
  BY <1>1, <1>2, <1>4
<1>6. \A j \in 1 .. Len(s) : t[j].signaled <=> s[j].signaled
  BY <1>3, <1>5
<1>7. InOrder(t)
  BY <1>1, <1>2, <1>5 DEF InOrder
<1>8. st = "failed" => LastNotOk(t)
  BY <1>1, <1>2, <1>5 DEF InOrder, LastNotOk
<1>9. SilentButLast(s) => SilentButLast(t)
  <2>1. \A j \in 1 .. Len(s) - 1 : j \in 1 .. Len(s)
    BY <1>1
  <2> QED
    BY <1>5, <1>6, <2>1 DEF SilentButLast
<1>10. ASSUME NEW k \in Nat, CountedBy(s, k) PROVE CountedBy(t, k)
  <2>1. \A j \in 1 .. Len(s) : \A l \in j .. Len(s) : l \in 1 .. Len(s)
    BY <1>1
  <2>2. \A j \in 1 .. Len(s) : SilentFrom(t, j) => SilentFrom(s, j)
    BY <1>5, <1>6, <2>1 DEF SilentFrom
  <2> QED
    BY <1>5, <1>10, <2>2 DEF CountedBy
<1> QED
  BY <1>5, <1>7, <1>8, <1>9, <1>10 DEF t

-----------------------------------------------------------------------------
(***************************************************************************)
(* Receive CQs: the completions of success in one.                         *)
(***************************************************************************)
Successes(s) == {i \in 1 .. Len(s) : s[i]}
Filled(s) == Cardinality(Successes(s))

LEMMA FilledType ==
  ASSUME NEW s \in Seq(BOOLEAN)
  PROVE  IsFiniteSet(Successes(s)) /\ Filled(s) \in Nat
<1>1. Len(s) \in Nat
  OBVIOUS
<1>2. IsFiniteSet(1 .. Len(s))
  BY <1>1, FS_Interval
<1>3. Successes(s) \subseteq 1 .. Len(s)
  BY DEF Successes
<1>4. IsFiniteSet(Successes(s))
  BY <1>2, <1>3, FS_Subset
<1> QED
  BY <1>4, FS_CardinalityType DEF Filled

LEMMA FilledNone ==
  Filled(<< >>) = 0
<1>1. Successes(<< >>) = {}
  BY DEF Successes
<1> QED
  BY <1>1, FS_EmptySet DEF Filled

LEMMA FilledMore ==
  ASSUME NEW s \in Seq(BOOLEAN)
  PROVE  Append(s, TRUE) \in Seq(BOOLEAN) /\ Filled(Append(s, TRUE)) = Filled(s) + 1
<1> DEFINE t == Append(s, TRUE)
<1>1. t \in Seq(BOOLEAN) /\ Len(t) = Len(s) + 1 /\ Len(s) \in Nat
  OBVIOUS
<1>2. t[Len(s) + 1] /\ \A i \in 1 .. Len(s) : t[i] <=> s[i]
  OBVIOUS
<1> HIDE DEF t
<1>3. \A i \in 1 .. Len(t) : i \in 1 .. Len(s) \/ i = Len(s) + 1
  BY <1>1
<1>4. 1 .. Len(s) \subseteq 1 .. Len(t) /\ Len(s) + 1 \in 1 .. Len(t) /\ Len(s) + 1 \notin 1 .. Len(s)
  BY <1>1
<1>5. Successes(t) = Successes(s) \cup {Len(s) + 1} /\ Len(s) + 1 \notin Successes(s)
  BY <1>2, <1>3, <1>4 DEF Successes
<1> QED
  BY <1>1, <1>5, FilledType, FS_AddElement DEF Filled, t

LEMMA FilledSame ==
  ASSUME NEW s \in Seq(BOOLEAN), NEW t, Len(t) \in Nat, Len(s) <= Len(t),
         \A i \in 1 .. Len(s) : t[i] <=> s[i],
         \A i \in 1 .. Len(t) : i > Len(s) => ~ t[i]
  PROVE  Filled(t) = Filled(s)
<1>1. Len(s) \in Nat /\ \A i \in 1 .. Len(t) : i \in 1 .. Len(s) \/ i > Len(s)
  OBVIOUS
<1>2. 1 .. Len(s) \subseteq 1 .. Len(t)
  BY <1>1
<1>3. Successes(t) = Successes(s)
  BY <1>1, <1>2 DEF Successes
<1> QED
  BY <1>3 DEF Filled

LEMMA FilledLess ==
  ASSUME NEW s \in Seq(BOOLEAN), s # << >>
  PROVE  /\ Tail(s) \in Seq(BOOLEAN)
         /\ Head(s) => Filled(s) = Filled(Tail(s)) + 1
         /\ ~ Head(s) => Filled(s) = Filled(Tail(s))
<1> DEFINE t == Tail(s)
           shifted == {i + 1 : i \in Successes(t)}
<1>1. t \in Seq(BOOLEAN) /\ Len(s) \in Nat \ {0} /\ Len(t) = Len(s) - 1 /\ Head(s) = s[1]
  OBVIOUS
<1>2. \A i \in 1 .. Len(t) : t[i] = s[i + 1]
  OBVIOUS
<1> HIDE DEF t
<1>3. IsFiniteSet(Successes(t)) /\ Filled(t) \in Nat
  BY <1>1, FilledType
<1>4. IsFiniteSet(shifted) /\ Cardinality(shifted) = Filled(t)
  <2> DEFINE f == [i \in Successes(t) |-> i + 1]
  <2>1. \A i \in Successes(t) : i \in Int
    BY <1>1 DEF Successes
  <2>2. f \in Bijection(Successes(t), shifted)
    BY <2>1 DEF Bijection, Injection, Surjection, IsInjective
  <2>3. ExistsBijection(Successes(t), shifted)
    BY <2>2 DEF ExistsBijection
  <2> QED
    BY <1>3, <2>3, FS_Bijection DEF Filled
<1>5. \A j : j \in shifted <=> j \in 2 .. Len(s) /\ s[j]
  <2>1. ASSUME NEW i \in 1 .. Len(t), t[i] PROVE i + 1 \in 2 .. Len(s) /\ s[i + 1]
    BY <1>1, <1>2, <2>1
  <2>2. ASSUME NEW j \in 2 .. Len(s), s[j] PROVE j - 1 \in 1 .. Len(t) /\ j = (j - 1) + 1 /\ t[j - 1]
    BY <1>1, <1>2, <2>2
  <2> QED
    BY <2>1, <2>2 DEF Successes
<1> HIDE DEF shifted
<1>6. 1 .. Len(s) = {1} \cup 2 .. Len(s) /\ 1 \notin 2 .. Len(s)
  BY <1>1
<1>7. 1 \notin shifted
  BY <1>5, <1>6
<1>8. CASE Head(s)
  <2>1. Successes(s) = shifted \cup {1}
    BY <1>1, <1>5, <1>6, <1>8 DEF Successes
  <2> QED
    BY <1>1, <1>4, <1>7, <1>8, <2>1, FS_AddElement DEF Filled, t
<1>9. CASE ~ Head(s)
  <2>1. Successes(s) = shifted
    BY <1>1, <1>5, <1>6, <1>9 DEF Successes
  <2> QED
    BY <1>1, <1>4, <1>9, <2>1 DEF Filled, t
<1> QED
  BY <1>8, <1>9

-----------------------------------------------------------------------------
(***************************************************************************)
(* The inductive invariant.                                                *)
(***************************************************************************)
Names == Nodes \cup {Group}
Results == [st : {"waits", "true", "false"}, q : QPs \cup {<<Shared, Shared>>}, clean : BOOLEAN]

TypeInv ==
  /\ transport \in {"rc", "ud"}
  /\ sq \in [QPs -> Seq(Requests)] /\ rq \in [QPs -> Seq(Names)] /\ rcq \in [QPs -> Seq(BOOLEAN)]
  /\ bad \subseteq QPs /\ crashed \subseteq Nodes /\ miscounted \subseteq Nodes
  /\ call \in [Nodes -> Results] /\ m_countWR \in [Nodes -> 0 .. MaxWR - 1]
  /\ mcast \in [Nodes -> {"out", "in", "left"}]
  /\ used \in [Nodes -> SUBSET Names] /\ heard \in [Nodes -> SUBSET Names]
  /\ unread \in [QPs -> Int]

\* The queues are within their capacity; requests are executed in order; a queue pair in
\* error executes nothing any more.
QueueInv ==
  \A q \in QPs :
    /\ Len(sq[q]) <= MaxWR /\ Len(rq[q]) <= MaxWR /\ InOrder(sq[q])
    /\ q \in bad => LastNotOk(sq[q])

\* A node waits for a request in a queue of its own.
WaitInv ==
  \A n \in Nodes :
    /\ call[n].clean => Waits(n)
    /\ Waits(n) => /\ call[n].q \in QPs /\ call[n].q[1] = n /\ Len(sq[call[n].q]) > 0
                   /\ call[n].clean => SilentButLast(sq[call[n].q])

\* All requests of n that take slots are in the queue for m.
Alone(n, m) == n \notin miscounted /\ (transport = "rc" => used[n] \subseteq {m})

\* The requests after the last signaled one have been counted since checkSignaled last
\* started over.
CountInv ==
  \A n \in Nodes :
    /\ IsFiniteSet(used[n])
    /\ transport = "rc" => mcast[n] = "out"
    /\ \A m \in Peers(n) :
         /\ transport = "rc" /\ Len(sq[QP(n, m)]) > 0 => m \in used[n]
         /\ Alone(n, m) => CountedBy(sq[QP(n, m)], m_countWR[n])

\* n receives from m only at the queue pair for m.
Only(n, m) == transport = "rc" \/ m = Group \/ heard[n] \ {Group} \subseteq {m}

\* Buffers posted for a peer are in the queue for it, and there is a filled buffer for
\* every completion of success still to be polled.
ReceiveInv ==
  \A n \in Nodes :
    /\ IsFiniteSet(heard[n])
    /\ \A m \in Peers(n) \cup {Group} :
         /\ Only(n, m) => unread[<<n, m>>] >= Filled(rcq[QP(n, m)])
         /\ m \notin heard[n] /\ m # Group => unread[<<n, m>>] >= 0
         /\ \A i \in 1 .. Len(rq[QP(n, m)]) :
              IF transport = "rc" \/ m = Group THEN rq[QP(n, m)][i] = m
              ELSE rq[QP(n, m)][i] \in heard[n] \ {Group}

IInv == TypeInv /\ QueueInv /\ WaitInv /\ CountInv /\ ReceiveInv

\* The queue pairs of a node are its own; a group has one of its own.
LEMMA OwnQueues ==
  ASSUME NEW n \in Nodes, NEW m \in Peers(n) \cup {Group}
  PROVE  /\ QP(n, m) \in QPs /\ QP(n, m)[1] = n /\ <<n, m>> \in QPs /\ m \in Names
         /\ m \in Peers(n) => m # Group /\ m \in Nodes /\ QP(n, m) # <<n, Group>>
         /\ m = Group => QP(n, m) = <<n, Group>>
         /\ transport = "rc" => QP(n, m) = <<n, m>>
         /\ transport = "ud" /\ m \in Peers(n) => QP(n, m) = <<n, Shared>>
<1>1. m \in Peers(n) => m # Group /\ m \in Nodes
  BY ConstantsAssumption DEF Peers, Nodes
<1>2. \A x \in Peers(n) \cup {Group, Shared} : <<n, x>> \in QPs
  BY DEF QPs
<1>3. <<n, m>> # <<n, Group>> <=> m # Group
  OBVIOUS
<1>4. <<n, Shared>> # <<n, Group>>
  BY ConstantsAssumption
<1>5. QP(n, m) = <<n, m>> \/ QP(n, m) = <<n, Shared>>
  BY DEF QP
<1>6. QP(n, m) \in QPs /\ QP(n, m)[1] = n /\ <<n, m>> \in QPs
  BY <1>2, <1>5
<1> QED
  BY <1>1, <1>3, <1>4, <1>6 DEF QP, Names

LEMMA Bounds ==
  MaxWR \in Nat /\ MaxWR >= 1
BY ConstantsAssumption

\* checkSignaled counts the request or has it signaled.
LEMMA Checked ==
  ASSUME TypeInv, NEW n \in Nodes, NEW signaled \in BOOLEAN
  PROVE  /\ CheckSignaled(n, signaled).signaled \in BOOLEAN
         /\ CheckSignaled(n, signaled).count \in 0 .. MaxWR - 1
         /\ \/ CheckSignaled(n, signaled).signaled
            \/ CheckSignaled(n, signaled).count = m_countWR[n] + 1
<1> DEFINE k == m_countWR[n]
           count == k + 1
           sig == signaled \/ count % MaxWR = 0
           new == IF count % MaxWR = 0 \/ (n \in Servers /\ sig) THEN 0 ELSE count
<1>1. k \in 0 .. MaxWR - 1
  BY DEF TypeInv
<1>2. count \in 1 .. MaxWR
  BY <1>1, Bounds
<1>3. count = MaxWR => count % MaxWR = 0
  <2>1. MaxWR % MaxWR = 0
    BY Bounds
  <2> QED
    BY <2>1
<1>4. CheckSignaled(n, signaled) = [signaled |-> sig, count |-> new]
  BY DEF CheckSignaled
<1>5. sig \in BOOLEAN
  BY Zenon
<1>6. new \in 0 .. MaxWR - 1
  <2> HIDE DEF k
  <2> QED
    BY <1>2, <1>3, Bounds
<1>7. sig \/ new = count
  OBVIOUS
<1> HIDE DEF sig, new
<1>8. CheckSignaled(n, signaled).signaled = sig /\ CheckSignaled(n, signaled).count = new
  BY <1>4
<1>9. (CheckSignaled(n, signaled).signaled <=> sig) /\ CheckSignaled(n, signaled).signaled \in BOOLEAN
  BY <1>5, <1>8
<1> QED
  BY <1>6, <1>7, <1>8, <1>9

-----------------------------------------------------------------------------
(***************************************************************************)
(* Each part of the invariant depends on some variables only.              *)
(***************************************************************************)
LEMMA WaitFrame ==
  ASSUME WaitInv, UNCHANGED <<call, sq>>
  PROVE  WaitInv'
BY DEF WaitInv, Waits

LEMMA CountFrame ==
  ASSUME CountInv, UNCHANGED <<transport, sq, m_countWR, mcast, used, miscounted>>
  PROVE  CountInv'
BY DEF CountInv, Alone, QP

LEMMA ReceiveFrame ==
  ASSUME ReceiveInv, UNCHANGED <<transport, rq, rcq, heard, unread>>
  PROVE  ReceiveInv'
BY DEF ReceiveInv, Only, QP

LEMMA QueueFrame ==
  ASSUME QueueInv, UNCHANGED <<sq, rq, bad>>
  PROVE  QueueInv'
BY DEF QueueInv

\* One send queue changes.
LEMMA QueueChange ==
  ASSUME TypeInv, QueueInv, NEW q \in QPs, NEW t \in Seq(Requests), sq' = [sq EXCEPT ![q] = t],
         UNCHANGED <<rq, bad>>, Len(t) <= MaxWR, InOrder(t), q \in bad => LastNotOk(t)
  PROVE  QueueInv' /\ sq' \in [QPs -> Seq(Requests)]
<1>1. sq \in [QPs -> Seq(Requests)]
  BY DEF TypeInv
<1>2. sq'[q] = t /\ (\A p \in QPs : p # q => sq'[p] = sq[p]) /\ sq' \in [QPs -> Seq(Requests)]
  BY <1>1
<1> QED
  BY <1>2 DEF QueueInv

\* A request is posted, or refused because the queue is full.
LEMMA PostStep ==
  ASSUME IInv, NEW n \in Nodes, NEW m \in Peers(n) \cup {Group}, NEW signaled \in BOOLEAN,
         NEW wait \in BOOLEAN, NEW op \in {"access", "send", "mcast"}, NEW k \in 0 .. MaxWR - 1,
         ~ Waits(n), PostSend(n, op, m, signaled, wait), m_countWR' = [m_countWR EXCEPT ![n] = k],
         \/ m = Group /\ transport = "ud" /\ k = m_countWR[n]
         \/ m \in Peers(n) /\ (signaled \/ k = m_countWR[n] + 1)
  PROVE  IInv'
<1> DEFINE q == QP(n, m)
           s == sq[q]
           r == WorkRequest(op, m, signaled)
           clean == \A i \in DOMAIN s : ~ s[i].signaled
<1>1. TypeInv /\ QueueInv /\ WaitInv /\ CountInv /\ ReceiveInv
  BY DEF IInv
<1>2. UNCHANGED <<transport, rq, rcq, bad, mcast, crashed, receives, faults, heard, unread>>
  BY DEF PostSend
<1>3. used' = [used EXCEPT ![n] = @ \cup {m}]
  BY DEF PostSend
<1>4. q \in QPs /\ q[1] = n /\ m \in Names
  BY OwnQueues
<1>5. s \in Seq(Requests) /\ Len(s) \in Nat /\ Len(s) <= MaxWR /\ InOrder(s)
  BY <1>1, <1>4 DEF TypeInv, QueueInv
<1>6. r \in Requests /\ r.st = "posted"
  BY <1>4 DEF WorkRequest, Requests, Names
<1>7. r.signaled <=> signaled
  BY Zenon DEF WorkRequest
<1>8. \/ /\ miscounted' = miscounted \cup {n} /\ call' = [call EXCEPT ![n] = Returned(FALSE)]
         /\ sq' = sq
      \/ /\ Len(s) # MaxWR /\ miscounted' = miscounted /\ sq' = [sq EXCEPT ![q] = Append(s, r)]
         /\ call' = [call EXCEPT ![n] = IF signaled /\ wait THEN Waiting(q, clean) ELSE Returned(TRUE)]
  BY DEF PostSend
<1> HIDE DEF r, q
<1>9. Append(s, r) \in Seq(Requests) /\ Len(Append(s, r)) = Len(s) + 1
      /\ InOrder(Append(s, r)) /\ LastNotOk(Append(s, r))
  BY <1>5, <1>6, Posted
<1> DEFINE t == Append(s, r)
<1> HIDE DEF s, t
<1>10. /\ sq' = sq \/ (Len(s) # MaxWR /\ sq' = [sq EXCEPT ![q] = t])
       /\ miscounted' = miscounted \/ (miscounted' = miscounted \cup {n})
       /\ sq' = sq => n \in miscounted'
  <2>1. sq' = [sq EXCEPT ![q] = t] => sq'[q] = t
    BY <1>1, <1>4 DEF TypeInv
  <2>2. t # s
    BY <1>5, <1>9 DEF t
  <2> QED
    BY <1>8, <2>1, <2>2 DEF t, s
<1>11. t \in Seq(Requests) /\ Len(t) = Len(s) + 1 /\ InOrder(t) /\ LastNotOk(t)
  BY <1>9 DEF t
<1>12. QueueInv' /\ sq' \in [QPs -> Seq(Requests)]
  <2>1. CASE sq' = sq
    BY <1>1, <1>2, <2>1, QueueFrame DEF TypeInv
  <2>2. CASE Len(s) # MaxWR /\ sq' = [sq EXCEPT ![q] = t]
    <3>1. Len(t) <= MaxWR
      BY <1>5, <1>11, <2>2, Bounds
    <3> QED
      BY <1>1, <1>2, <1>4, <1>11, <2>2, <3>1, QueueChange
  <2> QED
    BY <1>10, <2>1, <2>2
<1>13. /\ call' \in [Nodes -> Results] /\ \A x \in Nodes : x # n => call'[x] = call[x]
       /\ call'[n].clean => call'[n].st = "waits"
       /\ call'[n].st = "waits" => /\ call'[n].q = q /\ sq' = [sq EXCEPT ![q] = t]
                                   /\ call'[n].clean => clean
  <2>0. call \in [Nodes -> Results]
    BY <1>1 DEF TypeInv
  <2> DEFINE w == Waiting(q, clean)
  <2>1. w \in Results /\ w.st = "waits" /\ w.q = q
    <3>1. clean \in BOOLEAN
      BY Zenon
    <3> HIDE DEF clean
    <3> QED
      BY <1>4, <3>1 DEF Waiting, Results
  <2>2. w.clean <=> clean
    BY Zenon DEF Waiting
  <2>3. \A ok \in BOOLEAN : Returned(ok) \in Results /\ Returned(ok).st # "waits"
    BY DEF Returned, Results
  <2>4. \A ok \in BOOLEAN : ~ Returned(ok).clean
    BY Zenon DEF Returned
  <2> HIDE DEF w, clean
  <2>5. CASE call' = [call EXCEPT ![n] = w] /\ sq' = [sq EXCEPT ![q] = t]
    BY <2>0, <2>1, <2>2, <2>5
  <2>6. CASE \E ok \in BOOLEAN : call' = [call EXCEPT ![n] = Returned(ok)]
    <3>1. PICK ok \in BOOLEAN : call' = [call EXCEPT ![n] = Returned(ok)]
      BY <2>6
    <3>2. call'[n] = Returned(ok) /\ call' \in [Nodes -> Results]
          /\ \A x \in Nodes : x # n => call'[x] = call[x]
      BY <2>0, <2>3, <3>1
    <3> QED
      BY <2>3, <2>4, <3>2
  <2> QED
    BY <1>8, <2>5, <2>6 DEF w, clean, t
<1>14. TypeInv'
  <2>1. used' \in [Nodes -> SUBSET Names]
    BY <1>1, <1>3, <1>4 DEF TypeInv
  <2>2. m_countWR' \in [Nodes -> 0 .. MaxWR - 1]
    BY <1>1 DEF TypeInv
  <2>3. miscounted' \subseteq Nodes
    BY <1>1, <1>10 DEF TypeInv
  <2> QED
    BY <1>1, <1>2, <1>12, <1>13, <2>1, <2>2, <2>3 DEF TypeInv
<1>15. WaitInv'
  <2> SUFFICES ASSUME NEW x \in Nodes
               PROVE  /\ call'[x].clean => call'[x].st = "waits"
                      /\ call'[x].st = "waits" =>
                           /\ call'[x].q \in QPs /\ call'[x].q[1] = x /\ Len(sq'[call'[x].q]) > 0
                           /\ call'[x].clean => SilentButLast(sq'[call'[x].q])
    BY DEF WaitInv, Waits
  <2>1. CASE x = n
    <3>1. sq' = [sq EXCEPT ![q] = t] => sq'[q] = t
      BY <1>1, <1>4 DEF TypeInv
    <3>2. clean => SilentButLast(t)
      <4>1. DOMAIN s = 1 .. Len(s)
        BY <1>5
      <4> QED
        BY <1>5, <4>1, PostedSilent DEF t
    <3>3. Len(t) > 0
      BY <1>5, <1>11
    <3> HIDE DEF clean
    <3> QED
      BY <1>4, <1>13, <2>1, <3>1, <3>2, <3>3
  <2>2. CASE x # n
    <3>1. call'[x] = call[x]
      BY <1>13, <2>2
    <3>2. /\ call[x].clean => call[x].st = "waits"
          /\ call[x].st = "waits" =>
                /\ call[x].q \in QPs /\ call[x].q[1] = x /\ Len(sq[call[x].q]) > 0
                /\ call[x].clean => SilentButLast(sq[call[x].q])
      BY <1>1 DEF WaitInv, Waits
    <3>3. \A p \in QPs : p[1] = x => sq'[p] = sq[p]
      BY <1>1, <1>4, <1>10, <2>2 DEF TypeInv
    <3> QED
      BY <3>1, <3>2, <3>3
  <2> QED
    BY <2>1, <2>2
<1>16. CountInv'
  <2> SUFFICES ASSUME NEW x \in Nodes
               PROVE  /\ IsFiniteSet(used'[x])
                      /\ transport = "rc" => mcast[x] = "out"
                      /\ \A y \in Peers(x) :
                           /\ transport = "rc" /\ Len(sq'[QP(x, y)]) > 0 => y \in used'[x]
                           /\ Alone(x, y)' => CountedBy(sq'[QP(x, y)], m_countWR'[x])
    BY <1>2 DEF CountInv, QP
  <2>1. /\ IsFiniteSet(used[x])
        /\ transport = "rc" => mcast[x] = "out"
        /\ \A y \in Peers(x) :
             /\ transport = "rc" /\ Len(sq[QP(x, y)]) > 0 => y \in used[x]
             /\ Alone(x, y) => CountedBy(sq[QP(x, y)], m_countWR[x])
    BY <1>1 DEF CountInv
  <2>2. IsFiniteSet(used'[x]) /\ used[x] \subseteq used'[x] /\ (x = n => m \in used'[x])
    <3>1. CASE x = n
      <4>1. used'[n] = used[n] \cup {m}
        BY <1>1, <1>3 DEF TypeInv
      <4> QED
        BY <2>1, <3>1, <4>1, FS_AddElement
    <3>2. CASE x # n
      BY <1>1, <1>3, <2>1, <3>2 DEF TypeInv
    <3> QED
      BY <3>1, <3>2
  <2> SUFFICES ASSUME NEW y \in Peers(x)
               PROVE  /\ transport = "rc" /\ Len(sq'[QP(x, y)]) > 0 => y \in used'[x]
                      /\ Alone(x, y)' => CountedBy(sq'[QP(x, y)], m_countWR'[x])
    BY <2>1, <2>2
  <2>3. Alone(x, y)' => Alone(x, y) /\ (sq' = sq => x # n)
    BY <1>2, <1>10, <2>2 DEF Alone
  <2>4. QP(x, y) \in QPs /\ QP(x, y)[1] = x
    BY OwnQueues
  <2>5. CASE sq' = sq \/ QP(x, y) # q
    <3>1. sq'[QP(x, y)] = sq[QP(x, y)]
      BY <1>1, <1>10, <2>4, <2>5 DEF TypeInv
    <3>2. Alone(x, y)' => m_countWR'[x] = m_countWR[x]
      <4> SUFFICES ASSUME x = n, Alone(x, y)' PROVE m_countWR'[x] = m_countWR[x]
        BY <1>1 DEF TypeInv
      <4>1. QP(n, y) # q
        BY <2>3, <2>5
      <4>2. m = Group \/ transport = "ud" \/ y # m
        BY <4>1 DEF q
      <4>3. transport = "rc" => y = m
        BY <1>2, <2>2 DEF Alone
      <4>4. transport = "ud" /\ m \in Peers(n) => QP(n, y) = q
        BY OwnQueues DEF q
      <4>5. k = m_countWR[n]
        BY <1>1, <4>1, <4>2, <4>3, <4>4, OwnQueues DEF TypeInv
      <4> QED
        BY <1>1, <4>5 DEF TypeInv
    <3> QED
      BY <2>1, <2>2, <2>3, <3>1, <3>2
  <2>6. CASE sq' = [sq EXCEPT ![q] = t] /\ QP(x, y) = q
    <3>1. x = n /\ sq'[q] = t
      BY <1>1, <1>4, <2>4, <2>6 DEF TypeInv
    <3>2. m # Group /\ m \in Peers(n)
      BY <2>6, <3>1, OwnQueues DEF q
    <3>3. transport = "rc" => y = m
      <4> SUFFICES ASSUME transport = "rc" PROVE y = m
        OBVIOUS
      <4>1. q = <<n, m>> /\ QP(n, y) = <<n, y>>
        BY <3>1, OwnQueues DEF q
      <4> QED
        BY <2>6, <3>1, <4>1
    <3>4. Alone(x, y) => CountedBy(s, m_countWR[n])
      BY <2>1, <2>6, <3>1 DEF s
    <3>5. m_countWR'[n] = k /\ m_countWR[n] \in Nat /\ k \in Nat
      BY <1>1, Bounds DEF TypeInv
    <3>6. Alone(x, y) => CountedBy(t, k)
      BY <1>5, <1>6, <1>7, <3>2, <3>4, <3>5, PostedCounted DEF t
    <3> QED
      BY <2>2, <2>3, <2>6, <3>1, <3>3, <3>5, <3>6
  <2> QED
    BY <1>10, <2>5, <2>6
<1>17. ReceiveInv'
  BY <1>1, <1>2, ReceiveFrame
<1> QED
  BY <1>12, <1>14, <1>15, <1>16, <1>17 DEF IInv

\* A result that is not waited for.
LEMMA ReturnedType ==
  ASSUME NEW ok \in BOOLEAN
  PROVE  Returned(ok) \in Results /\ Returned(ok).st # "waits" /\ ~ Returned(ok).clean
<1>1. Returned(ok) \in Results /\ Returned(ok).st # "waits"
  BY DEF Returned, Results
<1>2. ~ Returned(ok).clean
  BY Zenon DEF Returned
<1> QED
  BY <1>1, <1>2

\* A request that is not supported is counted perhaps, and then it is miscounted.
LEMMA UnsupportedStep ==
  ASSUME IInv, NEW n \in Nodes, NEW op, Unsupported(n, op), NEW k \in 0 .. MaxWR - 1,
         m_countWR' = [m_countWR EXCEPT ![n] = k],
         \/ miscounted' = miscounted \cup {n}
         \/ k = m_countWR[n] /\ miscounted' = miscounted
  PROVE  IInv'
<1>1. TypeInv /\ QueueInv /\ WaitInv /\ CountInv /\ ReceiveInv
  BY DEF IInv
<1>2. /\ UNCHANGED <<transport, sq, rq, rcq, bad, mcast, crashed, used, heard, unread>>
      /\ call' = [call EXCEPT ![n] = Returned(FALSE)]
  BY DEF Unsupported, queue
<1>3. Returned(FALSE) \in Results /\ Returned(FALSE).st # "waits" /\ ~ Returned(FALSE).clean
  BY ReturnedType
<1>4. /\ call' \in [Nodes -> Results] /\ call'[n] = Returned(FALSE)
      /\ \A x \in Nodes : x # n => call'[x] = call[x]
  BY <1>1, <1>2, <1>3 DEF TypeInv
<1>5. m_countWR' \in [Nodes -> 0 .. MaxWR - 1] /\ miscounted' \subseteq Nodes
  BY <1>1 DEF TypeInv
<1>6. TypeInv'
  BY <1>1, <1>2, <1>4, <1>5 DEF TypeInv
<1>7. WaitInv'
  BY <1>1, <1>2, <1>3, <1>4 DEF WaitInv, Waits
<1>8. CountInv'
  <2>1. \A x \in Nodes : x \notin miscounted' => x \notin miscounted /\ m_countWR'[x] = m_countWR[x]
    BY <1>1 DEF TypeInv
  <2> QED
    BY <1>1, <1>2, <2>1 DEF CountInv, Alone, QP
<1>9. QueueInv' /\ ReceiveInv'
  BY <1>1, <1>2, QueueFrame, ReceiveFrame
<1> QED
  BY <1>6, <1>7, <1>8, <1>9 DEF IInv

\* The completion that is polled next.
LEMMA FirstCompleted ==
  ASSUME TypeInv, NEW q \in QPs, Completed(q) # {}
  PROVE  First(q) \in Completed(q) /\ First(q) \in 1 .. Len(sq[q])
<1>1. sq[q] \in Seq(Requests) /\ DOMAIN sq[q] = 1 .. Len(sq[q]) /\ Len(sq[q]) \in Nat
  BY DEF TypeInv
<1>2. Completed(q) \in SUBSET Nat /\ Completed(q) \subseteq 1 .. Len(sq[q])
  BY <1>1 DEF Completed
<1>3. \E i \in Completed(q) : \A j \in Completed(q) : i <= j
  BY <1>2, LeastElement
<1>4. First(q) \in Completed(q)
  BY <1>3 DEF First
<1> QED
  BY <1>2, <1>4

\* A node takes a completion, and does not wait afterwards.
LEMMA TakeStep ==
  ASSUME IInv, NEW n \in Nodes, NEW q \in QPs, q[1] = n, TakeCompletion(q),
         UNCHANGED <<transport, m_countWR, mcast, crashed, history>>,
         \/ \E ok \in BOOLEAN : call' = [call EXCEPT ![n] = Returned(ok)]
         \/ ~ Waits(n) /\ UNCHANGED call
  PROVE  IInv'
<1> DEFINE s == sq[q]
           f == First(q)
           t == Rest(s, f)
<1>1. TypeInv /\ QueueInv /\ WaitInv /\ CountInv /\ ReceiveInv
  BY DEF IInv
<1>2. /\ UNCHANGED <<transport, rq, rcq, bad, m_countWR, mcast, crashed, used, heard, miscounted, unread>>
      /\ sq' = [sq EXCEPT ![q] = t]
  BY DEF TakeCompletion, history, Rest
<1>3. f \in 1 .. Len(s)
  BY <1>1, FirstCompleted DEF TakeCompletion
<1>4. s \in Seq(Requests) /\ InOrder(s) /\ Len(s) <= MaxWR /\ Len(s) \in Nat /\ (q \in bad => LastNotOk(s))
  BY <1>1 DEF TypeInv, QueueInv
<1> HIDE DEF s, f, t
<1>5. /\ t \in Seq(Requests) /\ Len(t) = Len(s) - f /\ Len(t) \in Nat
      /\ InOrder(t) /\ (LastNotOk(s) => LastNotOk(t))
      /\ \A k \in Nat : CountedBy(s, k) => CountedBy(t, k)
  BY <1>3, <1>4, Taken DEF t
<1>6. QueueInv' /\ sq' \in [QPs -> Seq(Requests)]
  <2>1. Len(t) <= MaxWR /\ Len(t) <= Len(s)
    BY <1>3, <1>4, <1>5, Bounds
  <2> QED
    BY <1>1, <1>2, <1>4, <1>5, <2>1, QueueChange
<1>7. sq'[q] = t /\ \A p \in QPs : p # q => sq'[p] = sq[p]
  BY <1>1, <1>2 DEF TypeInv
<1>8. /\ call' \in [Nodes -> Results] /\ call'[n].st # "waits" /\ ~ call'[n].clean
      /\ \A x \in Nodes : x # n => call'[x] = call[x]
  <2>1. CASE \E ok \in BOOLEAN : call' = [call EXCEPT ![n] = Returned(ok)]
    <3>1. PICK ok \in BOOLEAN : call' = [call EXCEPT ![n] = Returned(ok)]
      BY <2>1
    <3>2. Returned(ok) \in Results /\ Returned(ok).st # "waits" /\ ~ Returned(ok).clean
      BY ReturnedType
    <3>3. /\ call' \in [Nodes -> Results] /\ call'[n] = Returned(ok)
          /\ \A x \in Nodes : x # n => call'[x] = call[x]
      BY <1>1, <3>1, <3>2 DEF TypeInv
    <3> QED
      BY <3>2, <3>3
  <2>2. CASE ~ Waits(n) /\ UNCHANGED call
    BY <1>1, <2>2 DEF TypeInv, WaitInv, Waits
  <2> QED
    BY <2>1, <2>2
<1>9. TypeInv'
  BY <1>1, <1>2, <1>6, <1>8 DEF TypeInv
<1>10. WaitInv'
  <2> SUFFICES ASSUME NEW x \in Nodes
               PROVE  /\ call'[x].clean => call'[x].st = "waits"
                      /\ call'[x].st = "waits" =>
                           /\ call'[x].q \in QPs /\ call'[x].q[1] = x /\ Len(sq'[call'[x].q]) > 0
                           /\ call'[x].clean => SilentButLast(sq'[call'[x].q])
    BY DEF WaitInv, Waits
  <2>1. CASE x = n
    BY <1>8, <2>1
  <2>2. CASE x # n
    <3>1. /\ call[x].clean => call[x].st = "waits"
          /\ call[x].st = "waits" =>
                /\ call[x].q \in QPs /\ call[x].q[1] = x /\ Len(sq[call[x].q]) > 0
                /\ call[x].clean => SilentButLast(sq[call[x].q])
      BY <1>1 DEF WaitInv, Waits
    <3>2. \A p \in QPs : p[1] = x => sq'[p] = sq[p]
      BY <1>7, <2>2
    <3> QED
      BY <1>8, <2>2, <3>1, <3>2
  <2> QED
    BY <2>1, <2>2
<1>11. CountInv'
  <2> SUFFICES ASSUME NEW x \in Nodes
               PROVE  /\ IsFiniteSet(used[x])
                      /\ transport = "rc" => mcast[x] = "out"
                      /\ \A y \in Peers(x) :
                           /\ transport = "rc" /\ Len(sq'[QP(x, y)]) > 0 => y \in used[x]
                           /\ Alone(x, y) => CountedBy(sq'[QP(x, y)], m_countWR[x])
    BY <1>2 DEF CountInv, QP, Alone
  <2>1. /\ IsFiniteSet(used[x])
        /\ transport = "rc" => mcast[x] = "out"
        /\ \A y \in Peers(x) :
             /\ transport = "rc" /\ Len(sq[QP(x, y)]) > 0 => y \in used[x]
             /\ Alone(x, y) => CountedBy(sq[QP(x, y)], m_countWR[x])
    BY <1>1 DEF CountInv
  <2>2. m_countWR[x] \in Nat
    BY <1>1, Bounds DEF TypeInv
  <2>3. ASSUME NEW y \in Peers(x)
        PROVE  /\ Len(sq'[QP(x, y)]) > 0 => Len(sq[QP(x, y)]) > 0
               /\ CountedBy(sq[QP(x, y)], m_countWR[x]) => CountedBy(sq'[QP(x, y)], m_countWR[x])
    <3>1. QP(x, y) \in QPs
      BY OwnQueues
    <3>2. CASE QP(x, y) = q
      <4>1. sq[QP(x, y)] = s /\ sq'[QP(x, y)] = t
        BY <1>7, <3>2 DEF s
      <4>2. Len(t) > 0 => Len(s) > 0
        BY <1>3, <1>4, <1>5
      <4> QED
        BY <1>5, <2>2, <4>1, <4>2
    <3>3. CASE QP(x, y) # q
      BY <1>7, <3>1, <3>3
    <3> QED
      BY <3>2, <3>3
  <2> QED
    BY <2>1, <2>3
<1>12. ReceiveInv'
  BY <1>1, <1>2, ReceiveFrame
<1> QED
  BY <1>6, <1>9, <1>10, <1>11, <1>12 DEF IInv

\* A receive buffer is posted, or completes with an error at once.
LEMMA ReceiveStep ==
  ASSUME IInv, NEW n \in Nodes, NEW m \in Peers(n) \cup {Group}, PostReceive(n, m)
  PROVE  IInv'
<1> DEFINE q == QP(n, m)
<1>1. TypeInv /\ QueueInv /\ WaitInv /\ CountInv /\ ReceiveInv
  BY DEF IInv
<1>2. UNCHANGED <<transport, sq, bad, call, m_countWR, mcast, crashed, used, miscounted, unread>>
  BY DEF PostReceive
<1>3. /\ Len(rq[q]) < MaxWR
      /\ \/ q \in bad /\ rcq' = [rcq EXCEPT ![q] = Append(rcq[q], FALSE)] /\ rq' = rq
         \/ q \notin bad /\ rq' = [rq EXCEPT ![q] = Append(rq[q], m)] /\ rcq' = rcq
  BY DEF PostReceive
<1>4. heard' = IF transport = "ud" THEN [heard EXCEPT ![n] = heard[n] \cup {m}] ELSE heard
  BY DEF PostReceive, Hear
<1>5. q \in QPs /\ q[1] = n /\ m \in Names
  BY OwnQueues
<1> HIDE DEF q
<1>6. rq[q] \in Seq(Names) /\ rcq[q] \in Seq(BOOLEAN) /\ Len(rq[q]) \in Nat /\ Len(rcq[q]) \in Nat
  BY <1>1, <1>5 DEF TypeInv
<1>7. Append(rq[q], m) \in Seq(Names) /\ Append(rcq[q], FALSE) \in Seq(BOOLEAN)
  BY <1>5, <1>6
<1>8. rq' \in [QPs -> Seq(Names)] /\ rcq' \in [QPs -> Seq(BOOLEAN)]
  BY <1>1, <1>3, <1>5, <1>7 DEF TypeInv
<1>9. heard' \in [Nodes -> SUBSET Names] /\ \A x \in Nodes : heard[x] \subseteq heard'[x]
  BY <1>1, <1>4, <1>5 DEF TypeInv
<1>10. TypeInv'
  BY <1>1, <1>2, <1>8, <1>9 DEF TypeInv
<1>11. QueueInv'
  <2>1. \A p \in QPs : Len(rq'[p]) <= MaxWR
    <3>1. Len(Append(rq[q], m)) = Len(rq[q]) + 1
      BY <1>5, <1>6
    <3>2. Len(Append(rq[q], m)) <= MaxWR
      BY <1>3, <1>6, <3>1, Bounds
    <3>3. \A p \in QPs : rq'[p] = rq[p] \/ rq'[p] = Append(rq[q], m)
      BY <1>1, <1>3, <1>5 DEF TypeInv
    <3> QED
      BY <1>1, <3>2, <3>3 DEF QueueInv
  <2> QED
    BY <1>1, <1>2, <2>1 DEF QueueInv
<1>12. WaitInv' /\ CountInv'
  BY <1>1, <1>2, WaitFrame, CountFrame
<1>13. ReceiveInv'
  <2> SUFFICES ASSUME NEW x \in Nodes
               PROVE  /\ IsFiniteSet(heard'[x])
                      /\ \A y \in Peers(x) \cup {Group} :
                           /\ Only(x, y)' => unread[<<x, y>>] >= Filled(rcq'[QP(x, y)])
                           /\ y \notin heard'[x] /\ y # Group => unread[<<x, y>>] >= 0
                           /\ \A i \in 1 .. Len(rq'[QP(x, y)]) :
                                IF transport = "rc" \/ y = Group THEN rq'[QP(x, y)][i] = y
                                ELSE rq'[QP(x, y)][i] \in heard'[x] \ {Group}
    BY <1>2 DEF ReceiveInv, QP
  <2>1. /\ IsFiniteSet(heard[x])
        /\ \A y \in Peers(x) \cup {Group} :
             /\ Only(x, y) => unread[<<x, y>>] >= Filled(rcq[QP(x, y)])
             /\ y \notin heard[x] /\ y # Group => unread[<<x, y>>] >= 0
             /\ \A i \in 1 .. Len(rq[QP(x, y)]) :
                  IF transport = "rc" \/ y = Group THEN rq[QP(x, y)][i] = y
                  ELSE rq[QP(x, y)][i] \in heard[x] \ {Group}
    BY <1>1 DEF ReceiveInv
  <2>2. IsFiniteSet(heard'[x])
    <3>1. heard'[x] = heard[x] \/ heard'[x] = heard[x] \cup {m}
      BY <1>1, <1>4 DEF TypeInv
    <3> QED
      BY <2>1, <3>1, FS_AddElement
  <2> SUFFICES ASSUME NEW y \in Peers(x) \cup {Group}
               PROVE  /\ Only(x, y)' => unread[<<x, y>>] >= Filled(rcq'[QP(x, y)])
                      /\ y \notin heard'[x] /\ y # Group => unread[<<x, y>>] >= 0
                      /\ \A i \in 1 .. Len(rq'[QP(x, y)]) :
                           IF transport = "rc" \/ y = Group THEN rq'[QP(x, y)][i] = y
                           ELSE rq'[QP(x, y)][i] \in heard'[x] \ {Group}
    BY <2>2
  <2>3. Only(x, y)' => Only(x, y)
    BY <1>2, <1>9 DEF Only
  <2>4. QP(x, y) \in QPs /\ QP(x, y)[1] = x
    BY OwnQueues
  <2>5. Filled(rcq'[QP(x, y)]) = Filled(rcq[QP(x, y)])
    <3> DEFINE u == Append(rcq[q], FALSE)
    <3>1. /\ Len(u) \in Nat /\ Len(rcq[q]) <= Len(u) /\ \A i \in 1 .. Len(rcq[q]) : u[i] <=> rcq[q][i]
          /\ \A i \in 1 .. Len(u) : i > Len(rcq[q]) => ~ u[i]
      BY <1>6
    <3> HIDE DEF u
    <3>2. Filled(u) = Filled(rcq[q])
      BY <1>6, <3>1, FilledSame
    <3>3. rcq'[QP(x, y)] = rcq[QP(x, y)] \/ (QP(x, y) = q /\ rcq'[QP(x, y)] = u)
      BY <1>1, <1>3, <1>5, <2>4 DEF TypeInv, u
    <3> QED
      BY <3>2, <3>3
  <2>6. CASE rq'[QP(x, y)] = rq[QP(x, y)]
    BY <1>9, <2>1, <2>3, <2>5, <2>6
  <2>7. CASE q = QP(x, y) /\ rq'[q] = Append(rq[q], m)
    <3> DEFINE u == Append(rq[q], m)
    <3>1. x = n
      BY <1>5, <2>4, <2>7
    <3>2. transport = "ud" => m \in heard'[n]
      BY <1>1, <1>4 DEF TypeInv
    <3>3. transport = "rc" \/ y = Group => m = y
      <4>1. CASE transport = "rc"
        <5>1. q = <<n, m>> /\ QP(n, y) = <<n, y>>
          BY <3>1, <4>1, OwnQueues DEF q
        <5> QED
          BY <2>7, <3>1, <5>1
      <4>2. CASE y = Group
        <5>1. q = <<n, Group>>
          BY <2>7, <3>1, <4>2, OwnQueues
        <5> QED
          BY <4>2, <5>1, OwnQueues DEF q
      <4> QED
        BY <4>1, <4>2
    <3>4. ~ (transport = "rc" \/ y = Group) => m # Group
      BY <2>4, <2>7, <3>1, OwnQueues DEF q
    <3>5. \A i \in 1 .. Len(u) : u[i] = m \/ (i \in 1 .. Len(rq[q]) /\ u[i] = rq[q][i])
      BY <1>5, <1>6
    <3> HIDE DEF u
    <3>6. ~ (transport = "rc" \/ y = Group) => transport = "ud"
      BY <1>1 DEF TypeInv
    <3>7. ASSUME NEW i \in 1 .. Len(u)
          PROVE IF transport = "rc" \/ y = Group THEN u[i] = y ELSE u[i] \in heard'[x] \ {Group}
      <4>1. CASE u[i] = m
        BY <3>1, <3>2, <3>3, <3>4, <3>6, <4>1
      <4>2. CASE i \in 1 .. Len(rq[q]) /\ u[i] = rq[q][i]
        BY <1>9, <2>1, <2>7, <4>2
      <4> QED
        BY <3>5, <4>1, <4>2
    <3>8. rq'[QP(x, y)] = u
      BY <2>7 DEF u
    <3> QED
      BY <1>9, <2>1, <2>3, <2>5, <3>7, <3>8
  <2> QED
    BY <1>1, <1>3, <1>5, <2>4, <2>6, <2>7 DEF TypeInv
<1> QED
  BY <1>10, <1>11, <1>12, <1>13 DEF IInv

\* A completion of a receive is polled.
LEMMA PollStep ==
  ASSUME IInv, NEW n \in Nodes, NEW m \in Peers(n) \cup {Group}, PollReceive(n, m)
  PROVE  IInv'
<1> DEFINE q == QP(n, m)
           u == Tail(rcq[q])
<1>1. TypeInv /\ QueueInv /\ WaitInv /\ CountInv /\ ReceiveInv
  BY DEF IInv
<1>2. UNCHANGED <<transport, sq, rq, bad, call, m_countWR, mcast, crashed, used, miscounted>>
  BY DEF PollReceive
<1>3. rcq[q] # << >> /\ rcq' = [rcq EXCEPT ![q] = u]
  BY DEF PollReceive, PollCQ
<1>4. unread' = IF Head(rcq[q]) THEN [unread EXCEPT ![<<n, m>>] = @ - 1] ELSE unread
  BY DEF PollReceive, PollCQ
<1>5. heard' = IF transport = "ud" THEN [heard EXCEPT ![n] = heard[n] \cup {m}] ELSE heard
  BY DEF PollReceive, Hear
<1>6. q \in QPs /\ q[1] = n /\ m \in Names /\ <<n, m>> \in QPs
  BY OwnQueues
<1>7. rcq[q] \in Seq(BOOLEAN) /\ Filled(rcq[q]) \in Nat
  BY <1>1, <1>6, FilledType DEF TypeInv
<1>8. /\ u \in Seq(BOOLEAN) /\ Filled(u) \in Nat
      /\ Head(rcq[q]) => Filled(rcq[q]) = Filled(u) + 1
      /\ ~ Head(rcq[q]) => Filled(rcq[q]) = Filled(u)
  BY <1>3, <1>7, FilledLess, FilledType
<1> HIDE DEF q, u
<1>9. rcq' \in [QPs -> Seq(BOOLEAN)] /\ rcq'[q] = u /\ \A p \in QPs : p # q => rcq'[p] = rcq[p]
  BY <1>1, <1>3, <1>6, <1>8 DEF TypeInv
<1>10. heard' \in [Nodes -> SUBSET Names] /\ \A x \in Nodes : heard[x] \subseteq heard'[x]
  BY <1>1, <1>5, <1>6 DEF TypeInv
<1>11. /\ unread' \in [QPs -> Int] /\ \A p \in QPs : p # <<n, m>> => unread'[p] = unread[p]
       /\ Head(rcq[q]) => unread'[<<n, m>>] = unread[<<n, m>>] - 1
       /\ ~ Head(rcq[q]) => unread'[<<n, m>>] = unread[<<n, m>>]
       /\ unread[<<n, m>>] \in Int
  <2>1. CASE Head(rcq[q])
    <3> DEFINE e == <<n, m>>
               d == unread[e] - 1
    <3>1. unread' = [unread EXCEPT ![e] = d]
      BY <1>4, <2>1
    <3>2. e \in QPs /\ unread \in [QPs -> Int]
      BY <1>1, <1>6 DEF TypeInv
    <3>3. unread[e] \in Int /\ d \in Int
      BY <3>2
    <3> HIDE DEF e, d
    <3>4. unread' \in [QPs -> Int] /\ unread'[e] = d /\ \A p \in QPs : p # e => unread'[p] = unread[p]
      BY <3>1, <3>2, <3>3
    <3> QED
      BY <2>1, <3>3, <3>4 DEF e, d
  <2>2. CASE ~ Head(rcq[q])
    <3>1. unread' = unread
      BY <1>4, <2>2
    <3> QED
      BY <1>1, <1>6, <2>2, <3>1 DEF TypeInv
  <2> QED
    BY <2>1, <2>2
<1>12. TypeInv'
  BY <1>1, <1>2, <1>9, <1>10, <1>11 DEF TypeInv
<1>13. QueueInv' /\ WaitInv' /\ CountInv'
  BY <1>1, <1>2, QueueFrame, WaitFrame, CountFrame
<1>14. ReceiveInv'
  <2> SUFFICES ASSUME NEW x \in Nodes
               PROVE  /\ IsFiniteSet(heard'[x])
                      /\ \A y \in Peers(x) \cup {Group} :
                           /\ Only(x, y)' => unread'[<<x, y>>] >= Filled(rcq'[QP(x, y)])
                           /\ y \notin heard'[x] /\ y # Group => unread'[<<x, y>>] >= 0
                           /\ \A i \in 1 .. Len(rq[QP(x, y)]) :
                                IF transport = "rc" \/ y = Group THEN rq[QP(x, y)][i] = y
                                ELSE rq[QP(x, y)][i] \in heard'[x] \ {Group}
    BY <1>2 DEF ReceiveInv, QP
  <2>1. /\ IsFiniteSet(heard[x])
        /\ \A y \in Peers(x) \cup {Group} :
             /\ Only(x, y) => unread[<<x, y>>] >= Filled(rcq[QP(x, y)])
             /\ y \notin heard[x] /\ y # Group => unread[<<x, y>>] >= 0
             /\ \A i \in 1 .. Len(rq[QP(x, y)]) :
                  IF transport = "rc" \/ y = Group THEN rq[QP(x, y)][i] = y
                  ELSE rq[QP(x, y)][i] \in heard[x] \ {Group}
    BY <1>1 DEF ReceiveInv
  <2>2. IsFiniteSet(heard'[x])
    <3>1. heard'[x] = heard[x] \/ heard'[x] = heard[x] \cup {m}
      BY <1>1, <1>5 DEF TypeInv
    <3> QED
      BY <2>1, <3>1, FS_AddElement
  <2> SUFFICES ASSUME NEW y \in Peers(x) \cup {Group}
               PROVE  /\ Only(x, y)' => unread'[<<x, y>>] >= Filled(rcq'[QP(x, y)])
                      /\ y \notin heard'[x] /\ y # Group => unread'[<<x, y>>] >= 0
    BY <1>10, <2>1, <2>2
  <2>3. Only(x, y)' => Only(x, y)
    BY <1>2, <1>10 DEF Only
  <2>4. QP(x, y) \in QPs /\ QP(x, y)[1] = x /\ <<x, y>> \in QPs
    BY OwnQueues
  <2>5. CASE x = n /\ y = m
    <3>1. Only(x, y)' => unread'[<<x, y>>] >= Filled(rcq'[QP(x, y)])
      <4>1. QP(x, y) = q
        BY <2>5 DEF q
      <4>2. Only(x, y)' => unread[<<n, m>>] >= Filled(rcq[q])
        BY <2>1, <2>3, <2>5, <4>1
      <4>3. Only(x, y)' => unread'[<<n, m>>] >= Filled(u)
        <5>1. CASE Head(rcq[q])
          <6>1. Filled(rcq[q]) = Filled(u) + 1 /\ unread'[<<n, m>>] = unread[<<n, m>>] - 1
            BY <1>8, <1>11, <5>1
          <6>2. Filled(u) \in Nat /\ unread[<<n, m>>] \in Int
            BY <1>8, <1>11
          <6> QED
            BY <4>2, <6>1, <6>2
        <5>2. CASE ~ Head(rcq[q])
          BY <1>8, <1>11, <4>2, <5>2
        <5> QED
          BY <5>1, <5>2
      <4> QED
        BY <1>9, <2>5, <4>1, <4>3
    <3>2. y \notin heard'[x] /\ y # Group => transport = "rc"
      BY <1>1, <1>5, <2>5 DEF TypeInv
    <3>3. Only(x, y)' <=> (transport = "rc" \/ y = Group \/ heard'[x] \ {Group} \subseteq {y})
      BY <1>2 DEF Only
    <3>4. unread'[<<x, y>>] >= Filled(rcq'[QP(x, y)]) => unread'[<<x, y>>] >= 0
      <4>1. Filled(rcq'[QP(x, y)]) \in Nat
        BY <1>9, <2>4, FilledType
      <4>2. unread'[<<x, y>>] \in Int
        BY <1>11, <2>4
      <4> QED
        BY <4>1, <4>2
    <3> QED
      BY <3>1, <3>2, <3>3, <3>4
  <2>6. CASE ~ (x = n /\ y = m)
    <3>1. <<x, y>> # <<n, m>>
      BY <2>6
    <3>2. unread'[<<x, y>>] = unread[<<x, y>>]
      BY <1>11, <2>4, <3>1
    <3>3. Only(x, y)' => QP(x, y) # q
      <4> SUFFICES ASSUME Only(x, y)', QP(x, y) = q PROVE FALSE
        OBVIOUS
      <4>1. x = n /\ y # m
        BY <1>6, <2>4, <2>6
      <4>2. transport # "rc"
        <5> SUFFICES ASSUME transport = "rc" PROVE FALSE
          OBVIOUS
        <5>1. QP(x, y) = <<n, y>> /\ q = <<n, m>>
          BY <4>1, OwnQueues DEF q
        <5> QED
          BY <4>1, <5>1
      <4>3. y # Group /\ m # Group
        <5>1. y = Group => m \in Peers(n)
          BY <4>1
        <5>2. m = Group => y \in Peers(n)
          BY <4>1
        <5> QED
          BY <4>1, <5>1, <5>2, OwnQueues DEF q
      <4>4. m \in heard'[n]
        BY <1>1, <1>5, <4>2 DEF TypeInv
      <4>5. heard'[x] \ {Group} \subseteq {y}
        BY <1>2, <4>2, <4>3 DEF Only
      <4> QED
        BY <4>1, <4>3, <4>4, <4>5
    <3>4. Only(x, y)' => rcq'[QP(x, y)] = rcq[QP(x, y)]
      BY <1>9, <2>4, <3>3
    <3>5. y \notin heard'[x] => y \notin heard[x]
      BY <1>10
    <3> QED
      BY <2>1, <2>3, <3>2, <3>4, <3>5
  <2> QED
    BY <2>5, <2>6
<1> QED
  BY <1>12, <1>13, <1>14 DEF IInv

\* A node joins a group or leaves it.
LEMMA GroupStep ==
  ASSUME IInv, NEW n \in Nodes, ~ Waits(n), transport = "ud", NEW to \in {"in", "left"},
         \/ mcast' = [mcast EXCEPT ![n] = to] /\ NoGroupQueue(n)
         \/ UNCHANGED <<mcast, sq, rq, rcq>>,
         UNCHANGED <<transport, bad, call, m_countWR, crashed, history>>
  PROVE  IInv'
<1> DEFINE g == <<n, Group>>
<1>1. TypeInv /\ QueueInv /\ WaitInv /\ CountInv /\ ReceiveInv
  BY DEF IInv
<1>2. UNCHANGED <<transport, bad, call, m_countWR, crashed, used, heard, miscounted, unread>>
  BY DEF history
<1>3. CASE UNCHANGED <<mcast, sq, rq, rcq>>
  <2>1. TypeInv'
    BY <1>1, <1>2, <1>3 DEF TypeInv
  <2>2. QueueInv' /\ WaitInv' /\ CountInv' /\ ReceiveInv'
    BY <1>1, <1>2, <1>3, QueueFrame, WaitFrame, CountFrame, ReceiveFrame
  <2> QED
    BY <2>1, <2>2 DEF IInv
<1>4. CASE mcast' = [mcast EXCEPT ![n] = to] /\ NoGroupQueue(n)
  <2>1. g \in QPs /\ g[1] = n
    BY OwnQueues
  <2>2. /\ sq' = [sq EXCEPT ![g] = << >>] /\ rq' = [rq EXCEPT ![g] = << >>]
        /\ rcq' = [rcq EXCEPT ![g] = << >>]
    BY <1>4 DEF NoGroupQueue
  <2> HIDE DEF g
  <2>3. sq' \in [QPs -> Seq(Requests)] /\ sq'[g] = << >> /\ \A p \in QPs : p # g => sq'[p] = sq[p]
    BY <1>1, <2>1, <2>2 DEF TypeInv
  <2>4. rq' \in [QPs -> Seq(Names)] /\ rq'[g] = << >> /\ \A p \in QPs : p # g => rq'[p] = rq[p]
    BY <1>1, <2>1, <2>2 DEF TypeInv
  <2>5. rcq' \in [QPs -> Seq(BOOLEAN)] /\ rcq'[g] = << >> /\ \A p \in QPs : p # g => rcq'[p] = rcq[p]
    BY <1>1, <2>1, <2>2 DEF TypeInv
  <2>6. mcast' \in [Nodes -> {"out", "in", "left"}]
    BY <1>1, <1>4 DEF TypeInv
  <2>7. TypeInv'
    BY <1>1, <1>2, <2>3, <2>4, <2>5, <2>6 DEF TypeInv
  <2>8. QueueInv'
    <3>1. Len(<< >>) <= MaxWR /\ InOrder(<< >>) /\ LastNotOk(<< >>)
      BY Bounds DEF InOrder, LastNotOk
    <3> QED
      BY <1>1, <1>2, <2>3, <2>4, <3>1 DEF QueueInv
  <2>9. WaitInv'
    <3>1. \A x \in Nodes : Waits(x) => x # n
      OBVIOUS
    <3>2. \A x \in Nodes : x # n => \A p \in QPs : p[1] = x => sq'[p] = sq[p]
      BY <2>1, <2>3
    <3> QED
      BY <1>1, <1>2, <3>1, <3>2 DEF WaitInv, Waits
  <2>10. CountInv'
    <3>1. \A x \in Nodes : \A y \in Peers(x) : sq'[QP(x, y)] = sq[QP(x, y)]
      <4> SUFFICES ASSUME NEW x \in Nodes, NEW y \in Peers(x) PROVE QP(x, y) \in QPs /\ QP(x, y) # g
        BY <2>3
      <4>1. QP(x, y) \in QPs /\ QP(x, y)[1] = x /\ QP(x, y) # <<x, Group>>
        BY OwnQueues
      <4> QED
        BY <4>1 DEF g
    <3>2. transport # "rc"
      OBVIOUS
    <3> QED
      BY <1>1, <1>2, <3>1, <3>2 DEF CountInv, Alone, QP
  <2>11. ReceiveInv'
    <3> SUFFICES ASSUME NEW x \in Nodes, NEW y \in Peers(x) \cup {Group}
                 PROVE  /\ Only(x, y) => unread[<<x, y>>] >= Filled(rcq'[QP(x, y)])
                        /\ \A i \in 1 .. Len(rq'[QP(x, y)]) :
                             IF transport = "rc" \/ y = Group THEN rq'[QP(x, y)][i] = y
                             ELSE rq'[QP(x, y)][i] \in heard[x] \ {Group}
      BY <1>1, <1>2 DEF ReceiveInv, QP, Only
    <3>1. /\ Only(x, y) => unread[<<x, y>>] >= Filled(rcq[QP(x, y)])
          /\ \A i \in 1 .. Len(rq[QP(x, y)]) :
               IF transport = "rc" \/ y = Group THEN rq[QP(x, y)][i] = y
               ELSE rq[QP(x, y)][i] \in heard[x] \ {Group}
      BY <1>1 DEF ReceiveInv
    <3>2. QP(x, y) \in QPs /\ <<x, y>> \in QPs
      BY OwnQueues
    <3>3. CASE QP(x, y) = g
      <4>1. Filled(rcq[g]) \in Nat /\ unread[<<x, y>>] \in Int
        BY <1>1, <2>1, <3>2, FilledType DEF TypeInv
      <4>2. Filled(rcq'[g]) = 0 /\ Len(rq'[g]) = 0
        BY <2>4, <2>5, FilledNone
      <4>3. Only(x, y) => unread[<<x, y>>] >= Filled(rcq[g])
        BY <3>1, <3>3
      <4>4. Only(x, y) => unread[<<x, y>>] >= 0
        BY <4>1, <4>3
      <4>5. 1 .. Len(rq'[g]) = {}
        BY <4>2
      <4> QED
        BY <3>3, <4>2, <4>4, <4>5
    <3>4. CASE QP(x, y) # g
      BY <2>4, <2>5, <3>1, <3>2, <3>4
    <3> QED
      BY <3>3, <3>4
  <2> QED
    BY <2>7, <2>8, <2>9, <2>10, <2>11 DEF IInv
<1> QED
  BY <1>3, <1>4

\* The request that is executed next is the first one not executed.
LEMMA TurnFirst ==
  ASSUME TypeInv, NEW q \in QPs, Pending(q) # {}
  PROVE  /\ Turn(q) \in 1 .. Len(sq[q]) /\ sq[q][Turn(q)].st = "posted"
         /\ \A j \in 1 .. Len(sq[q]) : sq[q][j].st = "posted" => Turn(q) <= j
<1>1. sq[q] \in Seq(Requests) /\ DOMAIN sq[q] = 1 .. Len(sq[q]) /\ Len(sq[q]) \in Nat
  BY DEF TypeInv
<1>2. Pending(q) \in SUBSET Nat
  BY <1>1 DEF Pending
<1>3. \E i \in Pending(q) : \A j \in Pending(q) : i <= j
  BY <1>2, LeastElement
<1>4. Turn(q) \in Pending(q) /\ \A j \in Pending(q) : Turn(q) <= j
  BY <1>3 DEF Turn
<1> QED
  BY <1>1, <1>4 DEF Pending

\* A card finishes a request: what it does to the send queue.
LEMMA CompleteStep ==
  ASSUME IInv, NEW q \in QPs, Pending(q) # {}, NEW st \in {"ok", "failed"}, Complete(q, st),
         bad' \subseteq bad \cup {q}, q \in bad' => st = "failed",
         \A p \in QPs : Len(rq'[p]) <= MaxWR
  PROVE  sq' \in [QPs -> Seq(Requests)] /\ QueueInv' /\ WaitInv' /\ CountInv'
<1> DEFINE s == sq[q]
           i == Turn(q)
           t == Marked(s, i, st)
<1>1. TypeInv /\ QueueInv /\ WaitInv /\ CountInv
  BY DEF IInv
<1>2. UNCHANGED <<transport, call, m_countWR, mcast, used, miscounted>>
  BY DEF Complete
<1>3. s \in Seq(Requests) /\ InOrder(s) /\ Len(s) <= MaxWR /\ sq \in [QPs -> Seq(Requests)]
  BY <1>1 DEF TypeInv, QueueInv
<1>4. /\ i \in 1 .. Len(s) /\ s[i].st = "posted"
      /\ \A j \in 1 .. Len(s) : s[j].st = "posted" => i <= j
  BY <1>1, TurnFirst
<1>5. sq' = [sq EXCEPT ![q] = t]
  <2>1. sq' = [sq EXCEPT ![q][i].st = st]
    BY DEF Complete
  <2> QED
    BY <1>3, <2>1 DEF Marked
<1> HIDE DEF s, i, t
<1>6. /\ t \in Seq(Requests) /\ Len(t) = Len(s)
      /\ InOrder(t) /\ (st = "failed" => LastNotOk(t))
      /\ (SilentButLast(s) => SilentButLast(t))
      /\ \A k \in Nat : CountedBy(s, k) => CountedBy(t, k)
  BY <1>3, <1>4, Finished DEF t
<1>7. sq' \in [QPs -> Seq(Requests)] /\ sq'[q] = t /\ \A p \in QPs : p # q => sq'[p] = sq[p]
  BY <1>3, <1>5, <1>6
<1>8. QueueInv'
  BY <1>1, <1>3, <1>6, <1>7 DEF QueueInv
<1>9. /\ \A p \in QPs : Len(sq'[p]) = Len(sq[p]) /\ (SilentButLast(sq[p]) => SilentButLast(sq'[p]))
      /\ \A p \in QPs, k \in Nat : CountedBy(sq[p], k) => CountedBy(sq'[p], k)
  BY <1>6, <1>7 DEF s
<1>10. WaitInv'
  BY <1>1, <1>2, <1>9 DEF WaitInv, Waits
<1>11. CountInv'
  <2> SUFFICES ASSUME NEW x \in Nodes, NEW y \in Peers(x)
               PROVE  /\ transport = "rc" /\ Len(sq'[QP(x, y)]) > 0 => y \in used[x]
                      /\ Alone(x, y) => CountedBy(sq'[QP(x, y)], m_countWR[x])
    BY <1>1, <1>2 DEF CountInv, QP, Alone
  <2>1. QP(x, y) \in QPs
    BY OwnQueues
  <2>2. m_countWR[x] \in Nat
    BY <1>1, Bounds DEF TypeInv
  <2> QED
    BY <1>1, <1>9, <2>1, <2>2 DEF CountInv
<1> QED
  BY <1>7, <1>8, <1>10, <1>11

\* A message arrives at one queue pair of a node at most, where a buffer is posted.
LEMMA OpenOnce ==
  ASSUME NEW q
  PROVE  /\ \A d \in Open(q) : rq[d] # << >>
         /\ \A d, e \in Open(q) : d[1] = e[1] => d = e
<1> DEFINE r == Current(q)
           at == CASE r.op = "send" /\ transport = "rc" -> {<<r.to, q[1]>>}
                   [] r.op = "send" /\ transport = "ud" -> {<<r.to, Shared>>}
                   [] r.op = "mcast" -> {<<n, Group>> : n \in {k \in Nodes : mcast[k] = "in"}}
                   [] OTHER -> {}
<1>1. Open(q) = {d \in at : d \notin bad /\ rq[d] # << >>}
  BY DEF Open
<1>2. \/ at = {<<r.to, q[1]>>} \/ at = {<<r.to, Shared>>} \/ at = {}
      \/ at = {<<n, Group>> : n \in {k \in Nodes : mcast[k] = "in"}}
  OBVIOUS
<1> HIDE DEF at, r
<1>3. \A d, e \in at : d[1] = e[1] => d = e
  BY <1>2
<1> QED
  BY <1>1, <1>3

LEMMA DeliverStep ==
  ASSUME TypeInv, QueueInv, ReceiveInv, NEW q, NEW D \in SUBSET Open(q), Deliver(D),
         UNCHANGED <<transport, heard>>
  PROVE  /\ rq' \in [QPs -> Seq(Names)] /\ rcq' \in [QPs -> Seq(BOOLEAN)] /\ unread' \in [QPs -> Int]
         /\ \A p \in QPs : Len(rq'[p]) <= MaxWR
         /\ ReceiveInv'
<1> DEFINE S(e) == {d \in D : e = <<d[1], Head(rq[d])>>}
<1>1. /\ rq' = [d \in QPs |-> IF d \in D THEN Tail(rq[d]) ELSE rq[d]]
      /\ rcq' = [d \in QPs |-> IF d \in D THEN Append(rcq[d], TRUE) ELSE rcq[d]]
      /\ unread' = [e \in QPs |-> unread[e] + Cardinality(S(e))]
  BY DEF Deliver
<1>2. /\ rq \in [QPs -> Seq(Names)] /\ rcq \in [QPs -> Seq(BOOLEAN)] /\ unread \in [QPs -> Int]
  BY DEF TypeInv
<1>3. \A p \in D \cap QPs : rq[p] # << >> /\ rq[p] \in Seq(Names)
  BY <1>2, OpenOnce
<1>4. \A p \in D \cap QPs :
        /\ Tail(rq[p]) \in Seq(Names) /\ Len(rq[p]) \in Nat /\ Len(rq[p]) > 0
        /\ Len(Tail(rq[p])) = Len(rq[p]) - 1
        /\ \A i \in 1 .. Len(rq[p]) - 1 : Tail(rq[p])[i] = rq[p][i + 1]
        /\ Head(rq[p]) = rq[p][1]
  BY <1>3
<1>5. \A p \in D \cap QPs :
        Append(rcq[p], TRUE) \in Seq(BOOLEAN) /\ Filled(Append(rcq[p], TRUE)) = Filled(rcq[p]) + 1
  BY <1>2, FilledMore
<1>6. \A e : Cardinality(S(e)) \in {0, 1} /\ (S(e) # {} => Cardinality(S(e)) = 1)
  <2> SUFFICES ASSUME NEW e PROVE Cardinality(S(e)) \in {0, 1} /\ (S(e) # {} => Cardinality(S(e)) = 1)
    OBVIOUS
  <2>1. \A c, d \in S(e) : c = d
    <3> SUFFICES ASSUME NEW c \in S(e), NEW d \in S(e) PROVE c = d
      OBVIOUS
    <3>1. <<c[1], Head(rq[c])>> = <<d[1], Head(rq[d])>> /\ c \in Open(q) /\ d \in Open(q)
      OBVIOUS
    <3>2. c[1] = d[1]
      BY <3>1
    <3> QED
      BY <3>1, <3>2, OpenOnce
  <2> HIDE DEF S
  <2>2. CASE S(e) = {}
    BY <2>2, FS_EmptySet
  <2>3. CASE S(e) # {}
    <3>1. PICK d : S(e) = {d}
      BY <2>1, <2>3
    <3> QED
      BY <3>1, FS_Singleton
  <2> QED
    BY <2>2, <2>3
<1>7. rq' \in [QPs -> Seq(Names)]
  <2>1. \A p \in QPs : (IF p \in D THEN Tail(rq[p]) ELSE rq[p]) \in Seq(Names)
    BY <1>2, <1>4
  <2> QED
    BY <1>1, <2>1
<1>8. rcq' \in [QPs -> Seq(BOOLEAN)]
  <2>1. \A p \in QPs : (IF p \in D THEN Append(rcq[p], TRUE) ELSE rcq[p]) \in Seq(BOOLEAN)
    BY <1>2, <1>5
  <2> QED
    BY <1>1, <2>1
<1>9. \A e \in QPs :
        /\ unread[e] \in Int /\ unread'[e] = unread[e] + Cardinality(S(e))
        /\ unread'[e] \in Int /\ unread'[e] >= unread[e]
        /\ S(e) # {} => unread'[e] = unread[e] + 1
  <2> SUFFICES ASSUME NEW e \in QPs
               PROVE  /\ unread[e] \in Int /\ unread'[e] = unread[e] + Cardinality(S(e))
                      /\ unread'[e] \in Int /\ unread'[e] >= unread[e]
                      /\ S(e) # {} => unread'[e] = unread[e] + 1
    OBVIOUS
  <2> HIDE DEF S
  <2>1. unread[e] \in Int /\ unread'[e] = unread[e] + Cardinality(S(e))
    BY <1>1, <1>2
  <2> QED
    BY <1>6, <2>1
<1>10. unread' \in [QPs -> Int]
  <2> HIDE DEF S
  <2>1. unread' = [e \in QPs |-> unread'[e]]
    BY <1>1
  <2> QED
    BY <1>9, <2>1
<1> HIDE DEF S
<1>11. \A p \in QPs :
         /\ p \in D => rq'[p] = Tail(rq[p]) /\ rcq'[p] = Append(rcq[p], TRUE)
         /\ p \notin D => rq'[p] = rq[p] /\ rcq'[p] = rcq[p]
  BY <1>1
<1>12. \A p \in QPs : Len(rq'[p]) <= MaxWR
  <2> SUFFICES ASSUME NEW p \in QPs PROVE Len(rq'[p]) <= MaxWR
    OBVIOUS
  <2>1. Len(rq[p]) <= MaxWR
    BY DEF QueueInv
  <2>2. CASE p \in D
    <3>1. Len(rq[p]) \in Nat /\ Len(rq'[p]) = Len(rq[p]) - 1
      BY <1>4, <1>11, <2>2
    <3> QED
      BY <2>1, <3>1, Bounds
  <2>3. CASE p \notin D
    BY <1>11, <2>1, <2>3
  <2> QED
    BY <2>2, <2>3
<1>13. ReceiveInv'
  <2> SUFFICES ASSUME NEW x \in Nodes, NEW y \in Peers(x) \cup {Group}
               PROVE  /\ Only(x, y) => unread'[<<x, y>>] >= Filled(rcq'[QP(x, y)])
                      /\ y \notin heard[x] /\ y # Group => unread'[<<x, y>>] >= 0
                      /\ \A i \in 1 .. Len(rq'[QP(x, y)]) :
                           IF transport = "rc" \/ y = Group THEN rq'[QP(x, y)][i] = y
                           ELSE rq'[QP(x, y)][i] \in heard[x] \ {Group}
    BY DEF ReceiveInv, QP, Only
  <2> DEFINE p == QP(x, y)
             e == <<x, y>>
  <2>1. /\ Only(x, y) => unread[e] >= Filled(rcq[p])
        /\ y \notin heard[x] /\ y # Group => unread[e] >= 0
        /\ \A i \in 1 .. Len(rq[p]) :
             IF transport = "rc" \/ y = Group THEN rq[p][i] = y ELSE rq[p][i] \in heard[x] \ {Group}
    BY DEF ReceiveInv
  <2>2. p \in QPs /\ p[1] = x /\ e \in QPs
    BY OwnQueues
  <2> HIDE DEF p
  <2>3. y \notin heard[x] /\ y # Group => unread'[e] >= 0
    <3> HIDE DEF e
    <3> QED
      BY <1>9, <2>1, <2>2
  <2>4. CASE p \in D
    <3>1. Only(x, y) => S(e) # {}
      <4> SUFFICES ASSUME Only(x, y) PROVE p \in S(e)
        OBVIOUS
      <4>1. 1 \in 1 .. Len(rq[p]) /\ Head(rq[p]) = rq[p][1]
        BY <1>4, <2>2, <2>4
      <4>2. rq[p][1] = y
        <5>1. CASE transport = "rc" \/ y = Group
          BY <2>1, <4>1, <5>1
        <5>2. CASE ~ (transport = "rc" \/ y = Group)
          BY <2>1, <4>1, <5>2 DEF Only
        <5> QED
          BY <5>1, <5>2
      <4> QED
        BY <2>2, <2>4, <4>1, <4>2 DEF S
    <3> HIDE DEF e
    <3>2. Filled(rcq'[p]) = Filled(rcq[p]) + 1 /\ Filled(rcq[p]) \in Nat
      BY <1>2, <1>5, <1>11, <2>2, <2>4, FilledType
    <3>3. Only(x, y) => unread'[e] >= Filled(rcq'[p])
      <4>1. Only(x, y) => unread'[e] = unread[e] + 1 /\ unread[e] \in Int
        BY <1>9, <2>2, <3>1
      <4> QED
        BY <2>1, <3>2, <4>1
    <3>4. ASSUME NEW i \in 1 .. Len(rq'[p])
          PROVE  IF transport = "rc" \/ y = Group THEN rq'[p][i] = y ELSE rq'[p][i] \in heard[x] \ {Group}
      <4>0. Len(rq[p]) \in Nat /\ Len(rq'[p]) = Len(rq[p]) - 1
        BY <1>4, <1>11, <2>2, <2>4
      <4>1. i \in 1 .. Len(rq[p]) - 1 /\ i + 1 \in 1 .. Len(rq[p])
        BY <4>0
      <4>2. rq'[p][i] = rq[p][i + 1]
        BY <1>4, <1>11, <2>2, <2>4, <4>1
      <4> QED
        BY <2>1, <4>1, <4>2
    <3> QED
      BY <2>3, <3>3, <3>4 DEF p, e
  <2>5. CASE p \notin D
    <3>1. rq'[p] = rq[p] /\ rcq'[p] = rcq[p]
      BY <1>11, <2>2, <2>5
    <3>2. Filled(rcq[p]) \in Nat
      BY <1>2, <2>2, FilledType
    <3> HIDE DEF e
    <3>3. unread[e] \in Int /\ unread'[e] \in Int /\ unread'[e] >= unread[e]
      BY <1>9, <2>2
    <3>4. Only(x, y) => unread'[e] >= Filled(rcq'[p])
      BY <2>1, <3>1, <3>2, <3>3
    <3> QED
      BY <2>1, <2>3, <3>1, <3>4 DEF p, e
  <2> QED
    BY <2>4, <2>5
<1> QED
  BY <1>7, <1>8, <1>10, <1>12, <1>13

LEMMA ReceiveEmptied ==
  ASSUME ReceiveInv, UNCHANGED <<transport, heard, unread>>,
         \A p \in QPs : Filled(rcq'[p]) = Filled(rcq[p]),
         \A p \in QPs : rq'[p] = rq[p] \/ rq'[p] = << >>
  PROVE  ReceiveInv'
<1>0. \A x \in Nodes : IsFiniteSet(heard[x])
  BY DEF ReceiveInv
<1> SUFFICES ASSUME NEW x \in Nodes, NEW y \in Peers(x) \cup {Group}
             PROVE  /\ Only(x, y) => unread[<<x, y>>] >= Filled(rcq'[QP(x, y)])
                    /\ y \notin heard[x] /\ y # Group => unread[<<x, y>>] >= 0
                    /\ \A i \in 1 .. Len(rq'[QP(x, y)]) :
                         IF transport = "rc" \/ y = Group THEN rq'[QP(x, y)][i] = y
                         ELSE rq'[QP(x, y)][i] \in heard[x] \ {Group}
  BY <1>0 DEF ReceiveInv, QP, Only
<1>1. /\ Only(x, y) => unread[<<x, y>>] >= Filled(rcq[QP(x, y)])
      /\ y \notin heard[x] /\ y # Group => unread[<<x, y>>] >= 0
      /\ \A i \in 1 .. Len(rq[QP(x, y)]) :
           IF transport = "rc" \/ y = Group THEN rq[QP(x, y)][i] = y
           ELSE rq[QP(x, y)][i] \in heard[x] \ {Group}
  BY DEF ReceiveInv
<1>2. QP(x, y) \in QPs
  BY OwnQueues
<1>3. 1 .. Len(<< >>) = {}
  OBVIOUS
<1> QED
  BY <1>1, <1>2, <1>3

\* The receives of a queue pair in error complete with errors.
LEMMA ErrorStep ==
  ASSUME TypeInv, QueueInv, ReceiveInv, NEW q \in QPs, UNCHANGED <<transport, heard, unread>>,
         rcq' = [rcq EXCEPT ![q] = @ \o [i \in DOMAIN rq[q] |-> FALSE]],
         rq' = [rq EXCEPT ![q] = << >>]
  PROVE  /\ rq' \in [QPs -> Seq(Names)] /\ rcq' \in [QPs -> Seq(BOOLEAN)]
         /\ \A p \in QPs : Len(rq'[p]) <= MaxWR
         /\ ReceiveInv'
<1> DEFINE errors == [i \in DOMAIN rq[q] |-> FALSE]
           s == rcq[q]
           t == s \o errors
<1>1. rq \in [QPs -> Seq(Names)] /\ rcq \in [QPs -> Seq(BOOLEAN)] /\ s \in Seq(BOOLEAN)
  BY DEF TypeInv
<1>2. rq[q] \in Seq(Names) /\ Len(rq[q]) \in Nat /\ DOMAIN rq[q] = 1 .. Len(rq[q])
  BY <1>1
<1>3. errors \in Seq(BOOLEAN) /\ Len(errors) = Len(rq[q]) /\ \A i \in 1 .. Len(rq[q]) : ~ errors[i]
  <2> DEFINE k == Len(rq[q])
  <2>1. errors = [i \in 1 .. k |-> FALSE] /\ k \in Nat
    BY <1>2
  <2> HIDE DEF errors, k
  <2>2. errors \in [1 .. k -> BOOLEAN]
    BY <2>1
  <2>3. errors \in Seq(BOOLEAN) /\ Len(errors) = k
    BY <2>1, <2>2
  <2>4. \A i \in 1 .. k : ~ errors[i]
    BY <2>1
  <2> QED
    BY <2>3, <2>4 DEF k
<1>4. rcq' = [rcq EXCEPT ![q] = t]
  OBVIOUS
<1> HIDE DEF errors, s
<1>5. /\ t \in Seq(BOOLEAN) /\ Len(t) = Len(s) + Len(errors) /\ Len(s) \in Nat /\ Len(errors) \in Nat
      /\ \A i \in 1 .. Len(s) + Len(errors) : t[i] = IF i <= Len(s) THEN s[i] ELSE errors[i - Len(s)]
  <2>1. Len(s) \in Nat /\ Len(errors) \in Nat
    BY <1>1, <1>3
  <2>2. /\ t \in Seq(BOOLEAN) /\ Len(t) = Len(s) + Len(errors)
        /\ \A i \in 1 .. Len(s) + Len(errors) : t[i] = IF i <= Len(s) THEN s[i] ELSE errors[i - Len(s)]
    BY <1>1, <1>3, ConcatProperties
  <2> QED
    BY <2>1, <2>2
<1> HIDE DEF t
<1>6. Filled(t) = Filled(s)
  <2>1. Len(t) \in Nat /\ Len(s) <= Len(t)
    BY <1>5
  <2>2. \A i \in 1 .. Len(s) : t[i] = s[i]
    BY <1>5
  <2>3. \A i \in 1 .. Len(t) : i > Len(s) => ~ t[i]
    <3> SUFFICES ASSUME NEW i \in 1 .. Len(t), i > Len(s) PROVE ~ t[i]
      OBVIOUS
    <3>1. i - Len(s) \in 1 .. Len(rq[q]) /\ t[i] = errors[i - Len(s)]
      BY <1>3, <1>5
    <3> QED
      BY <1>3, <3>1
  <2> QED
    BY <1>1, <2>1, <2>2, <2>3, FilledSame
<1>7. /\ rcq' \in [QPs -> Seq(BOOLEAN)] /\ rcq'[q] = t /\ \A p \in QPs : p # q => rcq'[p] = rcq[p]
  BY <1>1, <1>4, <1>5
<1>8. rq' \in [QPs -> Seq(Names)] /\ rq'[q] = << >> /\ \A p \in QPs : p # q => rq'[p] = rq[p]
  BY <1>1
<1>9. \A p \in QPs : Filled(rcq'[p]) = Filled(rcq[p])
  BY <1>6, <1>7 DEF s
<1>10. \A p \in QPs : Len(rq'[p]) <= MaxWR
  <2>1. Len(<< >>) <= MaxWR
    BY Bounds
  <2> QED
    BY <1>8, <2>1 DEF QueueInv
<1>11. ReceiveInv'
  BY <1>8, <1>9, ReceiveEmptied
<1> QED
  BY <1>7, <1>8, <1>10, <1>11

-----------------------------------------------------------------------------
(***************************************************************************)
(* The invariant holds.                                                    *)
(***************************************************************************)
LEMMA InitInv ==
  ASSUME Init
  PROVE  IInv
<1>1. Returned(TRUE) \in Results /\ Returned(TRUE).st # "waits" /\ ~ Returned(TRUE).clean
  BY ReturnedType
<1>2. << >> \in Seq(Requests) /\ << >> \in Seq(Names) /\ << >> \in Seq(BOOLEAN) /\ Len(<< >>) = 0
  OBVIOUS
<1>3. /\ \A q \in QPs : sq[q] = << >> /\ rq[q] = << >> /\ rcq[q] = << >> /\ unread[q] = 0
      /\ \A n \in Nodes : /\ call[n] = Returned(TRUE) /\ m_countWR[n] = 0 /\ mcast[n] = "out"
                          /\ used[n] = {} /\ heard[n] = {}
      /\ bad = {} /\ miscounted = {}
  BY DEF Init
<1>4. TypeInv
  <2>1. sq \in [QPs -> Seq(Requests)] /\ rq \in [QPs -> Seq(Names)] /\ rcq \in [QPs -> Seq(BOOLEAN)]
    BY <1>2 DEF Init
  <2>2. call \in [Nodes -> Results]
    BY <1>1 DEF Init
  <2>3. m_countWR \in [Nodes -> 0 .. MaxWR - 1] /\ unread \in [QPs -> Int]
    BY Bounds DEF Init
  <2>4. /\ transport \in {"rc", "ud"} /\ bad = {} /\ crashed = {} /\ miscounted = {}
        /\ mcast \in [Nodes -> {"out", "in", "left"}]
        /\ used \in [Nodes -> SUBSET Names] /\ heard \in [Nodes -> SUBSET Names]
    BY DEF Init
  <2> QED
    BY <2>1, <2>2, <2>3, <2>4 DEF TypeInv
<1>5. QueueInv
  BY <1>2, <1>3, Bounds DEF QueueInv, InOrder
<1>6. WaitInv
  BY <1>1, <1>3 DEF WaitInv, Waits
<1>7. CountInv
  <2>1. IsFiniteSet({}) /\ \A k : CountedBy(<< >>, k)
    BY FS_EmptySet DEF CountedBy
  <2>2. \A n \in Nodes : \A m \in Peers(n) : sq[QP(n, m)] = << >>
    BY <1>3, OwnQueues
  <2>3. ASSUME NEW n \in Nodes, NEW m \in Peers(n)
        PROVE  ~ (Len(sq[QP(n, m)]) > 0) /\ CountedBy(sq[QP(n, m)], m_countWR[n])
    BY <1>2, <2>1, <2>2
  <2>4. \A n \in Nodes : IsFiniteSet(used[n]) /\ mcast[n] = "out"
    BY <1>3, <2>1
  <2> QED
    BY <2>3, <2>4 DEF CountInv
<1>8. ReceiveInv
  <2>1. IsFiniteSet({}) /\ 1 .. 0 = {}
    BY FS_EmptySet
  <2>2. \A n \in Nodes : \A m \in Peers(n) \cup {Group} :
          rq[QP(n, m)] = << >> /\ rcq[QP(n, m)] = << >> /\ unread[<<n, m>>] = 0
    BY <1>3, OwnQueues
  <2>3. ASSUME NEW n \in Nodes, NEW m \in Peers(n) \cup {Group}
        PROVE  /\ unread[<<n, m>>] >= Filled(rcq[QP(n, m)]) /\ unread[<<n, m>>] >= 0
               /\ 1 .. Len(rq[QP(n, m)]) = {}
    BY <1>2, <2>1, <2>2, FilledNone
  <2> QED
    BY <1>3, <2>1, <2>3 DEF ReceiveInv
<1> QED
  BY <1>4, <1>5, <1>6, <1>7, <1>8 DEF IInv

\* What the application on n calls.
LEMMA RequestInv ==
  ASSUME IInv, NEW n \in Nodes, Request(n)
  PROVE  IInv'
<1>0. TypeInv /\ m_countWR[n] \in 0 .. MaxWR - 1 /\ m_countWR = [m_countWR EXCEPT ![n] = m_countWR[n]]
  BY DEF IInv, TypeInv
<1>1. ASSUME NEW m \in Peers(n), NEW signaled \in BOOLEAN, Access(n, m, signaled) \/ Send(n, m, signaled)
      PROVE  IInv'
  <2> DEFINE s == CheckSignaled(n, signaled)
  <2>1. s.signaled \in BOOLEAN /\ s.count \in 0 .. MaxWR - 1 /\ (s.signaled \/ s.count = m_countWR[n] + 1)
    BY <1>0, Checked
  <2>2. PICK op \in {"access", "send"} : PostSend(n, op, m, s.signaled, TRUE)
    BY <1>1 DEF Access, Send, RemoteAccess, RemoteFetchAndAdd, RemoteCompareAndSwap, SendRC, SendUD
  <2>3. ~ Waits(n) /\ m_countWR' = [m_countWR EXCEPT ![n] = s.count]
    BY <1>1 DEF Access, Send, Calls
  <2> HIDE DEF s
  <2> QED
    BY <2>1, <2>2, <2>3, PostStep
<1>2. ASSUME NEW m \in Peers(n), RequestRead(n, m) PROVE IInv'
  <2>1. ~ Waits(n) /\ PostSend(n, "access", m, TRUE, FALSE) /\ m_countWR' = m_countWR
    BY <1>2 DEF RequestRead, Calls, RemoteAccess
  <2> QED
    BY <1>0, <2>1, PostStep
<1>3. ASSUME NEW m \in Peers(n), Receive(n, m) PROVE IInv'
  BY <1>3, ReceiveStep DEF Receive
<1>4. ASSUME NEW m \in Peers(n), PollSend(n, m) PROVE IInv'
  <2>1. QP(n, m) \in QPs /\ QP(n, m)[1] = n
    BY OwnQueues
  <2>2. /\ ~ Waits(n) /\ TakeCompletion(QP(n, m)) /\ UNCHANGED call
        /\ UNCHANGED <<transport, m_countWR, mcast, crashed, history>>
    BY <1>4 DEF PollSend
  <2> QED
    BY <2>1, <2>2, TakeStep
<1>5. ASSUME NEW m \in Peers(n), PollReceive(n, m) PROVE IInv'
  BY <1>5, PollStep
<1>6. ASSUME NEW signaled \in BOOLEAN, AccessUD(n, signaled) PROVE IInv'
  <2>1. CheckSignaled(n, signaled).count \in 0 .. MaxWR - 1
    BY <1>0, Checked
  <2>2. /\ Unsupported(n, "access") /\ miscounted' = miscounted \cup {n}
        /\ m_countWR' = [m_countWR EXCEPT ![n] = CheckSignaled(n, signaled).count]
    BY <1>6 DEF AccessUD
  <2> QED
    BY <2>1, <2>2, UnsupportedStep
<1>7. ASSUME NEW signaled \in BOOLEAN, SendMCast(n, signaled) PROVE IInv'
  <2>1. ~ Waits(n) /\ PostSend(n, "mcast", Group, signaled, TRUE) /\ m_countWR' = m_countWR
    BY <1>7 DEF SendMCast, Calls
  <2>2. transport = "ud"
    <3>1. mcast[n] = "in"
      BY <1>7 DEF SendMCast
    <3> QED
      BY <3>1 DEF IInv, TypeInv, CountInv
  <2> QED
    BY <1>0, <2>1, <2>2, PostStep
<1>8. CASE JoinMCastGroup(n) \/ LeaveMCastGroup(n)
  <2>1. /\ ~ Waits(n) /\ transport = "ud"
        /\ UNCHANGED <<transport, bad, call, m_countWR, crashed, history>>
    BY <1>8 DEF JoinMCastGroup, LeaveMCastGroup, Calls
  <2>2. \E to \in {"in", "left"} : \/ mcast' = [mcast EXCEPT ![n] = to] /\ NoGroupQueue(n)
                                  \/ UNCHANGED <<mcast, sq, rq, rcq>>
    BY <1>8 DEF JoinMCastGroup, LeaveMCastGroup
  <2> QED
    BY <2>1, <2>2, GroupStep
<1>9. CASE ReceiveMCast(n)
  BY <1>9, ReceiveStep DEF ReceiveMCast
<1>10. CASE PollReceiveMCast(n)
  BY <1>10, PollStep DEF PollReceiveMCast
<1>11. CASE MCastRC(n)
  <2>1. Unsupported(n, "mcast") /\ m_countWR' = m_countWR /\ miscounted' = miscounted
    BY <1>11 DEF MCastRC
  <2> QED
    BY <1>0, <2>1, UnsupportedStep
<1>12. CASE UseDangling(n)
  <2>1. /\ UNCHANGED <<transport, sq, rq, rcq, bad, call, m_countWR, mcast, used, heard, miscounted, unread>>
        /\ crashed' = crashed \cup {n}
    BY <1>12 DEF UseDangling, queue, history
  <2>2. TypeInv'
    BY <1>0, <2>1 DEF TypeInv
  <2> QED
    BY <2>1, <2>2, QueueFrame, WaitFrame, CountFrame, ReceiveFrame DEF IInv
<1> QED
  BY <1>1, <1>2, <1>3, <1>4, <1>5, <1>6, <1>7, <1>8, <1>9, <1>10, <1>11, <1>12 DEF Request

LEMMA WaitedInv ==
  ASSUME IInv, NEW n \in Nodes, WaitedCall(n)
  PROVE  IInv'
<1> DEFINE q == call[n].q
<1>1. q \in QPs /\ q[1] = n
  BY DEF IInv, WaitInv, WaitedCall
<1>2. Result(q) \in BOOLEAN
  BY Zenon DEF Result
<1>3. /\ TakeCompletion(q) /\ call' = [call EXCEPT ![n] = Returned(Result(q))]
      /\ UNCHANGED <<transport, m_countWR, mcast, crashed, history>>
  BY DEF WaitedCall
<1> HIDE DEF q
<1> QED
  BY <1>1, <1>2, <1>3, TakeStep

LEMMA CardInv ==
  ASSUME IInv, NEW q \in QPs, Card(q)
  PROVE  IInv'
<1>1. TypeInv /\ QueueInv /\ WaitInv /\ CountInv /\ ReceiveInv
  BY DEF IInv
<1>2. /\ Pending(q) # {}
      /\ UNCHANGED <<transport, call, m_countWR, mcast, crashed, used, heard, miscounted>>
  BY DEF Card, Execute, FailRequest, Flush, Complete
<1>3. ASSUME sq' \in [QPs -> Seq(Requests)], rq' \in [QPs -> Seq(Names)],
             rcq' \in [QPs -> Seq(BOOLEAN)], unread' \in [QPs -> Int], bad' \subseteq QPs
      PROVE  TypeInv'
  BY <1>1, <1>2, <1>3 DEF TypeInv
<1>4. CASE Execute(q)
  <2>1. PICK D \in SUBSET Open(q) : Deliver(D)
    BY <1>4 DEF Execute
  <2>2. Complete(q, "ok") /\ q \notin bad /\ bad' = bad
    BY <1>4 DEF Execute
  <2>3. /\ rq' \in [QPs -> Seq(Names)] /\ rcq' \in [QPs -> Seq(BOOLEAN)] /\ unread' \in [QPs -> Int]
        /\ \A p \in QPs : Len(rq'[p]) <= MaxWR
        /\ ReceiveInv'
    BY <1>1, <1>2, <2>1, DeliverStep
  <2>4. sq' \in [QPs -> Seq(Requests)] /\ QueueInv' /\ WaitInv' /\ CountInv'
    BY <1>2, <2>2, <2>3, CompleteStep
  <2>5. bad' \subseteq QPs
    BY <1>1, <2>2 DEF TypeInv
  <2>6. TypeInv'
    BY <1>3, <2>3, <2>4, <2>5
  <2> QED
    BY <2>3, <2>4, <2>6 DEF IInv
<1>5. CASE FailRequest(q)
  <2>1. Complete(q, "failed") /\ bad' = bad \cup {q} /\ UNCHANGED unread
    BY <1>5 DEF FailRequest
  <2>2. /\ rcq' = [rcq EXCEPT ![q] = @ \o [i \in DOMAIN rq[q] |-> FALSE]]
        /\ rq' = [rq EXCEPT ![q] = << >>]
    BY <1>5 DEF FailRequest
  <2>3. /\ rq' \in [QPs -> Seq(Names)] /\ rcq' \in [QPs -> Seq(BOOLEAN)]
        /\ \A p \in QPs : Len(rq'[p]) <= MaxWR
        /\ ReceiveInv'
    BY <1>1, <1>2, <2>1, <2>2, ErrorStep
  <2>4. sq' \in [QPs -> Seq(Requests)] /\ QueueInv' /\ WaitInv' /\ CountInv'
    BY <1>2, <2>1, <2>3, CompleteStep
  <2>5. bad' \subseteq QPs /\ unread' \in [QPs -> Int]
    BY <1>1, <2>1 DEF TypeInv
  <2>6. TypeInv'
    BY <1>3, <2>3, <2>4, <2>5
  <2> QED
    BY <2>3, <2>4, <2>6 DEF IInv
<1>6. CASE Flush(q)
  <2>1. Complete(q, "failed") /\ bad' = bad /\ UNCHANGED <<rq, rcq, unread>>
    BY <1>6 DEF Flush
  <2>2. \A p \in QPs : Len(rq'[p]) <= MaxWR
    BY <1>1, <2>1 DEF QueueInv
  <2>3. sq' \in [QPs -> Seq(Requests)] /\ QueueInv' /\ WaitInv' /\ CountInv'
    BY <1>2, <2>1, <2>2, CompleteStep
  <2>4. /\ bad' \subseteq QPs /\ unread' \in [QPs -> Int] /\ rq' \in [QPs -> Seq(Names)]
        /\ rcq' \in [QPs -> Seq(BOOLEAN)]
    BY <1>1, <2>1 DEF TypeInv
  <2>5. TypeInv'
    BY <1>3, <2>3, <2>4
  <2>6. ReceiveInv'
    BY <1>1, <1>2, <2>1, ReceiveFrame
  <2> QED
    BY <2>3, <2>5, <2>6 DEF IInv
<1> QED
  BY <1>4, <1>5, <1>6 DEF Card

LEMMA NextInv ==
  ASSUME IInv, [Next]_vars
  PROVE  IInv'
<1>1. CASE Next
  BY <1>1, RequestInv, WaitedInv, CardInv DEF Next
<1>2. CASE UNCHANGED vars
  <2>1. UNCHANGED <<transport, sq, rq, rcq, bad, call, m_countWR, mcast, crashed, used, heard, miscounted, unread>>
    BY <1>2 DEF vars, queue, history
  <2>2. TypeInv'
    BY <2>1 DEF IInv, TypeInv
  <2> QED
    BY <2>1, <2>2, QueueFrame, WaitFrame, CountFrame, ReceiveFrame DEF IInv
<1> QED
  BY <1>1, <1>2

-----------------------------------------------------------------------------
(***************************************************************************)
(* The inductive invariant: queues in order, waits for one's own request,  *)
(* requests counted since the last signaled one, and a filled buffer for   *)
(* every completion of success still to be polled.                         *)
(***************************************************************************)
THEOREM Invariance == Spec => []IInv
<1>1. Init => IInv
  BY InitInv
<1>2. IInv /\ [Next]_vars => IInv'
  BY NextInv
<1> QED
  BY <1>1, <1>2, PTL DEF Spec

\* The queues are within their capacity, requests are executed in order, and a node waits
\* for a request of its own: for every MaxWR, and any number of nodes.
THEOREM TypeCorrect == Spec => []TypeOK
<1>1. IInv => TypeOK
  <2> SUFFICES ASSUME IInv PROVE TypeOK
    OBVIOUS
  <2>1. TypeInv /\ QueueInv /\ WaitInv
    BY DEF IInv
  <2>2. \A q \in QPs : DOMAIN sq[q] = 1 .. Len(sq[q])
    BY <2>1 DEF TypeInv
  <2>3. \A q \in QPs :
          /\ Len(sq[q]) <= MaxWR /\ Len(rq[q]) <= MaxWR
          /\ \A i, j \in DOMAIN sq[q] : i < j /\ sq[q][i].st = "posted" => sq[q][j].st = "posted"
    BY <2>1, <2>2 DEF QueueInv, InOrder
  <2>4. \A n \in Nodes : Waits(n) => sq[call[n].q] # << >>
    BY <2>1 DEF WaitInv
  <2>5. /\ transport \in {"rc", "ud"} /\ bad \subseteq QPs /\ crashed \subseteq Nodes
        /\ \A n \in Nodes : m_countWR[n] \in 0 .. MaxWR - 1 /\ mcast[n] \in {"out", "in", "left"}
    BY <2>1 DEF TypeInv
  <2> QED
    BY <2>3, <2>4, <2>5 DEF TypeOK
<1> QED
  BY <1>1, Invariance, PTL

\* checkSignaled keeps the send queue of a node that talks to one peer, or uses UD, from
\* filling up.
THEOREM QueueNeverFull == Spec => []NeverFullAlone
<1>1. IInv => NeverFullAlone
  <2> SUFFICES ASSUME IInv, NEW n \in Nodes, NEW m \in Peers(n), Len(sq[QP(n, m)]) = MaxWR,
                      n \notin miscounted, \A i \in DOMAIN sq[QP(n, m)] : ~ sq[QP(n, m)][i].signaled,
                      transport = "rc" => ~ (Cardinality(used[n]) > 1)
               PROVE  FALSE
    BY DEF NeverFullAlone
  <2> DEFINE s == sq[QP(n, m)]
  <2>1. TypeInv /\ CountInv
    BY DEF IInv
  <2>2. s \in Seq(Requests) /\ DOMAIN s = 1 .. Len(s) /\ Len(s) = MaxWR /\ 1 \in 1 .. Len(s)
    <3>1. QP(n, m) \in QPs
      BY OwnQueues
    <3>2. s \in Seq(Requests)
      BY <2>1, <3>1 DEF TypeInv
    <3> QED
      BY <3>2, Bounds
  <2>3. transport = "rc" => used[n] \subseteq {m}
    <3> SUFFICES ASSUME transport = "rc" PROVE used[n] \ {m} = {}
      OBVIOUS
    <3>1. IsFiniteSet(used[n]) /\ m \in used[n]
      <4>1. Len(s) > 0
        BY <2>2
      <4> QED
        BY <2>1, <4>1 DEF CountInv
    <3>2. /\ IsFiniteSet(used[n] \ {m}) /\ Cardinality(used[n] \ {m}) = Cardinality(used[n]) - 1
          /\ Cardinality(used[n]) \in Nat /\ Cardinality(used[n] \ {m}) \in Nat
      BY <3>1, FS_RemoveElement, FS_CardinalityType
    <3>3. Cardinality(used[n] \ {m}) = 0
      BY <3>2
    <3> QED
      BY <3>2, <3>3, FS_EmptySet
  <2>4. CountedBy(s, m_countWR[n])
    BY <2>1, <2>3 DEF CountInv, Alone
  <2>5. SilentFrom(s, 1)
    BY <2>2 DEF SilentFrom
  <2>6. Len(s) - 1 + 1 <= m_countWR[n] /\ m_countWR[n] \in 0 .. MaxWR - 1
    BY <2>1, <2>2, <2>4, <2>5 DEF CountedBy, TypeInv
  <2> HIDE DEF s
  <2> QED
    BY <2>2, <2>6, Bounds
<1> QED
  BY <1>1, Invariance, PTL

\* pollReceive returns true for a peer only if a buffer posted for it has been filled.
THEOREM Filling == Spec => []PolledIsFilled
<1>1. IInv => PolledIsFilled
  <2> SUFFICES ASSUME IInv, NEW n \in Nodes, NEW m \in Peers(n) \cup {Group},
                      transport = "rc" \/ m = Group \/ Cardinality(heard[n] \ {Group}) <= 1
               PROVE  unread[<<n, m>>] >= 0
    BY DEF PolledIsFilled
  <2>1. TypeInv
    BY DEF IInv
  <2>2. /\ IsFiniteSet(heard[n])
        /\ Only(n, m) => unread[<<n, m>>] >= Filled(rcq[QP(n, m)])
        /\ m \notin heard[n] /\ m # Group => unread[<<n, m>>] >= 0
    BY DEF IInv, ReceiveInv
  <2>3. Filled(rcq[QP(n, m)]) \in Nat /\ unread[<<n, m>>] \in Int
    BY <2>1, OwnQueues, FilledType DEF TypeInv
  <2>4. CASE Only(n, m)
    BY <2>2, <2>3, <2>4
  <2>5. CASE ~ Only(n, m) /\ m \in heard[n]
    <3> DEFINE H == heard[n] \ {Group}
    <3>1. IsFiniteSet(H) /\ m \in H /\ Cardinality(H) <= 1
      BY <2>2, <2>5, FS_Subset DEF Only
    <3> HIDE DEF H
    <3>2. /\ IsFiniteSet(H \ {m}) /\ Cardinality(H \ {m}) = Cardinality(H) - 1
          /\ Cardinality(H) \in Nat /\ Cardinality(H \ {m}) \in Nat
      BY <3>1, FS_RemoveElement, FS_CardinalityType
    <3>3. Cardinality(H \ {m}) = 0
      BY <3>1, <3>2
    <3>4. H \subseteq {m}
      BY <3>2, <3>3, FS_EmptySet
    <3> QED
      BY <2>5, <3>4 DEF H, Only
  <2>6. CASE ~ Only(n, m) /\ m \notin heard[n]
    BY <2>2, <2>6 DEF Only
  <2> QED
    BY <2>4, <2>5, <2>6
<1> QED
  BY <1>1, Invariance, PTL

\* A signaled call that returns true tells that all requests before it were executed with
\* success.
THEOREM TrueTellsAll == Spec => TrueMeansAllBefore
<1> DEFINE A == \A n \in Nodes :
                  LET q == call[n].q IN
                  call[n].clean /\ call'[n].st = "true" => Pending(q) = {} /\ q \notin bad
<1>1. IInv /\ [Next]_vars => [A]_vars
  <2> SUFFICES ASSUME IInv, Next, NEW n \in Nodes, call[n].clean, call'[n].st = "true"
               PROVE  Pending(call[n].q) = {} /\ call[n].q \notin bad
    OBVIOUS
  <2> DEFINE q == call[n].q
             s == sq[q]
  <2>1. TypeInv /\ QueueInv /\ WaitInv
    BY DEF IInv
  <2>2. /\ Waits(n) /\ call[n].st = "waits" /\ q \in QPs /\ SilentButLast(s)
    BY <2>1 DEF WaitInv, Waits
  <2>3. WaitedCall(n)
    <3>1. \A x \in Nodes : Request(x) /\ x # n => call'[n] = call[n]
      <4> SUFFICES ASSUME NEW x \in Nodes, Request(x), x # n PROVE call'[n] = call[n]
        OBVIOUS
      <4>0. call \in [Nodes -> Results]
        BY <2>1 DEF TypeInv
      <4>1. call' = call \/ \E r : call' = [call EXCEPT ![x] = r]
        BY DEF Request, Access, Send, RemoteAccess, RemoteFetchAndAdd, RemoteCompareAndSwap, SendRC,
               SendUD, PostSend, RequestRead, Receive, PostReceive, PollSend, PollReceive, AccessUD,
               Unsupported, SendMCast, JoinMCastGroup, LeaveMCastGroup, ReceiveMCast,
               PollReceiveMCast, MCastRC, UseDangling
      <4> QED
        BY <4>0, <4>1
    <3>2. ~ Request(n) \/ call' = call
      BY <2>2 DEF Request, Access, Send, Calls, RequestRead, Receive, PostReceive, PollSend,
         PollReceive, AccessUD, Unsupported, SendMCast, JoinMCastGroup, LeaveMCastGroup,
         ReceiveMCast, PollReceiveMCast, MCastRC, UseDangling
    <3>3. \A x \in Nodes : WaitedCall(x) /\ x # n => call'[n] = call[n]
      BY <2>1 DEF WaitedCall, TypeInv
    <3>4. \A p \in QPs : Card(p) => call' = call
      BY DEF Card, Execute, FailRequest, Flush, Complete
    <3> QED
      BY <2>2, <3>1, <3>2, <3>3, <3>4 DEF Next
  <2>4. /\ Completed(q) # {} /\ call'[n] = Returned(Result(q))
    BY <2>1, <2>3 DEF WaitedCall, TakeCompletion, TypeInv
  <2>5. s[First(q)].st = "ok"
    BY <2>4 DEF Returned, Result
  <2>6. First(q) \in Completed(q) /\ First(q) \in 1 .. Len(s)
    BY <2>1, <2>2, <2>4, FirstCompleted
  <2>7. s[First(q)].signaled
    BY <2>5, <2>6 DEF Completed
  <2>8. Len(s) \in Nat /\ DOMAIN s = 1 .. Len(s) /\ InOrder(s) /\ (q \in bad => LastNotOk(s))
    BY <2>1, <2>2 DEF TypeInv, QueueInv
  <2> HIDE DEF s, q
  <2>9. First(q) = Len(s)
    BY <2>2, <2>6, <2>7, <2>8 DEF SilentButLast
  <2>10. q \notin bad
    BY <2>5, <2>6, <2>8, <2>9 DEF LastNotOk
  <2>11. Pending(q) = {}
    <3>1. \A i \in 1 .. Len(s) : s[i].st # "posted"
      BY <2>5, <2>6, <2>8, <2>9 DEF InOrder
    <3> QED
      BY <2>8, <3>1 DEF Pending, s
  <2> QED
    BY <2>10, <2>11 DEF q
<1> QED
  BY <1>1, Invariance, PTL DEF Spec, TrueMeansAllBefore

================================================================================
