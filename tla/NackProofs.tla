----------------------------- MODULE NackProofs -----------------------------
(***************************************************************************)
(* Proofs about the queue of missing packets (NackQueue) as calc keeps it  *)
(* (BufferCalc): its entries keep their types and their order              *)
(* (CalcTypeOK), an entry stands for a missing packet (NackOnlyMissing),   *)
(* no missing packet is forgotten (NeverForgotten), and each is asked for  *)
(* in the rounds it is due in, at most MaxNackTimes times (NackRounds).    *)
(*                                                                         *)
(* The loops of nack.go are recursive functions over the places of the     *)
(* queue.  What they compute is proved with the least-number principle     *)
(* (Least): a place where the claim fails has a first one, and the turn    *)
(* of the loop before it shows that it does not.                           *)
(***************************************************************************)
EXTENDS BufferCalcProofs, SequenceTheorems, NaturalsInduction, WellFoundedInduction

-----------------------------------------------------------------------------
(* Induction                                                               *)

\* A set of natural numbers that is not empty has a least element.
LEMMA Least ==
    ASSUME NEW T \in SUBSET Nat, T # {}
    PROVE  \E n \in T : \A m \in T : n <= m
<1>1. IsWellFoundedOn(OpToRel(<, Nat), Nat)
  BY NatLessThanWellFounded, Zenon
<1>2. PICK x \in T : \A y \in T : ~(<<y, x>> \in OpToRel(<, Nat))
  BY <1>1, WFMin, Zenon
<1>3. \A y \in T : <<y, x>> \in OpToRel(<, Nat) <=> y < x
  BY DEF OpToRel
<1>4. \A y \in T : ~(y < x)
  BY <1>2, <1>3, Zenon
<1> QED
  BY <1>4

-----------------------------------------------------------------------------
(* Places in the queue                                                     *)

Entry == [sn : 0 .. U32 - 1, nacked : 0 .. MaxNackTimes]
Sorted(q) == \A i, j \in DOMAIN q : i < j => q[i].sn <= q[j].sn
Strict(q) == \A i, j \in DOMAIN q : i < j => q[i].sn < q[j].sn

\* A queue of missing packets, also one that has hit its limit
IsQueue(q) == q \in Seq(Entry) /\ Sorted(q)

\* What a queue is made of.
LEMMA QueueParts ==
    ASSUME NEW q, q \in Seq(Entry)
    PROVE  /\ Len(q) \in Nat /\ DOMAIN q = 1 .. Len(q)
           /\ \A k \in 1 .. Len(q) : /\ q[k] \in Entry /\ q[k].sn \in Int /\ q[k].nacked \in Nat
                                     /\ q[k].sn >= 0 /\ q[k].sn < U32
                                     /\ q[k].nacked <= MaxNackTimes
<1>1. MaxNackTimes \in Nat /\ U32 \in Nat
  BY Constants, NackAssumption
<1>2. Len(q) \in Nat /\ DOMAIN q = 1 .. Len(q)
  BY LenProperties
<1>3. ASSUME NEW k \in 1 .. Len(q) PROVE q[k] \in Entry
  BY ElementOfSeq
<1> QED
  BY <1>1, <1>2, <1>3 DEF Entry

\* sort.Search finds the first entry that is not below e.
LEMMA SearchIs ==
    ASSUME NEW q, IsQueue(q), NEW e \in Int
    PROVE  /\ Search(q, e) \in 1 .. Len(q) + 1
           /\ \A k \in 1 .. Len(q) : k < Search(q, e) <=> q[k].sn < e
<1> DEFINE n == Len(q)
           T == {k \in Nat : k \in 1 .. n + 1 /\ (k = n + 1 \/ ~(q[k].sn < e))}
<1>1. n \in Nat /\ DOMAIN q = 1 .. n /\ \A k \in 1 .. n : q[k].sn \in Int
  BY QueueParts DEF IsQueue
<1>2. \A i, j \in 1 .. n : i < j => q[i].sn <= q[j].sn
  BY <1>1 DEF IsQueue, Sorted
<1> HIDE DEF n
<1>3. PICK p \in T : \A k \in T : p <= k
  <2>1. n + 1 \in T
    BY <1>1
  <2> QED
    BY <2>1, Least
<1>4. p \in 1 .. n + 1 /\ \A k \in 1 .. n : k < p <=> q[k].sn < e
  <2>1. p \in 1 .. n + 1 /\ (p = n + 1 \/ ~(q[p].sn < e))
    BY <1>3
  <2>2. ASSUME NEW k \in 1 .. n, k < p PROVE q[k].sn < e
    BY <1>1, <1>3, <2>1, <2>2
  <2>3. ASSUME NEW k \in 1 .. n, ~(k < p) PROVE ~(q[k].sn < e)
    <3>1. p \in 1 .. n /\ (p = k \/ p < k) /\ ~(q[p].sn < e)
      BY <1>1, <2>1, <2>3
    <3>2. q[p].sn <= q[k].sn
      BY <1>1, <1>2, <3>1
    <3> QED
      BY <1>1, <3>1, <3>2
  <2> QED
    BY <2>1, <2>2, <2>3
<1>5. {k \in DOMAIN q : q[k].sn < e} = 1 .. p - 1
  BY <1>1, <1>4
<1>6. Cardinality(1 .. p - 1) = p - 1
  <2>1. p - 1 \in Int /\ 1 \in Int
    BY <1>4
  <2>2. Cardinality(1 .. p - 1) = IF 1 > p - 1 THEN 0 ELSE (p - 1) - 1 + 1
    BY <2>1, FS_Interval
  <2> QED
    BY <1>4, <2>2
<1>7. Search(q, e) = Cardinality(1 .. p - 1) + 1
  BY <1>5, Zenon DEF Search
<1>8. Search(q, e) = p
  BY <1>4, <1>6, <1>7
<1> QED
  BY <1>4, <1>8 DEF n

\* The queue holds e when an entry has it.
LEMMA HoldsIs ==
    ASSUME NEW q, IsQueue(q), NEW e \in Int
    PROVE  /\ Holds(q, e) <=> \E k \in DOMAIN q : q[k].sn = e
           /\ Holds(q, e) => Search(q, e) \in 1 .. Len(q) /\ q[Search(q, e)].sn = e
<1>1. Len(q) \in Nat /\ DOMAIN q = 1 .. Len(q) /\ \A k \in 1 .. Len(q) : q[k].sn \in Int
  BY QueueParts DEF IsQueue
<1>2. /\ Search(q, e) \in 1 .. Len(q) + 1
      /\ \A k \in 1 .. Len(q) : k < Search(q, e) <=> q[k].sn < e
  BY SearchIs
<1>3. ASSUME NEW k \in 1 .. Len(q), q[k].sn = e PROVE Holds(q, e)
  <2>1. Search(q, e) <= k /\ Search(q, e) \in 1 .. Len(q)
    BY <1>1, <1>2, <1>3
  <2>2. q[Search(q, e)].sn <= q[k].sn
    <3>1. CASE Search(q, e) = k
      BY <1>1, <3>1
    <3>2. CASE Search(q, e) < k
      BY <1>1, <2>1, <3>2 DEF IsQueue, Sorted
    <3> QED
      BY <1>1, <2>1, <3>1, <3>2
  <2>3. ~(q[Search(q, e)].sn < e)
    BY <1>1, <1>2, <2>1
  <2> QED
    BY <1>1, <1>3, <2>1, <2>2, <2>3 DEF Holds
<1> QED
  BY <1>1, <1>2, <1>3 DEF Holds

\* RemoveAt, place by place.
LEMMA RemoveAtIs ==
    ASSUME NEW S, NEW q \in Seq(S), NEW p \in 1 .. Len(q), NEW r, r = RemoveAt(q, p)
    PROVE  /\ r \in Seq(S) /\ Len(r) = Len(q) - 1
           /\ \A k \in 1 .. Len(q) - 1 : r[k] = q[IF k < p THEN k ELSE k + 1]
<1> DEFINE a == SubSeq(q, 1, p - 1)
           b == SubSeq(q, p + 1, Len(q))
<1>1. Len(q) \in Nat /\ \A k \in 1 .. Len(q) : q[k] \in S
  BY LenProperties, ElementOfSeq
<1>2. /\ a \in Seq(S) /\ Len(a) = p - 1 /\ \A k \in 1 .. p - 1 : a[k] = q[k]
  <2>1. 1 \in Int /\ p - 1 \in Int /\ \A k \in 1 .. p - 1 : q[k] \in S
    BY <1>1
  <2>2. /\ a \in Seq(S) /\ Len(a) = IF 1 <= p - 1 THEN (p - 1) - 1 + 1 ELSE 0
        /\ \A k \in 1 .. (p - 1) - 1 + 1 : a[k] = q[1 + k - 1]
    BY <2>1, SubSeqProperties
  <2> HIDE DEF a
  <2> QED
    BY <1>1, <2>2
<1>3. /\ b \in Seq(S) /\ Len(b) = Len(q) - p /\ \A k \in 1 .. Len(q) - p : b[k] = q[p + k]
  <2>1. p + 1 \in Int /\ Len(q) \in Int /\ \A k \in p + 1 .. Len(q) : q[k] \in S
    BY <1>1
  <2>2. /\ b \in Seq(S) /\ Len(b) = IF p + 1 <= Len(q) THEN Len(q) - (p + 1) + 1 ELSE 0
        /\ \A k \in 1 .. Len(q) - (p + 1) + 1 : b[k] = q[p + 1 + k - 1]
    BY <2>1, SubSeqProperties
  <2> HIDE DEF b
  <2> QED
    BY <1>1, <2>2
<1>4. r = a \o b
  BY Zenon DEF RemoveAt
<1> HIDE DEF a, b
<1>5. /\ r \in Seq(S) /\ Len(r) = Len(a) + Len(b)
      /\ \A k \in 1 .. Len(a) + Len(b) : r[k] = IF k <= Len(a) THEN a[k] ELSE b[k - Len(a)]
  <2> DEFINE c == a \o b
  <2>1. /\ c \in Seq(S) /\ Len(c) = Len(a) + Len(b)
        /\ \A k \in 1 .. Len(a) + Len(b) : c[k] = IF k <= Len(a) THEN a[k] ELSE b[k - Len(a)]
    BY <1>2, <1>3, ConcatProperties
  <2> QED
    BY <1>4, <2>1, Zenon
<1>6. ASSUME NEW k \in 1 .. Len(q) - 1 PROVE r[k] = q[IF k < p THEN k ELSE k + 1]
  <2>1. r[k] = IF k <= p - 1 THEN a[k] ELSE b[k - (p - 1)]
    BY <1>1, <1>2, <1>3, <1>5
  <2>2. CASE k < p
    BY <1>1, <1>2, <2>1, <2>2
  <2>3. CASE ~(k < p)
    <3>1. k - (p - 1) \in 1 .. Len(q) - p /\ p + (k - (p - 1)) = k + 1 /\ ~(k <= p - 1)
      BY <1>1, <2>3
    <3> QED
      BY <1>3, <2>1, <2>3, <3>1
  <2> QED
    BY <2>2, <2>3
<1> QED
  BY <1>1, <1>2, <1>3, <1>5, <1>6

\* r is q with e put in at place p
InsertedAt(q, r, p, e) ==
    /\ Len(r) = Len(q) + 1
    /\ \A k \in 1 .. Len(q) + 1 : /\ k < p => r[k] = q[k]
                                  /\ k = p => r[k] = e
                                  /\ k > p => r[k] = q[k - 1]

\* InsertAt, place by place.
LEMMA InsertAtIs ==
    ASSUME NEW S, NEW q \in Seq(S), NEW p \in 1 .. Len(q) + 1, NEW e \in S
    PROVE  InsertAt(q, p, e) \in Seq(S) /\ InsertedAt(q, InsertAt(q, p, e), p, e)
<1> DEFINE r == InsertAt(q, p, e)
           a == SubSeq(q, 1, p - 1)
           b == SubSeq(q, p, Len(q))
           d == <<e>>
           c == a \o d
<1>1. Len(q) \in Nat /\ \A k \in 1 .. Len(q) : q[k] \in S
  BY LenProperties, ElementOfSeq
<1>2. /\ a \in Seq(S) /\ Len(a) = p - 1 /\ \A k \in 1 .. p - 1 : a[k] = q[k]
  <2>1. 1 \in Int /\ p - 1 \in Int /\ \A k \in 1 .. p - 1 : q[k] \in S
    BY <1>1
  <2>2. /\ a \in Seq(S) /\ Len(a) = IF 1 <= p - 1 THEN (p - 1) - 1 + 1 ELSE 0
        /\ \A k \in 1 .. (p - 1) - 1 + 1 : a[k] = q[1 + k - 1]
    BY <2>1, SubSeqProperties
  <2> HIDE DEF a
  <2> QED
    BY <1>1, <2>2
<1>3. /\ b \in Seq(S) /\ Len(b) = Len(q) - p + 1
      /\ \A k \in 1 .. Len(q) - p + 1 : b[k] = q[p + k - 1]
  <2>1. p \in Int /\ Len(q) \in Int /\ \A k \in p .. Len(q) : q[k] \in S
    BY <1>1
  <2>2. /\ b \in Seq(S) /\ Len(b) = IF p <= Len(q) THEN Len(q) - p + 1 ELSE 0
        /\ \A k \in 1 .. Len(q) - p + 1 : b[k] = q[p + k - 1]
    BY <2>1, SubSeqProperties
  <2> HIDE DEF b
  <2> QED
    BY <1>1, <2>2
<1>4. d \in Seq(S) /\ Len(d) = 1 /\ d[1] = e
  OBVIOUS
<1>5. r = c \o b
  BY Zenon DEF InsertAt
<1> HIDE DEF a, b, d, r
<1>6. /\ c \in Seq(S) /\ Len(c) = p
      /\ \A k \in 1 .. p : c[k] = IF k < p THEN q[k] ELSE e
  <2>1. /\ c \in Seq(S) /\ Len(c) = Len(a) + Len(d)
        /\ \A k \in 1 .. Len(a) + Len(d) :
              c[k] = IF k <= Len(a) THEN a[k] ELSE d[k - Len(a)]
    BY <1>2, <1>4, ConcatProperties, Zenon
  <2> HIDE DEF c
  <2>2. Len(c) = p /\ \A k \in 1 .. p : c[k] = IF k <= p - 1 THEN a[k] ELSE d[k - (p - 1)]
    BY <1>2, <1>4, <2>1
  <2>3. ASSUME NEW k \in 1 .. p PROVE c[k] = IF k < p THEN q[k] ELSE e
    <3>1. CASE k < p
      BY <1>2, <2>2, <3>1
    <3>2. CASE k = p
      BY <1>4, <2>2, <3>2
    <3> QED
      BY <3>1, <3>2
  <2> QED
    BY <2>1, <2>2, <2>3
<1> HIDE DEF c
<1>7. /\ r \in Seq(S) /\ Len(r) = Len(c) + Len(b)
      /\ \A k \in 1 .. Len(c) + Len(b) : r[k] = IF k <= Len(c) THEN c[k] ELSE b[k - Len(c)]
  BY <1>3, <1>5, <1>6, ConcatProperties
<1>8. ASSUME NEW k \in 1 .. Len(q) + 1
      PROVE  (k < p => r[k] = q[k]) /\ (k = p => r[k] = e) /\ (k > p => r[k] = q[k - 1])
  <2>1. r[k] = IF k <= p THEN c[k] ELSE b[k - p]
    BY <1>1, <1>3, <1>6, <1>7
  <2>2. CASE k <= p
    BY <1>6, <2>1, <2>2
  <2>3. CASE ~(k <= p)
    <3>1. k - p \in 1 .. Len(q) - p + 1 /\ p + (k - p) - 1 = k - 1 /\ ~(k < p) /\ k # p
      BY <1>1, <2>3
    <3> QED
      BY <1>3, <2>1, <2>3, <3>1
  <2> QED
    BY <2>2, <2>3
<1>9. Len(r) = Len(q) + 1
  BY <1>1, <1>3, <1>6, <1>7
<1> QED
  BY <1>7, <1>8, <1>9, Zenon DEF InsertedAt, r

-----------------------------------------------------------------------------
(* remove and push                                                         *)

\* r is q with the entries of sn e taken out
Without(q, r, e) ==
    /\ \A k \in DOMAIN r : \E j \in DOMAIN q : r[k] = q[j]
    /\ \A j \in DOMAIN q : q[j].sn # e => \E k \in DOMAIN r : r[k] = q[j]
    /\ \A k \in DOMAIN r : r[k].sn # e

\* r is q with new entries for the numbers in S that q has not
Grown(q, r, S) ==
    /\ \A k \in DOMAIN r : \/ r[k].sn \in S /\ r[k].nacked = 0
                           \/ \E j \in DOMAIN q : r[k] = q[j]
    /\ \A j \in DOMAIN q : \E k \in DOMAIN r : r[k] = q[j]
    /\ \A s \in S : \E k \in DOMAIN r : r[k].sn = s

\* Removing keeps the order, and takes out e.
LEMMA RemoveFacts ==
    ASSUME NEW q, IsQueue(q), NEW e \in Int, NEW r, r = NackRemove(q, e)
    PROVE  /\ IsQueue(r)
           /\ Strict(q) => Strict(r) /\ Without(q, r, e)
<1>1. Len(q) \in Nat /\ DOMAIN q = 1 .. Len(q) /\ \A k \in 1 .. Len(q) : q[k].sn \in Int
  BY QueueParts DEF IsQueue
<1>2. CASE ~Holds(q, e)
  <2>1. r = q /\ \A k \in DOMAIN q : q[k].sn # e
    BY <1>2, HoldsIs DEF NackRemove
  <2> QED
    BY <2>1 DEF Without
<1>3. CASE Holds(q, e)
  <2> DEFINE p == Search(q, e)
  <2>1. p \in 1 .. Len(q) /\ q[p].sn = e
    BY <1>3, HoldsIs
  <2>2. r = RemoveAt(q, p)
    BY <1>3, Zenon DEF NackRemove
  <2> HIDE DEF p
  <2>3. /\ r \in Seq(Entry) /\ Len(r) = Len(q) - 1
        /\ \A k \in 1 .. Len(q) - 1 : r[k] = q[IF k < p THEN k ELSE k + 1]
    BY <2>1, <2>2, RemoveAtIs DEF IsQueue
  <2>4. DOMAIN r = 1 .. Len(q) - 1
    BY <2>3, LenProperties
  <2>8. ASSUME NEW i \in 1 .. Len(q) - 1, NEW j \in 1 .. Len(q) - 1, i < j
        PROVE  \E a, b \in 1 .. Len(q) : a < b /\ r[i] = q[a] /\ r[j] = q[b]
    <3> DEFINE a == IF i < p THEN i ELSE i + 1
               b == IF j < p THEN j ELSE j + 1
    <3>1. a \in 1 .. Len(q) /\ b \in 1 .. Len(q) /\ a < b
      BY <1>1, <2>1, <2>8
    <3>2. r[i] = q[a] /\ r[j] = q[b]
      BY <2>3
    <3> QED
      BY <3>1, <3>2, Zenon
  <2>5. Sorted(r)
    <3> SUFFICES ASSUME NEW i \in 1 .. Len(q) - 1, NEW j \in 1 .. Len(q) - 1, i < j
                 PROVE  r[i].sn <= r[j].sn
      BY <2>4 DEF Sorted
    <3>1. \A a, b \in 1 .. Len(q) : a < b => q[a].sn <= q[b].sn
      BY <1>1 DEF IsQueue, Sorted
    <3>2. PICK a \in 1 .. Len(q), b \in 1 .. Len(q) : a < b /\ r[i] = q[a] /\ r[j] = q[b]
      BY <2>8
    <3> QED
      BY <3>1, <3>2
  <2>6. ASSUME Strict(q) PROVE Strict(r)
    <3> SUFFICES ASSUME NEW i \in 1 .. Len(q) - 1, NEW j \in 1 .. Len(q) - 1, i < j
                 PROVE  r[i].sn < r[j].sn
      BY <2>4 DEF Strict
    <3>1. \A a, b \in 1 .. Len(q) : a < b => q[a].sn < q[b].sn
      BY <1>1, <2>6 DEF Strict
    <3>2. PICK a \in 1 .. Len(q), b \in 1 .. Len(q) : a < b /\ r[i] = q[a] /\ r[j] = q[b]
      BY <2>8
    <3> QED
      BY <3>1, <3>2
  <2>7. ASSUME Strict(q) PROVE Without(q, r, e)
    <3>0. \A a, b \in 1 .. Len(q) : a < b => q[a].sn < q[b].sn
      BY <1>1, <2>7 DEF Strict
    <3>1. ASSUME NEW k \in 1 .. Len(q) - 1
          PROVE  \E j \in 1 .. Len(q) : r[k] = q[j] /\ j # p
      <4>1. CASE k < p
        BY <1>1, <2>3, <3>1, <4>1
      <4>2. CASE ~(k < p)
        <5>1. k + 1 \in 1 .. Len(q) /\ k + 1 # p /\ r[k] = q[k + 1]
          BY <1>1, <2>1, <2>3, <3>1, <4>2
        <5> QED
          BY <5>1
      <4> QED
        BY <4>1, <4>2
    <3>2. ASSUME NEW j \in 1 .. Len(q), q[j].sn # e
          PROVE  \E k \in 1 .. Len(q) - 1 : r[k] = q[j]
      <4>1. CASE j < p
        <5>1. j \in 1 .. Len(q) - 1 /\ r[j] = q[j]
          BY <1>1, <2>1, <2>3, <4>1
        <5> QED
          BY <5>1
      <4>2. CASE ~(j < p)
        <5>1. j - 1 \in 1 .. Len(q) - 1 /\ ~(j - 1 < p) /\ (j - 1) + 1 = j
          BY <1>1, <2>1, <3>2, <4>2
        <5>2. r[j - 1] = q[j]
          BY <2>3, <5>1
        <5> QED
          BY <5>1, <5>2
      <4> QED
        BY <4>1, <4>2
    <3>3. ASSUME NEW j \in 1 .. Len(q), j # p PROVE q[j].sn # e
      <4>1. j < p \/ p < j
        BY <1>1, <2>1, <3>3
      <4>2. q[j].sn < q[p].sn \/ q[p].sn < q[j].sn
        BY <2>1, <3>0, <4>1
      <4> QED
        BY <1>1, <2>1, <4>2
    <3>4. ASSUME NEW k \in 1 .. Len(q) - 1 PROVE r[k].sn # e
      BY <3>1, <3>3, Zenon
    <3>5. \A k \in 1 .. Len(q) - 1 : \E j \in 1 .. Len(q) : r[k] = q[j]
      BY <3>1, Zenon
    <3> QED
      BY <1>1, <2>4, <3>2, <3>4, <3>5, Zenon DEF Without
  <2> QED
    BY <2>3, <2>5, <2>6, <2>7 DEF IsQueue
<1> QED
  BY <1>2, <1>3

\* At the limit the queue keeps its types and its order; below it nothing is moved.
LEMMA ShiftDownFacts ==
    ASSUME NEW q, IsQueue(q), q # <<>>, NEW r, r = ShiftDown(q)
    PROVE  IsQueue(r) /\ (Len(q) < MaxNackCache => r = q)
<1>1. Len(q) \in Nat /\ DOMAIN q = 1 .. Len(q) /\ \A k \in 1 .. Len(q) : q[k].sn \in Int
  BY QueueParts DEF IsQueue
<1>2. MaxNackCache \in Nat /\ q \in Seq(Entry)
  BY NackAssumption DEF IsQueue
<1>5. Len(q) \in Nat
  BY <1>1
<1>3. CASE ~(Len(q) >= MaxNackCache)
  BY <1>3 DEF ShiftDown
<1>4. CASE Len(q) >= MaxNackCache
  <2> DEFINE t == Tail(q)
             z == Last(q)
  <2>1. t \in Seq(Entry) /\ Len(t) = Len(q) - 1 /\ \A k \in 1 .. Len(q) - 1 : t[k] = q[k + 1]
    BY <1>2, HeadTailProperties
  <2>2. Len(q) \in 1 .. Len(q) /\ z = q[Len(q)] /\ z \in Entry
    <3>1. Len(q) # 0
      BY <1>2, EmptySeq
    <3>2. Len(q) \in 1 .. Len(q)
      BY <1>1, <3>1
    <3> QED
      BY <1>2, <3>2, ElementOfSeq DEF Last
  <2>3. r = Append(t, z)
    BY <1>4, Zenon DEF ShiftDown
  <2> HIDE DEF t, z
  <2>4. /\ r \in Seq(Entry) /\ Len(r) = Len(q)
        /\ \A k \in 1 .. Len(q) : r[k] = q[IF k = Len(q) THEN k ELSE k + 1]
    <3>1. r \in Seq(Entry) /\ Len(r) = Len(t) + 1
      BY <2>1, <2>2, <2>3, AppendProperties
    <3>2. \A k \in 1 .. Len(t) : r[k] = t[k]
      BY <2>1, <2>2, <2>3, AppendProperties
    <3>3. r[Len(t) + 1] = z
      BY <2>1, <2>2, <2>3, AppendProperties
    <3>4. ASSUME NEW k \in 1 .. Len(q) PROVE r[k] = q[IF k = Len(q) THEN k ELSE k + 1]
      <4>1. CASE k = Len(q)
        BY <1>1, <2>1, <2>2, <3>3, <4>1
      <4>2. CASE k # Len(q)
        <5>1. k \in 1 .. Len(q) - 1
          BY <1>5, <4>2
        <5>2. r[k] = t[k] /\ t[k] = q[k + 1]
          BY <2>1, <3>2, <5>1
        <5> QED
          BY <4>2, <5>2, Zenon
      <4> QED
        BY <4>1, <4>2
    <3>5. Len(r) = Len(q)
      BY <1>1, <2>1, <3>1
    <3> QED
      BY <3>1, <3>4, <3>5, Zenon
  <2>5. \A a, b \in 1 .. Len(q) : a < b => q[a].sn <= q[b].sn
    BY <1>1 DEF IsQueue, Sorted
  <2>6. ASSUME NEW i \in 1 .. Len(q), NEW j \in 1 .. Len(q), i < j PROVE r[i].sn <= r[j].sn
    <3> DEFINE a == IF i = Len(q) THEN i ELSE i + 1
               b == IF j = Len(q) THEN j ELSE j + 1
    <3>1. a \in 1 .. Len(q) /\ b \in 1 .. Len(q) /\ (a < b \/ a = b)
      BY <1>5, <2>6
    <3>2. r[i] = q[a] /\ r[j] = q[b]
      BY <2>4, Zenon
    <3> HIDE DEF a, b
    <3> QED
      BY <1>1, <2>5, <3>1, <3>2
  <2>7. DOMAIN r = 1 .. Len(q)
    BY <2>4, LenProperties
  <2>8. ~(Len(q) < MaxNackCache)
    BY <1>1, <1>2, <1>4
  <2> QED
    BY <2>4, <2>6, <2>7, <2>8 DEF IsQueue, Sorted
<1> QED
  BY <1>3, <1>4

\* A new entry goes where sort.Search points: the order is kept.
LEMMA InsertFacts ==
    ASSUME NEW q, IsQueue(q), NEW x \in Entry, x.nacked = 0, NEW e, e = x.sn, ~Holds(q, e),
           NEW p, p = Search(q, e), NEW r \in Seq(Entry), InsertedAt(q, r, p, x)
    PROVE  /\ IsQueue(r) /\ Len(r) = Len(q) + 1
           /\ Strict(q) => Strict(r)
           /\ Grown(q, r, {e})
<1>0. Len(q) \in Nat /\ e \in Int
  <2>1. Len(q) \in Nat
    BY QueueParts DEF IsQueue
  <2> QED
    BY <2>1 DEF Entry
<1>1. DOMAIN q = 1 .. Len(q) /\ \A k \in 1 .. Len(q) : q[k].sn \in Int
  BY QueueParts DEF IsQueue
<1>2. p \in 1 .. Len(q) + 1 /\ \A k \in 1 .. Len(q) : k < p <=> q[k].sn < e
  BY <1>0, SearchIs
<1>3. x \in Entry /\ x.sn = e /\ x.nacked = 0
  OBVIOUS
<1>5. \A k \in 1 .. Len(q) : q[k].sn # e
  BY <1>0, <1>1, HoldsIs
<1>6. /\ r \in Seq(Entry) /\ Len(r) = Len(q) + 1
      /\ \A k \in 1 .. Len(q) + 1 : /\ k < p => r[k] = q[k]
                                    /\ k = p => r[k] = x
                                    /\ k > p => r[k] = q[k - 1]
  BY DEF InsertedAt
<1>7. DOMAIN r = 1 .. Len(q) + 1
  BY <1>6, LenProperties
<1>8. ASSUME NEW k \in 1 .. Len(q) + 1
      PROVE  /\ k < p => k \in 1 .. Len(q) /\ r[k] = q[k] /\ q[k].sn < e
             /\ k = p => r[k] = x
             /\ k > p => k - 1 \in 1 .. Len(q) /\ r[k] = q[k - 1] /\ q[k - 1].sn > e
  <2>0. (k < p => r[k] = q[k]) /\ (k = p => r[k] = x) /\ (k > p => r[k] = q[k - 1])
    BY <1>6
  <2>1. ASSUME k < p PROVE k \in 1 .. Len(q) /\ r[k] = q[k] /\ q[k].sn < e
    <3>1. k \in 1 .. Len(q)
      BY <1>0, <1>2, <2>1
    <3> QED
      BY <1>2, <2>0, <2>1, <3>1, Zenon
  <2>2. ASSUME k > p PROVE k - 1 \in 1 .. Len(q) /\ r[k] = q[k - 1] /\ q[k - 1].sn > e
    <3>1. k - 1 \in 1 .. Len(q) /\ ~(k - 1 < p) /\ ~(k < p) /\ k # p
      BY <1>0, <1>2, <2>2
    <3>2. q[k - 1].sn \in Int /\ q[k - 1].sn # e /\ ~(q[k - 1].sn < e)
      BY <1>1, <1>2, <1>5, <3>1
    <3>3. q[k - 1].sn > e
      BY <1>0, <3>2
    <3> QED
      BY <2>0, <2>2, <3>1, <3>3
  <2> QED
    BY <2>0, <2>1, <2>2
<1>9. ASSUME NEW i \in 1 .. Len(q) + 1, NEW j \in 1 .. Len(q) + 1, i < j
      PROVE  \/ r[i].sn < r[j].sn
             \/ \E a, b \in 1 .. Len(q) : a < b /\ r[i] = q[a] /\ r[j] = q[b]
  <2>1. CASE i < p /\ j < p
    BY <1>8, <1>9, <2>1
  <2>2. CASE i > p
    <3>1. j > p /\ i - 1 < j - 1
      BY <1>0, <1>2, <1>9, <2>2
    <3> QED
      BY <1>8, <2>2, <3>1
  <2>3. CASE i < p /\ j = p
    BY <1>3, <1>8, <2>3
  <2>4. CASE i = p
    <3>1. j > p
      BY <1>0, <1>2, <1>9, <2>4
    <3>2. r[i].sn = e /\ r[j].sn > e /\ r[j].sn \in Int
      BY <1>1, <1>3, <1>8, <2>4, <3>1
    <3> QED
      BY <1>0, <3>2
  <2>5. CASE i < p /\ j > p
    <3>1. r[i].sn < e /\ r[j].sn > e /\ r[j].sn \in Int /\ r[i].sn \in Int
      BY <1>1, <1>8, <2>5
    <3> QED
      BY <1>0, <3>1
  <2>6. (i < p \/ i = p \/ i > p) /\ (j < p \/ j = p \/ j > p)
    BY <1>0, <1>2
  <2> QED
    BY <2>1, <2>2, <2>3, <2>4, <2>5, <2>6
<1>10. \A k \in 1 .. Len(q) + 1 : r[k].sn \in Int
  BY <1>6, <1>7, QueueParts
<1>11. Sorted(r)
  <2>1. \A a, b \in 1 .. Len(q) : a < b => q[a].sn <= q[b].sn
    BY <1>1 DEF IsQueue, Sorted
  <2>2. ASSUME NEW i \in 1 .. Len(q) + 1, NEW j \in 1 .. Len(q) + 1, i < j
        PROVE  r[i].sn <= r[j].sn
    <3>1. CASE r[i].sn < r[j].sn
      BY <1>10, <3>1
    <3>2. CASE \E a, b \in 1 .. Len(q) : a < b /\ r[i] = q[a] /\ r[j] = q[b]
      BY <2>1, <3>2, Zenon
    <3> QED
      BY <1>9, <2>2, <3>1, <3>2
  <2> QED
    BY <1>7, <2>2 DEF Sorted
<1>12. ASSUME Strict(q) PROVE Strict(r)
  <2>1. \A a, b \in 1 .. Len(q) : a < b => q[a].sn < q[b].sn
    BY <1>1, <1>12 DEF Strict
  <2>2. ASSUME NEW i \in 1 .. Len(q) + 1, NEW j \in 1 .. Len(q) + 1, i < j
        PROVE  r[i].sn < r[j].sn
    <3>2. CASE \E a, b \in 1 .. Len(q) : a < b /\ r[i] = q[a] /\ r[j] = q[b]
      BY <2>1, <3>2, Zenon
    <3> QED
      BY <1>9, <2>2, <3>2
  <2> QED
    BY <1>7, <2>2 DEF Strict
<1>13. Grown(q, r, {e})
  <2>1. ASSUME NEW k \in DOMAIN r
        PROVE  \/ r[k].sn \in {e} /\ r[k].nacked = 0
               \/ \E j \in DOMAIN q : r[k] = q[j]
    <3>1. k < p \/ k = p \/ k > p
      BY <1>0, <1>2, <1>7
    <3>2. CASE k = p
      BY <1>3, <1>7, <1>8, <3>2
    <3> QED
      BY <1>1, <1>7, <1>8, <3>1, <3>2
  <2>2. ASSUME NEW j \in 1 .. Len(q) PROVE \E k \in 1 .. Len(q) + 1 : r[k] = q[j]
    <3>1. CASE j < p
      <4>1. j \in 1 .. Len(q) + 1
        BY <1>0
      <4> QED
        BY <1>8, <3>1, <4>1
    <3>2. CASE ~(j < p)
      <4>1. j + 1 \in 1 .. Len(q) + 1 /\ j + 1 > p /\ (j + 1) - 1 = j
        BY <1>0, <1>2, <3>2
      <4>2. r[j + 1] = q[(j + 1) - 1]
        BY <1>8, <4>1
      <4> QED
        BY <4>1, <4>2
    <3> QED
      BY <3>1, <3>2
  <2>3. r[p].sn = e
    <3>1. r[p] = x
      BY <1>2, <1>8, Zenon
    <3> QED
      BY <1>3, <3>1
  <2>4. \A s \in {e} : \E k \in DOMAIN r : r[k].sn = s
    BY <1>2, <1>7, <2>3, Zenon
  <2>5. \A j \in DOMAIN q : \E k \in DOMAIN r : r[k] = q[j]
    BY <1>1, <1>7, <2>2
  <2> QED
    BY <2>1, <2>4, <2>5, Zenon DEF Grown
<1> QED
  BY <1>6, <1>11, <1>12, <1>13 DEF IsQueue

\* push keeps the order; while the queue is below its limit it loses nothing.
LEMMA PushFacts ==
    ASSUME NEW q, IsQueue(q), NEW e \in 0 .. U32 - 1, NEW r, r = NackPush(q, e)
    PROVE  /\ IsQueue(r)
           /\ Len(q) + 1 < MaxNackCache =>
                 Len(r) <= Len(q) + 1 /\ (Strict(q) => Strict(r)) /\ Grown(q, r, {e})
<1>0. Len(q) \in Nat /\ e \in Int
  BY QueueParts DEF IsQueue
<1>1. CASE Holds(q, e)
  <2>1. r = q /\ \E k \in DOMAIN q : q[k].sn = e
    BY <1>0, <1>1, HoldsIs DEF NackPush
  <2> QED
    BY <1>0, <2>1 DEF Grown
<1>2. CASE ~Holds(q, e)
  <2> DEFINE x == [sn |-> e, nacked |-> 0]
             s == InsertAt(q, Search(q, e), x)
  <2>0. x \in Entry /\ e = x.sn /\ x.nacked = 0
    BY NackAssumption DEF Entry
  <2>1. /\ IsQueue(s) /\ Len(s) = Len(q) + 1
        /\ Strict(q) => Strict(s)
        /\ Grown(q, s, {e})
    <3> HIDE DEF x
    <3>1. q \in Seq(Entry) /\ Search(q, e) \in 1 .. Len(q) + 1
      BY <1>0, SearchIs DEF IsQueue
    <3>2. s \in Seq(Entry) /\ InsertedAt(q, s, Search(q, e), x)
      BY <2>0, <3>1, InsertAtIs
    <3> HIDE DEF s
    <3> QED
      BY <1>2, <2>0, <3>2, InsertFacts
  <2>2. r = ShiftDown(s)
    BY <1>2, Zenon DEF NackPush
  <2> HIDE DEF s
  <2>3. s # <<>>
    <3>1. Len(s) # 0
      BY <1>0, <2>1
    <3> QED
      BY <3>1
  <2>4. IsQueue(r) /\ (Len(s) < MaxNackCache => r = s)
    BY <2>1, <2>2, <2>3, ShiftDownFacts
  <2> QED
    BY <1>0, <2>1, <2>4
<1> QED
  BY <1>1, <1>2

\* f is the table of a loop that starts with q and pushes the first n of es
IsPushes(f, q, es, n) ==
    f = [k \in 0 .. n |-> IF k = 0 THEN q ELSE NackPush(f[k - 1], es[k])]

\* The loop has a table.
LEMMA PushesExist ==
    ASSUME NEW q, NEW es, NEW n \in Nat
    PROVE  \E f : IsPushes(f, q, es, n)
<1> DEFINE T == {m \in Nat : ~\E f : IsPushes(f, q, es, m)}
<1>1. SUFFICES ASSUME T # {} PROVE FALSE
  OBVIOUS
<1>2. PICK m \in T : \A j \in T : m <= j
  BY <1>1, Least
<1>3. CASE m = 0
  <2>1. IsPushes([k \in 0 .. 0 |-> q], q, es, 0)
    BY DEF IsPushes
  <2> QED
    BY <1>3, <2>1
<1>4. CASE m # 0
  <2>1. PICK f : IsPushes(f, q, es, m - 1)
    BY <1>2, <1>4
  <2> DEFINE g == [k \in 0 .. m |-> IF k = m THEN NackPush(f[m - 1], es[m]) ELSE f[k]]
  <2>2. IsPushes(g, q, es, m)
    BY <1>4, <2>1 DEF IsPushes
  <2> QED
    BY <2>2
<1> QED
  BY <1>3, <1>4

\* PushAll is the last line of the table.
LEMMA PushAllIs ==
    ASSUME NEW q, NEW es, Len(es) \in Nat
    PROVE  \E f : /\ f[0] = q /\ PushAll(q, es) = f[Len(es)]
                  /\ \A k \in 1 .. Len(es) : f[k] = NackPush(f[k - 1], es[k])
<1> DEFINE n == Len(es)
           f == CHOOSE g : IsPushes(g, q, es, n)
<1>1. IsPushes(f, q, es, n)
  BY PushesExist, Zenon
<1>2. PushAll(q, es) = f[n]
  BY Zenon DEF PushAll, IsPushes
<1> HIDE DEF f
<1>3. f[0] = q /\ \A k \in 1 .. n : f[k] = NackPush(f[k - 1], es[k])
  BY <1>1 DEF IsPushes
<1> QED
  BY <1>2, <1>3

\* The first k numbers of es
Firsts(es, k) == {es[m] : m \in 1 .. k}

\* One more push.
LEMMA GrownMore ==
    ASSUME NEW q, NEW r, NEW t, NEW es, NEW k \in Nat, NEW e, e = es[k + 1],
           Grown(q, r, Firsts(es, k)), Grown(r, t, {e})
    PROVE  Grown(q, t, Firsts(es, k + 1))
<1>1. Firsts(es, k + 1) = Firsts(es, k) \cup {e}
  BY DEF Firsts
<1>2. ASSUME NEW S, Grown(q, r, S) PROVE Grown(q, t, S \cup {e})
  <2>1. \A j \in DOMAIN t : \/ t[j].sn \in S \cup {e} /\ t[j].nacked = 0
                            \/ \E i \in DOMAIN q : t[j] = q[i]
    BY <1>2 DEF Grown
  <2>2. \A j \in DOMAIN q : \E i \in DOMAIN t : t[i] = q[j]
    BY <1>2 DEF Grown
  <2>3. \A s \in S \cup {e} : \E i \in DOMAIN t : t[i].sn = s
    BY <1>2 DEF Grown
  <2> QED
    BY <2>1, <2>2, <2>3, Zenon DEF Grown
<1> QED
  BY <1>1, <1>2

\* The loop keeps the order; while the queue stays below its limit it loses nothing.
LEMMA PushAllFacts ==
    ASSUME NEW q, IsQueue(q), NEW es \in Seq(0 .. U32 - 1), NEW r, r = PushAll(q, es)
    PROVE  /\ IsQueue(r)
           /\ Len(q) + Len(es) < MaxNackCache =>
                 (Strict(q) => Strict(r)) /\ Grown(q, r, Firsts(es, Len(es)))
<1> DEFINE n == Len(es)
           room == Len(q) + n < MaxNackCache
<1>1. n \in Nat /\ Len(q) \in Nat /\ MaxNackCache \in Nat
  BY LenProperties, NackAssumption, QueueParts DEF IsQueue
<1>2. PICK f : /\ f[0] = q /\ r = f[n]
               /\ \A k \in 1 .. n : f[k] = NackPush(f[k - 1], es[k])
  BY <1>1, PushAllIs
<1> DEFINE P(k) == /\ IsQueue(f[k])
                   /\ room => /\ Len(f[k]) <= Len(q) + k
                              /\ Strict(q) => Strict(f[k])
                              /\ Grown(q, f[k], Firsts(es, k))
           T == {k \in Nat : k <= n /\ ~P(k)}
<1>3. P(0)
  <2>1. Firsts(es, 0) = {}
    BY DEF Firsts
  <2>2. Grown(q, q, {})
    BY DEF Grown
  <2>3. f[0] = q /\ Len(q) <= Len(q) + 0
    BY <1>1, <1>2
  <2> QED
    BY <2>1, <2>2, <2>3, Zenon
<1>4. ASSUME NEW k \in Nat, k < n, P(k) PROVE P(k + 1)
  <2>1. k + 1 \in 1 .. n /\ (k + 1) - 1 = k
    BY <1>1, <1>4
  <2>2. es[k + 1] \in 0 .. U32 - 1
    BY <2>1, ElementOfSeq
  <2>3. f[k + 1] = NackPush(f[k], es[k + 1])
    BY <1>2, <2>1
  <2>4. IsQueue(f[k]) /\ Len(f[k]) \in Nat
    BY <1>4, QueueParts DEF IsQueue
  <2>5. /\ IsQueue(f[k + 1])
        /\ Len(f[k]) + 1 < MaxNackCache =>
              /\ Len(f[k + 1]) <= Len(f[k]) + 1
              /\ Strict(f[k]) => Strict(f[k + 1])
              /\ Grown(f[k], f[k + 1], {es[k + 1]})
    BY <2>2, <2>3, <2>4, PushFacts
  <2>6. ASSUME room
        PROVE  /\ Len(f[k + 1]) <= Len(q) + (k + 1)
               /\ Strict(q) => Strict(f[k + 1])
               /\ Grown(q, f[k + 1], Firsts(es, k + 1))
    <3>1. Len(f[k]) <= Len(q) + k /\ (Strict(q) => Strict(f[k])) /\ Grown(q, f[k], Firsts(es, k))
      BY <1>4, <2>6
    <3>2. Len(f[k]) + 1 < MaxNackCache
      BY <1>1, <1>4, <2>4, <2>6, <3>1
    <3>3. Grown(q, f[k + 1], Firsts(es, k + 1))
      BY <2>5, <3>1, <3>2, GrownMore
    <3>4. Len(f[k + 1]) \in Nat
      BY <2>5, QueueParts DEF IsQueue
    <3> QED
      BY <1>1, <2>4, <2>5, <3>1, <3>2, <3>3, <3>4
  <2> QED
    BY <2>5, <2>6
<1> HIDE DEF P
<1>5. T = {}
  <2> SUFFICES ASSUME T # {} PROVE FALSE
    OBVIOUS
  <2>1. PICK k \in T : \A j \in T : k <= j
    BY Least
  <2>2. k # 0 /\ k \in Nat /\ k <= n /\ ~P(k)
    BY <1>3, <2>1
  <2>3. k - 1 \in Nat /\ k - 1 < n /\ k - 1 <= n /\ (k - 1) + 1 = k /\ ~(k <= k - 1)
    BY <1>1, <2>2
  <2>4. P(k - 1)
    BY <2>1, <2>3
  <2>5. P((k - 1) + 1)
    BY <1>4, <2>3, <2>4
  <2> QED
    BY <2>2, <2>3, <2>5
<1>6. P(n)
  BY <1>1, <1>5
<1> QED
  BY <1>2, <1>6 DEF P

-----------------------------------------------------------------------------
(* pairs: the queue it leaves                                              *)

\* An entry that is kept: asked for once more, unless it is too fresh
Bumped(n, newest) == IF TooFresh(n, newest) THEN n ELSE [n EXCEPT !.nacked = @ + 1]

\* r is what the loop has kept of the first k entries of q
KeptUpTo(q, newest, r, k) ==
    /\ r \in Seq(Entry) /\ Sorted(r)
    /\ Strict(q) => Strict(r)
    /\ \A m \in DOMAIN r : \E j \in 1 .. k : ~GivenUp(q[j]) /\ r[m] = Bumped(q[j], newest)
    /\ \A j \in 1 .. k : ~GivenUp(q[j]) => \E m \in DOMAIN r : r[m] = Bumped(q[j], newest)

\* What becomes of an entry.
LEMMA BumpedIs ==
    ASSUME NEW n \in Entry, NEW newest, ~GivenUp(n)
    PROVE  /\ Bumped(n, newest) \in Entry /\ Bumped(n, newest).sn = n.sn
           /\ Bumped(n, newest).nacked = IF TooFresh(n, newest) THEN n.nacked ELSE n.nacked + 1
<1>1. n.nacked \in 0 .. MaxNackTimes /\ n.nacked + 1 \in 0 .. MaxNackTimes
  BY NackAssumption DEF Entry, GivenUp
<1> QED
  BY <1>1 DEF Entry, Bumped

\* One turn of the loop.
LEMMA KeptStep ==
    ASSUME NEW q, IsQueue(q), NEW newest, NEW k \in Nat, k < Len(q), NEW r, NEW t,
           KeptUpTo(q, newest, r, k),
           t = IF GivenUp(q[k + 1]) THEN r ELSE Append(r, Bumped(q[k + 1], newest))
    PROVE  KeptUpTo(q, newest, t, k + 1)
<1>1. Len(q) \in Nat /\ DOMAIN q = 1 .. Len(q) /\ \A j \in 1 .. Len(q) : q[j] \in Entry
  BY QueueParts DEF IsQueue
<1>2. k + 1 \in 1 .. Len(q)
  BY <1>1
<1>3. /\ r \in Seq(Entry) /\ Sorted(r)
      /\ Strict(q) => Strict(r)
      /\ \A m \in DOMAIN r : \E j \in 1 .. k : ~GivenUp(q[j]) /\ r[m] = Bumped(q[j], newest)
      /\ \A j \in 1 .. k : ~GivenUp(q[j]) => \E m \in DOMAIN r : r[m] = Bumped(q[j], newest)
  BY Zenon DEF KeptUpTo
<1>4. CASE GivenUp(q[k + 1])
  <2>1. t = r
    BY <1>4
  <2>2. \A j \in 1 .. k + 1 : ~GivenUp(q[j]) => j \in 1 .. k
    BY <1>4
  <2>3. \A j \in 1 .. k : j \in 1 .. k + 1
    OBVIOUS
  <2> QED
    BY <1>3, <2>1, <2>2, <2>3, ZenonT(60) DEF KeptUpTo
<1>5. CASE ~GivenUp(q[k + 1])
  <2> DEFINE x == Bumped(q[k + 1], newest)
             n == Len(r)
  <2>1. x \in Entry /\ x.sn = q[k + 1].sn
    BY <1>1, <1>2, <1>5, BumpedIs
  <2>2. t = Append(r, x)
    BY <1>5
  <2> HIDE DEF x
  <2>3. n \in Nat /\ DOMAIN r = 1 .. n /\ \A m \in 1 .. n : r[m].sn \in Int
    BY <1>3, QueueParts
  <2>4. /\ t \in Seq(Entry) /\ Len(t) = n + 1 /\ t[n + 1] = x
        /\ \A m \in 1 .. n : t[m] = r[m]
    BY <1>3, <2>1, <2>2, AppendProperties
  <2>5. DOMAIN t = 1 .. n + 1
    BY <2>4, LenProperties
  <2>6. x.sn \in Int
    BY <2>1 DEF Entry
  <2>7. ASSUME NEW m \in 1 .. n
        PROVE  \E j \in 1 .. Len(q) : j < k + 1 /\ r[m].sn = q[j].sn
    <3>1. PICK j \in 1 .. k : ~GivenUp(q[j]) /\ r[m] = Bumped(q[j], newest)
      BY <1>3, <2>3
    <3>2. j \in 1 .. Len(q) /\ j < k + 1
      BY <1>1
    <3> QED
      BY <1>1, <3>1, <3>2, BumpedIs
  <2> HIDE DEF n
  <2>8. Sorted(t)
    <3> SUFFICES ASSUME NEW a \in 1 .. n + 1, NEW b \in 1 .. n + 1, a < b
                 PROVE  t[a].sn <= t[b].sn
      BY <2>5 DEF Sorted
    <3>1. a \in 1 .. n /\ (b \in 1 .. n \/ b = n + 1)
      BY <2>3
    <3>2. CASE b \in 1 .. n
      BY <1>3, <2>3, <2>4, <3>1, <3>2 DEF Sorted
    <3>3. CASE b = n + 1
      <4>1. PICK j \in 1 .. Len(q) : j < k + 1 /\ r[a].sn = q[j].sn
        BY <2>7, <3>1
      <4>2. q[j].sn <= q[k + 1].sn
        BY <1>1, <1>2, <4>1 DEF IsQueue, Sorted
      <4> QED
        BY <2>1, <2>4, <3>1, <3>3, <4>1, <4>2
    <3> QED
      BY <3>1, <3>2, <3>3
  <2>9. ASSUME Strict(q) PROVE Strict(t)
    <3> SUFFICES ASSUME NEW a \in 1 .. n + 1, NEW b \in 1 .. n + 1, a < b
                 PROVE  t[a].sn < t[b].sn
      BY <2>5 DEF Strict
    <3>1. a \in 1 .. n /\ (b \in 1 .. n \/ b = n + 1)
      BY <2>3
    <3>2. CASE b \in 1 .. n
      BY <1>3, <2>3, <2>4, <2>9, <3>1, <3>2 DEF Strict
    <3>3. CASE b = n + 1
      <4>1. PICK j \in 1 .. Len(q) : j < k + 1 /\ r[a].sn = q[j].sn
        BY <2>7, <3>1
      <4>2. q[j].sn < q[k + 1].sn
        BY <1>1, <1>2, <2>9, <4>1 DEF Strict
      <4> QED
        BY <2>1, <2>4, <3>1, <3>3, <4>1, <4>2
    <3> QED
      BY <3>1, <3>2, <3>3
  <2>10. ASSUME NEW m \in DOMAIN t
         PROVE  \E j \in 1 .. k + 1 : ~GivenUp(q[j]) /\ t[m] = Bumped(q[j], newest)
    <3>1. CASE m = n + 1
      <4>1. k + 1 \in 1 .. k + 1 /\ t[m] = Bumped(q[k + 1], newest)
        BY <2>4, <3>1 DEF x
      <4> QED
        BY <1>5, <4>1, Zenon
    <3>2. CASE m # n + 1
      <4>1. m \in 1 .. n
        BY <2>3, <2>5, <3>2
      <4>2. PICK j \in 1 .. k : ~GivenUp(q[j]) /\ r[m] = Bumped(q[j], newest)
        BY <1>3, <2>3, <4>1
      <4>3. j \in 1 .. k + 1 /\ t[m] = r[m]
        BY <2>4, <4>1
      <4> QED
        BY <4>2, <4>3
    <3> QED
      BY <3>1, <3>2
  <2>11. ASSUME NEW j \in 1 .. k + 1, ~GivenUp(q[j])
         PROVE  \E m \in DOMAIN t : t[m] = Bumped(q[j], newest)
    <3>1. CASE j = k + 1
      <4>1. n + 1 \in DOMAIN t /\ t[n + 1] = Bumped(q[j], newest)
        BY <2>3, <2>4, <2>5, <3>1 DEF x
      <4> QED
        BY <4>1
    <3>2. CASE j # k + 1
      <4>1. j \in 1 .. k
        BY <3>2
      <4>2. PICK m \in DOMAIN r : r[m] = Bumped(q[j], newest)
        BY <1>3, <2>11, <4>1
      <4>3. m \in DOMAIN t /\ t[m] = r[m]
        BY <2>3, <2>4, <2>5
      <4> QED
        BY <4>2, <4>3
    <3> QED
      BY <3>1, <3>2
  <2> QED
    BY <2>4, <2>8, <2>9, <2>10, <2>11, Zenon DEF KeptUpTo
<1> QED
  BY <1>4, <1>5

\* A turn of the loop
Keep(r, n, newest) == IF GivenUp(n) THEN r ELSE Append(r, Bumped(n, newest))

\* f is the table of the loop over the first n entries of q
IsKept(f, q, newest, n) ==
    f = [k \in 0 .. n |-> IF k = 0 THEN <<>> ELSE Keep(f[k - 1], q[k], newest)]

\* The loop has a table.
LEMMA KeptExist ==
    ASSUME NEW q, NEW newest, NEW n \in Nat
    PROVE  \E f : IsKept(f, q, newest, n)
<1> DEFINE T == {m \in Nat : ~\E f : IsKept(f, q, newest, m)}
<1>1. SUFFICES ASSUME T # {} PROVE FALSE
  OBVIOUS
<1>2. PICK m \in T : \A j \in T : m <= j
  BY <1>1, Least
<1>3. CASE m = 0
  <2>1. IsKept([k \in 0 .. 0 |-> <<>>], q, newest, 0)
    BY DEF IsKept
  <2> QED
    BY <1>3, <2>1
<1>4. CASE m # 0
  <2>1. PICK f : IsKept(f, q, newest, m - 1)
    BY <1>2, <1>4
  <2> DEFINE g == [k \in 0 .. m |-> IF k = m THEN Keep(f[m - 1], q[m], newest) ELSE f[k]]
  <2>2. IsKept(g, q, newest, m)
    BY <1>4, <2>1 DEF IsKept
  <2> QED
    BY <2>2
<1> QED
  BY <1>3, <1>4

\* The queue pairs leaves: what is given up is gone, the rest is asked for once more
\* unless it is too fresh.
LEMMA RenackedFacts ==
    ASSUME NEW q, IsQueue(q), NEW newest, NEW r, r = Renacked(q, newest)
    PROVE  KeptUpTo(q, newest, r, Len(q))
<1> DEFINE n == Len(q)
           f == CHOOSE g : IsKept(g, q, newest, n)
<1>1. n \in Nat
  BY QueueParts DEF IsQueue
<1>2. IsKept(f, q, newest, n)
  BY <1>1, KeptExist, Zenon
<1>3. r = f[n]
  BY Zenon DEF Renacked, IsKept, Keep, Bumped
<1> HIDE DEF f
<1>4. f[0] = <<>>
  BY <1>1, <1>2 DEF IsKept
<1>5. ASSUME NEW k \in 1 .. n
      PROVE  f[k] = Keep(f[k - 1], q[k], newest)
  <2>1. k \in 0 .. n /\ k # 0
    BY <1>1
  <2> QED
    BY <1>2, <2>1 DEF IsKept
<1> DEFINE P(k) == KeptUpTo(q, newest, f[k], k)
           T == {k \in Nat : k <= n /\ ~P(k)}
<1>6. P(0)
  <2>1. <<>> \in Seq(Entry) /\ DOMAIN <<>> = {}
    OBVIOUS
  <2>2. Sorted(<<>>) /\ Strict(<<>>)
    BY <2>1 DEF Sorted, Strict
  <2>3. 1 .. 0 = {}
    OBVIOUS
  <2> QED
    BY <1>4, <2>1, <2>2, <2>3, Zenon DEF KeptUpTo
<1>7. ASSUME NEW k \in Nat, k < n, P(k) PROVE P(k + 1)
  <2>1. k + 1 \in 1 .. n /\ (k + 1) - 1 = k
    BY <1>1, <1>7
  <2>2. f[k + 1] = IF GivenUp(q[k + 1]) THEN f[k]
                   ELSE Append(f[k], Bumped(q[k + 1], newest))
    BY <1>5, <2>1 DEF Keep
  <2> QED
    BY <1>7, <2>2, KeptStep
<1> HIDE DEF P
<1>8. T = {}
  <2> SUFFICES ASSUME T # {} PROVE FALSE
    OBVIOUS
  <2>1. PICK k \in T : \A j \in T : k <= j
    BY Least
  <2>2. k # 0 /\ k \in Nat /\ k <= n /\ ~P(k)
    BY <1>6, <2>1
  <2>3. k - 1 \in Nat /\ k - 1 < n /\ k - 1 <= n /\ (k - 1) + 1 = k /\ ~(k <= k - 1)
    BY <1>1, <2>2
  <2>4. P(k - 1)
    BY <2>1, <2>3
  <2>5. P((k - 1) + 1)
    BY <1>7, <2>3, <2>4
  <2> QED
    BY <2>2, <2>3, <2>5
<1>9. P(n)
  BY <1>1, <1>8
<1> QED
  BY <1>3, <1>9 DEF P

-----------------------------------------------------------------------------
(* pairs: the highest number given up                                      *)

\* A bounded set of natural numbers has a greatest element, and Max is it.
LEMMA MaxExists ==
    ASSUME NEW T \in SUBSET Nat, T # {}, NEW bound \in Nat, \A x \in T : x <= bound
    PROVE  Max(T) \in T /\ \A x \in T : x <= Max(T)
<1> DEFINE U == {bound - x : x \in T}
<1>1. U \in SUBSET Nat /\ U # {}
  OBVIOUS
<1>2. PICK u \in U : \A v \in U : u <= v
  BY <1>1, Least
<1>3. PICK m \in T : u = bound - m
  OBVIOUS
<1>4. ASSUME NEW x \in T PROVE m >= x
  <2>1. bound - x \in U
    OBVIOUS
  <2>2. bound - m <= bound - x
    BY <1>2, <1>3, <2>1
  <2>3. m \in Nat /\ x \in Nat
    OBVIOUS
  <2> QED
    BY <2>2, <2>3
<1>5. \E y \in T : \A x \in T : y >= x
  BY <1>4
<1>6. Max(T) \in T /\ \A x \in T : Max(T) >= x
  BY <1>5, Zenon DEF Max
<1> QED
  BY <1>6

\* kfSN goes up to every number given up, and never down.
LEMMA KfFacts ==
    ASSUME NEW q, IsQueue(q), NEW kf \in 0 .. U32 - 1, NEW next, next = NextKfSN(q, kf)
    PROVE  /\ next \in 0 .. U32 - 1 /\ kf <= next
           /\ \A k \in DOMAIN q : GivenUp(q[k]) => q[k].sn <= next
<1> DEFINE T == {q[i].sn : i \in {j \in DOMAIN q : GivenUp(q[j])}} \cup {kf}
<1>1. /\ DOMAIN q = 1 .. Len(q) /\ U32 \in Nat
      /\ \A k \in DOMAIN q : q[k].sn \in 0 .. U32 - 1
  <2>1. DOMAIN q = 1 .. Len(q) /\ \A k \in 1 .. Len(q) : q[k] \in Entry
    BY QueueParts DEF IsQueue
  <2> QED
    BY <2>1, Constants DEF Entry
<1>2. \A x \in T : x \in Nat /\ x <= U32 - 1
  BY <1>1
<1>3. T \in SUBSET Nat /\ T # {} /\ U32 - 1 \in Nat /\ kf \in T
  BY <1>1, <1>2
<1>4. \A k \in DOMAIN q : GivenUp(q[k]) => q[k].sn \in T
  OBVIOUS
<1>5. next = Max(T)
  BY Zenon DEF NextKfSN
<1> HIDE DEF T
<1>6. next \in T /\ \A x \in T : x <= next
  BY <1>2, <1>3, <1>5, MaxExists
<1>7. next \in 0 .. U32 - 1 /\ kf <= next
  BY <1>1, <1>2, <1>3, <1>6
<1>8. \A k \in DOMAIN q : GivenUp(q[k]) => q[k].sn <= next
  BY <1>4, <1>6, Zenon
<1> QED
  BY <1>7, <1>8

-----------------------------------------------------------------------------
(* pairs: the numbers it names                                             *)

Pair == [PacketID : SN, LostPackets : SUBSET (0 .. BlpBits - 1)]
Acc == [nps : Seq(Pair), np : Pair]

\* s is a number the publisher reads in the pair p
Names(p, s) == s = p.PacketID \/ \E k \in p.LostPackets : s = Plus(p.PacketID, 1 + k)

\* s is named by a pair that is finished, or by the open one
Named(acc, s) ==
    \/ \E i \in DOMAIN acc.nps : Names(acc.nps[i], s)
    \/ acc.np.PacketID # 0 /\ Names(acc.np, s)

\* The bit set for x in an open pair stands for x.
LEMMA BitIs ==
    ASSUME NEW x \in SN, NEW p \in SN, NEW b, b = Minus(Minus(x, p), 1)
    PROVE  /\ b \in Nat
           /\ b \in 0 .. BlpBits - 1 => Plus(p, 1 + b) = x
           /\ p < x /\ ~(x > Plus(p, BlpBits)) => b \in 0 .. BlpBits - 1
<1>1. Half \in Nat /\ Half > 1 /\ SNSpace = 2 * Half /\ SN = 0 .. SNSpace - 1
  BY Constants
<1>2. BlpBits \in Nat /\ BlpBits > 0 /\ BlpBits < Half
  BY <1>1, NackAssumption
<1> QED
  BY <1>1, <1>2 DEF Minus, Plus

\* A number is added to the pairs: it is named unless the open pair starts above it,
\* and nothing else is.
LEMMA AddFacts ==
    ASSUME NEW a \in Acc, NEW x \in SN, NEW b, b = AddToPair(a, x)
    PROVE  /\ b \in Acc
           /\ \A s : Named(b, s) => Named(a, s) \/ s = x
           /\ \A s : Named(a, s) => Named(b, s)
           /\ b.np.PacketID \in {a.np.PacketID, x}
           /\ x # 0 /\ a.np.PacketID <= x => Named(b, x)
<1> DEFINE p == a.np.PacketID
           opens == p = 0 \/ x > Plus(p, BlpBits)
<1>1. /\ p \in SN /\ a.np \in Pair /\ a.nps \in Seq(Pair)
      /\ a.np.LostPackets \in SUBSET (0 .. BlpBits - 1)
  BY DEF Acc, Pair
<1>2. SN = 0 .. SNSpace - 1 /\ SNSpace \in Nat
  BY Constants
<1>3. CASE opens
  <2> DEFINE nps == IF p = 0 THEN a.nps ELSE Append(a.nps, a.np)
             np == [PacketID |-> x, LostPackets |-> {}]
  <2>1. b = [nps |-> nps, np |-> np]
    BY <1>3, Zenon DEF AddToPair
  <2>2. np \in Pair /\ np.PacketID = x /\ np.LostPackets = {}
    BY DEF Pair
  <2>3. nps \in Seq(Pair) /\ DOMAIN a.nps = 1 .. Len(a.nps) /\ Len(a.nps) \in Nat
    BY <1>1, AppendProperties, LenProperties
  <2>4. CASE p = 0
    <3>1. nps = a.nps
      BY <2>4
    <3> HIDE DEF nps, np
    <3>2. b \in Acc /\ b.np = np /\ b.nps = a.nps
      BY <2>1, <2>2, <2>3, <3>1 DEF Acc
    <3>3. \A s : Names(np, s) <=> s = x
      BY <2>2 DEF Names
    <3>4. \A s : Named(a, s) <=> \E i \in DOMAIN a.nps : Names(a.nps[i], s)
      BY <2>4, Zenon DEF Named
    <3>5. \A s : Named(b, s) <=> \/ \E i \in DOMAIN a.nps : Names(a.nps[i], s)
                                 \/ x # 0 /\ s = x
      BY <2>2, <3>2, <3>3, Zenon DEF Named
    <3> QED
      BY <2>2, <3>2, <3>4, <3>5, Zenon
  <2>5. CASE p # 0
    <3> DEFINE n == Len(a.nps)
    <3>1. nps = Append(a.nps, a.np)
      BY <2>5
    <3> HIDE DEF nps, np
    <3>2. b \in Acc /\ b.np = np /\ b.nps = nps
      BY <2>1, <2>2, <2>3 DEF Acc
    <3>3. \A s : Names(np, s) <=> s = x
      BY <2>2 DEF Names
    <3>4. \A s : Named(a, s) <=> \/ \E i \in 1 .. n : Names(a.nps[i], s)
                                 \/ Names(a.np, s)
      BY <2>3, <2>5, Zenon DEF Named
    <3>5. /\ Len(nps) = n + 1 /\ nps[n + 1] = a.np
          /\ \A i \in 1 .. n : nps[i] = a.nps[i]
      BY <1>1, <3>1, AppendProperties
    <3>6. DOMAIN nps = 1 .. n + 1
      BY <2>3, <3>5, LenProperties
    <3>7. \A s : (\E i \in DOMAIN nps : Names(nps[i], s))
                    <=> \/ \E i \in 1 .. n : Names(a.nps[i], s)
                        \/ Names(a.np, s)
      <4> SUFFICES ASSUME NEW s
                   PROVE  (\E i \in 1 .. n + 1 : Names(nps[i], s))
                             <=> \/ \E i \in 1 .. n : Names(a.nps[i], s)
                                 \/ Names(a.np, s)
        BY <3>6
      <4>1. n \in Nat
        BY <2>3
      <4>2. n + 1 \in 1 .. n + 1 /\ \A i \in 1 .. n : i \in 1 .. n + 1
        BY <4>1
      <4>3. \A i \in 1 .. n + 1 : i \in 1 .. n \/ i = n + 1
        BY <4>1
      <4> HIDE DEF n
      <4> QED
        BY <3>5, <4>2, <4>3, Zenon
    <3>8. \A s : Named(b, s) <=> \/ \E i \in DOMAIN nps : Names(nps[i], s)
                                 \/ x # 0 /\ s = x
      BY <2>2, <3>2, <3>3, Zenon DEF Named
    <3> QED
      BY <2>2, <3>2, <3>4, <3>7, <3>8, Zenon
  <2> QED
    BY <2>4, <2>5
<1>4. CASE ~opens
  <2> DEFINE bit == Minus(Minus(x, p), 1)
             np == [a.np EXCEPT !.LostPackets = @ \cup ({bit} \cap 0 .. BlpBits - 1)]
  <2>1. b = [a EXCEPT !.np.LostPackets = @ \cup ({bit} \cap 0 .. BlpBits - 1)]
    BY <1>4, Zenon DEF AddToPair
  <2>2. b = [a EXCEPT !.np = np]
    BY <2>1 DEF Acc, Pair
  <2>3. /\ bit \in 0 .. BlpBits - 1 => Plus(p, 1 + bit) = x
        /\ p < x /\ ~(x > Plus(p, BlpBits)) => bit \in 0 .. BlpBits - 1
    BY <1>1, BitIs
  <2> HIDE DEF bit
  <2>4. /\ np \in Pair /\ np.PacketID = p
        /\ np.LostPackets = a.np.LostPackets \cup ({bit} \cap 0 .. BlpBits - 1)
    BY <1>1 DEF Pair
  <2> HIDE DEF np
  <2>5. b \in Acc /\ b.np = np /\ b.nps = a.nps
    BY <2>2, <2>4 DEF Acc
  <2>6. \A s : Names(np, s) => Names(a.np, s) \/ s = x
    BY <2>3, <2>4 DEF Names
  <2>7. \A s : Names(a.np, s) => Names(np, s)
    BY <2>4 DEF Names
  <2>8. ASSUME p <= x PROVE Names(np, x)
    <3>1. CASE p = x
      BY <2>4, <3>1 DEF Names
    <3>2. CASE p # x
      <4>1. bit \in 0 .. BlpBits - 1
        BY <1>1, <1>2, <1>4, <2>3, <2>8, <3>2
      <4> QED
        BY <2>3, <2>4, <4>1 DEF Names
    <3> QED
      BY <3>1, <3>2
  <2>9. np.PacketID # 0
    BY <1>4, <2>4
  <2>10. \A s : Named(b, s) <=> \/ \E i \in DOMAIN a.nps : Names(a.nps[i], s)
                                \/ Names(np, s)
    BY <2>5, <2>9, Zenon DEF Named
  <2>11. \A s : Named(a, s) <=> \/ \E i \in DOMAIN a.nps : Names(a.nps[i], s)
                                \/ Names(a.np, s)
    BY <1>4, Zenon DEF Named
  <2> QED
    BY <2>4, <2>5, <2>6, <2>7, <2>8, <2>10, <2>11, Zenon
<1> QED
  BY <1>3, <1>4

\* The number of entry j, if pairs asks for it
Asks(q, newest, j, s) == Eligible(q[j], newest) /\ s = Low16(q[j].sn)

\* No entry that is asked for before j has a higher number
InTurn(q, newest, j) ==
    \A i \in 1 .. j - 1 : Eligible(q[i], newest) => Low16(q[i].sn) <= Low16(q[j].sn)

\* acc is what the loop has made of the first k entries of q
PairsUpTo(q, newest, acc, k) ==
    /\ acc \in Acc
    /\ \A s : Named(acc, s) => \E j \in 1 .. k : Asks(q, newest, j, s)
    /\ acc.np.PacketID = 0 \/ \E j \in 1 .. k : Asks(q, newest, j, acc.np.PacketID)
    /\ \A j \in 1 .. k : Eligible(q[j], newest) /\ Low16(q[j].sn) # 0 /\ InTurn(q, newest, j)
                            => Named(acc, Low16(q[j].sn))

\* The turn of the loop for one entry
Pack(acc, n, newest) == IF Eligible(n, newest) THEN AddToPair(acc, Low16(n.sn)) ELSE acc

\* One turn of the loop.
LEMMA PairsStep ==
    ASSUME NEW q, IsQueue(q), NEW newest, NEW k \in Nat, k < Len(q), NEW a, NEW b,
           PairsUpTo(q, newest, a, k), b = Pack(a, q[k + 1], newest)
    PROVE  PairsUpTo(q, newest, b, k + 1)
<1> DEFINE x == Low16(q[k + 1].sn)
<1>1. k + 1 \in 1 .. Len(q) /\ q[k + 1].sn \in Int
  <2>1. Len(q) \in Nat /\ \A j \in 1 .. Len(q) : q[j].sn \in Int
    BY QueueParts DEF IsQueue
  <2>2. k + 1 \in 1 .. Len(q)
    BY <2>1
  <2> QED
    BY <2>1, <2>2
<1>2. x \in SN /\ SN = 0 .. SNSpace - 1 /\ SNSpace \in Nat /\ SNSpace > 0
  BY <1>1, Constants, ModDef DEF Low16
<1>3. /\ a \in Acc
      /\ \A s : Named(a, s) => \E j \in 1 .. k : Asks(q, newest, j, s)
      /\ a.np.PacketID = 0 \/ \E j \in 1 .. k : Asks(q, newest, j, a.np.PacketID)
      /\ \A j \in 1 .. k : Eligible(q[j], newest) /\ Low16(q[j].sn) # 0 /\ InTurn(q, newest, j)
                              => Named(a, Low16(q[j].sn))
  BY Zenon DEF PairsUpTo
<1>4. \A j \in 1 .. k : j \in 1 .. k + 1
  OBVIOUS
<1>5. \A j \in 1 .. k + 1 : j \in 1 .. k \/ j = k + 1
  OBVIOUS
<1>6. CASE ~Eligible(q[k + 1], newest)
  <2>1. b = a
    BY <1>6, Zenon DEF Pack
  <2>2. \A j \in 1 .. k + 1 : Eligible(q[j], newest) => j \in 1 .. k
    BY <1>5, <1>6, Zenon
  <2>3. \A s : Named(a, s) => \E j \in 1 .. k + 1 : Asks(q, newest, j, s)
    BY <1>3, <1>4, Zenon
  <2>4. a.np.PacketID = 0 \/ \E j \in 1 .. k + 1 : Asks(q, newest, j, a.np.PacketID)
    BY <1>3, <1>4, Zenon
  <2> QED
    BY <1>3, <2>1, <2>2, <2>3, <2>4, Zenon DEF PairsUpTo
<1>7. CASE Eligible(q[k + 1], newest)
  <2>1. b = AddToPair(a, x)
    BY <1>7, Zenon DEF Pack
  <2>2. k + 1 \in 1 .. k + 1 /\ Asks(q, newest, k + 1, x)
    BY <1>7 DEF Asks
  <2> HIDE DEF x
  <2>3. /\ b \in Acc
        /\ \A s : Named(b, s) => Named(a, s) \/ s = x
        /\ \A s : Named(a, s) => Named(b, s)
        /\ b.np.PacketID \in {a.np.PacketID, x}
        /\ x # 0 /\ a.np.PacketID <= x => Named(b, x)
    BY <1>2, <1>3, <2>1, AddFacts
  <2>4. \A s : Named(b, s) => \E j \in 1 .. k + 1 : Asks(q, newest, j, s)
    BY <1>3, <1>4, <2>2, <2>3, Zenon
  <2>5. b.np.PacketID = 0 \/ \E j \in 1 .. k + 1 : Asks(q, newest, j, b.np.PacketID)
    <3>1. CASE b.np.PacketID = x
      BY <2>2, <3>1, Zenon
    <3>2. CASE b.np.PacketID = a.np.PacketID
      BY <1>3, <1>4, <3>2, Zenon
    <3> QED
      BY <2>3, <3>1, <3>2
  <2>6. ASSUME x # 0, InTurn(q, newest, k + 1) PROVE Named(b, x)
    <3>1. a.np.PacketID <= x
      <4>1. CASE a.np.PacketID = 0
        BY <1>2, <4>1
      <4>2. CASE a.np.PacketID # 0
        <5>1. PICK j \in 1 .. k : Asks(q, newest, j, a.np.PacketID)
          BY <1>3, <4>2
        <5>2. j \in 1 .. (k + 1) - 1
          OBVIOUS
        <5>3. Low16(q[j].sn) <= Low16(q[k + 1].sn)
          BY <2>6, <5>1, <5>2, Zenon DEF InTurn, Asks
        <5> QED
          BY <5>1, <5>3, Zenon DEF Asks, x
      <4> QED
        BY <4>1, <4>2
    <3> QED
      BY <2>3, <2>6, <3>1
  <2>7. ASSUME NEW j \in 1 .. k + 1, Eligible(q[j], newest), Low16(q[j].sn) # 0,
               InTurn(q, newest, j)
        PROVE  Named(b, Low16(q[j].sn))
    <3>1. CASE j = k + 1
      <4>1. Low16(q[j].sn) = x /\ InTurn(q, newest, k + 1)
        BY <2>7, <3>1, Zenon DEF x
      <4> QED
        BY <2>6, <2>7, <4>1, Zenon
    <3>2. CASE j \in 1 .. k
      BY <1>3, <2>3, <2>7, <3>2, Zenon
    <3> QED
      BY <1>5, <3>1, <3>2
  <2> QED
    BY <2>3, <2>4, <2>5, <2>7, Zenon DEF PairsUpTo
<1> QED
  BY <1>6, <1>7

\* f is the table of the loop over the first n entries of q
IsPacked(f, q, newest, n) ==
    f = [k \in 0 .. n |->
          IF k = 0 THEN [nps |-> <<>>, np |-> [PacketID |-> 0, LostPackets |-> {}]]
          ELSE Pack(f[k - 1], q[k], newest)]

\* The loop has a table.
LEMMA PackedExist ==
    ASSUME NEW q, NEW newest, NEW n \in Nat
    PROVE  \E f : IsPacked(f, q, newest, n)
<1> DEFINE none == [nps |-> <<>>, np |-> [PacketID |-> 0, LostPackets |-> {}]]
           T == {m \in Nat : ~\E f : IsPacked(f, q, newest, m)}
<1>1. SUFFICES ASSUME T # {} PROVE FALSE
  OBVIOUS
<1>2. PICK m \in T : \A j \in T : m <= j
  BY <1>1, Least
<1>3. \A f, j : IsPacked(f, q, newest, j) <=>
         f = [k \in 0 .. j |-> IF k = 0 THEN none ELSE Pack(f[k - 1], q[k], newest)]
  BY Zenon DEF IsPacked
<1> HIDE DEF none
<1>4. CASE m = 0
  <2> DEFINE g == [k \in 0 .. 0 |-> none]
  <2>1. IsPacked(g, q, newest, 0)
    <3>1. g = [k \in 0 .. 0 |-> IF k = 0 THEN none ELSE Pack(g[k - 1], q[k], newest)]
      OBVIOUS
    <3> QED
      BY <1>3, <3>1, Zenon
  <2> QED
    BY <1>4, <2>1
<1>5. CASE m # 0
  <2>1. PICK f : IsPacked(f, q, newest, m - 1)
    BY <1>2, <1>5
  <2> DEFINE g == [k \in 0 .. m |-> IF k = m THEN Pack(f[m - 1], q[m], newest) ELSE f[k]]
  <2>2. f = [k \in 0 .. m - 1 |-> IF k = 0 THEN none ELSE Pack(f[k - 1], q[k], newest)]
    BY <1>3, <2>1, Zenon
  <2>3. g = [k \in 0 .. m |-> IF k = 0 THEN none ELSE Pack(g[k - 1], q[k], newest)]
    BY <1>5, <2>2
  <2> QED
    BY <1>3, <2>3, Zenon
<1> QED
  BY <1>4, <1>5

\* The numbers read in one pair
ReadIn(p) == {p.PacketID} \cup {Plus(p.PacketID, 1 + k) : k \in p.LostPackets}

\* The numbers read in a list of pairs.
LEMMA RequestedIs ==
    ASSUME NEW nps, NEW s
    PROVE  s \in Requested(nps) <=> \E i \in DOMAIN nps : Names(nps[i], s)
<1>1. Requested(nps) = UNION {ReadIn(nps[i]) : i \in DOMAIN nps}
  BY Zenon DEF Requested, ReadIn
<1>2. \A p : s \in ReadIn(p) <=> Names(p, s)
  BY DEF ReadIn, Names
<1> QED
  BY <1>1, <1>2

\* What pairs asks for: the numbers of eligible entries, and of each of them that no
\* eligible entry before it exceeds (number 0 excepted).
LEMMA PairsFacts ==
    ASSUME NEW q, IsQueue(q), NEW newest, NEW R, R = Requested(NackPairs(q, newest))
    PROVE  /\ R \subseteq SN
           /\ \A s \in R : \E j \in DOMAIN q : Asks(q, newest, j, s)
           /\ \A j \in DOMAIN q :
                 Eligible(q[j], newest) /\ Low16(q[j].sn) # 0 /\ InTurn(q, newest, j)
                    => Low16(q[j].sn) \in R
<1> DEFINE n == Len(q)
           f == CHOOSE g : IsPacked(g, q, newest, n)
           end == f[n]
<1>1. n \in Nat /\ DOMAIN q = 1 .. n /\ \A j \in 1 .. n : q[j].sn \in Int
  BY QueueParts DEF IsQueue
<1>2. IsPacked(f, q, newest, n)
  BY <1>1, PackedExist, Zenon
<1>3. NackPairs(q, newest) = IF end.np.PacketID = 0 THEN end.nps ELSE Append(end.nps, end.np)
  BY Zenon DEF NackPairs, IsPacked, Pack
<1> HIDE DEF f
<1>4. f[0] = [nps |-> <<>>, np |-> [PacketID |-> 0, LostPackets |-> {}]]
  BY <1>1, <1>2 DEF IsPacked
<1>5. ASSUME NEW k \in 1 .. n PROVE f[k] = Pack(f[k - 1], q[k], newest)
  <2>1. k \in 0 .. n /\ k # 0
    BY <1>1
  <2> QED
    BY <1>2, <2>1 DEF IsPacked
<1> DEFINE P(k) == PairsUpTo(q, newest, f[k], k)
           T == {k \in Nat : k <= n /\ ~P(k)}
<1>6. P(0)
  <2>1. 1 .. 0 = {}
    OBVIOUS
  <2>2. 0 \in SN
    BY Constants
  <2>3. f[0] \in Acc /\ f[0].np.PacketID = 0 /\ f[0].nps = <<>>
    BY <1>4, <2>2 DEF Acc, Pair
  <2>4. DOMAIN <<>> = {}
    OBVIOUS
  <2>5. \A s : ~Named(f[0], s)
    BY <2>3, <2>4, Zenon DEF Named
  <2> QED
    BY <2>1, <2>3, <2>5, Zenon DEF PairsUpTo
<1>7. ASSUME NEW k \in Nat, k < n, P(k) PROVE P(k + 1)
  <2>1. k + 1 \in 1 .. n /\ (k + 1) - 1 = k
    BY <1>1, <1>7
  <2>2. f[k + 1] = Pack(f[k], q[k + 1], newest)
    BY <1>5, <2>1
  <2> QED
    BY <1>7, <2>2, PairsStep
<1> HIDE DEF P
<1>8. T = {}
  <2> SUFFICES ASSUME T # {} PROVE FALSE
    OBVIOUS
  <2>1. PICK k \in T : \A j \in T : k <= j
    BY Least
  <2>2. k # 0 /\ k \in Nat /\ k <= n /\ ~P(k)
    BY <1>6, <2>1
  <2>3. k - 1 \in Nat /\ k - 1 < n /\ k - 1 <= n /\ (k - 1) + 1 = k /\ ~(k <= k - 1)
    BY <1>1, <2>2
  <2>4. P(k - 1)
    BY <2>1, <2>3
  <2>5. P((k - 1) + 1)
    BY <1>7, <2>3, <2>4
  <2> QED
    BY <2>2, <2>3, <2>5
<1>9. PairsUpTo(q, newest, end, n)
  BY <1>1, <1>8 DEF P
<1> HIDE DEF end, T
<1>10. /\ end \in Acc
       /\ \A s : Named(end, s) => \E j \in 1 .. n : Asks(q, newest, j, s)
       /\ \A j \in 1 .. n : Eligible(q[j], newest) /\ Low16(q[j].sn) # 0 /\ InTurn(q, newest, j)
                               => Named(end, Low16(q[j].sn))
  BY <1>9, Zenon DEF PairsUpTo
<1>11. ASSUME NEW s PROVE s \in R <=> Named(end, s)
  <2> DEFINE nps == NackPairs(q, newest)
             m == Len(end.nps)
  <2>1. s \in R <=> \E i \in DOMAIN nps : Names(nps[i], s)
    BY RequestedIs
  <2>2. end.nps \in Seq(Pair) /\ end.np \in Pair
    BY <1>10 DEF Acc
  <2>3. m \in Nat /\ DOMAIN end.nps = 1 .. m
    BY <2>2, LenProperties
  <2>4. CASE end.np.PacketID = 0
    <3>1. nps = end.nps
      BY <1>3, <2>4, Zenon
    <3> QED
      BY <2>1, <2>4, <3>1, Zenon DEF Named
  <2>5. CASE end.np.PacketID # 0
    <3>1. nps = Append(end.nps, end.np)
      BY <1>3, <2>5, Zenon
    <3> HIDE DEF nps
    <3>2. /\ Len(nps) = m + 1 /\ nps[m + 1] = end.np
          /\ \A i \in 1 .. m : nps[i] = end.nps[i]
          /\ nps \in Seq(Pair)
      BY <2>2, <3>1, AppendProperties
    <3>3. DOMAIN nps = 1 .. m + 1
      BY <3>2, LenProperties
    <3>4. m + 1 \in 1 .. m + 1 /\ \A i \in 1 .. m : i \in 1 .. m + 1
      BY <2>3
    <3>5. \A i \in 1 .. m + 1 : i \in 1 .. m \/ i = m + 1
      BY <2>3
    <3> HIDE DEF m
    <3>6. (\E i \in DOMAIN nps : Names(nps[i], s))
             <=> \/ \E i \in 1 .. m : Names(end.nps[i], s)
                 \/ Names(end.np, s)
      BY <3>2, <3>3, <3>4, <3>5, Zenon
    <3> QED
      BY <2>1, <2>3, <2>5, <3>6, Zenon DEF Named
  <2> QED
    BY <2>4, <2>5
<1>12. \A s \in R : s \in SN
  <2> SUFFICES ASSUME NEW s \in R PROVE s \in SN
    OBVIOUS
  <2>1. PICK j \in 1 .. n : Asks(q, newest, j, s)
    BY <1>10, <1>11
  <2>2. s = Low16(q[j].sn) /\ q[j].sn \in Int
    BY <1>1, <2>1 DEF Asks
  <2> QED
    BY <2>2, Constants, ModDef DEF Low16
<1> QED
  BY <1>1, <1>10, <1>11, <1>12

-----------------------------------------------------------------------------
(* The types of the queue                                                  *)

\* cycles counts whole number spaces
WholeCycles(c) == \E k \in 0 .. Cycles - 1 : c = SNSpace * k

QueueInv ==
    /\ IsQueue(nacks) /\ kfSN \in 0 .. U32 - 1
    /\ WholeCycles(cycles) /\ feedback.nack \subseteq SN

\* Products of the number space.
LEMMA Spaces ==
    ASSUME NEW k \in Int
    PROVE  /\ SNSpace * k \in Int /\ SNSpace * (k + 1) = SNSpace * k + SNSpace
           /\ SNSpace * (k - 1) = SNSpace * k - SNSpace
           /\ k >= 0 => SNSpace * k >= 0
           /\ k < Cycles => SNSpace * k <= U32 - SNSpace
           /\ SNSpace * k < U32 => k < Cycles
<1>1. SNSpace \in Nat /\ SNSpace > 0 /\ Cycles \in Nat /\ U32 = SNSpace * Cycles
  BY Constants, CyclesAssumption DEF U32
<1> HIDE DEF SNSpace
<1>2. ASSUME NEW a \in Int, NEW b \in Int, a <= b PROVE SNSpace * a <= SNSpace * b
  BY <1>1, <1>2
<1>3. SNSpace * k \in Int /\ SNSpace * (k + 1) = SNSpace * k + SNSpace
      /\ SNSpace * (k - 1) = SNSpace * k - SNSpace
  BY <1>1
<1>4. ASSUME k >= 0 PROVE SNSpace * k >= 0
  BY <1>1, <1>4
<1>5. ASSUME k < Cycles PROVE SNSpace * k <= U32 - SNSpace
  <2>1. SNSpace * (k + 1) <= SNSpace * Cycles
    BY <1>1, <1>2, <1>5
  <2>2. SNSpace * Cycles \in Int
    BY <1>1
  <2> QED
    BY <1>1, <1>3, <2>1, <2>2
<1>6. ASSUME SNSpace * k < U32 PROVE k < Cycles
  <2>1. SUFFICES ASSUME Cycles <= k PROVE FALSE
    BY <1>1
  <2>2. SNSpace * Cycles <= SNSpace * k
    BY <1>1, <1>2, <2>1
  <2>3. SNSpace * Cycles \in Int
    BY <1>1
  <2> QED
    BY <1>1, <1>3, <1>6, <2>2, <2>3
<1> QED
  BY <1>3, <1>4, <1>5, <1>6

\* An extended number fits a uint32, and its low half is the sequence number.
LEMMA ExtSNIs ==
    ASSUME NEW sn \in SN, NEW c, WholeCycles(c), NEW e, e = ExtSN(sn, c)
    PROVE  e \in 0 .. U32 - 1 /\ Low16(e) = sn
<1>1. PICK k \in 0 .. Cycles - 1 : c = SNSpace * k
  BY DEF WholeCycles
<1>2. SNSpace \in Nat /\ SNSpace > 0 /\ sn \in 0 .. SNSpace - 1 /\ U32 \in Nat /\ U32 >= 2 * SNSpace
      /\ Cycles \in Nat /\ U32 = SNSpace * Cycles
  BY Constants, CyclesAssumption DEF U32
<1>3. ASSUME NEW j \in 0 .. Cycles - 1, NEW d, d = SNSpace * j
      PROVE  d + sn \in 0 .. U32 - 1 /\ Low16(d + sn) = sn
  <2>1. d \in Int /\ d >= 0 /\ d <= U32 - SNSpace
    BY <1>2, <1>3, Spaces
  <2>2. (d + sn) % SNSpace = sn
    BY <1>2, <1>3, <2>1, ModIs
  <2> QED
    BY <1>2, <2>1, <2>2 DEF Low16
<1>4. PICK j \in 0 .. Cycles - 1 : Sub32(c, SNSpace) = SNSpace * j
  <2>1. CASE k = 0
    <3>1. c = 0
      BY <1>1, <1>2, <2>1
    <3>2. Sub32(c, SNSpace) = U32 - SNSpace
      BY <1>2, <3>1 DEF Sub32
    <3>3. Cycles - 1 \in 0 .. Cycles - 1 /\ SNSpace * (Cycles - 1) = SNSpace * Cycles - SNSpace
      BY <1>2, Spaces, CyclesAssumption
    <3> QED
      BY <1>2, <3>2, <3>3
  <2>2. CASE k # 0
    <3>1. k - 1 \in 0 .. Cycles - 1 /\ SNSpace * (k - 1) = c - SNSpace
      BY <1>1, <1>2, <2>2, Spaces
    <3>2. SNSpace * (k - 1) >= 0 /\ c \in Int
      BY <1>1, <1>2, <3>1, Spaces
    <3>3. Sub32(c, SNSpace) = c - SNSpace
      BY <1>2, <3>1, <3>2 DEF Sub32
    <3> QED
      BY <3>1, <3>3
  <2> QED
    BY <2>1, <2>2
<1>5. e = c + sn \/ e = Sub32(c, SNSpace) + sn
  BY DEF ExtSN
<1>6. c + sn \in 0 .. U32 - 1 /\ Low16(c + sn) = sn
  BY <1>1, <1>3
<1>7. Sub32(c, SNSpace) + sn \in 0 .. U32 - 1 /\ Low16(Sub32(c, SNSpace) + sn) = sn
  BY <1>3, <1>4
<1> QED
  BY <1>5, <1>6, <1>7

\* cycles still counts whole number spaces after a packet.
LEMMA CyclesWhole ==
    ASSUME WholeCycles(cycles), NEW sn
    PROVE  WholeCycles(NextCycles(sn))
<1>1. PICK k \in 0 .. Cycles - 1 : cycles = SNSpace * k
  BY DEF WholeCycles
<1>2. SNSpace \in Nat /\ SNSpace > 0 /\ Cycles \in Nat /\ Cycles > 1 /\ U32 = SNSpace * Cycles
      /\ U32 \in Nat
  BY Constants, CyclesAssumption DEF U32
<1>3. CASE NextCycles(sn) = cycles
  BY <1>1, <1>3 DEF WholeCycles
<1>4. CASE NextCycles(sn) = Add32(cycles, SNSpace)
  <2>1. SNSpace * (k + 1) = cycles + SNSpace /\ cycles \in Int
    BY <1>1, <1>2, Spaces
  <2>2. CASE cycles + SNSpace < U32
    <3>1. k + 1 \in 0 .. Cycles - 1
      BY <1>1, <1>2, <2>1, <2>2, Spaces
    <3>2. NextCycles(sn) = SNSpace * (k + 1)
      BY <1>4, <2>1, <2>2 DEF Add32
    <3> QED
      BY <3>1, <3>2 DEF WholeCycles
  <2>3. CASE ~(cycles + SNSpace < U32)
    <3>1. cycles <= U32 - SNSpace
      BY <1>1, <1>2, Spaces
    <3>2. NextCycles(sn) = 0
      BY <1>2, <1>4, <2>1, <2>3, <3>1 DEF Add32
    <3>3. SNSpace * 0 = 0 /\ 0 \in 0 .. Cycles - 1
      BY <1>2
    <3> QED
      BY <3>2, <3>3 DEF WholeCycles
  <2> QED
    BY <2>2, <2>3
<1> QED
  BY <1>3, <1>4 DEF NextCycles

\* The loop over missing packets yields extended numbers.
LEMMA MissingTyped ==
    ASSUME NEW sn \in SN, maxSeqNo \in SN, WholeCycles(cycles)
    PROVE  /\ Missing(sn) \in Seq(0 .. U32 - 1)
           /\ LET diff == Minus(sn, maxSeqNo)
              IN Len(Missing(sn)) = IF diff = 0 THEN 0 ELSE diff - 1
<1> DEFINE diff == Minus(sn, maxSeqNo)
           m == IF diff = 0 THEN 0 ELSE diff - 1
           cyc == NextCycles(sn)
<1>1. SN = 0 .. SNSpace - 1 /\ SNSpace \in Nat /\ SNSpace > 0 /\ sn \in Nat /\ maxSeqNo \in Nat
  BY Constants
<1>2. diff \in 0 .. SNSpace - 1 /\ m \in Nat /\ m < SNSpace
  BY <1>1 DEF Minus
<1>3. Missing(sn) = [i \in 1 .. m |-> ExtSN(Minus(sn, i), cyc)]
  BY Zenon DEF Missing
<1>4. WholeCycles(cyc)
  BY CyclesWhole
<1> HIDE DEF m, cyc
<1>5. \A i \in 1 .. m : ExtSN(Minus(sn, i), cyc) \in 0 .. U32 - 1
  <2> SUFFICES ASSUME NEW i \in 1 .. m PROVE ExtSN(Minus(sn, i), cyc) \in 0 .. U32 - 1
    OBVIOUS
  <2>1. Minus(sn, i) \in SN
    BY <1>1, <1>2 DEF Minus
  <2> QED
    BY <1>4, <2>1, ExtSNIs
<1>6. Missing(sn) \in Seq(0 .. U32 - 1) /\ Len(Missing(sn)) = m
  <2> DEFINE f == [i \in 1 .. m |-> ExtSN(Minus(sn, i), cyc)]
  <2>1. f \in [1 .. m -> 0 .. U32 - 1]
    BY <1>5
  <2> HIDE DEF f
  <2>2. f \in Seq(0 .. U32 - 1)
    BY <1>2, <2>1, SeqDef
  <2>3. 1 .. Len(f) = 1 .. m /\ Len(f) \in Nat
    BY <2>1, <2>2, LenProperties
  <2>4. Len(f) = m
    BY <1>2, <2>3
  <2> QED
    BY <1>3, <2>2, <2>4 DEF f
<1> QED
  BY <1>6 DEF m

\* The queue keeps its types through the sequence-number part of calc.
LEMMA RequeuedTyped ==
    ASSUME QueueInv, maxSeqNo \in SN, NEW sn \in SN
    PROVE  IsQueue(Requeued(sn))
<1>1. IsQueue(nacks) /\ WholeCycles(cycles) /\ SN \subseteq Int
  BY Constants DEF QueueInv
<1>2. Missing(sn) \in Seq(0 .. U32 - 1)
  BY <1>1, MissingTyped
<1>3. IsQueue(PushAll(nacks, Missing(sn)))
  BY <1>1, <1>2, PushAllFacts
<1>4. IsQueue(NackRemove(nacks, ExtSN(sn, cycles)))
  <2>1. ExtSN(sn, cycles) \in Int
    BY <1>1, Constants, ExtSNIs
  <2> QED
    BY <1>1, <2>1, RemoveFacts
<1> QED
  BY <1>1, <1>3, <1>4, Zenon DEF Requeued

\* What calc does with the queue: it stops early, or pairs is run.
LEMMA NackOutcome ==
    ASSUME NEW pkt, NEW due, Calc(pkt, due), nackOn \in BOOLEAN,
           NEW q, q = Requeued(pkt.sn), NEW newest, newest = cycles' + maxSeqNo'
    PROVE  \/ /\ nacks' = q /\ kfSN' = kfSN /\ feedback'.nack = {}
              /\ nackOn = FALSE \/ out' = <<>>
           \/ /\ nackOn = TRUE
              /\ nacks' = Renacked(q, newest) /\ kfSN' = NextKfSN(q, kfSN)
              /\ feedback'.nack = Requested(NackPairs(q, newest))
<1>1. CASE Rejected(pkt, q) \/ NotForwarded(pkt, q)
  <2>1. nacks' = q /\ kfSN' = kfSN /\ feedback' = NoFeedback /\ out' = <<>>
    BY <1>1, Zenon DEF Rejected, NotForwarded
  <2> QED
    BY <2>1 DEF NoFeedback
<1>2. ASSUME NEW slot, Forwarded(pkt, q, slot, due)
      PROVE  \/ nacks' = q /\ kfSN' = kfSN /\ feedback'.nack = {} /\ nackOn = FALSE
             \/ /\ nackOn = TRUE
                /\ nacks' = Renacked(q, newest) /\ kfSN' = NextKfSN(q, kfSN)
                /\ feedback'.nack = Requested(NackPairs(q, newest))
  <2> DEFINE fb == IF nackOn THEN NackFeedback(q, newest) ELSE [nack |-> {}, pli |-> FALSE]
  <2>1. /\ nacks' = IF nackOn THEN Renacked(q, newest) ELSE q
        /\ kfSN' = IF nackOn THEN NextKfSN(q, kfSN) ELSE kfSN
    BY <1>2, Zenon DEF Forwarded
  <2>2. \E z : feedback' = [nack |-> fb.nack, pli |-> fb.pli, report |-> z]
    BY <1>2, Zenon DEF Forwarded
  <2>3. feedback'.nack = fb.nack
    <3> HIDE DEF fb
    <3> QED
      BY <2>2
  <2>4. fb.nack = IF nackOn THEN Requested(NackPairs(q, newest)) ELSE {}
    BY DEF NackFeedback
  <2> QED
    BY <2>1, <2>3, <2>4
<1>3. Rejected(pkt, q) \/ NotForwarded(pkt, q) \/ \E slot : Forwarded(pkt, q, slot, due)
  BY Zenon DEF Calc
<1> QED
  BY <1>1, <1>2, <1>3

\* The types of the queue are kept by a calc.
LEMMA QueueStep ==
    ASSUME CalcIInv, QueueInv, NEW i \in Idx, NEW kind, NEW due,
           MayArrive(i, top), Calc(Packet(i, kind), due)
    PROVE  QueueInv'
<1> DEFINE sn == SnOf(i)
           q == Requeued(sn)
           newest == cycles' + maxSeqNo'
<1>1. Packet(i, kind).sn = sn
  BY DEF Packet
<1>2. sn \in SN /\ maxSeqNo \in SN /\ nackOn \in BOOLEAN
  BY PacketPlace DEF CalcIInv, HeadTypeOK
<1>3. cycles' = NextCycles(sn)
  BY <1>1, CalcAlways
<1> HIDE DEF sn
<1>4. WholeCycles(cycles')
  BY <1>3, CyclesWhole DEF QueueInv
<1>5. IsQueue(q) /\ kfSN \in 0 .. U32 - 1
  BY <1>2, RequeuedTyped DEF QueueInv
<1>6. \/ nacks' = q /\ kfSN' = kfSN /\ feedback'.nack = {}
      \/ /\ nacks' = Renacked(q, newest) /\ kfSN' = NextKfSN(q, kfSN)
         /\ feedback'.nack = Requested(NackPairs(q, newest))
  BY <1>1, <1>2, NackOutcome
<1> HIDE DEF q, newest
<1>7. IsQueue(Renacked(q, newest))
  <2>1. KeptUpTo(q, newest, Renacked(q, newest), Len(q))
    BY <1>5, RenackedFacts
  <2> QED
    BY <2>1, Zenon DEF KeptUpTo, IsQueue
<1>8. NextKfSN(q, kfSN) \in 0 .. U32 - 1
  BY <1>5, KfFacts
<1>9. Requested(NackPairs(q, newest)) \subseteq SN
  BY <1>5, PairsFacts
<1>10. IsQueue(nacks') /\ kfSN' \in 0 .. U32 - 1 /\ feedback'.nack \subseteq SN
  BY <1>5, <1>6, <1>7, <1>8, <1>9
<1>11. QueueInv' <=> /\ IsQueue(nacks') /\ kfSN' \in 0 .. U32 - 1
                     /\ WholeCycles(cycles') /\ feedback'.nack \subseteq SN
  BY DEF QueueInv, IsQueue, Sorted, WholeCycles, U32, SN, SNSpace, Entry
<1> QED
  BY <1>4, <1>10, <1>11

\* The queue keeps its types.
LEMMA QueueNextInv == CalcIInv /\ QueueInv /\ [CalcNext]_calcVars => QueueInv'
<1> SUFFICES ASSUME CalcIInv, QueueInv, [CalcNext]_calcVars PROVE QueueInv'
  OBVIOUS
<1>1. CASE CalcNext
  <2>1. PICK i \in Idx, kind \in Kinds, due \in DueChoices :
           MayArrive(i, top) /\ Calc(Packet(i, kind), due)
    BY <1>1 DEF CalcNext
  <2> QED
    BY <2>1, QueueStep
<1>2. CASE UNCHANGED calcVars
  <2>1. nacks' = nacks /\ kfSN' = kfSN /\ cycles' = cycles /\ feedback' = feedback
    BY <1>2 DEF calcVars, codeVars, nackVars
  <2> QED
    BY <2>1 DEF QueueInv, IsQueue, Sorted, WholeCycles
<1> QED
  BY <1>1, <1>2

LEMMA QueueInvariant == CalcSpec => []QueueInv
<1>1. CalcInit => QueueInv
  <2> SUFFICES ASSUME CalcInit PROVE QueueInv
    OBVIOUS
  <2>1. nacks = <<>> /\ kfSN = 0 /\ cycles = 0 /\ feedback.nack = {}
    BY DEF CalcInit, NoFeedback
  <2>2. <<>> \in Seq(Entry) /\ DOMAIN <<>> = {}
    OBVIOUS
  <2>3. IsQueue(nacks)
    BY <2>1, <2>2 DEF IsQueue, Sorted
  <2>4. SNSpace * 0 = 0 /\ 0 \in 0 .. Cycles - 1 /\ 0 \in 0 .. U32 - 1
    BY Constants, CyclesAssumption
  <2> QED
    BY <2>1, <2>3, <2>4 DEF QueueInv, WholeCycles
<1> QED
  BY <1>1, CalcInvariant, QueueNextInv, PTL DEF CalcSpec

\* Every variable of calc keeps the range its Go type and the ring give it, and the
\* queue of missing packets the order sort.Search needs, also at its limit.
THEOREM CalcTypesKept == CalcSpec => []CalcTypeOK
<1>1. CalcIInv /\ QueueInv => CalcTypeOK
  <2> SUFFICES ASSUME CalcIInv, QueueInv PROVE CalcTypeOK
    OBVIOUS
  <2>1. /\ \A k \in DOMAIN nacks : nacks[k].sn \in 0 .. U32 - 1
                                   /\ nacks[k].nacked \in 0 .. MaxNackTimes
    <3>1. \A k \in DOMAIN nacks : nacks[k] \in Entry
      BY QueueParts DEF QueueInv, IsQueue
    <3> QED
      BY <3>1 DEF Entry
  <2>2. \A i, j \in DOMAIN nacks : i < j => nacks[i].sn <= nacks[j].sn
    BY DEF QueueInv, IsQueue, Sorted
  <2>3. cycles % SNSpace = 0
    <3>1. PICK k \in 0 .. Cycles - 1 : cycles = SNSpace * k
      BY DEF QueueInv, WholeCycles
    <3>2. SNSpace \in Nat /\ SNSpace > 0 /\ 0 \in 0 .. SNSpace - 1 /\ cycles \in Int
          /\ cycles = SNSpace * k + 0
      BY <3>1, Constants, Spaces
    <3> QED
      BY <3>2, ModIs
  <2> QED
    BY <2>1, <2>2, <2>3 DEF CalcTypeOK, NackTypeOK, QueueInv, CalcIInv
<1> QED
  BY <1>1, CalcInvariant, QueueInvariant, PTL

-----------------------------------------------------------------------------
(* The losses and their entries                                            *)

\* Every entry of q stands for a loss in L that is not in A, or a misfiled one in M
OnlyMissing(q, L, A, M) ==
    \A k \in DOMAIN q : \/ \E i \in (L \ A) \ M : q[k].sn = Ext(i)
                        \/ \E i \in M : Low16(q[k].sn) = SnOf(i)

\* Every loss in L that is not in A or M has its entry in q, or kf has reached it
Waiting(q, kf, L, A, M) ==
    \A i \in (L \ A) \ M : (\E k \in DOMAIN q : q[k].sn = Ext(i)) \/ kf >= Ext(i)

LossInv ==
    /\ lost \subseteq Idx /\ misfiled \subseteq lost /\ overflowed \in BOOLEAN
    /\ First \/ nackOn = FALSE => lost = {} /\ nacks = <<>>
    /\ \A i \in arrived : i \in Idx /\ i <= head
    /\ \A i \in lost : anchor < i /\ i < head
    /\ overflowed = FALSE =>
          /\ Strict(nacks)
          /\ OnlyMissing(nacks, lost, arrived, misfiled)
          /\ Waiting(nacks, kfSN, lost, arrived, misfiled)

\* Extended numbers in order, and their low halves.
LEMMA ExtIs ==
    ASSUME CalcIInv, NEW i \in Idx
    PROVE  /\ Ext(i) \in Int /\ Low16(Ext(i)) = SnOf(i) /\ SnOf(i) \in SN
           /\ i > anchor => Ext(i) > 0
           /\ \A j \in Idx : (Ext(i) = Ext(j) => i = j) /\ (Ext(i) < Ext(j) <=> i < j)
                             /\ Ext(j) - Ext(i) = j - i
<1>1. /\ origin \in Nat /\ anchor \in Nat /\ i \in Nat /\ Idx \subseteq Nat
      /\ SNSpace \in Nat /\ SNSpace > 0 /\ SN = 0 .. SNSpace - 1
  BY Constants DEF CalcIInv
<1> DEFINE a == SnOf(anchor)
<1>2. a \in 0 .. SNSpace - 1 /\ SnOf(i) \in SN
  BY <1>1, ModDef DEF SnOf
<1>3. Ext(i) = a + i - anchor /\ \A j \in Idx : Ext(j) = a + j - anchor
  BY DEF Ext
<1>4. Low16(Ext(i)) = SnOf(i)
  <2>1. PICK k \in Int : origin + anchor = SNSpace * k + a
    <3>1. origin + anchor \in Int
      BY <1>1
    <3> QED
      BY <1>1, <3>1, ModDef DEF SnOf
  <2>2. PICK m \in Int : origin + i = SNSpace * m + SnOf(i)
    <3>1. origin + i \in Int
      BY <1>1
    <3> QED
      BY <1>1, <3>1, ModDef DEF SnOf
  <2> HIDE DEF a
  <2>3. SNSpace * (m - k) = SNSpace * m - SNSpace * k /\ SNSpace * m \in Int /\ SNSpace * k \in Int
    BY <1>1
  <2>4. SnOf(i) \in 0 .. SNSpace - 1
    BY <1>1, <1>2
  <2>5. Ext(i) \in Int /\ m - k \in Int /\ Ext(i) = SNSpace * (m - k) + SnOf(i)
    <3>1. ASSUME NEW x \in Int, NEW y \in Int, NEW s \in Int, NEW b \in Int,
                 origin + anchor = y + b, origin + i = x + s
          PROVE  b + i - anchor = x - y + s
      BY <1>1, <3>1
    <3>2. SnOf(i) \in Int /\ a \in Int
      BY <1>1, <1>2, <2>4
    <3>3. a + i - anchor = SNSpace * m - SNSpace * k + SnOf(i)
      <4> DEFINE x == SNSpace * m
                 y == SNSpace * k
                 s == SnOf(i)
      <4>1. x \in Int /\ y \in Int /\ s \in Int /\ origin + anchor = y + a /\ origin + i = x + s
        BY <2>1, <2>2, <2>3, <3>2
      <4> HIDE DEF x, y, s
      <4>2. a + i - anchor = x - y + s
        BY <3>1, <3>2, <4>1
      <4> QED
        BY <4>2 DEF x, y, s
    <3> QED
      BY <1>1, <1>3, <2>3, <3>2, <3>3
  <2> QED
    BY <1>1, <2>4, <2>5, ModIs DEF Low16
<1> HIDE DEF a
<1> QED
  BY <1>1, <1>2, <1>3, <1>4

\* The packets the head skips, and the numbers they are queued under.
LEMMA SkippedIs ==
    ASSUME CalcIInv, ~First, NEW i \in Idx, MayArrive(i, top), i >= head,
           WholeCycles(cycles), NEW es, es = Missing(SnOf(i)), NEW S, S = head + 1 .. i - 1
    PROVE  /\ es \in Seq(0 .. U32 - 1) /\ Len(es) = Cardinality(S) /\ S \subseteq Idx
           /\ Firsts(es, Len(es)) = {ExtSN(SnOf(j), NextCycles(SnOf(i))) : j \in S}
<1> DEFINE sn == SnOf(i)
           d == i - head
           m == IF d = 0 THEN 0 ELSE d - 1
<1>1. /\ sn \in SN /\ maxSeqNo \in SN /\ Minus(sn, maxSeqNo) = d /\ i <= head + Late + Jump
      /\ maxSeqNo = SnOf(head) /\ head \in Nat /\ i \in Nat /\ i <= MaxIdx /\ origin \in SN
  <2>1. bucket.init = TRUE
    BY NewestOrLate
  <2>2. head \in Nat /\ i \in Nat /\ i <= MaxIdx /\ origin \in SN /\ maxSeqNo \in SN
        /\ maxSeqNo = SnOf(head)
    BY <2>1, Constants DEF CalcIInv, HeadTypeOK, HeadFollowed
  <2> QED
    BY <2>1, <2>2, PacketPlace
<1>2. es \in Seq(0 .. U32 - 1) /\ Len(es) = m
  BY <1>1, MissingTyped
<1>3. Cardinality(S) = m
  <2>1. head + 1 \in Int /\ i - 1 \in Int
    BY <1>1
  <2>2. Cardinality(S) = IF head + 1 > i - 1 THEN 0 ELSE (i - 1) - (head + 1) + 1
    BY <2>1, FS_Interval
  <2> QED
    BY <1>1, <2>2
<1>4. d \in Nat /\ m \in Nat /\ d < SNSpace
  BY <1>1, Constants
<1>5. ASSUME NEW k \in 1 .. m
      PROVE  i - k \in S /\ es[k] = ExtSN(SnOf(i - k), NextCycles(sn))
  <2>1. i - k \in S /\ k <= i /\ k < SNSpace /\ k \in Nat /\ k # 0
    <3>1. k \in Nat /\ k # 0 /\ k <= d - 1
      BY <1>4
    <3>2. i - k \in head + 1 .. i - 1 /\ k <= i /\ k < SNSpace
      BY <1>1, <1>4, <3>1, Constants
    <3> QED
      BY <3>1, <3>2
  <2>2. Minus(sn, k) = SnOf(i - k)
    <3>1. i - k \in Nat /\ i - k <= i /\ i - (i - k) = k
      BY <1>1, <2>1
    <3>2. SnOf(i - k) \in SN /\ sn = Plus(SnOf(i - k), k)
      BY <1>1, <2>1, <3>1, SnDistance
    <3>3. SnOf(i - k) \in 0 .. SNSpace - 1 /\ SNSpace \in Nat
      BY <3>2, Constants
    <3> HIDE DEF sn
    <3> QED
      BY <2>1, <3>2, <3>3 DEF Plus, Minus
  <2>3. es = [j \in 1 .. m |-> ExtSN(Minus(sn, j), NextCycles(sn))]
    BY <1>1 DEF Missing
  <2> QED
    BY <2>1, <2>2, <2>3
<1>6. \A j \in S : i - j \in 1 .. m /\ i - (i - j) = j
  BY <1>1
<1>7. S \subseteq Idx
  BY <1>1, Constants
<1> HIDE DEF m, sn
<1>8. Firsts(es, m) = {ExtSN(SnOf(j), NextCycles(sn)) : j \in S}
  <2>1. ASSUME NEW x PROVE x \in Firsts(es, m) <=> \E k \in 1 .. m : x = es[k]
    BY DEF Firsts
  <2>2. \A k \in 1 .. m : \E j \in S : es[k] = ExtSN(SnOf(j), NextCycles(sn))
    BY <1>5
  <2>3. \A j \in S : \E k \in 1 .. m : es[k] = ExtSN(SnOf(j), NextCycles(sn))
    BY <1>5, <1>6
  <2> QED
    BY <2>1, <2>2, <2>3
<1> QED
  BY <1>2, <1>3, <1>7, <1>8 DEF sn

\* The packets a calc skips, and those of them it misfiles
Skipped(i) == IF nackOn = TRUE /\ i >= head THEN head + 1 .. i - 1 ELSE {}
Misfiled(i) == {j \in Skipped(i) : ExtSN(SnOf(j), NextCycles(SnOf(i))) # Ext(j)}

\* What calc adds to the history of the losses, for packet i with number sn
Passed(sn, i) == IF nackOn /\ Ahead(sn) THEN head + 1 .. i - 1 ELSE {}
Noted(sn, i, gone) ==
    /\ lost' = lost \cup gone
    /\ misfiled' = misfiled \cup {j \in gone : ExtSN(SnOf(j), NextCycles(sn)) # Ext(j)}
    /\ overflowed' = (overflowed \/ Len(nacks) + Cardinality(gone) >= MaxNackCache)
    /\ arrived' = (IF First THEN {} ELSE arrived) \cup {i}

LEMMA CalcLosses ==
    ASSUME NEW pkt, NEW due, Calc(pkt, due)
    PROVE  Noted(pkt.sn, pkt.idx, Passed(pkt.sn, pkt.idx))
<1>1. PICK q, add : Remember(pkt, q, add)
  BY Zenon DEF Calc
<1> DEFINE gone == IF nackOn /\ Ahead(pkt.sn) THEN head + 1 .. pkt.idx - 1 ELSE {}
<1>2. lost' = lost \cup gone
  BY <1>1 DEF Remember
<1>3. misfiled' = misfiled \cup {j \in gone : ExtSN(SnOf(j), NextCycles(pkt.sn)) # Ext(j)}
  BY <1>1, Zenon DEF Remember
<1>4. overflowed' = (overflowed \/ Len(nacks) + Cardinality(gone) >= MaxNackCache)
  BY <1>1, Zenon DEF Remember
<1>5. arrived' = (IF First THEN {} ELSE arrived) \cup {pkt.idx}
  BY <1>1 DEF Remember
<1>6. gone = Passed(pkt.sn, pkt.idx)
  BY Zenon DEF Passed
<1> HIDE DEF gone
<1> QED
  BY <1>2, <1>3, <1>4, <1>5, <1>6, Zenon DEF Noted

\* The history of the losses after a calc that is not the first.
LEMMA LossBook ==
    ASSUME CalcIInv, ~First, NEW i \in Idx, NEW kind, NEW due,
           MayArrive(i, top), Calc(Packet(i, kind), due)
    PROVE  /\ lost' = lost \cup Skipped(i) /\ misfiled' = misfiled \cup Misfiled(i)
           /\ overflowed' = (overflowed \/ Len(nacks) + Cardinality(Skipped(i)) >= MaxNackCache)
           /\ arrived' = arrived \cup {i} /\ head' = (IF i >= head THEN i ELSE head)
           /\ anchor' = anchor /\ origin' = origin /\ nackOn' = nackOn
           /\ packetCount' # 0
           /\ \A j : Ext(j)' = Ext(j) /\ SnOf(j)' = SnOf(j)
<1> DEFINE sn == SnOf(i)
           skipped == IF nackOn /\ Ahead(sn) THEN head + 1 .. i - 1 ELSE {}
<1>1. Packet(i, kind).sn = sn /\ Packet(i, kind).idx = i
  BY DEF Packet
<1>2. /\ i >= head => Ahead(sn)
      /\ i < head => ~Ahead(sn)
      /\ head \in Nat /\ i \in Nat /\ nackOn \in BOOLEAN /\ packetCount \in Nat
  <2>1. head \in Nat /\ i \in Nat /\ nackOn \in BOOLEAN /\ packetCount \in Nat
    BY Constants DEF CalcIInv, HeadTypeOK
  <2> QED
    BY <2>1, NewestOrLate
<1>3. /\ origin' = origin /\ nackOn' = nackOn /\ packetCount' \in {packetCount, packetCount + 1}
      /\ head' = (IF Ahead(sn) THEN i ELSE head) /\ anchor' = anchor
  BY <1>1, CalcAlways
<1>4. Noted(sn, i, skipped)
  <2>1. skipped = Passed(sn, i)
    BY DEF Passed
  <2>2. Noted(Packet(i, kind).sn, Packet(i, kind).idx, Passed(Packet(i, kind).sn, Packet(i, kind).idx))
    BY CalcLosses
  <2> HIDE DEF skipped, sn
  <2> QED
    BY <1>1, <2>1, <2>2
<1>5. skipped = Skipped(i)
  BY <1>2 DEF Skipped
<1>6. packetCount' # 0
  <2>1. packetCount \in Nat /\ packetCount # 0 /\ packetCount' \in {packetCount, packetCount + 1}
    BY <1>2, <1>3 DEF First
  <2> QED
    BY <2>1
<1>7. \A j : Ext(j)' = Ext(j) /\ SnOf(j)' = SnOf(j)
  BY <1>3 DEF Ext, SnOf
<1>8. head' = (IF i >= head THEN i ELSE head)
  BY <1>2, <1>3
<1> HIDE DEF skipped
<1>9. /\ lost' = lost \cup Skipped(i) /\ misfiled' = misfiled \cup Misfiled(i)
      /\ overflowed' = (overflowed \/ Len(nacks) + Cardinality(Skipped(i)) >= MaxNackCache)
      /\ arrived' = arrived \cup {i}
  <2>1. Noted(sn, i, Skipped(i))
    BY <1>4, <1>5
  <2>2. Misfiled(i) = {j \in Skipped(i) : ExtSN(SnOf(j), NextCycles(sn)) # Ext(j)}
    BY Zenon DEF Misfiled
  <2> HIDE DEF sn
  <2> QED
    BY <2>1, <2>2, Zenon DEF Noted
<1> QED
  BY <1>3, <1>6, <1>7, <1>8, <1>9

\* The number calc removes for a late packet: its own, or one that no loss has.
LEMMA LateNumber ==
    ASSUME CalcIInv, LossInv, WholeCycles(cycles), ~First, NEW i \in Idx, MayArrive(i, top),
           i < head, NEW e, e = ExtSN(SnOf(i), cycles)
    PROVE  /\ e \in Int
           /\ i \in lost => e = Ext(i)
           /\ \A j \in lost : e = Ext(j) => j = i
<1> DEFINE sn == SnOf(i)
<1>1. /\ sn \in SN /\ maxSeqNo \in SN /\ Minus(maxSeqNo, sn) = head - i /\ head - i <= Late
      /\ head \in Nat /\ i \in Nat /\ cycles \in 0 .. U32 - 1
      /\ cycles + maxSeqNo = Ext(head) /\ head \in Idx
  <2>1. bucket.init = TRUE
    BY NewestOrLate
  <2>2. SnOf(i) \in SN /\ head - Late <= i /\ Minus(maxSeqNo, SnOf(i)) = head - i
    BY <2>1, PacketPlace
  <2>3. /\ maxSeqNo \in SN /\ head \in Nat /\ i \in Nat /\ cycles \in 0 .. U32 - 1
        /\ cycles + maxSeqNo = Ext(head) /\ head \in Idx
    BY <2>1, Constants DEF CalcIInv, HeadTypeOK, HeadFollowed
  <2>4. head - i <= Late
    BY <2>2, <2>3, Constants
  <2> QED
    BY <2>2, <2>3, <2>4
<1>2. /\ Half \in Nat /\ SNSpace = 2 * Half /\ SN = 0 .. SNSpace - 1 /\ Late \in Nat
      /\ Late < Half /\ U32 \in Nat /\ U32 >= 2 * SNSpace /\ Half > 1
  BY Constants
<1>3. Ext(i) \in Int /\ Ext(head) - Ext(i) = head - i
  BY <1>1, ExtIs
<1>4. \A j \in lost : j \in Idx /\ Ext(j) \in Int /\ Ext(j) > 0 /\ Ext(j) < Ext(head)
                      /\ (Ext(j) = Ext(i) => j = i)
  <2> SUFFICES ASSUME NEW j \in lost
               PROVE  /\ j \in Idx /\ Ext(j) \in Int /\ Ext(j) > 0 /\ Ext(j) < Ext(head)
                      /\ (Ext(j) = Ext(i) => j = i)
    OBVIOUS
  <2>1. j \in Idx /\ anchor < j /\ j < head /\ anchor \in Idx /\ Idx \subseteq Nat
    BY Constants DEF LossInv, CalcIInv
  <2>2. Ext(j) \in Int /\ Ext(j) > 0 /\ \A k \in Idx : (Ext(j) = Ext(k) => j = k)
                                                     /\ (Ext(j) < Ext(k) <=> j < k)
    BY <2>1, ExtIs
  <2> QED
    BY <1>1, <2>1, <2>2
<1>5. e \in 0 .. U32 - 1
  BY <1>1, ExtSNIs
<1>6. sn \in Nat /\ maxSeqNo \in Nat /\ cycles \in Nat
      /\ (maxSeqNo - sn = head - i \/ sn = maxSeqNo - (head - i) + SNSpace)
      /\ (maxSeqNo >= sn => sn = maxSeqNo - (head - i))
      /\ (maxSeqNo < sn => sn = maxSeqNo - (head - i) + SNSpace)
  BY <1>1, <1>2 DEF Minus
<1> HIDE DEF sn
<1>7. CASE maxSeqNo >= sn
  <2>1. e = cycles + sn
    BY <1>6, <1>7 DEF ExtSN, sn
  <2>2. e = Ext(i)
    BY <1>1, <1>3, <1>6, <1>7, <2>1
  <2> QED
    BY <1>4, <1>5, <2>2
<1>8. CASE ~(maxSeqNo >= sn)
  <2>1. TopBit(sn) /\ ~TopBit(maxSeqNo) /\ sn > maxSeqNo
    BY <1>1, <1>2, <1>6, <1>8 DEF TopBit
  <2>2. e = Sub32(cycles, SNSpace) + sn
    BY <2>1 DEF ExtSN, sn
  <2>3. CASE cycles >= SNSpace
    <3>1. e = Ext(i)
      BY <1>1, <1>2, <1>3, <1>6, <1>8, <2>2, <2>3 DEF Sub32
    <3> QED
      BY <1>4, <1>5, <3>1
  <2>4. CASE ~(cycles >= SNSpace)
    <3>1. cycles = 0
      <4>1. PICK k \in 0 .. Cycles - 1 : cycles = SNSpace * k
        BY DEF WholeCycles
      <4>2. k = 0
        <5>1. SUFFICES ASSUME k >= 1 PROVE FALSE
          BY CyclesAssumption
        <5>2. k - 1 \in Int /\ k - 1 >= 0
          BY <5>1
        <5>3. SNSpace * (k - 1) >= 0 /\ SNSpace * ((k - 1) + 1) = SNSpace * (k - 1) + SNSpace
              /\ SNSpace * (k - 1) \in Int
          BY <5>2, Spaces
        <5>4. (k - 1) + 1 = k
          OBVIOUS
        <5> QED
          BY <1>2, <1>6, <2>4, <4>1, <5>3, <5>4
      <4> QED
        BY <1>2, <4>1, <4>2
    <3>2. e = U32 - SNSpace + sn
      BY <1>2, <2>2, <3>1 DEF Sub32
    <3>3. e > Ext(head)
      BY <1>1, <1>2, <1>6, <3>1, <3>2
    <3>4. Ext(i) < 0
      BY <1>1, <1>2, <1>3, <1>6, <1>8, <3>1
    <3>5. Ext(head) \in Int
      BY <1>1, <1>6
    <3>6. \A j \in lost : e # Ext(j) /\ j # i
      BY <1>4, <1>5, <3>3, <3>4, <3>5
    <3> QED
      BY <1>5, <3>6
  <2> QED
    BY <2>3, <2>4
<1> QED
  BY <1>7, <1>8

\* Of the losses L, only j has j's sequence number
OnlyOf(j, L) == \A i \in L : SnOf(i) = SnOf(j) => i = j

\* j's entry in q comes from the queue before, or is new with j
EntryFrom(q, j) ==
    \A k \in DOMAIN q : q[k].sn = Ext(j) =>
        \/ \E m \in DOMAIN nacks : q[k] = nacks[m]
        \/ q[k].nacked = 0 /\ j \notin lost

NoEntry(q, j) == \A k \in DOMAIN q : q[k].sn # Ext(j)

\* The queue between the sequence-number part of a calc and its NACK round, after
\* which L is lost, A has arrived and M is misfiled
QueueNow(q, L, A, M) ==
    /\ IsQueue(q) /\ Strict(q) /\ OnlyMissing(q, L, A, M) /\ Waiting(q, kfSN, L, A, M)
    /\ \A j \in L \ M : OnlyOf(j, L) =>
          /\ EntryFrom(q, j)
          /\ j \notin A /\ NoEntry(q, j) => j \in lost /\ j \notin arrived /\ NoEntry(nacks, j)

\* The number a skipped packet is queued under: its own, or of the same low half.
LEMMA SkippedNumber ==
    ASSUME CalcIInv, WholeCycles(cycles), nackOn = TRUE, NEW i \in Idx, i >= head,
           NEW j \in Skipped(i), j \in Idx, NEW e, e = ExtSN(SnOf(j), NextCycles(SnOf(i)))
    PROVE  /\ j \notin Misfiled(i) => e = Ext(j)
           /\ Low16(e) = SnOf(j)
<1>1. WholeCycles(NextCycles(SnOf(i))) /\ SnOf(j) \in SN
  BY CyclesWhole, ExtIs
<1>2. Low16(e) = SnOf(j)
  BY <1>1, ExtSNIs
<1> QED
  BY <1>2 DEF Misfiled

\* What calc does to the queue before the NACK round.
LEMMA RequeuedCases ==
    ASSUME CalcIInv, ~First, nackOn = TRUE, NEW i \in Idx, MayArrive(i, top)
    PROVE  /\ i >= head => Requeued(SnOf(i)) = PushAll(nacks, Missing(SnOf(i)))
           /\ i < head => Requeued(SnOf(i)) = NackRemove(nacks, ExtSN(SnOf(i), cycles))
<1>1. /\ i >= head => Ahead(SnOf(i))
      /\ i < head => ~Ahead(SnOf(i))
  BY NewestOrLate
<1>2. ASSUME i >= head PROVE Requeued(SnOf(i)) = PushAll(nacks, Missing(SnOf(i)))
  <2>1. Ahead(SnOf(i)) /\ ~Behind(SnOf(i))
    BY <1>1, <1>2 DEF Ahead, Behind
  <2> QED
    BY <2>1 DEF Requeued
<1>3. ASSUME i < head PROVE Requeued(SnOf(i)) = NackRemove(nacks, ExtSN(SnOf(i), cycles))
  <2>1. ~Ahead(SnOf(i)) /\ Behind(SnOf(i))
    BY <1>1, <1>3 DEF Ahead, Behind
  <2> QED
    BY <2>1 DEF Requeued
<1> QED
  BY <1>2, <1>3

\* The queue after packets were skipped.
LEMMA AheadLoss ==
    ASSUME CalcIInv, QueueInv, LossInv, overflowed = FALSE, ~First, nackOn = TRUE,
           NEW i \in Idx, MayArrive(i, top), i >= head,
           Len(nacks) + Cardinality(Skipped(i)) < MaxNackCache,
           NEW q, q = Requeued(SnOf(i)), NEW L, L = lost \cup Skipped(i),
           NEW A, A = arrived \cup {i}, NEW M, M = misfiled \cup Misfiled(i)
    PROVE  QueueNow(q, L, A, M)
<1> DEFINE S == head + 1 .. i - 1
           es == Missing(SnOf(i))
           F == Firsts(es, Len(es))
<1>1. Skipped(i) = S /\ Misfiled(i) \subseteq S
  BY DEF Skipped, Misfiled
<1>2. /\ es \in Seq(0 .. U32 - 1) /\ Len(es) = Cardinality(S) /\ S \subseteq Idx
      /\ F = {ExtSN(SnOf(j), NextCycles(SnOf(i))) : j \in S}
  BY SkippedIs DEF QueueInv
<1>3. IsQueue(q) /\ Strict(q) /\ Grown(nacks, q, F)
  <2>1. q = PushAll(nacks, es) /\ IsQueue(nacks) /\ Strict(nacks)
        /\ Len(nacks) + Len(es) < MaxNackCache
    BY <1>1, <1>2, RequeuedCases DEF QueueInv, LossInv
  <2> HIDE DEF es
  <2> QED
    BY <1>2, <2>1, PushAllFacts
<1> DEFINE Num(j) == ExtSN(SnOf(j), NextCycles(SnOf(i)))
<1>4. \A j \in S : /\ j \in Idx /\ Num(j) \in F /\ Low16(Num(j)) = SnOf(j)
                   /\ j \notin Misfiled(i) => Num(j) = Ext(j)
  <2> SUFFICES ASSUME NEW j \in S
               PROVE  /\ j \in Idx /\ Num(j) \in F /\ Low16(Num(j)) = SnOf(j)
                      /\ j \notin Misfiled(i) => Num(j) = Ext(j)
    OBVIOUS
  <2>1. j \in Idx /\ j \in Skipped(i) /\ WholeCycles(cycles)
    BY <1>1, <1>2 DEF QueueInv
  <2>2. Num(j) \in F
    BY <1>2
  <2> QED
    BY <2>1, <2>2, SkippedNumber
<1>5. \A x \in F : \E j \in S : x = Num(j)
  BY <1>2
<1>6. /\ \A j \in S : j \notin lost /\ j \notin arrived /\ j \notin misfiled /\ j # i /\ j \in Idx
      /\ \A j \in lost : j \in Idx /\ j # i /\ j \notin S
      /\ misfiled \subseteq lost /\ S \cap lost = {} /\ head \in Nat /\ i \in Nat
  <2>1. head \in Nat /\ i \in Nat /\ Idx \subseteq Nat
    BY Constants DEF CalcIInv
  <2>2. /\ \A j \in S : j \in Idx /\ j > head /\ j < i /\ j \in Nat
        /\ \A j \in lost : j \in Idx /\ j < head /\ j \in Nat
        /\ \A j \in arrived : j \in Nat /\ j <= head
        /\ misfiled \subseteq lost
    <3>1. \A j \in S : j \in Idx /\ j > head /\ j < i /\ j \in Nat
      BY <1>2, <2>1
    <3>2. \A j \in lost : j \in Idx /\ j < head /\ j \in Nat
      BY <2>1, Zenon DEF LossInv
    <3>3. \A j \in arrived : j \in Nat /\ j <= head
      BY <2>1, Zenon DEF LossInv
    <3>4. misfiled \subseteq lost
      BY DEF LossInv
    <3> QED
      BY <3>1, <3>2, <3>3, <3>4
  <2> QED
    BY <2>1, <2>2
<1> HIDE DEF S, es, F, Num
<1>7. OnlyMissing(q, L, A, M)
  <2> SUFFICES ASSUME NEW k \in DOMAIN q
               PROVE  \/ \E j \in (L \ A) \ M : q[k].sn = Ext(j)
                      \/ \E j \in M : Low16(q[k].sn) = SnOf(j)
    BY DEF OnlyMissing
  <2>1. CASE q[k].sn \in F
    <3>1. PICK j \in S : q[k].sn = Num(j)
      BY <1>5, <2>1
    <3>2. CASE j \in Misfiled(i)
      BY <1>4, <3>1, <3>2
    <3>3. CASE j \notin Misfiled(i)
      BY <1>1, <1>4, <1>6, <3>1, <3>3
    <3> QED
      BY <3>2, <3>3
  <2>2. CASE \E m \in DOMAIN nacks : q[k] = nacks[m]
    <3>1. PICK m \in DOMAIN nacks : q[k] = nacks[m]
      BY <2>2
    <3>2. \/ \E j \in (lost \ arrived) \ misfiled : nacks[m].sn = Ext(j)
          \/ \E j \in misfiled : Low16(nacks[m].sn) = SnOf(j)
      BY DEF LossInv, OnlyMissing
    <3>3. \A j \in (lost \ arrived) \ misfiled : j \in (L \ A) \ M
      BY <1>1, <1>6
    <3> QED
      BY <3>1, <3>2, <3>3
  <2> QED
    BY <1>3, <2>1, <2>2 DEF Grown
<1>8. \A j \in S \ Misfiled(i) : \E k \in DOMAIN q : q[k].sn = Ext(j)
  BY <1>3, <1>4 DEF Grown
<1>9. \A m \in DOMAIN nacks : \E k \in DOMAIN q : q[k] = nacks[m]
  BY <1>3 DEF Grown
<1>10. Waiting(q, kfSN, L, A, M)
  <2> SUFFICES ASSUME NEW j \in (L \ A) \ M
               PROVE  (\E k \in DOMAIN q : q[k].sn = Ext(j)) \/ kfSN >= Ext(j)
    BY DEF Waiting
  <2>1. CASE j \in S
    BY <1>8, <2>1
  <2>2. CASE j \notin S
    <3>1. j \in (lost \ arrived) \ misfiled
      BY <1>1, <2>2
    <3>2. (\E m \in DOMAIN nacks : nacks[m].sn = Ext(j)) \/ kfSN >= Ext(j)
      BY <3>1 DEF LossInv, Waiting
    <3> QED
      BY <1>9, <3>2
  <2> QED
    BY <2>1, <2>2
<1>11. ASSUME NEW j \in L \ M, OnlyOf(j, L)
       PROVE  /\ EntryFrom(q, j)
              /\ j \notin A /\ NoEntry(q, j) => j \in lost /\ j \notin arrived /\ NoEntry(nacks, j)
  <2>1. EntryFrom(q, j)
    <3> SUFFICES ASSUME NEW k \in DOMAIN q, q[k].sn = Ext(j)
                 PROVE  \/ \E m \in DOMAIN nacks : q[k] = nacks[m]
                        \/ q[k].nacked = 0 /\ j \notin lost
      BY DEF EntryFrom
    <3>1. CASE q[k].sn \in F /\ q[k].nacked = 0
      <4>1. PICK s \in S : q[k].sn = Num(s)
        BY <1>5, <3>1
      <4>2. j \in Idx /\ s \in L
        BY <1>1, <1>4, <1>6
      <4>3. Low16(Ext(j)) = SnOf(j) /\ Low16(Num(s)) = SnOf(s)
        BY <1>4, <4>2, ExtIs
      <4>4. s = j
        BY <4>1, <4>2, <4>3, <1>11 DEF OnlyOf
      <4> QED
        BY <1>6, <3>1, <4>4
    <3> QED
      BY <1>3, <3>1 DEF Grown
  <2>2. ASSUME j \notin A, NoEntry(q, j)
        PROVE  j \in lost /\ j \notin arrived /\ NoEntry(nacks, j)
    <3>1. j \notin S
      BY <1>8, <2>2 DEF NoEntry
    <3> QED
      BY <1>1, <1>9, <2>2, <3>1 DEF NoEntry
  <2> QED
    BY <2>1, <2>2
<1> QED
  BY <1>3, <1>7, <1>10, <1>11 DEF QueueNow

\* The queue after a late packet.
LEMMA LateLoss ==
    ASSUME CalcIInv, QueueInv, LossInv, overflowed = FALSE, ~First, nackOn = TRUE,
           NEW i \in Idx, MayArrive(i, top), i < head,
           NEW q, q = Requeued(SnOf(i)), NEW A, A = arrived \cup {i}
    PROVE  QueueNow(q, lost, A, misfiled)
<1> DEFINE e == ExtSN(SnOf(i), cycles)
<1>1. e \in Int /\ (i \in lost => e = Ext(i)) /\ \A j \in lost : e = Ext(j) => j = i
  <2>1. WholeCycles(cycles)
    BY DEF QueueInv
  <2> QED
    BY <2>1, LateNumber
<1>2. IsQueue(q) /\ Strict(q) /\ Without(nacks, q, e)
  <2>1. q = NackRemove(nacks, e) /\ IsQueue(nacks) /\ Strict(nacks)
    BY RequeuedCases DEF QueueInv, LossInv
  <2> HIDE DEF e
  <2> QED
    BY <1>1, <2>1, RemoveFacts
<1> HIDE DEF e
<1>3. /\ \A k \in DOMAIN q : \E m \in DOMAIN nacks : q[k] = nacks[m]
      /\ \A m \in DOMAIN nacks : nacks[m].sn # e => \E k \in DOMAIN q : q[k] = nacks[m]
      /\ \A k \in DOMAIN q : q[k].sn # e
  BY <1>2 DEF Without
<1>4. OnlyMissing(q, lost, A, misfiled)
  <2> SUFFICES ASSUME NEW k \in DOMAIN q
               PROVE  \/ \E j \in (lost \ A) \ misfiled : q[k].sn = Ext(j)
                      \/ \E j \in misfiled : Low16(q[k].sn) = SnOf(j)
    BY DEF OnlyMissing
  <2>1. PICK m \in DOMAIN nacks : q[k] = nacks[m]
    BY <1>3
  <2>2. \/ \E j \in (lost \ arrived) \ misfiled : nacks[m].sn = Ext(j)
        \/ \E j \in misfiled : Low16(nacks[m].sn) = SnOf(j)
    BY DEF LossInv, OnlyMissing
  <2>3. \A j \in (lost \ arrived) \ misfiled : nacks[m].sn = Ext(j) => j \notin A
    BY <1>1, <1>3, <2>1
  <2> QED
    BY <2>1, <2>2, <2>3
<1>5. ASSUME NEW j \in lost \ A, NEW m \in DOMAIN nacks, nacks[m].sn = Ext(j)
      PROVE  \E k \in DOMAIN q : q[k] = nacks[m]
  BY <1>1, <1>3, <1>5
<1>6. Waiting(q, kfSN, lost, A, misfiled)
  <2> SUFFICES ASSUME NEW j \in (lost \ A) \ misfiled
               PROVE  (\E k \in DOMAIN q : q[k].sn = Ext(j)) \/ kfSN >= Ext(j)
    BY DEF Waiting
  <2>1. (\E m \in DOMAIN nacks : nacks[m].sn = Ext(j)) \/ kfSN >= Ext(j)
    BY DEF LossInv, Waiting
  <2> QED
    BY <1>5, <2>1
<1>7. ASSUME NEW j \in lost \ misfiled
      PROVE  /\ EntryFrom(q, j)
             /\ j \notin A /\ NoEntry(q, j) => j \in lost /\ j \notin arrived /\ NoEntry(nacks, j)
  <2>1. EntryFrom(q, j)
    BY <1>3 DEF EntryFrom
  <2>2. j \notin A /\ NoEntry(q, j) => NoEntry(nacks, j)
    BY <1>5 DEF NoEntry
  <2> QED
    BY <2>1, <2>2
<1> QED
  BY <1>2, <1>4, <1>6, <1>7 DEF QueueNow

\* A NACK round takes no entry out but those it asks a key frame for.
LEMMA RoundLoss ==
    ASSUME CalcIInv, NEW q, NEW L, NEW A, NEW M, QueueNow(q, L, A, M), L \subseteq Idx,
           kfSN \in 0 .. U32 - 1, NEW newest, NEW r, NEW kf,
           \/ r = q /\ kf = kfSN
           \/ r = Renacked(q, newest) /\ kf = NextKfSN(q, kfSN)
    PROVE  /\ Strict(r) /\ OnlyMissing(r, L, A, M) /\ Waiting(r, kf, L, A, M)
<1>1. IsQueue(q) /\ Strict(q) /\ OnlyMissing(q, L, A, M) /\ Waiting(q, kfSN, L, A, M)
  BY Zenon DEF QueueNow
<1>2. CASE r = q /\ kf = kfSN
  BY <1>1, <1>2
<1>3. CASE r = Renacked(q, newest) /\ kf = NextKfSN(q, kfSN)
  <2>1. KeptUpTo(q, newest, r, Len(q))
    BY <1>1, <1>3, RenackedFacts
  <2>2. kf \in Int /\ kfSN \in Int /\ kfSN <= kf
        /\ \A k \in DOMAIN q : GivenUp(q[k]) => q[k].sn <= kf
    BY <1>1, <1>3, KfFacts
  <2>3. DOMAIN q = 1 .. Len(q) /\ \A k \in DOMAIN q : q[k] \in Entry
    BY <1>1, QueueParts DEF IsQueue
  <2>4. /\ Strict(r)
        /\ \A m \in DOMAIN r : \E k \in DOMAIN q : ~GivenUp(q[k]) /\ r[m] = Bumped(q[k], newest)
        /\ \A k \in DOMAIN q : ~GivenUp(q[k]) => \E m \in DOMAIN r : r[m] = Bumped(q[k], newest)
    BY <1>1, <2>1, <2>3, Zenon DEF KeptUpTo
  <2>5. \A k \in DOMAIN q : ~GivenUp(q[k]) => Bumped(q[k], newest).sn = q[k].sn
    BY <2>3, BumpedIs
  <2>6. \A m \in DOMAIN r : \E k \in DOMAIN q : r[m].sn = q[k].sn
    BY <2>4, <2>5
  <2>7. OnlyMissing(r, L, A, M)
    BY <1>1, <2>6 DEF OnlyMissing
  <2>8. Waiting(r, kf, L, A, M)
    <3> SUFFICES ASSUME NEW j \in (L \ A) \ M
                 PROVE  (\E m \in DOMAIN r : r[m].sn = Ext(j)) \/ kf >= Ext(j)
      BY DEF Waiting
    <3>1. Ext(j) \in Int
      BY ExtIs
    <3>2. CASE \E k \in DOMAIN q : q[k].sn = Ext(j)
      <4>1. PICK k \in DOMAIN q : q[k].sn = Ext(j)
        BY <3>2
      <4>2. CASE GivenUp(q[k])
        <5>1. q[k].sn <= kf
          BY <2>2, <4>2
        <5> QED
          BY <2>2, <3>1, <4>1, <5>1
      <4>3. CASE ~GivenUp(q[k])
        <5>1. PICK m \in DOMAIN r : r[m] = Bumped(q[k], newest)
          BY <2>4, <4>3
        <5> QED
          BY <2>5, <4>1, <4>3, <5>1
      <4> QED
        BY <4>2, <4>3
    <3>3. CASE kfSN >= Ext(j)
      BY <2>2, <3>1, <3>3
    <3> QED
      BY <1>1, <3>2, <3>3 DEF Waiting
  <2> QED
    BY <2>4, <2>7, <2>8
<1> QED
  BY <1>2, <1>3

\* The history and the queue before the NACK round, when NACK is on and the limit has
\* not been reached.
LEMMA QueueNowHolds ==
    ASSUME CalcIInv, QueueInv, LossInv, ~First, nackOn = TRUE, NEW i \in Idx, NEW kind, NEW due,
           MayArrive(i, top), Calc(Packet(i, kind), due), overflowed' = FALSE,
           NEW q, q = Requeued(SnOf(i))
    PROVE  overflowed = FALSE /\ QueueNow(q, lost', arrived', misfiled')
<1>1. /\ lost' = lost \cup Skipped(i) /\ misfiled' = misfiled \cup Misfiled(i)
      /\ overflowed' = (overflowed \/ Len(nacks) + Cardinality(Skipped(i)) >= MaxNackCache)
      /\ arrived' = arrived \cup {i}
  BY LossBook
<1>2. overflowed \in BOOLEAN
  BY DEF LossInv
<1>3. overflowed = FALSE /\ ~(Len(nacks) + Cardinality(Skipped(i)) >= MaxNackCache)
  BY <1>1, <1>2
<1>4. CASE i >= head
  <2>1. Len(nacks) \in Nat /\ MaxNackCache \in Nat /\ Cardinality(Skipped(i)) \in Nat
    <3>1. Skipped(i) = head + 1 .. i - 1 /\ head \in Int /\ i \in Int
      BY <1>4, Constants DEF Skipped, CalcIInv
    <3>2. Cardinality(Skipped(i)) \in Nat
      BY <3>1, FS_Interval, FS_CardinalityType
    <3> QED
      BY <3>2, QueueParts, NackAssumption DEF QueueInv, IsQueue
  <2>2. Len(nacks) + Cardinality(Skipped(i)) < MaxNackCache
    BY <1>3, <2>1
  <2> QED
    BY <1>1, <1>3, <1>4, <2>2, AheadLoss
<1>5. CASE i < head
  <2>1. Skipped(i) = {} /\ Misfiled(i) = {}
    <3>1. ~(i >= head)
      BY <1>5, Constants DEF CalcIInv
    <3> QED
      BY <3>1 DEF Skipped, Misfiled
  <2>2. lost' = lost /\ misfiled' = misfiled
    BY <1>1, <2>1
  <2> QED
    BY <1>1, <1>3, <1>5, <2>2, LateLoss
<1>6. i >= head \/ i < head
  BY Constants DEF CalcIInv
<1> QED
  BY <1>3, <1>4, <1>5, <1>6

\* A packet of calc keeps the account of the losses.
LEMMA LossStep ==
    ASSUME CalcIInv, QueueInv, LossInv, NEW i \in Idx, NEW kind, NEW due,
           MayArrive(i, top), Calc(Packet(i, kind), due)
    PROVE  LossInv'
<1>1. /\ lost \subseteq Idx /\ misfiled \subseteq lost /\ overflowed \in BOOLEAN
      /\ First \/ nackOn = FALSE => lost = {} /\ nacks = <<>>
      /\ \A j \in arrived : j \in Idx /\ j <= head
      /\ \A j \in lost : anchor < j /\ j < head
  BY DEF LossInv
<1>2. /\ nackOn \in BOOLEAN /\ nackOn' = nackOn /\ head \in Nat /\ i \in Nat /\ anchor \in Nat
      /\ Idx \subseteq Nat /\ Packet(i, kind).sn = SnOf(i) /\ Packet(i, kind).idx = i
  BY CalcAlways, Constants DEF CalcIInv, HeadTypeOK, Packet
<1> DEFINE q == Requeued(SnOf(i))
           newest == cycles' + maxSeqNo'
<1>3. \/ nacks' = q /\ kfSN' = kfSN
      \/ nackOn = TRUE /\ nacks' = Renacked(q, newest) /\ kfSN' = NextKfSN(q, kfSN)
  BY <1>2, NackOutcome
<1>4. CASE First
  <2>1. Passed(SnOf(i), i) = {}
    BY <1>4 DEF Passed, Ahead
  <2>2. Noted(SnOf(i), i, {})
    BY <1>2, <2>1, CalcLosses
  <2>3. lost = {} /\ misfiled = {} /\ nacks = <<>>
    BY <1>1, <1>4
  <2>4. lost' = {} /\ misfiled' = {} /\ overflowed' \in BOOLEAN /\ arrived' = {i}
    BY <1>1, <1>4, <2>2, <2>3 DEF Noted
  <2>5. q = <<>>
    BY <1>4, <2>3 DEF Requeued, Ahead, Behind
  <2>6. head' = i
    BY <1>2, <1>4, CalcAlways
  <2>7. nacks' = <<>>
    <3>1. CASE nackOn = TRUE /\ nacks' = Renacked(q, newest)
      <4>1. IsQueue(q)
        BY <2>3, <2>5 DEF QueueInv
      <4>2. KeptUpTo(q, newest, nacks', Len(q))
        BY <3>1, <4>1, RenackedFacts
      <4>3. nacks' \in Seq(Entry) /\ \A m \in DOMAIN nacks' : \E j \in 1 .. 0 : TRUE
        <5>1. Len(q) = 0
          BY <2>5
        <5> QED
          BY <4>2, <5>1 DEF KeptUpTo
      <4>4. Len(nacks') \in Nat /\ DOMAIN nacks' = 1 .. Len(nacks')
        BY <4>3
      <4>5. Len(nacks') = 0
        <5> SUFFICES ASSUME Len(nacks') # 0 PROVE FALSE
          OBVIOUS
        <5>1. 1 \in 1 .. Len(nacks')
          BY <4>4
        <5>2. \E j \in 1 .. 0 : TRUE
          BY <4>3, <4>4, <5>1
        <5> QED
          BY <5>2
      <4>6. nacks' # <<>> => Len(nacks') \in Nat \ {0}
        BY <4>3, EmptySeq
      <4> QED
        BY <4>5, <4>6
    <3> QED
      BY <1>3, <2>5, <3>1
  <2> QED
    BY <1>2, <2>4, <2>6, <2>7 DEF LossInv, Strict, OnlyMissing, Waiting, Idx, Entry
<1>5. CASE ~First /\ nackOn = FALSE
  <2>1. Skipped(i) = {} /\ Misfiled(i) = {}
    BY <1>5 DEF Skipped, Misfiled
  <2>2. lost = {} /\ misfiled = {} /\ nacks = <<>>
    BY <1>1, <1>5
  <2>3. lost' = {} /\ misfiled' = {} /\ arrived' = arrived \cup {i}
        /\ head' = (IF i >= head THEN i ELSE head)
    BY <1>5, <2>1, <2>2, LossBook
  <2>4. overflowed' \in BOOLEAN
    BY <1>1, <1>5, LossBook
  <2>5. nacks' = <<>>
    BY <1>3, <1>5, <2>2 DEF Requeued
  <2>6. \A j \in arrived' : j \in Idx /\ j <= head'
    <3>1. head' \in Nat /\ head <= head' /\ i <= head'
      BY <1>2, <2>3
    <3>2. ASSUME NEW j \in arrived PROVE j \in Idx /\ j <= head'
      <4>1. j \in Idx /\ j \in Nat /\ j <= head
        BY <1>1, <1>2
      <4> QED
        BY <1>2, <3>1, <4>1
    <3> QED
      BY <1>1, <2>3, <3>1, <3>2
  <2> QED
    BY <2>3, <2>4, <2>5, <2>6 DEF LossInv, Strict, OnlyMissing, Waiting, Idx
<1>6. CASE ~First /\ nackOn = TRUE
  <2>1. /\ lost' = lost \cup Skipped(i) /\ misfiled' = misfiled \cup Misfiled(i)
        /\ arrived' = arrived \cup {i} /\ head' = (IF i >= head THEN i ELSE head)
        /\ anchor' = anchor /\ packetCount' # 0 /\ nackOn' = TRUE
        /\ \A j : Ext(j)' = Ext(j) /\ SnOf(j)' = SnOf(j)
    BY <1>6, LossBook
  <2>2. overflowed' \in BOOLEAN
    BY <1>1, <1>6, LossBook
  <2>3. Skipped(i) \subseteq Idx /\ Misfiled(i) \subseteq Skipped(i)
        /\ \A j \in Skipped(i) : head < j /\ j < i /\ i >= head
    BY <1>2, Constants DEF Skipped, Misfiled
  <2>4. anchor <= head
    BY <1>6, NewestOrLate DEF CalcIInv, HeadFollowed
  <2>5. lost' \subseteq Idx /\ misfiled' \subseteq lost'
        /\ \A j \in arrived' : j \in Idx /\ j <= head'
    <3>1. head' \in Nat /\ head <= head' /\ i <= head'
      BY <1>2, <2>1
    <3>2. ASSUME NEW j \in arrived PROVE j \in Idx /\ j <= head'
      <4>1. j \in Idx /\ j \in Nat /\ j <= head
        BY <1>1, <1>2
      <4> QED
        BY <1>2, <3>1, <4>1
    <3>3. \A j \in arrived' : j \in Idx /\ j <= head'
      BY <1>1, <2>1, <3>1, <3>2
    <3>4. lost' \subseteq Idx /\ misfiled' \subseteq lost'
      BY <1>1, <2>1, <2>3
    <3> QED
      BY <3>3, <3>4
  <2>6. \A j \in lost' : anchor' < j /\ j < head'
    <3>1. ASSUME NEW j \in lost PROVE anchor' < j /\ j < head'
      BY <1>1, <1>2, <2>1
    <3>2. ASSUME NEW j \in Skipped(i) PROVE anchor' < j /\ j < head'
      <4>1. head < j /\ j < i /\ i >= head /\ j \in Nat
        BY <1>2, <2>3
      <4>2. anchor' = anchor /\ head' = i
        BY <2>1, <4>1
      <4> QED
        BY <1>2, <2>4, <4>1, <4>2
    <3> QED
      BY <2>1, <3>1, <3>2
  <2>7. ASSUME overflowed' = FALSE
        PROVE  /\ Strict(nacks') /\ OnlyMissing(nacks', lost', arrived', misfiled')
               /\ Waiting(nacks', kfSN', lost', arrived', misfiled')
    <3>1. QueueNow(q, lost', arrived', misfiled') /\ kfSN \in 0 .. U32 - 1
      BY <1>6, <2>7, QueueNowHolds DEF QueueInv
    <3> HIDE DEF q, newest
    <3>2. \/ nacks' = q /\ kfSN' = kfSN
          \/ nacks' = Renacked(q, newest) /\ kfSN' = NextKfSN(q, kfSN)
      BY <1>3
    <3> QED
      BY <2>5, <3>1, <3>2, RoundLoss
  <2>8. ~(First \/ nackOn = FALSE)'
    BY <2>1 DEF First
  <2>9. overflowed' = FALSE => /\ Strict(nacks)'
                               /\ OnlyMissing(nacks, lost, arrived, misfiled)'
                               /\ Waiting(nacks, kfSN, lost, arrived, misfiled)'
    <3>1. ASSUME OnlyMissing(nacks', lost', arrived', misfiled')
          PROVE  OnlyMissing(nacks, lost, arrived, misfiled)'
      BY <2>1, <3>1 DEF OnlyMissing, Low16, SNSpace
    <3>2. ASSUME Waiting(nacks', kfSN', lost', arrived', misfiled')
          PROVE  Waiting(nacks, kfSN, lost, arrived, misfiled)'
      BY <2>1, <3>2 DEF Waiting
    <3>3. Strict(nacks') <=> Strict(nacks)'
      BY DEF Strict
    <3> QED
      BY <2>7, <3>1, <3>2, <3>3
  <2> QED
    BY <2>2, <2>5, <2>6, <2>8, <2>9 DEF LossInv, Idx
<1> QED
  BY <1>2, <1>4, <1>5, <1>6

\* The account of the losses is kept.
LEMMA LossNextInv == CalcIInv /\ QueueInv /\ LossInv /\ [CalcNext]_calcVars => LossInv'
<1> SUFFICES ASSUME CalcIInv, QueueInv, LossInv, [CalcNext]_calcVars PROVE LossInv'
  OBVIOUS
<1>1. CASE CalcNext
  <2>1. PICK i \in Idx, kind \in Kinds, due \in DueChoices :
           MayArrive(i, top) /\ Calc(Packet(i, kind), due)
    BY <1>1 DEF CalcNext
  <2> QED
    BY <2>1, LossStep
<1>2. CASE UNCHANGED calcVars
  <2>1. /\ nacks' = nacks /\ kfSN' = kfSN /\ nackOn' = nackOn /\ packetCount' = packetCount
        /\ lost' = lost /\ misfiled' = misfiled /\ overflowed' = overflowed
        /\ arrived' = arrived /\ head' = head /\ anchor' = anchor /\ origin' = origin
    BY <1>2 DEF calcVars, codeVars, nackVars, statVars, history
  <2>2. \A j : Ext(j)' = Ext(j) /\ SnOf(j)' = SnOf(j)
    BY <2>1 DEF Ext, SnOf
  <2>3. /\ Strict(nacks)' <=> Strict(nacks)
        /\ OnlyMissing(nacks, lost, arrived, misfiled)'
              <=> OnlyMissing(nacks, lost, arrived, misfiled)
        /\ Waiting(nacks, kfSN, lost, arrived, misfiled)'
              <=> Waiting(nacks, kfSN, lost, arrived, misfiled)
    BY <2>1, <2>2 DEF Strict, OnlyMissing, Waiting, Low16, SNSpace
  <2> QED
    BY <2>1, <2>3 DEF LossInv, Idx, First
<1> QED
  BY <1>1, <1>2

LEMMA LossInvariant == CalcSpec => []LossInv
<1>1. CalcInit => LossInv
  <2> SUFFICES ASSUME CalcInit PROVE LossInv
    OBVIOUS
  <2>1. /\ nacks = <<>> /\ lost = {} /\ misfiled = {} /\ overflowed = FALSE /\ arrived = {}
    BY DEF CalcInit
  <2>2. DOMAIN nacks = {}
    BY <2>1
  <2> QED
    BY <2>1, <2>2 DEF LossInv, Strict, OnlyMissing, Waiting
<1> QED
  BY <1>1, CalcInvariant, QueueInvariant, LossNextInv, PTL DEF CalcSpec

\* An entry of the queue of missing packets stands for a packet that was skipped and has
\* not arrived since: a late arrival takes its entry out.
THEOREM QueueOnlyMissing == CalcSpec => []NackOnlyMissing
<1>1. LossInv => NackOnlyMissing
  BY DEF LossInv, OnlyMissing, NackOnlyMissing
<1> QED
  BY <1>1, LossInvariant, PTL

\* A missing packet waits in the queue until it arrives or a key frame is asked for in
\* its place.
THEOREM LossesNotForgotten == CalcSpec => []NeverForgotten
<1>1. LossInv => NeverForgotten
  BY DEF LossInv, Waiting, NeverForgotten
<1> QED
  BY <1>1, LossInvariant, PTL

-----------------------------------------------------------------------------
(* The NACK rounds of one packet                                           *)

\* No pair opened for another loss may swallow j, and 0 is no open pair
Swallowed(j, L, M) ==
    SnOf(j) = 0 \/ \E i \in L : (i < j \/ i \in M) /\ SnOf(i) > SnOf(j)

\* j was named in at most as many rounds as its entry has been in, exactly so if no pair
\* swallows it, and due in no more than those
Rounds(j, q, A, named, due, swallowed) ==
    /\ named <= MaxNackTimes
    /\ \A k \in DOMAIN q : q[k].sn = Ext(j) => named <= q[k].nacked
    /\ j \notin A =>
          /\ \A k \in DOMAIN q : q[k].sn = Ext(j) => due <= q[k].nacked
          /\ ~swallowed => /\ \A k \in DOMAIN q : q[k].sn = Ext(j) => named >= q[k].nacked
                           /\ NoEntry(q, j) => named >= MaxNackTimes

RoundsInv ==
    /\ asked \in [Idx -> Nat] /\ chances \in [Idx -> Nat]
    /\ \A j \in Idx : j \notin lost => asked[j] = 0 /\ chances[j] = 0
    /\ overflowed = FALSE => \A j \in lost \ misfiled : OnlyOf(j, lost) =>
          Rounds(j, nacks, arrived, asked[j], chances[j], Swallowed(j, lost, misfiled))

\* An entry with the low half of the only loss of a number is that loss's own.
LEMMA OwnEntry ==
    ASSUME CalcIInv, NEW q, NEW L, NEW A, NEW M, L \subseteq Idx, M \subseteq L,
           OnlyMissing(q, L, A, M), NEW j \in L \ M, OnlyOf(j, L),
           NEW k \in DOMAIN q, Low16(q[k].sn) = SnOf(j)
    PROVE  q[k].sn = Ext(j) /\ j \notin A
<1>1. CASE \E i \in (L \ A) \ M : q[k].sn = Ext(i)
  <2>1. PICK i \in (L \ A) \ M : q[k].sn = Ext(i)
    BY <1>1
  <2>2. Low16(q[k].sn) = SnOf(i)
    BY <2>1, ExtIs
  <2> QED
    BY <2>1, <2>2 DEF OnlyOf
<1>2. CASE \E i \in M : Low16(q[k].sn) = SnOf(i)
  BY <1>2 DEF OnlyOf
<1> QED
  BY <1>1, <1>2 DEF OnlyMissing

\* An earlier entry with a higher low half stands for a loss that may swallow j.
LEMMA EarlierEntry ==
    ASSUME CalcIInv, NEW q, NEW L, NEW A, NEW M, L \subseteq Idx, M \subseteq L,
           IsQueue(q), Strict(q), OnlyMissing(q, L, A, M), NEW j \in L,
           NEW k \in DOMAIN q, q[k].sn = Ext(j), NEW p \in DOMAIN q, p < k,
           Low16(q[p].sn) > SnOf(j)
    PROVE  Swallowed(j, L, M)
<1>1. CASE \E i \in (L \ A) \ M : q[p].sn = Ext(i)
  <2>1. PICK i \in (L \ A) \ M : q[p].sn = Ext(i)
    BY <1>1
  <2>2. i \in Idx /\ j \in Idx
    OBVIOUS
  <2>3. Low16(q[p].sn) = SnOf(i)
    BY <2>1, <2>2, ExtIs
  <2>4. Ext(i) < Ext(j)
    BY <2>1 DEF Strict
  <2>5. i < j
    BY <2>2, <2>4, ExtIs
  <2> QED
    BY <2>3, <2>5 DEF Swallowed
<1>2. CASE \E i \in M : Low16(q[p].sn) = SnOf(i)
  BY <1>2 DEF Swallowed
<1> QED
  BY <1>1, <1>2 DEF OnlyMissing

\* Which entries are too fresh for the round: those of the last two packets.
LEMMA FreshIs ==
    ASSUME CalcIInv, NEW j \in Idx, anchor < j, NEW h \in Idx, h - j > 2,
           NEW n, n.sn = Ext(j)
    PROVE  ~TooFresh(n, Ext(h))
<1>1. h \in Nat /\ j \in Nat /\ anchor \in Nat /\ U32 \in Nat
  BY Constants DEF CalcIInv
<1>2. Ext(j) \in Int /\ Ext(j) > 0 /\ Ext(h) \in Int /\ Ext(h) - Ext(j) = h - j
  BY <1>1, ExtIs
<1>3. Sub32(Ext(h), 2) = Ext(h) - 2
  BY <1>1, <1>2 DEF Sub32
<1> QED
  BY <1>1, <1>2, <1>3 DEF TooFresh

\* The rounds of a loss between the sequence-number part of a calc and its NACK round.
LEMMA RoundsBefore ==
    ASSUME CalcIInv, LossInv, RoundsInv, overflowed = FALSE,
           NEW q, NEW L, NEW A, NEW M, QueueNow(q, L, A, M), L \subseteq Idx, lost \subseteq L,
           misfiled \subseteq M, M \subseteq L, arrived \subseteq A,
           NEW j \in L \ M, OnlyOf(j, L)
    PROVE  Rounds(j, q, A, asked[j], chances[j], Swallowed(j, L, M))
<1>1. /\ IsQueue(q) /\ EntryFrom(q, j)
      /\ j \notin A /\ NoEntry(q, j) => j \in lost /\ j \notin arrived /\ NoEntry(nacks, j)
  BY Zenon DEF QueueNow
<1>2. \A k \in DOMAIN q : q[k].nacked \in Nat
  BY <1>1, QueueParts DEF IsQueue
<1>3. j \in Idx /\ MaxNackTimes \in Nat /\ asked[j] \in Nat /\ chances[j] \in Nat
  <2>1. j \in Idx
    OBVIOUS
  <2> QED
    BY <2>1, NackAssumption DEF RoundsInv
<1>4. CASE j \in lost
  <2>1. j \in lost \ misfiled /\ OnlyOf(j, lost)
    BY <1>4 DEF OnlyOf
  <2>2. Rounds(j, nacks, arrived, asked[j], chances[j], Swallowed(j, lost, misfiled))
    BY <2>1, Zenon DEF RoundsInv
  <2>3. Swallowed(j, lost, misfiled) => Swallowed(j, L, M)
    BY DEF Swallowed
  <2>4. \A k \in DOMAIN q : q[k].sn = Ext(j) => \E m \in DOMAIN nacks : q[k] = nacks[m]
    BY <1>1, <1>4 DEF EntryFrom
  <2>5. ASSUME j \notin A, NoEntry(q, j) PROVE j \notin arrived /\ NoEntry(nacks, j)
    BY <1>1, <2>5
  <2>6. j \notin A => j \notin arrived
    OBVIOUS
  <2> QED
    BY <2>2, <2>3, <2>4, <2>5, <2>6 DEF Rounds
<1>5. CASE j \notin lost
  <2>1. asked[j] = 0 /\ chances[j] = 0
    BY <1>3, <1>5 DEF RoundsInv
  <2>2. ASSUME NEW k \in DOMAIN q, q[k].sn = Ext(j) PROVE q[k].nacked = 0
    <3>1. ASSUME NEW m \in DOMAIN nacks, q[k] = nacks[m] PROVE FALSE
      <4>1. nacks[m].sn = Ext(j) /\ Low16(nacks[m].sn) = SnOf(j)
        BY <1>3, <2>2, <3>1, ExtIs
      <4>2. CASE \E i \in (lost \ arrived) \ misfiled : nacks[m].sn = Ext(i)
        <5>1. PICK i \in (lost \ arrived) \ misfiled : Ext(j) = Ext(i)
          BY <4>1, <4>2
        <5>2. i \in Idx
          BY DEF LossInv
        <5> QED
          BY <1>3, <1>5, <5>1, <5>2, ExtIs
      <4>3. CASE \E i \in misfiled : Low16(nacks[m].sn) = SnOf(i)
        BY <4>1, <4>3 DEF OnlyOf
      <4> QED
        BY <4>2, <4>3 DEF LossInv, OnlyMissing
    <3> QED
      BY <1>1, <2>2, <3>1 DEF EntryFrom
  <2>3. ~(j \notin A /\ NoEntry(q, j))
    BY <1>1, <1>5
  <2> QED
    BY <1>3, <2>1, <2>2, <2>3 DEF Rounds
<1> QED
  BY <1>4, <1>5

\* A number has one entry.
LEMMA SameEntry ==
    ASSUME NEW q, IsQueue(q), Strict(q), NEW k \in DOMAIN q, NEW p \in DOMAIN q, q[k].sn = q[p].sn
    PROVE  k = p
<1>1. q[k].sn \in Int /\ k \in Int /\ p \in Int
  BY QueueParts DEF IsQueue
<1>2. ~(k < p) /\ ~(p < k)
  BY <1>1 DEF Strict
<1> QED
  BY <1>1, <1>2

\* A NACK round keeps the rounds of a loss in step with its entry.
LEMMA RoundsAfter ==
    ASSUME CalcIInv, NEW q, NEW L, NEW A, NEW M, QueueNow(q, L, A, M), L \subseteq Idx,
           M \subseteq L, NEW j \in L \ M, OnlyOf(j, L), anchor < j, NEW h \in Idx,
           NEW a \in Nat, NEW c \in Nat, Rounds(j, q, A, a, c, Swallowed(j, L, M)),
           NEW newest, newest = Ext(h), NEW r, r = Renacked(q, newest),
           NEW R, R = Requested(NackPairs(q, newest)),
           NEW named, named = IF SnOf(j) \in R THEN a + 1 ELSE a,
           NEW due, due = c \/ (due = c + 1 /\ h - j > 2)
    PROVE  Rounds(j, r, A, named, due, Swallowed(j, L, M))
<1>1. IsQueue(q) /\ Strict(q) /\ OnlyMissing(q, L, A, M)
  BY Zenon DEF QueueNow
<1>2. /\ DOMAIN q = 1 .. Len(q) /\ MaxNackTimes \in Nat
      /\ \A k \in DOMAIN q : q[k] \in Entry /\ q[k].nacked \in Nat
                             /\ (~GivenUp(q[k]) => q[k].nacked < MaxNackTimes)
                             /\ (GivenUp(q[k]) => q[k].nacked >= MaxNackTimes)
  <2>1. MaxNackTimes \in Nat
    BY NackAssumption
  <2>2. DOMAIN q = 1 .. Len(q) /\ \A k \in DOMAIN q : q[k] \in Entry /\ q[k].nacked \in Nat
    BY <1>1, QueueParts DEF IsQueue
  <2> QED
    BY <2>1, <2>2 DEF GivenUp
<1>3. /\ \A m \in DOMAIN r : \E k \in DOMAIN q : ~GivenUp(q[k]) /\ r[m] = Bumped(q[k], newest)
      /\ \A k \in DOMAIN q : ~GivenUp(q[k]) => \E m \in DOMAIN r : r[m] = Bumped(q[k], newest)
  <2>1. KeptUpTo(q, newest, r, Len(q))
    BY <1>1, RenackedFacts
  <2> QED
    BY <1>2, <2>1, Zenon DEF KeptUpTo
<1>4. \A k \in DOMAIN q : ~GivenUp(q[k]) =>
         /\ Bumped(q[k], newest).sn = q[k].sn
         /\ Bumped(q[k], newest).nacked
               = IF TooFresh(q[k], newest) THEN q[k].nacked ELSE q[k].nacked + 1
  BY <1>2, BumpedIs
<1>5. /\ \A s \in R : \E k \in DOMAIN q : Asks(q, newest, k, s)
      /\ \A k \in DOMAIN q :
            Eligible(q[k], newest) /\ Low16(q[k].sn) # 0 /\ InTurn(q, newest, k)
               => Low16(q[k].sn) \in R
  BY <1>1, PairsFacts
<1>6. j \in Idx /\ Low16(Ext(j)) = SnOf(j)
  <2>1. j \in Idx
    OBVIOUS
  <2> QED
    BY <2>1, ExtIs
<1>7. /\ a <= MaxNackTimes
      /\ \A k \in DOMAIN q : q[k].sn = Ext(j) => a <= q[k].nacked
      /\ j \notin A =>
            /\ \A k \in DOMAIN q : q[k].sn = Ext(j) => c <= q[k].nacked
            /\ ~Swallowed(j, L, M) =>
                  /\ \A k \in DOMAIN q : q[k].sn = Ext(j) => a >= q[k].nacked
                  /\ NoEntry(q, j) => a >= MaxNackTimes
  BY Zenon DEF Rounds
<1>8. \A k, p \in DOMAIN q : q[k].sn = Ext(j) /\ q[p].sn = Ext(j) => k = p
  BY <1>1, SameEntry
<1>9. ASSUME SnOf(j) \in R
      PROVE  j \notin A /\ \E k \in DOMAIN q : q[k].sn = Ext(j) /\ Eligible(q[k], newest)
  <2>1. PICK k \in DOMAIN q : Eligible(q[k], newest) /\ Low16(q[k].sn) = SnOf(j)
    BY <1>5, <1>9 DEF Asks
  <2>2. q[k].sn = Ext(j) /\ j \notin A
    BY <1>1, <2>1, OwnEntry
  <2> QED
    BY <2>1, <2>2
<1>10. ASSUME NEW m \in DOMAIN r, r[m].sn = Ext(j)
       PROVE  \E k \in DOMAIN q : /\ ~GivenUp(q[k]) /\ q[k].sn = Ext(j)
                                  /\ r[m].nacked = IF TooFresh(q[k], newest) THEN q[k].nacked
                                                   ELSE q[k].nacked + 1
  BY <1>3, <1>4, <1>10
<1>11. named <= MaxNackTimes
  <2>1. CASE SnOf(j) \in R
    <3>1. PICK k \in DOMAIN q : q[k].sn = Ext(j) /\ Eligible(q[k], newest)
      BY <1>9, <2>1
    <3>2. a <= q[k].nacked /\ q[k].nacked < MaxNackTimes /\ q[k].nacked \in Nat
      BY <1>2, <1>7, <3>1 DEF Eligible
    <3> QED
      BY <1>2, <2>1, <3>2
  <2> QED
    BY <1>7, <2>1
<1>12. ASSUME NEW m \in DOMAIN r, r[m].sn = Ext(j) PROVE named <= r[m].nacked
  <2>1. PICK k \in DOMAIN q : /\ ~GivenUp(q[k]) /\ q[k].sn = Ext(j)
                              /\ r[m].nacked = IF TooFresh(q[k], newest) THEN q[k].nacked
                                               ELSE q[k].nacked + 1
    BY <1>10, <1>12
  <2>2. a <= q[k].nacked /\ q[k].nacked \in Nat
    BY <1>2, <1>7, <2>1
  <2>3. SnOf(j) \in R => ~TooFresh(q[k], newest)
    <3>1. SUFFICES ASSUME SnOf(j) \in R PROVE ~TooFresh(q[k], newest)
      OBVIOUS
    <3>2. PICK p \in DOMAIN q : q[p].sn = Ext(j) /\ Eligible(q[p], newest)
      BY <1>9, <3>1
    <3>3. p = k
      BY <1>8, <2>1, <3>2
    <3> QED
      BY <3>2, <3>3 DEF Eligible
  <2> QED
    BY <2>1, <2>2, <2>3
<1>13. ASSUME j \notin A, NEW m \in DOMAIN r, r[m].sn = Ext(j) PROVE due <= r[m].nacked
  <2>1. PICK k \in DOMAIN q : /\ ~GivenUp(q[k]) /\ q[k].sn = Ext(j)
                              /\ r[m].nacked = IF TooFresh(q[k], newest) THEN q[k].nacked
                                               ELSE q[k].nacked + 1
    BY <1>10, <1>13
  <2>2. c <= q[k].nacked /\ q[k].nacked \in Nat
    BY <1>2, <1>7, <1>13, <2>1
  <2>3. h - j > 2 => ~TooFresh(q[k], newest)
    BY <1>6, <2>1, FreshIs
  <2> QED
    BY <2>1, <2>2, <2>3
<1>14. ASSUME j \notin A, ~Swallowed(j, L, M), NEW m \in DOMAIN r, r[m].sn = Ext(j)
       PROVE  named >= r[m].nacked
  <2>1. PICK k \in DOMAIN q : /\ ~GivenUp(q[k]) /\ q[k].sn = Ext(j)
                              /\ r[m].nacked = IF TooFresh(q[k], newest) THEN q[k].nacked
                                               ELSE q[k].nacked + 1
    BY <1>10, <1>14
  <2>2. a >= q[k].nacked /\ q[k].nacked \in Nat
    BY <1>2, <1>7, <1>14, <2>1
  <2>3. ~TooFresh(q[k], newest) => SnOf(j) \in R
    <3>1. SUFFICES ASSUME ~TooFresh(q[k], newest) PROVE SnOf(j) \in R
      OBVIOUS
    <3>2. Eligible(q[k], newest) /\ Low16(q[k].sn) = SnOf(j)
      BY <1>6, <2>1, <3>1 DEF Eligible
    <3>3. SnOf(j) # 0
      BY <1>14 DEF Swallowed
    <3>4. InTurn(q, newest, k)
      <4> SUFFICES ASSUME NEW p \in 1 .. k - 1, Eligible(q[p], newest)
                   PROVE  Low16(q[p].sn) <= Low16(q[k].sn)
        BY DEF InTurn
      <4>1. p \in DOMAIN q /\ p < k
        BY <1>2
      <4>2. ~(Low16(q[p].sn) > SnOf(j))
        BY <1>1, <1>14, <2>1, <4>1, EarlierEntry
      <4>3. Low16(q[p].sn) \in Int /\ SnOf(j) \in Int
        <5>1. q[p].sn \in Int
          BY <1>1, <4>1, QueueParts DEF IsQueue
        <5>2. SNSpace \in Nat /\ SNSpace > 0 /\ SN = 0 .. SNSpace - 1
          BY Constants
        <5>3. Low16(q[p].sn) \in 0 .. SNSpace - 1
          BY <5>1, <5>2, ModDef DEF Low16
        <5>4. SnOf(j) \in SN
          BY <1>6, ExtIs
        <5> QED
          BY <5>2, <5>3, <5>4
      <4> QED
        BY <3>2, <4>2, <4>3
    <3> QED
      BY <1>5, <3>2, <3>3, <3>4
  <2> QED
    BY <2>1, <2>2, <2>3
<1>15. ASSUME j \notin A, ~Swallowed(j, L, M), NoEntry(r, j) PROVE named >= MaxNackTimes
  <2>1. CASE NoEntry(q, j)
    BY <1>2, <1>7, <1>15, <2>1
  <2>2. CASE ~NoEntry(q, j)
    <3>1. PICK k \in DOMAIN q : q[k].sn = Ext(j)
      BY <2>2 DEF NoEntry
    <3>2. GivenUp(q[k])
      <4> SUFFICES ASSUME ~GivenUp(q[k]) PROVE FALSE
        OBVIOUS
      <4>1. \E m \in DOMAIN r : r[m].sn = Ext(j)
        BY <1>3, <1>4, <3>1
      <4> QED
        BY <1>15, <4>1 DEF NoEntry
    <3>3. a >= q[k].nacked /\ q[k].nacked >= MaxNackTimes /\ q[k].nacked \in Nat
      BY <1>2, <1>7, <1>15, <3>1, <3>2
    <3> QED
      BY <1>2, <3>3
  <2> QED
    BY <2>1, <2>2
<1> QED
  BY <1>11, <1>12, <1>13, <1>14, <1>15 DEF Rounds

\* What calc does to the counts of the rounds.
LEMMA CalcRounds ==
    ASSUME asked \in [Idx -> Nat], chances \in [Idx -> Nat], NEW pkt, NEW due, Calc(pkt, due)
    PROVE  /\ asked' \in [Idx -> Nat] /\ chances' \in [Idx -> Nat]
           /\ \A j \in Idx :
                 /\ asked'[j] = (IF j \in lost' /\ SnOf(j) \in feedback'.nack THEN asked[j] + 1
                                 ELSE asked[j])
                 /\ \/ chances'[j] = chances[j]
                    \/ /\ chances'[j] = chances[j] + 1 /\ j \in lost' /\ head' - j > 2
                       /\ nackOn = TRUE /\ out' # <<>>
<1>1. PICK q, add : Remember(pkt, q, add)
  BY Zenon DEF Calc
<1> DEFINE dues == {i \in lost' \ arrived' : nackOn /\ out' # <<>> /\ head' - i > 2}
<1>2. chances' = [i \in Idx |-> IF i \in dues THEN chances[i] + 1 ELSE chances[i]]
  BY <1>1, Zenon DEF Remember
<1>3. asked' = [i \in Idx |-> IF i \in lost' /\ SnOf(i) \in feedback'.nack
                              THEN asked[i] + 1 ELSE asked[i]]
  BY <1>1, Zenon DEF Remember
<1>4. \A j \in dues : j \in lost' /\ head' - j > 2 /\ nackOn = TRUE /\ out' # <<>>
  OBVIOUS
<1> HIDE DEF dues
<1> QED
  BY <1>2, <1>3, <1>4

\* Before counting starts, and while NACK is off, there are no losses.
LEMMA NoLossYet ==
    ASSUME CalcIInv, LossInv, First \/ nackOn = FALSE, NEW i \in Idx, NEW kind, NEW due,
           MayArrive(i, top), Calc(Packet(i, kind), due)
    PROVE  lost = {} /\ lost' = {}
<1>1. lost = {}
  BY DEF LossInv
<1>2. Packet(i, kind).sn = SnOf(i) /\ Packet(i, kind).idx = i
  BY DEF Packet
<1>3. Noted(SnOf(i), i, Passed(SnOf(i), i))
  BY <1>2, CalcLosses
<1>4. Passed(SnOf(i), i) = {}
  BY DEF Passed, Ahead
<1> QED
  BY <1>1, <1>3, <1>4 DEF Noted

\* A packet of calc keeps the rounds.
LEMMA RoundsStep ==
    ASSUME CalcIInv, CalcIInv', QueueInv, LossInv, LossInv', RoundsInv,
           NEW i \in Idx, NEW kind, NEW due, MayArrive(i, top), Calc(Packet(i, kind), due)
    PROVE  RoundsInv'
<1>1. /\ asked \in [Idx -> Nat] /\ chances \in [Idx -> Nat]
      /\ \A j \in Idx : j \notin lost => asked[j] = 0 /\ chances[j] = 0
  BY DEF RoundsInv
<1>2. /\ asked' \in [Idx -> Nat] /\ chances' \in [Idx -> Nat]
      /\ \A j \in Idx :
            /\ asked'[j] = (IF j \in lost' /\ SnOf(j) \in feedback'.nack THEN asked[j] + 1
                            ELSE asked[j])
            /\ \/ chances'[j] = chances[j]
               \/ /\ chances'[j] = chances[j] + 1 /\ j \in lost' /\ head' - j > 2
                  /\ nackOn = TRUE /\ out' # <<>>
  BY <1>1, CalcRounds
<1>3. lost \subseteq lost'
  <2>1. CASE First
    BY <2>1, NoLossYet
  <2>2. CASE ~First
    BY <2>2, LossBook
  <2> QED
    BY <2>1, <2>2
<1>4. \A j \in Idx : j \notin lost' => asked'[j] = 0 /\ chances'[j] = 0
  BY <1>1, <1>2, <1>3
<1>5. ASSUME overflowed' = FALSE, NEW j \in lost' \ misfiled', OnlyOf(j, lost')
      PROVE  Rounds(j, nacks', arrived', asked'[j], chances'[j],
                    Swallowed(j, lost', misfiled'))
  <2>1. ~First /\ nackOn = TRUE
    <3>1. lost' # {}
      BY <1>5
    <3>2. nackOn \in BOOLEAN
      BY DEF CalcIInv, HeadTypeOK
    <3> QED
      BY <3>1, <3>2, NoLossYet
  <2> DEFINE q == Requeued(SnOf(i))
             newest == cycles' + maxSeqNo'
  <2>2. overflowed = FALSE /\ QueueNow(q, lost', arrived', misfiled')
    BY <1>5, <2>1, QueueNowHolds
  <2>3. /\ misfiled' = misfiled \cup Misfiled(i) /\ arrived' = arrived \cup {i}
        /\ anchor' = anchor /\ \A k : Ext(k)' = Ext(k)
    BY <2>1, LossBook
  <2>4. /\ lost' \subseteq Idx /\ misfiled' \subseteq lost' /\ j \in Idx
        /\ anchor < j /\ j < head' /\ head' \in Idx
    <3>1. lost' \subseteq Idx /\ misfiled' \subseteq lost' /\ anchor' < j /\ j < head'
      BY <1>5, Zenon DEF LossInv, Idx
    <3>2. head' \in Idx
      BY DEF CalcIInv, Idx
    <3> QED
      BY <1>5, <2>3, <3>1, <3>2
  <2>5. Rounds(j, q, arrived', asked[j], chances[j], Swallowed(j, lost', misfiled'))
    <3>1. misfiled \subseteq misfiled' /\ arrived \subseteq arrived'
      BY <2>3
    <3> HIDE DEF q
    <3> QED
      BY <1>3, <1>5, <2>2, <2>4, <3>1, RoundsBefore
  <2>6. \/ /\ nacks' = q /\ feedback'.nack = {} /\ out' = <<>>
        \/ /\ nacks' = Renacked(q, newest)
           /\ feedback'.nack = Requested(NackPairs(q, newest))
    <3>1. Packet(i, kind).sn = SnOf(i) /\ nackOn \in BOOLEAN
      BY <2>1 DEF Packet
    <3> QED
      BY <2>1, <3>1, NackOutcome
  <2>7. newest = Ext(head')
    <3>1. cycles' + maxSeqNo' = Ext(head)'
      <4>1. ~First'
        BY <2>1, LossBook DEF First
      <4>2. (bucket.init)' \in BOOLEAN
        BY DEF CalcIInv, Ring
      <4>3. (bucket.init = FALSE => Fresh)' /\ (bucket.init = TRUE => HeadFollowed)'
        BY DEF CalcIInv
      <4>4. HeadFollowed'
        BY <4>1, <4>2, <4>3 DEF Fresh
      <4> QED
        BY <4>4 DEF HeadFollowed
    <3> QED
      BY <2>1, <3>1, LossBook DEF Ext, SnOf
  <2> HIDE DEF q, newest
  <2>8. CASE nacks' = q /\ feedback'.nack = {} /\ out' = <<>>
    <3>1. asked'[j] = asked[j] /\ chances'[j] = chances[j]
      BY <1>2, <2>4, <2>8
    <3> QED
      BY <2>5, <2>8, <3>1
  <2>9. CASE nacks' = Renacked(q, newest) /\ feedback'.nack = Requested(NackPairs(q, newest))
    <3>1. asked[j] \in Nat /\ chances[j] \in Nat
      BY <1>1, <2>4
    <3>2. asked'[j] = IF SnOf(j) \in feedback'.nack THEN asked[j] + 1 ELSE asked[j]
      BY <1>2, <1>5, <2>4
    <3>3. chances'[j] = chances[j] \/ (chances'[j] = chances[j] + 1 /\ head' - j > 2)
      BY <1>2, <2>4
    <3> QED
      BY <1>5, <2>2, <2>4, <2>5, <2>7, <2>9, <3>1, <3>2, <3>3, RoundsAfter
  <2> QED
    BY <2>6, <2>8, <2>9
<1>6. \A j : OnlyOf(j, lost)' => OnlyOf(j, lost')
  <2>1. origin' = origin
    BY CalcAlways
  <2> QED
    BY <2>1 DEF OnlyOf, SnOf
<1>7. ASSUME overflowed' = FALSE, NEW j \in lost' \ misfiled', OnlyOf(j, lost)'
      PROVE  Rounds(j, nacks, arrived, asked[j], chances[j], Swallowed(j, lost, misfiled))'
  <2>1. Rounds(j, nacks', arrived', asked'[j], chances'[j], Swallowed(j, lost', misfiled'))
    BY <1>5, <1>6, <1>7
  <2>2. ~First
    <3>1. lost' # {}
      BY <1>7
    <3> QED
      BY <3>1, NoLossYet
  <2>3. /\ \A k : Ext(k)' = Ext(k)
        /\ \A k : SnOf(k)' = SnOf(k)
    BY <2>2, LossBook
  <2>4. Swallowed(j, lost, misfiled)' <=> Swallowed(j, lost', misfiled')
    BY <2>3 DEF Swallowed
  <2>5. NoEntry(nacks, j)' <=> NoEntry(nacks', j)
    BY <2>3 DEF NoEntry
  <2> QED
    BY <2>1, <2>3, <2>4, <2>5 DEF Rounds
<1> QED
  BY <1>2, <1>4, <1>7 DEF RoundsInv, Idx

\* The rounds are kept.
LEMMA RoundsNextInv ==
    CalcIInv /\ CalcIInv' /\ QueueInv /\ LossInv /\ LossInv' /\ RoundsInv
        /\ [CalcNext]_calcVars => RoundsInv'
<1> SUFFICES ASSUME CalcIInv, CalcIInv', QueueInv, LossInv, LossInv', RoundsInv,
                    [CalcNext]_calcVars
             PROVE  RoundsInv'
  OBVIOUS
<1>1. CASE CalcNext
  <2>1. PICK i \in Idx, kind \in Kinds, due \in DueChoices :
           MayArrive(i, top) /\ Calc(Packet(i, kind), due)
    BY <1>1 DEF CalcNext
  <2> QED
    BY <2>1, RoundsStep
<1>2. CASE UNCHANGED calcVars
  <2>1. /\ nacks' = nacks /\ lost' = lost /\ misfiled' = misfiled /\ overflowed' = overflowed
        /\ arrived' = arrived /\ anchor' = anchor /\ origin' = origin
        /\ asked' = asked /\ chances' = chances
    BY <1>2 DEF calcVars, codeVars, nackVars, history
  <2>2. \A j : Ext(j)' = Ext(j) /\ SnOf(j)' = SnOf(j)
    BY <2>1 DEF Ext, SnOf
  <2>3. \A j : /\ OnlyOf(j, lost)' <=> OnlyOf(j, lost)
               /\ Swallowed(j, lost, misfiled)' <=> Swallowed(j, lost, misfiled)
               /\ NoEntry(nacks, j)' <=> NoEntry(nacks, j)
    BY <2>1, <2>2 DEF OnlyOf, Swallowed, NoEntry
  <2> QED
    BY <2>1, <2>2, <2>3 DEF RoundsInv, Rounds, Idx
<1> QED
  BY <1>1, <1>2

\* A missing packet is named on the wire in each NACK round it is due in, up to
\* maxNackTimes rounds and never more, whatever the bounds.
THEOREM RoundsKept == CalcSpec => []NackRounds
<1>1. CalcInit => RoundsInv
  <2> SUFFICES ASSUME CalcInit PROVE RoundsInv
    OBVIOUS
  <2>1. /\ lost = {} /\ asked = [j \in Idx |-> 0] /\ chances = [j \in Idx |-> 0]
    BY DEF CalcInit
  <2> QED
    BY <2>1 DEF RoundsInv
<1>2. QueueInv /\ LossInv /\ RoundsInv => NackRounds
  <2> SUFFICES ASSUME QueueInv, LossInv, RoundsInv, overflowed = FALSE,
                      NEW j \in lost \ misfiled, OnlyLoss(j)
               PROVE  /\ asked[j] <= MaxNackTimes
                      /\ SnOf(j) # 0 /\ ~PairWraps(j) /\ j \notin arrived =>
                            asked[j] >= Min({chances[j], MaxNackTimes})
    BY DEF NackRounds, LossInv
  <2>1. OnlyOf(j, lost) /\ (SnOf(j) # 0 /\ ~PairWraps(j) => ~Swallowed(j, lost, misfiled))
    BY DEF OnlyOf, OnlyLoss, PairWraps, Swallowed
  <2>2. Rounds(j, nacks, arrived, asked[j], chances[j], Swallowed(j, lost, misfiled))
    BY <2>1, Zenon DEF RoundsInv
  <2>3. asked[j] \in Nat /\ chances[j] \in Nat /\ MaxNackTimes \in Nat
    <3>1. j \in Idx
      BY DEF LossInv
    <3> QED
      BY <3>1, NackAssumption DEF RoundsInv
  <2>4. ASSUME SnOf(j) # 0, ~PairWraps(j), j \notin arrived
        PROVE  asked[j] >= chances[j] \/ asked[j] >= MaxNackTimes
    <3>1. CASE NoEntry(nacks, j)
      BY <2>1, <2>2, <2>4, <3>1 DEF Rounds
    <3>2. CASE ~NoEntry(nacks, j)
      <4>1. PICK k \in DOMAIN nacks : nacks[k].sn = Ext(j)
        BY <3>2 DEF NoEntry
      <4>2. asked[j] >= nacks[k].nacked /\ chances[j] <= nacks[k].nacked
            /\ asked[j] <= nacks[k].nacked
        BY <2>1, <2>2, <2>4, <4>1 DEF Rounds
      <4>3. nacks[k].nacked \in Nat
        BY QueueParts DEF QueueInv, IsQueue
      <4> QED
        BY <2>3, <4>2, <4>3
    <3> QED
      BY <3>1, <3>2
  <2>5. /\ Min({chances[j], MaxNackTimes}) <= chances[j]
        /\ Min({chances[j], MaxNackTimes}) <= MaxNackTimes
        /\ Min({chances[j], MaxNackTimes}) \in Int
    <3> DEFINE S == {chances[j], MaxNackTimes}
    <3>1. CASE chances[j] <= MaxNackTimes
      <4>1. chances[j] \in S /\ \A x \in S : chances[j] <= x
        BY <2>3, <3>1
      <4>2. Min(S) = chances[j]
        <5>1. S \in SUBSET Int
          BY <2>3
        <5> HIDE DEF S
        <5> QED
          BY <4>1, <5>1, MinIs
      <4> QED
        BY <2>3, <3>1, <4>2
    <3>2. CASE ~(chances[j] <= MaxNackTimes)
      <4>1. MaxNackTimes \in S /\ \A x \in S : MaxNackTimes <= x
        BY <2>3, <3>2
      <4>2. Min(S) = MaxNackTimes
        <5>1. S \in SUBSET Int
          BY <2>3
        <5> HIDE DEF S
        <5> QED
          BY <4>1, <5>1, MinIs
      <4> QED
        BY <2>3, <3>2, <4>2
    <3> QED
      BY <3>1, <3>2
  <2> QED
    BY <2>2, <2>3, <2>4, <2>5 DEF Rounds
<1> QED
  BY <1>1, <1>2, CalcInvariant, QueueInvariant, LossInvariant, RoundsNextInv, PTL DEF CalcSpec
=============================================================================
