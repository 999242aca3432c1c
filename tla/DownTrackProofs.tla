--------------------------- MODULE DownTrackProofs --------------------------
(***************************************************************************)
(* Proofs about a DownTrack (DownTrack), for any plan, any table size, any *)
(* length of the stream and any interleaving of WriteRTP, Bind, Unbind,    *)
(* Mute and NACKs.                                                         *)
(***************************************************************************)
EXTENDS DownTrack, SequenceTheorems, TLAPS

-----------------------------------------------------------------------------
(* The inductive invariants                                                *)

Entry == [source : SN, target : SN, idx : Nat \cup {NoIdx}, lastNack : Nat]
Table == [init : BOOLEAN, step : Entries, headSN : SN, seq : [Entries -> Entry]]

Packet == [idx : Nat, sn : SN, head : BOOLEAN, key : BOOLEAN]

DownTypeOK ==
    /\ plan \in Plans /\ snOffset \in SN /\ lastSN \in SN
    /\ sequencer \in Table /\ jobs \in Seq(Entry) /\ clock \in Nat
    /\ wpc \in {"idle", "resync", "clear", "send"}
    /\ pkt \in Packet
    /\ head \in Nat \cup {-1}
    /\ lastHead \in [idx : Nat \cup {-1}, target : SN]
    /\ base \in Nat \cup {-1} /\ recent \subseteq [idx : Nat, target : SN]
    /\ answered \subseteq [target : SN, idx : Nat \cup {NoIdx}, at : Nat]

\* No packet gets in before the track is bound again, or before Mute is through
Off == bound = FALSE /\ bpc = "idle" /\ wpc = "idle"
Muting == enabled = FALSE /\ mpc = "resync" /\ wpc = "idle"

\* A resync has been asked for, and can be overwritten only by a packet let in before
Asked == raced = TRUE \/ (reSync = TRUE /\ (wpc # "idle" => muteSeen = TRUE))

\* While a key frame is needed it has been asked for, or will be before the next
\* packet, or one is on its way out
KeyInv ==
    /\ bound \in BOOLEAN /\ enabled \in BOOLEAN /\ reSync \in BOOLEAN
    /\ needKey \in BOOLEAN /\ raced \in BOOLEAN /\ muteSeen \in BOOLEAN
    /\ blindStart \in BOOLEAN /\ mpc \in {"idle", "resync"}
    /\ bpc # "idle" => bound = FALSE /\ Asked
    /\ enabled = FALSE /\ mpc = "idle" => Asked \/ Off
    /\ needKey = TRUE /\ Video =>
          \/ reSync = TRUE \/ raced = TRUE \/ (wpc = "send" /\ pkt.key = TRUE)
          \/ Off \/ Muting
    /\ wpc = "clear" /\ Video => pkt.key = TRUE
    /\ blindStart = TRUE => raced = TRUE

\* The packet WriteRTP works on is the newest, or not far behind it
StreamInv ==
    /\ head <= MaxIdx /\ lastHead.idx <= head
    /\ wpc # "idle" =>
          /\ pkt.sn = SnOf(pkt.idx) /\ pkt.idx <= head /\ head - Late <= pkt.idx
          /\ pkt.head = TRUE => pkt.idx = head
    /\ lastHead.idx # -1 => lastSN = lastHead.target

\* In order, the table has packets up to the last sent, each once, with the time of
\* its last answer
OrderInv ==
    /\ seqLate \in BOOLEAN /\ doubled = FALSE
    /\ ~Video => sequencer.init = FALSE
    /\ sequencer.init = FALSE =>
          /\ \A s \in Entries : sequencer.seq[s].idx = NoIdx
          /\ \A a \in answered : a.idx = NoIdx
    /\ \A a \in answered : a.at <= clock
    /\ seqLate = FALSE =>
          /\ \A s \in Entries : sequencer.seq[s].idx <= lastHead.idx
          /\ \A s, t \in Entries :
                sequencer.seq[s].idx = sequencer.seq[t].idx /\ s # t => sequencer.seq[s].idx = NoIdx
          /\ \A a \in answered :
                /\ a.idx <= lastHead.idx
                /\ \A s \in Entries :
                      a.idx # NoIdx /\ sequencer.seq[s].idx = a.idx => a.at <= sequencer.seq[s].lastNack

\* What the table, the queue of the worker and the subscriber have was sent
WasSent(e) ==
    e.idx # NoIdx => /\ e.source = SnOf(e.idx) /\ e.idx <= head
                     /\ [idx |-> e.idx, target |-> e.target] \in sent

SentInv ==
    /\ \A s \in Entries : WasSent(sequencer.seq[s])
    /\ \A k \in 1 .. Len(jobs) : WasSent(jobs[k])
    /\ RtxRepeatsSent

\* The offset takes the packet it counts from to the last number the subscriber saw,
\* or, after a resync, to the next one
AlignInv ==
    lastHead.idx # -1 =>
        /\ base # -1
        /\ \/ /\ base = lastHead.idx
              /\ Minus(SnOf(base), snOffset) = lastHead.target
           \/ /\ lastHead.idx - Late <= base /\ base <= head
              /\ Minus(SnOf(base), snOffset) = Plus(lastHead.target, 1)

\* Where the table keeps the packet d numbers below the head
Slot(step, d) == IF step - d - 1 < 0 THEN MaxTrack + (step - d - 1) ELSE step - d - 1

\* The table n keeps r where its distance from the head says
KeptIn(n, r) ==
    LET d == Minus(n.headSN, r.target)
    IN  /\ d < MaxTrack - 1
        /\ n.seq[Slot(n.step, d)].target = r.target
        /\ n.seq[Slot(n.step, d)].idx = r.idx

RingInv ==
    /\ sequencer.init = FALSE => recent = {}
    /\ seqLate = FALSE => \A r \in recent : KeptIn(sequencer, r)

-----------------------------------------------------------------------------
(* Arithmetic                                                              *)

\* Division with remainder is unique.
LEMMA ModUnique ==
    ASSUME NEW k \in Nat, k > 0,
           NEW p \in Int, NEW q \in Int, NEW r \in 0 .. k - 1, NEW t \in 0 .. k - 1,
           k * p + r = k * q + t
    PROVE  r = t
<1>1. CASE p >= q + 1
  <2>1. k * p >= k * q + k
    BY <1>1
  <2> QED
    BY <2>1
<1>2. CASE q >= p + 1
  <2>1. k * q >= k * p + k
    BY <1>2
  <2> QED
    BY <2>1
<1> QED
  BY <1>1, <1>2

\* What x % k is.
LEMMA ModDef ==
    ASSUME NEW k \in Nat, k > 0, NEW x \in Int
    PROVE  /\ x % k \in 0 .. k - 1
           /\ \E q \in Int : x = k * q + (x % k)
OBVIOUS

\* Adding less than the modulus wraps at most once.
LEMMA ModAdd ==
    ASSUME NEW k \in Nat, k > 0, NEW x \in Int, NEW d \in 0 .. k - 1
    PROVE  (x + d) % k = IF (x % k) + d < k THEN (x % k) + d ELSE (x % k) + d - k
<1>1. PICK q \in Int, r \in 0 .. k - 1 : x = k * q + r /\ x % k = r
  BY ModDef
<1>2. PICK p \in Int, t \in 0 .. k - 1 : x + d = k * p + t /\ (x + d) % k = t
  BY ModDef
<1>3. CASE r + d < k
  BY <1>1, <1>2, <1>3, ModUnique
<1>4. CASE ~(r + d < k)
  <2>1. q + 1 \in Int /\ r + d - k \in 0 .. k - 1 /\ k * (q + 1) = k * q + k
    BY <1>4
  <2>2. k * (q + 1) + (r + d - k) = k * p + t
    BY <1>1, <1>2, <2>1
  <2>3. r + d - k = t
    BY <2>1, <2>2, ModUnique
  <2> QED
    BY <2>3, <1>1, <1>2, <1>4
<1> QED
  BY <1>3, <1>4

\* Differences and sums of numbers are numbers.
LEMMA NumberOps ==
    /\ SNSpace \in Nat /\ SNSpace > MaxTrack /\ SNSpace > 3 /\ 0 \in SN
    /\ \A a, b \in SN : Minus(a, b) \in SN /\ Plus(a, b) \in SN
BY HalfAssumption, SequencerAssumption DEF SNSpace, SN, Minus, Plus

\* A distance is a number, and not 0 between different numbers.
LEMMA MinusType ==
    ASSUME NEW a \in SN, NEW b \in SN
    PROVE  Minus(a, b) \in Nat /\ (a # b => Minus(a, b) >= 1)
BY NumberOps DEF SN, Minus

\* Rewriting numbers by one offset keeps their distances.
LEMMA MinusCancels ==
    ASSUME NEW a \in SN, NEW b \in SN, NEW o \in SN
    PROVE  Minus(Minus(a, o), Minus(b, o)) = Minus(a, b)
BY NumberOps DEF SN, Minus

\* Numbers of packets less than a whole number space apart.
LEMMA SnDistance ==
    ASSUME plan \in Plans, NEW i \in Nat, NEW j \in Nat, i <= j, j - i < SNSpace
    PROVE  /\ SnOf(i) \in SN /\ SnOf(j) \in SN
           /\ Minus(SnOf(j), SnOf(i)) = j - i
<1>1. SNSpace \in Nat /\ SNSpace > 0
  BY NumberOps
<1>2. plan.origin \in Nat
  BY <1>1, DownTrackAssumption DEF SN
<1>3. SnOf(i) \in 0 .. SNSpace - 1 /\ SnOf(j) \in 0 .. SNSpace - 1
  BY <1>1, <1>2, ModDef DEF SnOf
<1>4. SnOf(j) = IF SnOf(i) + (j - i) < SNSpace THEN SnOf(i) + (j - i)
                ELSE SnOf(i) + (j - i) - SNSpace
  <2>1. /\ plan.origin + i \in Int /\ j - i \in 0 .. SNSpace - 1
        /\ plan.origin + j = (plan.origin + i) + (j - i)
    BY <1>1, <1>2
  <2> QED
    BY <1>1, <2>1, ModAdd DEF SnOf
<1> QED
  BY <1>1, <1>3, <1>4 DEF SN, Minus

\* Every packet has a number.
LEMMA SnType ==
    ASSUME plan \in Plans, NEW i \in Nat
    PROVE  SnOf(i) \in SN
BY SnDistance, NumberOps

-----------------------------------------------------------------------------
(* The table                                                               *)

NewEntry(p, target) == [source |-> p.sn, target |-> target, idx |-> p.idx, lastNack |-> 0]
After(at) == IF at + 1 >= MaxTrack THEN 0 ELSE at + 1
BaseSN(n, target) == IF n.init = TRUE THEN n.headSN ELSE target
GapTo(n, target) ==
    IF Minus(target, BaseSN(n, target)) = 0 THEN 0 ELSE Minus(target, BaseSN(n, target)) - 1
Written(n, p, target, at) == [n.seq EXCEPT ![at] = NewEntry(p, target)]

\* What a table is after one of its parts is written.
LEMMA TableUpdate ==
    ASSUME NEW i \in BOOLEAN, NEW st, NEW h, NEW q, NEW x, NEW k, NEW r,
           r = [init |-> i, step |-> st, headSN |-> h, seq |-> q]
    PROVE  /\ [r EXCEPT !.step = x] = [init |-> i, step |-> x, headSN |-> h, seq |-> q]
           /\ [r EXCEPT !.headSN = x] = [init |-> i, step |-> st, headSN |-> x, seq |-> q]
           /\ [r EXCEPT !.seq[k] = x]
                = [init |-> i, step |-> st, headSN |-> h, seq |-> [q EXCEPT ![k] = x]]
<1>1. [r EXCEPT !.step = x] = [init |-> i, step |-> x, headSN |-> h, seq |-> q]
  BY SMTT(30)
<1>2. [r EXCEPT !.headSN = x] = [init |-> i, step |-> st, headSN |-> x, seq |-> q]
  BY SMTT(30)
<1>3. [r EXCEPT !.seq[k] = x]
        = [init |-> i, step |-> st, headSN |-> h, seq |-> [q EXCEPT ![k] = x]]
  BY SMTT(30)
<1> QED
  BY <1>1, <1>2, <1>3

\* Place writes the entry at the step and advances it.
LEMMA PlaceIs ==
    ASSUME NEW i \in BOOLEAN, NEW st, NEW h, NEW q, NEW p, NEW target
    PROVE  Place([init |-> i, step |-> st, headSN |-> h, seq |-> q], p, target)
             = [init |-> i, step |-> After(st), headSN |-> h,
                seq |-> [q EXCEPT ![st] = NewEntry(p, target)]]
<1> DEFINE r == [init |-> i, step |-> st, headSN |-> h, seq |-> q]
           e == NewEntry(p, target)
           w == [r EXCEPT !.seq[st] = e]
<1>1. r.step = st
  OBVIOUS
<1>2. Place(r, p, target) = [r EXCEPT !.seq[r.step] = e, !.step = After(r.step)]
  BY Zenon DEF Place, After, NewEntry
<1> HIDE DEF e
<1>3. w = [init |-> i, step |-> st, headSN |-> h, seq |-> [q EXCEPT ![st] = e]]
  BY TableUpdate
<1>4. [r EXCEPT !.seq[st] = e, !.step = After(st)] = [w EXCEPT !.step = After(st)]
  OBVIOUS
<1> HIDE DEF w, r
<1>5. [w EXCEPT !.step = After(st)]
        = [init |-> i, step |-> After(st), headSN |-> h, seq |-> [q EXCEPT ![st] = e]]
  BY <1>3, TableUpdate
<1> QED
  BY <1>1, <1>2, <1>4, <1>5 DEF e, r

\* push writes one entry, at the step or after the numbers skipped, or none.
LEMMA PushCases ==
    ASSUME NEW n \in Table, NEW p \in Packet, NEW target \in SN
    PROVE  LET at == (n.step + GapTo(n, target)) % MaxTrack
               m == SeqPush(n, p, target)
           IN /\ at \in Entries /\ n.step \in Entries /\ m.init = TRUE
              /\ p.head = TRUE =>
                    /\ m.step = After(at) /\ m.headSN = target
                    /\ m.seq = Written(n, p, target, at)
              /\ p.head = FALSE =>
                    /\ m.headSN = BaseSN(n, target)
                    /\ \/ m.step = After(n.step) /\ m.seq = Written(n, p, target, n.step)
                       \/ m.step = n.step /\ m.seq = n.seq
              /\ m = [init |-> m.init, step |-> m.step, headSN |-> m.headSN, seq |-> m.seq]
<1> DEFINE o == SeqOpened(n, target)
           gap == GapTo(n, target)
           at == (n.step + gap) % MaxTrack
           m == SeqPush(n, p, target)
           from == BaseSN(n, target)
<1>0. PICK yes \in BOOLEAN : yes = TRUE
  OBVIOUS
<1>1. /\ n.init \in BOOLEAN /\ n.step \in Entries /\ n.headSN \in SN
      /\ n.seq \in [Entries -> Entry] /\ p.head \in BOOLEAN
      /\ n = [init |-> n.init, step |-> n.step, headSN |-> n.headSN, seq |-> n.seq]
  BY DEF Table, Packet
<1>2. o = [init |-> yes, step |-> n.step, headSN |-> from, seq |-> n.seq]
  <2>1. CASE n.init = TRUE
    BY <1>0, <1>1, <2>1 DEF SeqOpened, BaseSN
  <2>2. CASE n.init = FALSE
    BY <1>0, <1>1, <2>2 DEF SeqOpened, BaseSN
  <2> QED
    BY <1>1, <2>1, <2>2
<1>3. gap \in Nat /\ from \in SN /\ SeqGap(o, target) = gap
  <2>1. from \in SN
    BY <1>1 DEF BaseSN
  <2>2. o.headSN = from
    BY <1>2
  <2>3. Minus(target, from) \in SN
    BY <2>1, NumberOps
  <2> QED
    BY <2>1, <2>2, <2>3, NumberOps DEF SeqGap, GapTo, SN
<1>4. at \in Entries
  <2>1. n.step + gap \in Int /\ MaxTrack \in Nat /\ MaxTrack > 0
    BY <1>1, <1>3, SequencerAssumption DEF Entries
  <2> QED
    BY <2>1, ModDef DEF Entries
<1> HIDE DEF gap, from
<1>5. CASE p.head = TRUE
  <2>1. m = Place([o EXCEPT !.step = (o.step + SeqGap(o, target)) % MaxTrack,
                            !.headSN = target], p, target)
    BY <1>5 DEF SeqPush
  <2>2. (o.step + SeqGap(o, target)) % MaxTrack = at
    BY <1>2, <1>3
  <2> HIDE DEF o, at, m
  <2> DEFINE w == [o EXCEPT !.step = at]
  <2>3. w = [init |-> yes, step |-> at, headSN |-> from, seq |-> n.seq]
    BY <1>2, TableUpdate
  <2>4. [o EXCEPT !.step = at, !.headSN = target] = [w EXCEPT !.headSN = target]
    OBVIOUS
  <2> HIDE DEF w
  <2>5. [w EXCEPT !.headSN = target]
          = [init |-> yes, step |-> at, headSN |-> target, seq |-> n.seq]
    BY <2>3, TableUpdate
  <2>6. m = [init |-> yes, step |-> After(at), headSN |-> target,
             seq |-> Written(n, p, target, at)]
    <3>1. m = Place([init |-> yes, step |-> at, headSN |-> target, seq |-> n.seq], p, target)
      BY <2>1, <2>2, <2>4, <2>5, Zenon
    <3> QED
      BY <3>1, PlaceIs DEF Written
  <2>7. /\ m.init = TRUE /\ m.step = After(at) /\ m.headSN = target
        /\ m.seq = Written(n, p, target, at)
        /\ m = [init |-> m.init, step |-> m.step, headSN |-> m.headSN, seq |-> m.seq]
    BY <1>0, <2>6
  <2> QED
    BY <1>1, <1>4, <1>5, <2>7 DEF at, gap, m
<1>6. CASE p.head = FALSE
  <2>1. m = Place(o, p, target) \/ m = o
    BY <1>6 DEF SeqPush
  <2> HIDE DEF o, m
  <2>2. Place(o, p, target) = [init |-> yes, step |-> After(n.step), headSN |-> from,
                               seq |-> Written(n, p, target, n.step)]
    BY <1>2, PlaceIs DEF Written
  <2>3. /\ m.init = TRUE /\ m.headSN = from
        /\ \/ m.step = After(n.step) /\ m.seq = Written(n, p, target, n.step)
           \/ m.step = n.step /\ m.seq = n.seq
        /\ m = [init |-> m.init, step |-> m.step, headSN |-> m.headSN, seq |-> m.seq]
    <3>1. CASE m = Place(o, p, target)
      BY <1>0, <2>2, <3>1
    <3>2. CASE m = o
      BY <1>0, <1>2, <3>2
    <3> QED
      BY <2>1, <3>1, <3>2
  <2> QED
    BY <1>1, <1>4, <1>6, <2>3 DEF gap, m, from
<1> QED
  BY <1>1, <1>5, <1>6

\* What push leaves in the table.
LEMMA PushType ==
    ASSUME NEW n \in Table, NEW p \in Packet, NEW target \in SN
    PROVE  SeqPush(n, p, target) \in Table
<1> DEFINE m == SeqPush(n, p, target)
           at == (n.step + GapTo(n, target)) % MaxTrack
<1>1. n.seq \in [Entries -> Entry] /\ n.step \in Entries /\ n.headSN \in SN /\ p.head \in BOOLEAN
  BY DEF Table, Packet
<1>2. NewEntry(p, target) \in Entry
  BY DEF NewEntry, Entry, Packet
<1>3. \A k \in Entries : After(k) \in Entries /\ Written(n, p, target, k) \in [Entries -> Entry]
  <2>1. TAKE k \in Entries
  <2>2. After(k) \in Entries
    BY SequencerAssumption DEF After, Entries
  <2> QED
    BY <1>1, <1>2, <2>2 DEF Written
<1>4. BaseSN(n, target) \in SN
  BY <1>1 DEF BaseSN
<1>5. /\ at \in Entries /\ m.init = TRUE
      /\ p.head = TRUE => m.step = After(at) /\ m.headSN = target /\ m.seq = Written(n, p, target, at)
      /\ p.head = FALSE =>
            /\ m.headSN = BaseSN(n, target)
            /\ \/ m.step = After(n.step) /\ m.seq = Written(n, p, target, n.step)
               \/ m.step = n.step /\ m.seq = n.seq
      /\ m = [init |-> m.init, step |-> m.step, headSN |-> m.headSN, seq |-> m.seq]
  BY PushCases
<1> HIDE DEF m, at
<1>6. m.step \in Entries /\ m.headSN \in SN /\ m.seq \in [Entries -> Entry]
  BY <1>1, <1>3, <1>4, <1>5
<1> QED
  BY <1>5, <1>6 DEF Table, m

\* Answering a NACK only records the time, in the entry that has the number.
LEMMA AnsweredIs ==
    ASSUME NEW n \in Table, NEW sn \in SN, NEW now \in Nat, SeqHas(n, sn)
    PROVE  LET at == SeqPos(n, sn)
               m == SeqAnswered(n, sn, now)
           IN /\ at \in Entries /\ m \in Table
              /\ m.init = n.init /\ m.step = n.step /\ m.headSN = n.headSN
              /\ m.seq = [n.seq EXCEPT ![at] =
                            [source |-> n.seq[at].source, target |-> n.seq[at].target,
                             idx |-> n.seq[at].idx, lastNack |-> now]]
<1> DEFINE at == SeqPos(n, sn)
           e == n.seq[at]
           f == [source |-> e.source, target |-> e.target, idx |-> e.idx, lastNack |-> now]
           m == SeqAnswered(n, sn, now)
<1>1. /\ n.init \in BOOLEAN /\ n.step \in Entries /\ n.headSN \in SN
      /\ n.seq \in [Entries -> Entry]
      /\ n = [init |-> n.init, step |-> n.step, headSN |-> n.headSN, seq |-> n.seq]
  BY DEF Table
<1>2. at \in Entries
  <2>1. Minus(n.headSN, sn) \in Nat
    BY <1>1, NumberOps DEF SN
  <2>2. SeqRaw(n, sn) > -MaxTrack /\ SeqRaw(n, sn) = n.step - Minus(n.headSN, sn) - 1
    BY DEF SeqHas, SeqRaw
  <2> QED
    BY <1>1, <2>1, <2>2, SequencerAssumption DEF SeqPos, Entries
<1>3. m = [n EXCEPT !.seq[at] = [n.seq[at] EXCEPT !.lastNack = now]]
  BY <1>1, <1>2 DEF SeqAnswered
<1> HIDE DEF at, m
<1>4. e \in Entry
  BY <1>1, <1>2
<1>5. [e EXCEPT !.lastNack = now] = f /\ f \in Entry
  <2> HIDE DEF e
  <2> QED
    BY <1>4 DEF Entry
<1>6. m = [init |-> n.init, step |-> n.step, headSN |-> n.headSN,
           seq |-> [n.seq EXCEPT ![at] = f]]
  <2> HIDE DEF f
  <2>1. m = [n EXCEPT !.seq[at] = f]
    BY <1>3, <1>5
  <2> QED
    BY <1>1, <2>1, TableUpdate
<1>7. [n.seq EXCEPT ![at] = f] \in [Entries -> Entry]
  BY <1>1, <1>2, <1>5
<1> HIDE DEF f
<1>8. m \in Table
  BY <1>1, <1>6, <1>7 DEF Table
<1> QED
  BY <1>2, <1>6, <1>8 DEF at, m, f, e

-----------------------------------------------------------------------------
(* Types                                                                   *)

\* An empty table is a table.
LEMMA NewTable == newSequencer \in Table
<1>1. [source |-> 0, target |-> 0, idx |-> NoIdx, lastNack |-> 0] \in Entry
  BY NumberOps DEF Entry
<1>2. 0 \in Entries
  BY SequencerAssumption DEF Entries
<1>3. [s \in Entries |-> [source |-> 0, target |-> 0, idx |-> NoIdx, lastNack |-> 0]]
        \in [Entries -> Entry]
  BY <1>1
<1> QED
  BY <1>2, <1>3, NumberOps DEF newSequencer, Table

\* The number a packet is sent with.
LEMMA TargetType ==
    ASSUME DownTypeOK
    PROVE  Minus(pkt.sn, snOffset) \in SN
BY NumberOps DEF DownTypeOK, Packet

\* Every step keeps the types.
LEMMA TypeStep ==
    ASSUME DownTypeOK, [Next]_vars
    PROVE  DownTypeOK'
<1> USE DEF DownTypeOK
<1>1. ASSUME NEW i \in 0 .. MaxIdx, NEW key \in BOOLEAN, WriteRTP(i, key)
      PROVE  DownTypeOK'
  <2>1. i \in Nat
    OBVIOUS
  <2>2. SnOf(i) \in SN
    BY <2>1, SnType
  <2>3. pkt' \in Packet
    <3>0. (i >= head) \in BOOLEAN
      OBVIOUS
    <3>1. PICK h \in BOOLEAN : h = (i >= head)
      BY <3>0, Zenon
    <3>2. [idx |-> i, sn |-> SnOf(i), head |-> h, key |-> key] \in Packet
      BY <2>1, <2>2 DEF Packet
    <3>3. pkt' = [idx |-> i, sn |-> SnOf(i), head |-> i >= head, key |-> key] \/ pkt' = pkt
      BY <1>1 DEF WriteRTP
    <3> QED
      BY <3>1, <3>2, <3>3
  <2> QED
    BY <1>1, <2>1, <2>3 DEF WriteRTP, ghosts, nackGhosts
<1>2. CASE Resync
  <2>1. NewOffset(pkt.sn) \in SN
    <3>1. pkt.sn \in SN /\ 1 \in SN
      BY NumberOps DEF Packet, SN
    <3>2. Minus(pkt.sn, lastSN) \in SN
      BY <3>1, NumberOps
    <3>3. Minus(Minus(pkt.sn, lastSN), 1) \in SN
      BY <3>1, <3>2, NumberOps
    <3> QED
      BY <3>3 DEF NewOffset
  <2>2. base' \in Nat \cup {-1}
    BY <1>2 DEF Resync, NewBase, Packet
  <2> QED
    BY <1>2, <2>1, <2>2 DEF Resync, counts, nackGhosts
<1>3. CASE ClearResync
  BY <1>3 DEF ClearResync, counts, nackGhosts
<1>4. CASE Send
  <2>1. Minus(pkt.sn, snOffset) \in SN
    BY TargetType
  <2>2. sequencer' \in Table
    BY <1>4, <2>1, PushType DEF Send
  <2>3. lastSN' \in SN
    BY <1>4, <2>1 DEF Send, NextLastSN
  <2>4. lastHead' \in [idx : Nat \cup {-1}, target : SN] /\ base' \in Nat \cup {-1}
    BY <1>4, <2>1 DEF Send, Packet
  <2>5. recent' \subseteq [idx : Nat, target : SN]
    BY <1>4, <2>1 DEF Send, Packet, StillRecent
  <2> QED
    BY <1>4, <2>2, <2>3, <2>4, <2>5 DEF Send, counts, nackGhosts
<1>5. CASE Bind
  BY <1>5 DEF Bind, writeVars, nackGhosts
<1>6. CASE BindEnable
  BY <1>6 DEF BindEnable, writeVars, counts, ghosts, nackGhosts
<1>7. CASE BindSequencer
  BY <1>7, NewTable DEF BindSequencer, writeVars, counts
<1>8. CASE BindBound
  BY <1>8 DEF BindBound, writeVars, counts, ghosts, nackGhosts
<1>9. CASE Unbind
  BY <1>9 DEF Unbind, writeVars, counts, ghosts, nackGhosts
<1>10. ASSUME NEW val \in BOOLEAN, Mute(val)
       PROVE  DownTypeOK'
  BY <1>10 DEF Mute, writeVars, ghosts, nackGhosts
<1>11. CASE MuteResync
  BY <1>11 DEF MuteResync, writeVars, counts, nackGhosts
<1>12. ASSUME NEW sn \in SN, handleRTCP(sn)
       PROVE  DownTypeOK'
  <2>1. CASE SeqAnswers(sequencer, sn, clock)
    <3>1. SeqHas(sequencer, sn)
      BY <2>1 DEF SeqAnswers
    <3>2. SeqPos(sequencer, sn) \in Entries /\ SeqAnswered(sequencer, sn, clock) \in Table
      BY <3>1, AnsweredIs
    <3> DEFINE e == sequencer.seq[SeqPos(sequencer, sn)]
    <3>3. e \in Entry
      BY <3>2 DEF Table
    <3>4. /\ jobs' = Append(jobs, e) /\ sequencer' \in Table
          /\ answered' = answered \cup {[target |-> sn, idx |-> e.idx, at |-> clock]}
      BY <1>12, <2>1, <3>2 DEF handleRTCP, RememberAnswer
    <3> HIDE DEF e
    <3>5. jobs' \in Seq(Entry)
      BY <3>3, <3>4
    <3>6. answered' \subseteq [target : SN, idx : Nat \cup {NoIdx}, at : Nat]
      BY <3>3, <3>4 DEF Entry
    <3> QED
      BY <1>12, <3>4, <3>5, <3>6 DEF handleRTCP, writeVars, ghosts
  <2>2. CASE ~SeqAnswers(sequencer, sn, clock)
    BY <1>12, <2>2 DEF handleRTCP, writeVars, ghosts, nackGhosts
  <2> QED
    BY <2>1, <2>2
<1>13. CASE RetransmitPackets
  <2>1. jobs' \in Seq(Entry)
    BY <1>13, HeadTailProperties DEF RetransmitPackets
  <2> QED
    BY <1>13, <2>1 DEF RetransmitPackets, writeVars, counts, ghosts, nackGhosts
<1>14. CASE Tick
  BY <1>14 DEF Tick, writeVars, counts, ghosts, nackGhosts
<1>15. CASE UNCHANGED vars
  BY <1>15 DEF vars, writeVars, counts, ghosts, nackGhosts
<1> QED
  BY <1>1, <1>2, <1>3, <1>4, <1>5, <1>6, <1>7, <1>8, <1>9, <1>10, <1>11, <1>12, <1>13,
     <1>14, <1>15 DEF Next

\* The types hold at the start.
LEMMA TypeInit ==
    ASSUME Init
    PROVE  DownTypeOK
<1>1. <<>> \in Seq(Entry)
  OBVIOUS
<1> QED
  BY <1>1, NewTable, NumberOps DEF Init, DownTypeOK, NoPkt, Packet

-----------------------------------------------------------------------------
(* A track starts with a key frame                                         *)

\* Every step keeps the requests for a key frame.
LEMMA KeyStep ==
    ASSUME DownTypeOK, KeyInv, [Next]_vars
    PROVE  KeyInv'
<1> USE DEF KeyInv, Off, Muting, Asked, Video
<1>0. pkt.key \in BOOLEAN /\ wpc \in {"idle", "resync", "clear", "send"}
  BY DEF DownTypeOK, Packet
<1>1. ASSUME NEW i \in 0 .. MaxIdx, NEW key \in BOOLEAN, WriteRTP(i, key)
      PROVE  KeyInv'
  <2>1. CASE enabled = TRUE /\ bound = TRUE
    BY <1>0, <1>1, <2>1 DEF WriteRTP
  <2>2. CASE ~(enabled = TRUE /\ bound = TRUE)
    BY <1>0, <1>1, <2>2 DEF WriteRTP
  <2> QED
    BY <2>1, <2>2
<1>2. CASE Resync
  <2>1. CASE reSync = TRUE /\ Video /\ pkt.key = FALSE
    BY <1>0, <1>2, <2>1 DEF Resync
  <2>2. CASE reSync = TRUE /\ (Video => pkt.key = TRUE)
    BY <1>0, <1>2, <2>2 DEF Resync
  <2>3. CASE reSync = FALSE
    BY <1>0, <1>2, <2>3 DEF Resync
  <2> QED
    BY <1>0, <2>1, <2>2, <2>3
<1>3. CASE ClearResync
  BY <1>0, <1>3 DEF ClearResync
<1>4. CASE Send
  BY <1>0, <1>4 DEF Send
<1>5. CASE Bind
  BY <1>0, <1>5 DEF Bind, writeVars
<1>6. CASE BindEnable
  BY <1>0, <1>6 DEF BindEnable, writeVars, ghosts
<1>7. CASE BindSequencer
  BY <1>0, <1>7 DEF BindSequencer, writeVars
<1>8. CASE BindBound
  BY <1>0, <1>8 DEF BindBound, writeVars, ghosts
<1>9. CASE Unbind
  BY <1>0, <1>9 DEF Unbind, writeVars, ghosts
<1>10. ASSUME NEW val \in BOOLEAN, Mute(val)
       PROVE  KeyInv'
  BY <1>0, <1>10, ZenonT(60) DEF Mute, writeVars, ghosts
<1>11. CASE MuteResync
  BY <1>0, <1>11 DEF MuteResync, writeVars
<1>12. ASSUME NEW sn \in SN, handleRTCP(sn)
       PROVE  KeyInv'
  BY <1>0, <1>12 DEF handleRTCP, writeVars, ghosts
<1>13. CASE RetransmitPackets
  BY <1>0, <1>13 DEF RetransmitPackets, writeVars, ghosts
<1>14. CASE Tick
  BY <1>0, <1>14 DEF Tick, writeVars, ghosts
<1>15. CASE UNCHANGED vars
  BY <1>0, <1>15 DEF vars, writeVars, ghosts
<1> QED
  BY <1>1, <1>2, <1>3, <1>4, <1>5, <1>6, <1>7, <1>8, <1>9, <1>10, <1>11, <1>12, <1>13,
     <1>14, <1>15 DEF Next

\* A video starts, and starts again after packets were withheld by Mute, Unbind or a
\* resync, with a key frame, whatever falls between the steps of WriteRTP, Bind and
\* Mute, unless a request was overwritten by a packet let in before it.
THEOREM KeyFrameFirst == Spec => []StartsOnKeyFrame
<1>1. Init => DownTypeOK /\ KeyInv
  <2>1. Init => KeyInv
    BY DEF Init, KeyInv, Off
  <2> QED
    BY <2>1, TypeInit
<1>2. DownTypeOK /\ KeyInv /\ [Next]_vars => (DownTypeOK /\ KeyInv)'
  BY TypeStep, KeyStep
<1>3. KeyInv => StartsOnKeyFrame
  BY DEF KeyInv, StartsOnKeyFrame
<1> QED
  BY <1>1, <1>2, <1>3, PTL DEF Spec

-----------------------------------------------------------------------------
(* The stream                                                              *)

\* How far a stream gets.
LEMMA MaxIdxType ==
    ASSUME plan \in Plans
    PROVE  MaxIdx \in Nat
BY DownTrackAssumption DEF MaxIdx

\* Every step keeps what is known of the packet under way.
LEMMA StreamStep ==
    ASSUME DownTypeOK, StreamInv, [Next]_vars
    PROVE  StreamInv'
<1> USE DEF DownTypeOK, StreamInv
<1>0. /\ plan' = plan /\ MaxIdx' = MaxIdx /\ MaxIdx \in Nat /\ Late \in Nat
      /\ \A k : SnOf(k)' = SnOf(k)
  <2>1. plan' = plan
    BY DEF Next, WriteRTP, Resync, ClearResync, Send, Bind, BindEnable, BindSequencer,
           BindBound, Unbind, Mute, MuteResync, handleRTCP, RetransmitPackets, Tick, vars
  <2> QED
    BY <2>1, MaxIdxType, DownTrackAssumption DEF MaxIdx, SnOf
<1>1. ASSUME NEW i \in 0 .. MaxIdx, NEW key \in BOOLEAN, WriteRTP(i, key)
      PROVE  StreamInv'
  <2>1. head' = IF i > head THEN i ELSE head
    BY <1>1 DEF WriteRTP
  <2>2. head' \in Int /\ head' <= MaxIdx /\ i <= head' /\ head' - Late <= i
    BY <1>0, <1>1, <2>1 DEF WriteRTP, Arrives
  <2>3. lastHead' = lastHead /\ lastSN' = lastSN /\ lastHead.idx <= head'
    BY <1>1, <2>1 DEF WriteRTP
  <2>4. CASE enabled /\ bound
    <3>1. pkt' = [idx |-> i, sn |-> SnOf(i), head |-> i >= head, key |-> key]
      BY <1>1, <2>4 DEF WriteRTP
    <3>2. pkt'.idx = i /\ pkt'.sn = SnOf(i) /\ pkt'.head = (i >= head)
      BY <3>1, Zenon
    <3>3. i >= head => i = head'
      BY <2>1
    <3> QED
      BY <1>0, <2>2, <2>3, <3>2, <3>3
  <2>5. CASE ~(enabled /\ bound)
    BY <1>0, <1>1, <2>2, <2>3, <2>5 DEF WriteRTP
  <2> QED
    BY <2>4, <2>5
<1>2. CASE Resync
  BY <1>0, <1>2 DEF Resync
<1>3. CASE ClearResync
  BY <1>0, <1>3 DEF ClearResync
<1>4. CASE Send
  <2>1. CASE pkt.head = TRUE
    <3>1. /\ lastHead' = [idx |-> pkt.idx, target |-> Minus(pkt.sn, snOffset)]
          /\ lastSN' = Minus(pkt.sn, snOffset) /\ wpc' = "idle" /\ head' = head
      BY <1>4, <2>1 DEF Send, NextLastSN
    <3> QED
      BY <1>0, <1>4, <3>1 DEF Send, Packet
  <2>2. CASE pkt.head = FALSE
    BY <1>0, <1>4, <2>2 DEF Send, NextLastSN
  <2> QED
    BY <2>1, <2>2 DEF Packet
<1>5. CASE Bind
  BY <1>0, <1>5 DEF Bind, writeVars
<1>6. CASE BindEnable
  BY <1>0, <1>6 DEF BindEnable, writeVars, ghosts
<1>7. CASE BindSequencer
  BY <1>0, <1>7 DEF BindSequencer, writeVars
<1>8. CASE BindBound
  BY <1>0, <1>8 DEF BindBound, writeVars, ghosts
<1>9. CASE Unbind
  BY <1>0, <1>9 DEF Unbind, writeVars, ghosts
<1>10. ASSUME NEW val \in BOOLEAN, Mute(val)
       PROVE  StreamInv'
  BY <1>0, <1>10 DEF Mute, writeVars, ghosts
<1>11. CASE MuteResync
  BY <1>0, <1>11 DEF MuteResync, writeVars
<1>12. ASSUME NEW sn \in SN, handleRTCP(sn)
       PROVE  StreamInv'
  BY <1>0, <1>12 DEF handleRTCP, writeVars, ghosts
<1>13. CASE RetransmitPackets
  BY <1>0, <1>13 DEF RetransmitPackets, writeVars, ghosts
<1>14. CASE Tick
  BY <1>0, <1>14 DEF Tick, writeVars, ghosts
<1>15. CASE UNCHANGED vars
  BY <1>0, <1>15 DEF vars, writeVars, ghosts
<1> QED
  BY <1>1, <1>2, <1>3, <1>4, <1>5, <1>6, <1>7, <1>8, <1>9, <1>10, <1>11, <1>12, <1>13,
     <1>14, <1>15 DEF Next

-----------------------------------------------------------------------------
(* Retransmissions are not repeated too soon                               *)

\* An empty table has no packet.
LEMMA NewTableEmpty ==
    newSequencer.init = FALSE /\ \A s \in Entries : newSequencer.seq[s].idx = NoIdx
BY DEF newSequencer

\* In order, push gives the packet an entry of its own, newer than all others.
LEMMA OrderPush ==
    ASSUME DownTypeOK, StreamInv, OrderInv, Send
    PROVE  OrderInv'
<1>0. /\ pkt \in Packet /\ sequencer \in Table /\ lastHead.idx \in Nat \cup {-1}
      /\ pkt.idx \in Nat /\ pkt.head \in BOOLEAN /\ sequencer.seq \in [Entries -> Entry]
      /\ sequencer.init \in BOOLEAN /\ Minus(pkt.sn, snOffset) \in SN
  BY TargetType DEF DownTypeOK, Packet, Table
<1>1. /\ answered' = answered /\ doubled' = doubled /\ clock' = clock /\ Video' = Video
      /\ seqLate' = (seqLate \/ ~pkt.head
                     \/ (sequencer.init /\ (\/ pkt.idx = lastHead.idx
                                            \/ Minus(pkt.sn, snOffset) = sequencer.headSN)))
  BY DEF Send, nackGhosts, Video
<1>2. /\ \A a \in answered : a.at <= clock
      /\ seqLate' \in BOOLEAN /\ doubled' = FALSE
  BY <1>1, <1>0 DEF OrderInv
<1>3. ASSUME seqLate' = FALSE
      PROVE  /\ seqLate = FALSE /\ pkt.head = TRUE /\ lastHead'.idx = pkt.idx
             /\ sequencer.init = TRUE => lastHead.idx < pkt.idx
             /\ lastHead.idx <= pkt.idx
  <2>1. seqLate = FALSE /\ pkt.head = TRUE /\ (sequencer.init = TRUE => pkt.idx # lastHead.idx)
    BY <1>0, <1>1, <1>3 DEF OrderInv
  <2>2. pkt.idx = head /\ lastHead.idx <= head
    BY <2>1 DEF StreamInv, Send
  <2> QED
    BY <1>0, <2>1, <2>2 DEF Send
<1>4. CASE ~Video
  <2>1. sequencer' = sequencer /\ sequencer.init = FALSE
    BY <1>4 DEF Send, OrderInv
  <2>2. /\ \A s \in Entries : sequencer.seq[s].idx = NoIdx
        /\ \A a \in answered : a.idx = NoIdx
    BY <2>1 DEF OrderInv
  <2>3. ASSUME seqLate' = FALSE
        PROVE  NoIdx <= lastHead'.idx
    <3>1. lastHead'.idx = pkt.idx
      BY <1>3, <2>3
    <3> QED
      BY <1>0, <3>1 DEF NoIdx
  <2> QED
    BY <1>1, <1>2, <1>4, <2>1, <2>2, <2>3, Zenon DEF OrderInv
<1>5. CASE Video
  <2> DEFINE target == Minus(pkt.sn, snOffset)
             at == (sequencer.step + GapTo(sequencer, target)) % MaxTrack
             e == NewEntry(pkt, target)
  <2>1. sequencer' = SeqPush(sequencer, pkt, target)
    BY <1>5 DEF Send
  <2>2. /\ sequencer'.init = TRUE /\ at \in Entries
        /\ pkt.head = TRUE => sequencer'.seq = [sequencer.seq EXCEPT ![at] = e]
    <3>1. LET m == SeqPush(sequencer, pkt, target)
          IN  /\ m.init = TRUE /\ at \in Entries
              /\ pkt.head = TRUE => m.seq = Written(sequencer, pkt, target, at)
      BY <1>0, PushCases, Zenon
    <3> QED
      BY <2>1, <3>1, Zenon DEF Written
  <2>3. e.idx = pkt.idx
    BY DEF NewEntry
  <2> HIDE DEF target, at, e
  <2>4. ASSUME seqLate' = FALSE
        PROVE  /\ \A s \in Entries : sequencer'.seq[s].idx <= lastHead'.idx
               /\ \A s, t \in Entries :
                     sequencer'.seq[s].idx = sequencer'.seq[t].idx /\ s # t
                       => sequencer'.seq[s].idx = NoIdx
               /\ \A a \in answered :
                     /\ a.idx <= lastHead'.idx
                     /\ \A s \in Entries :
                           a.idx # NoIdx /\ sequencer'.seq[s].idx = a.idx
                             => a.at <= sequencer'.seq[s].lastNack
    <3>1. /\ seqLate = FALSE /\ lastHead'.idx = pkt.idx /\ lastHead.idx <= pkt.idx
          /\ sequencer.init = TRUE => lastHead.idx < pkt.idx
          /\ sequencer'.seq = [sequencer.seq EXCEPT ![at] = e]
      BY <1>3, <2>2, <2>4
    <3>2. \A s \in Entries : sequencer.seq[s].idx \in Nat \cup {NoIdx}
      BY <1>0 DEF Entry
    <3>3. \A s \in Entries : sequencer.seq[s].idx <= lastHead.idx /\ sequencer.seq[s].idx # pkt.idx
      <4>1. CASE sequencer.init = TRUE
        BY <1>0, <3>1, <3>2, <4>1 DEF OrderInv, NoIdx
      <4>2. CASE sequencer.init = FALSE
        BY <1>0, <3>1, <3>2, <4>2 DEF OrderInv, NoIdx
      <4> QED
        BY <1>0, <4>1, <4>2
    <3>4. \A a \in answered : a.idx <= lastHead.idx /\ a.idx # pkt.idx /\ a.idx \in Int
      <4>0. \A a \in answered : a.idx \in Nat \cup {NoIdx}
        BY DEF DownTypeOK
      <4>1. CASE sequencer.init = TRUE
        BY <1>0, <3>1, <4>0, <4>1 DEF OrderInv, NoIdx
      <4>2. CASE sequencer.init = FALSE
        BY <1>0, <3>1, <4>0, <4>2 DEF OrderInv, NoIdx
      <4> QED
        BY <1>0, <4>1, <4>2
    <3>5. \A s \in Entries : sequencer'.seq[s] = IF s = at THEN e ELSE sequencer.seq[s]
      BY <1>0, <2>2, <3>1
    <3>6. /\ \A s, t \in Entries :
               sequencer.seq[s].idx = sequencer.seq[t].idx /\ s # t => sequencer.seq[s].idx = NoIdx
          /\ \A a \in answered, s \in Entries :
               a.idx # NoIdx /\ sequencer.seq[s].idx = a.idx => a.at <= sequencer.seq[s].lastNack
      BY <3>1 DEF OrderInv
    <3>7. \A s \in Entries : sequencer'.seq[s].idx <= lastHead'.idx
      BY <1>0, <2>3, <3>1, <3>2, <3>3, <3>5 DEF NoIdx
    <3>8. \A s, t \in Entries :
             sequencer'.seq[s].idx = sequencer'.seq[t].idx /\ s # t
               => sequencer'.seq[s].idx = NoIdx
      BY <2>3, <3>3, <3>5, <3>6
    <3>9. \A a \in answered : a.idx <= lastHead'.idx
      BY <1>0, <3>1, <3>4
    <3>10. \A a \in answered, s \in Entries :
              a.idx # NoIdx /\ sequencer'.seq[s].idx = a.idx => a.at <= sequencer'.seq[s].lastNack
      BY <2>3, <3>4, <3>5, <3>6
    <3> QED
      BY <3>7, <3>8, <3>9, <3>10
  <2> QED
    BY <1>1, <1>2, <1>5, <2>2, <2>4 DEF OrderInv
<1> QED
  BY <1>4, <1>5

\* An answer is not too soon after the last, and its time is kept with the packet.
LEMMA OrderAnswer ==
    ASSUME DownTypeOK, OrderInv, NEW sn \in SN, handleRTCP(sn),
           SeqAnswers(sequencer, sn, clock)
    PROVE  OrderInv'
<1> DEFINE at == SeqPos(sequencer, sn)
           e == sequencer.seq[at]
           f == [source |-> e.source, target |-> e.target, idx |-> e.idx, lastNack |-> clock]
           b == [target |-> sn, idx |-> e.idx, at |-> clock]
<1>0. /\ sequencer \in Table /\ sequencer.seq \in [Entries -> Entry] /\ clock \in Nat
      /\ SeqHas(sequencer, sn)
  BY DEF DownTypeOK, Table, SeqAnswers
<1>1. /\ at \in Entries
      /\ SeqAnswered(sequencer, sn, clock).init = sequencer.init
      /\ SeqAnswered(sequencer, sn, clock).seq = [sequencer.seq EXCEPT ![at] = f]
  BY <1>0, AnsweredIs, SMTT(40)
<1>2. e \in Entry /\ (e.lastNack = 0 \/ clock - e.lastNack > IgnoreRetransmission)
  BY <1>0, <1>1 DEF SeqAnswers
<1>3. /\ sequencer'.init = sequencer.init
      /\ sequencer'.seq = [sequencer.seq EXCEPT ![at] = f]
  BY <1>1, Zenon DEF handleRTCP
<1>4. /\ clock' = clock /\ seqLate' = seqLate /\ lastHead' = lastHead /\ Video' = Video
      /\ answered' = answered \cup {b}
      /\ doubled' = (doubled \/ \E a \in answered :
             /\ ~seqLate /\ a.target = sn /\ a.idx = e.idx /\ e.idx # NoIdx
             /\ a.at # 0 /\ clock - a.at <= IgnoreRetransmission)
  BY DEF handleRTCP, RememberAnswer, ghosts, Video
<1>5. f.idx = e.idx /\ f.lastNack = clock /\ b.idx = e.idx /\ b.at = clock
  OBVIOUS
<1> HIDE DEF f, b, at
<1>6. \A s \in Entries : sequencer'.seq[s] = IF s = at THEN f ELSE sequencer.seq[s]
  BY <1>0, <1>1, <1>3
<1>7. \A a \in answered : a.at \in Nat /\ a.at <= clock
  BY DEF DownTypeOK, OrderInv
<1>8. \A s \in Entries : sequencer'.seq[s].idx = sequencer.seq[s].idx
  BY <1>5, <1>6
<1>9. doubled' = FALSE
  <2>1. ASSUME NEW a \in answered, ~seqLate, a.idx = e.idx, e.idx # NoIdx, a.at # 0,
               clock - a.at <= IgnoreRetransmission
        PROVE  FALSE
    <3>1. a.at <= e.lastNack
      BY <1>1, <2>1 DEF OrderInv
    <3> QED
      BY <1>0, <1>2, <1>7, <2>1, <3>1, SequencerAssumption DEF Entry
  <2>2. doubled = FALSE
    BY DEF OrderInv
  <2> QED
    BY <1>4, <2>1, <2>2
<1>10. \A a \in answered' : a.at <= clock'
  BY <1>0, <1>4, <1>5, <1>7
<1>11. sequencer'.init = FALSE =>
          /\ \A s \in Entries : sequencer'.seq[s].idx = NoIdx
          /\ \A a \in answered' : a.idx = NoIdx
  BY <1>1, <1>3, <1>4, <1>5, <1>8 DEF OrderInv
<1>12. ASSUME seqLate = FALSE
       PROVE  /\ \A s \in Entries : sequencer'.seq[s].idx <= lastHead.idx
              /\ \A s, t \in Entries :
                    sequencer'.seq[s].idx = sequencer'.seq[t].idx /\ s # t
                      => sequencer'.seq[s].idx = NoIdx
  BY <1>8, <1>12 DEF OrderInv
<1>13. ASSUME seqLate = FALSE, NEW a \in answered'
       PROVE  /\ a.idx <= lastHead.idx
              /\ \A s \in Entries :
                    a.idx # NoIdx /\ sequencer'.seq[s].idx = a.idx
                      => a.at <= sequencer'.seq[s].lastNack
  <2>1. CASE a \in answered
    <3>1. a.idx <= lastHead.idx
      BY <1>13, <2>1 DEF OrderInv
    <3>2. ASSUME NEW s \in Entries, a.idx # NoIdx, sequencer'.seq[s].idx = a.idx
          PROVE  a.at <= sequencer'.seq[s].lastNack
      <4>1. CASE s = at
        BY <1>5, <1>6, <1>7, <2>1, <4>1
      <4>2. CASE s # at
        BY <1>6, <1>13, <2>1, <3>2, <4>2 DEF OrderInv
      <4> QED
        BY <4>1, <4>2
    <3> QED
      BY <3>1, <3>2
  <2>2. CASE a = b
    <3>1. a.idx = e.idx /\ a.at = clock
      BY <1>5, <2>2
    <3>2. a.idx <= lastHead.idx
      BY <1>1, <1>13, <3>1 DEF OrderInv
    <3>3. ASSUME NEW s \in Entries, a.idx # NoIdx, sequencer'.seq[s].idx = a.idx
          PROVE  s = at
      BY <1>1, <1>8, <1>13, <3>1, <3>3 DEF OrderInv
    <3>4. sequencer'.seq[at].lastNack = clock
      BY <1>1, <1>5, <1>6
    <3> QED
      BY <1>0, <3>1, <3>2, <3>3, <3>4
  <2> QED
    BY <1>4, <1>13, <2>1, <2>2
<1> QED
  BY <1>3, <1>4, <1>9, <1>10, <1>11, <1>12, <1>13, Zenon DEF OrderInv

\* Every step keeps the times of the answers with the packets.
LEMMA OrderStep ==
    ASSUME DownTypeOK, StreamInv, OrderInv, [Next]_vars
    PROVE  OrderInv'
<1>1. ASSUME UNCHANGED <<plan, sequencer, answered, doubled, clock, seqLate, lastHead>>
      PROVE  OrderInv'
  BY <1>1 DEF OrderInv, Video
<1>2. ASSUME NEW i \in 0 .. MaxIdx, NEW key \in BOOLEAN, WriteRTP(i, key)
      PROVE  OrderInv'
  BY <1>1, <1>2 DEF WriteRTP, nackGhosts
<1>3. CASE Resync
  BY <1>1, <1>3 DEF Resync, nackGhosts
<1>4. CASE ClearResync
  BY <1>1, <1>4 DEF ClearResync, nackGhosts
<1>5. CASE Bind
  BY <1>1, <1>5 DEF Bind, nackGhosts
<1>6. CASE BindEnable
  BY <1>1, <1>6 DEF BindEnable, ghosts, nackGhosts
<1>7. CASE BindSequencer
  <2>1. sequencer'.init = FALSE /\ \A s \in Entries : sequencer'.seq[s].idx = NoIdx
    <3>1. CASE Video
      BY <1>7, <3>1, NewTableEmpty DEF BindSequencer
    <3>2. CASE ~Video
      BY <1>7, <3>2 DEF BindSequencer, OrderInv
    <3> QED
      BY <3>1, <3>2
  <2>2. /\ answered' = {} /\ seqLate' = FALSE /\ doubled' = doubled
        /\ lastHead' = lastHead /\ NoIdx <= lastHead.idx
    BY <1>7 DEF BindSequencer, DownTypeOK, NoIdx
  <2> QED
    BY <2>1, <2>2 DEF OrderInv
<1>8. CASE BindBound
  BY <1>1, <1>8 DEF BindBound, ghosts, nackGhosts
<1>9. CASE Unbind
  BY <1>1, <1>9 DEF Unbind, ghosts, nackGhosts
<1>10. ASSUME NEW val \in BOOLEAN, Mute(val)
       PROVE  OrderInv'
  BY <1>1, <1>10 DEF Mute, ghosts, nackGhosts
<1>11. CASE MuteResync
  BY <1>1, <1>11 DEF MuteResync, nackGhosts
<1>12. ASSUME NEW sn \in SN, handleRTCP(sn)
       PROVE  OrderInv'
  <2>1. CASE ~SeqAnswers(sequencer, sn, clock)
    BY <1>1, <1>12, <2>1 DEF handleRTCP, ghosts, nackGhosts
  <2> QED
    BY <1>12, <2>1, OrderAnswer
<1>13. CASE RetransmitPackets
  BY <1>1, <1>13 DEF RetransmitPackets, ghosts, nackGhosts
<1>14. CASE Tick
  <2>1. /\ UNCHANGED <<plan, sequencer, answered, doubled, seqLate, lastHead>>
        /\ clock' = clock + 1
    BY <1>14 DEF Tick, ghosts, nackGhosts
  <2>2. \A a \in answered : a.at <= clock'
    BY <2>1 DEF OrderInv, DownTypeOK
  <2> QED
    BY <2>1, <2>2 DEF OrderInv, Video
<1>15. CASE UNCHANGED vars
  BY <1>1, <1>15 DEF vars, ghosts, nackGhosts
<1> QED
  BY <1>2, <1>3, <1>4, <1>5, <1>6, <1>7, <1>8, <1>9, <1>10, <1>11, <1>12, <1>13,
     <1>14, <1>15, OrderPush DEF Next

\* The invariants of the stream and of the table hold at the start.
LEMMA TableInit ==
    ASSUME Init
    PROVE  StreamInv /\ OrderInv
<1>1. MaxIdx \in Nat
  BY MaxIdxType DEF Init
<1>2. StreamInv
  BY <1>1 DEF Init, StreamInv
<1>3. /\ sequencer.init = FALSE /\ \A s \in Entries : sequencer.seq[s].idx = NoIdx
      /\ lastHead.idx = NoIdx /\ answered = {} /\ seqLate = FALSE /\ doubled = FALSE
  BY NewTableEmpty DEF Init, NoIdx
<1>4. NoIdx <= NoIdx
  BY DEF NoIdx
<1>5. OrderInv
  BY <1>3, <1>4 DEF OrderInv
<1> QED
  BY <1>2, <1>5

\* As long as packets come in order, a packet the subscriber asks for again within
\* ignoreRetransmission of an answer is not sent again.
THEOREM Throttled == Spec => []RtxThrottled
<1>1. Init => DownTypeOK /\ StreamInv /\ OrderInv
  BY TypeInit, TableInit
<1>2. DownTypeOK /\ StreamInv /\ OrderInv /\ [Next]_vars
        => (DownTypeOK /\ StreamInv /\ OrderInv)'
  BY TypeStep, StreamStep, OrderStep
<1>3. OrderInv => RtxThrottled
  BY DEF OrderInv, RtxThrottled
<1> QED
  BY <1>1, <1>2, <1>3, PTL DEF Spec

-----------------------------------------------------------------------------
(* Retransmissions repeat what was sent                                    *)

\* A packet less than a lap below the head is found under its number.
LEMMA Found ==
    ASSUME DownTypeOK, NEW i \in Nat, i <= head, head - i < SNSpace
    PROVE  InBuffer(SnOf(i)) = i
<1>1. head \in Nat /\ plan \in Plans
  BY DEF DownTypeOK
<1>2. Minus(SnOf(head), SnOf(i)) = head - i
  BY <1>1, SnDistance
<1> QED
  BY <1>1, <1>2 DEF InBuffer

\* What was sent stays so.
LEMMA SentStays ==
    ASSUME DownTypeOK, [Next]_vars
    PROVE  /\ plan' = plan /\ sent \subseteq sent' /\ head <= head' /\ head' \in Int
           /\ \A e \in Entry : WasSent(e) => WasSent(e)'
<1>1. plan' = plan
  BY DEF Next, WriteRTP, Resync, ClearResync, Send, Bind, BindEnable, BindSequencer,
         BindBound, Unbind, Mute, MuteResync, handleRTCP, RetransmitPackets, Tick, vars
<1>2. sent \subseteq sent'
  BY DEF Next, WriteRTP, Resync, ClearResync, Send, Bind, BindEnable, BindSequencer,
         BindBound, Unbind, Mute, MuteResync, handleRTCP, RetransmitPackets, Tick, vars, ghosts
<1>3. head' = head \/ \E i \in 0 .. MaxIdx : head' = IF i > head THEN i ELSE head
  BY DEF Next, WriteRTP, Resync, ClearResync, Send, Bind, BindEnable, BindSequencer,
         BindBound, Unbind, Mute, MuteResync, handleRTCP, RetransmitPackets, Tick, vars
<1>4. head <= head' /\ head' \in Int /\ head \in Int
  BY <1>3 DEF DownTypeOK
<1>5. \A k : SnOf(k)' = SnOf(k)
  BY <1>1 DEF SnOf
<1>6. ASSUME NEW e \in Entry, WasSent(e)
      PROVE  WasSent(e)'
  <2>1. e.idx \in Int
    BY DEF Entry, NoIdx
  <2> QED
    BY <1>2, <1>4, <1>5, <1>6, <2>1 DEF WasSent
<1> QED
  BY <1>1, <1>2, <1>4, <1>6

\* Every step keeps that the table, the queue and the subscriber have what was sent.
LEMMA SentStep ==
    ASSUME DownTypeOK, StreamInv, SentInv, [Next]_vars
    PROVE  SentInv'
<1>0. /\ plan' = plan /\ sent \subseteq sent' /\ head <= head' /\ head' \in Int
      /\ \A e \in Entry : WasSent(e) => WasSent(e)'
      /\ \A k : SnOf(k)' = SnOf(k)
  BY SentStays DEF SnOf
<1>1. /\ sequencer \in Table /\ sequencer.seq \in [Entries -> Entry] /\ jobs \in Seq(Entry)
      /\ pkt \in Packet /\ plan \in Plans
  BY DEF DownTypeOK, Table
<1>2. ASSUME rtx' = rtx
      PROVE  RtxRepeatsSent'
  BY <1>0, <1>2 DEF SentInv, RtxRepeatsSent
<1>3. ASSUME sequencer' = sequencer
      PROVE  \A s \in Entries : WasSent(sequencer.seq[s])'
  BY <1>0, <1>1, <1>3 DEF SentInv
<1>4. ASSUME jobs' = jobs
      PROVE  \A k \in 1 .. Len(jobs') : WasSent(jobs[k])'
  <2>1. \A k \in 1 .. Len(jobs) : jobs[k] \in Entry /\ WasSent(jobs[k])
    BY <1>1 DEF SentInv
  <2> QED
    BY <1>0, <1>4, <2>1
<1>5. CASE Send
  <2>1. jobs' = jobs /\ rtx' = rtx
    BY <1>5 DEF Send
  <2>2. PICK target \in SN, e \in Entry :
           target = Minus(pkt.sn, snOffset) /\ e = NewEntry(pkt, target)
    <3>1. Minus(pkt.sn, snOffset) \in SN
      BY TargetType
    <3> QED
      BY <1>1, <3>1 DEF NewEntry, Entry, Packet
  <2>3. ASSUME Video
        PROVE  \A s \in Entries : sequencer'.seq[s] = e \/ sequencer'.seq[s] = sequencer.seq[s]
    <3> DEFINE m == SeqPush(sequencer, pkt, target)
    <3>1. \A at \in Entries, s \in Entries :
             LET w == Written(sequencer, pkt, target, at) IN w[s] = e \/ w[s] = sequencer.seq[s]
      BY <1>1, <2>2 DEF Written
    <3>2. m.seq = sequencer.seq \/ \E at \in Entries : m.seq = Written(sequencer, pkt, target, at)
      <4>1. CASE pkt.head = TRUE
        BY <1>1, <2>2, <4>1, PushCases, ZenonT(60)
      <4>2. CASE pkt.head = FALSE
        BY <1>1, <2>2, <4>2, PushCases, Zenon
      <4> QED
        BY <1>1, <4>1, <4>2 DEF Packet
    <3>3. sequencer' = m
      BY <1>5, <2>2, <2>3 DEF Send
    <3> HIDE DEF m
    <3> QED
      BY <3>1, <3>2, <3>3, Zenon
  <2>4. WasSent(e)'
    <3>1. /\ pkt.sn = SnOf(pkt.idx) /\ pkt.idx <= head /\ pkt.idx \in Nat /\ pkt.sn \in SN
      BY <1>1, <1>5 DEF Send, StreamInv, Packet
    <3>2. head' = head /\ [idx |-> pkt.idx, target |-> target] \in sent'
      BY <1>5, <2>2 DEF Send
    <3>3. e.source = pkt.sn /\ e.idx = pkt.idx /\ e.target = target
      BY <2>2 DEF NewEntry
    <3> QED
      BY <1>0, <3>1, <3>2, <3>3 DEF WasSent
  <2>5. \A s \in Entries : WasSent(sequencer.seq[s])'
    <3>1. CASE ~Video
      BY <1>3, <1>5, <3>1 DEF Send
    <3>2. CASE Video
      <4>1. \A s \in Entries : WasSent(sequencer.seq[s]) /\ sequencer.seq[s] \in Entry
        BY <1>1 DEF SentInv
      <4>2. ASSUME NEW s \in Entries
            PROVE  WasSent(sequencer.seq[s])'
        <5>1. PICK x \in Entry : x = sequencer'.seq[s] /\ WasSent(x)'
          BY <1>0, <2>3, <2>4, <3>2, <4>1, <4>2
        <5> QED
          BY <5>1 DEF WasSent
      <4> QED
        BY <4>2
    <3> QED
      BY <3>1, <3>2
  <2> QED
    BY <1>2, <1>4, <2>1, <2>5 DEF SentInv
<1>6. CASE BindSequencer
  <2>1. jobs' = jobs /\ rtx' = rtx
    BY <1>6 DEF BindSequencer
  <2>2. \A s \in Entries : WasSent(sequencer.seq[s])'
    <3>1. CASE ~Video
      BY <1>3, <1>6, <3>1 DEF BindSequencer
    <3>2. CASE Video
      BY <1>6, <3>2, NewTableEmpty DEF BindSequencer, WasSent
    <3> QED
      BY <3>1, <3>2
  <2> QED
    BY <1>2, <1>4, <2>1, <2>2 DEF SentInv
<1>7. ASSUME NEW sn \in SN, handleRTCP(sn)
      PROVE  SentInv'
  <2>1. rtx' = rtx
    BY <1>7 DEF handleRTCP
  <2>2. CASE SeqAnswers(sequencer, sn, clock)
    <3>1. clock \in Nat /\ SeqHas(sequencer, sn)
      BY <2>2 DEF DownTypeOK, SeqAnswers
    <3>2. PICK at \in Entries, e \in Entry :
             /\ e = sequencer.seq[at] /\ jobs' = Append(jobs, e)
             /\ sequencer'.seq = [sequencer.seq EXCEPT ![at] =
                   [source |-> e.source, target |-> e.target, idx |-> e.idx,
                    lastNack |-> clock]]
      <4>1. /\ SeqPos(sequencer, sn) \in Entries
            /\ sequencer.seq[SeqPos(sequencer, sn)] \in Entry
        BY <1>1, <3>1, AnsweredIs
      <4>2. /\ sequencer' = SeqAnswered(sequencer, sn, clock)
            /\ jobs' = Append(jobs, sequencer.seq[SeqPos(sequencer, sn)])
        BY <1>7, <2>2 DEF handleRTCP
      <4> QED
        BY <1>1, <3>1, <4>1, <4>2, AnsweredIs, ZenonT(60)
    <3>3. PICK f \in Entry : f = [source |-> e.source, target |-> e.target, idx |-> e.idx,
                                  lastNack |-> clock]
      BY <3>1 DEF Entry
    <3>4. WasSent(e)' /\ WasSent(f)'
      <4>1. WasSent(e)
        BY <3>2 DEF SentInv
      <4>2. WasSent(f)
        BY <3>3, <4>1 DEF WasSent
      <4> QED
        BY <1>0, <4>1, <4>2
    <3>5. ASSUME NEW s \in Entries
          PROVE  WasSent(sequencer.seq[s])'
      <4>1. sequencer'.seq[s] = IF s = at THEN f ELSE sequencer.seq[s]
        BY <1>1, <3>2, <3>3
      <4>2. sequencer.seq[s] \in Entry /\ WasSent(sequencer.seq[s])
        BY <1>1 DEF SentInv
      <4>3. PICK x \in Entry : sequencer'.seq[s] = x /\ WasSent(x)'
        BY <1>0, <3>4, <4>1, <4>2
      <4> QED
        BY <4>3 DEF WasSent
    <3>6. ASSUME NEW k \in 1 .. Len(jobs')
          PROVE  WasSent(jobs[k])'
      <4>1. /\ jobs'[k] = IF k = Len(jobs) + 1 THEN e ELSE jobs[k]
            /\ k # Len(jobs) + 1 => k \in 1 .. Len(jobs)
        BY <1>1, <3>2
      <4>2. k # Len(jobs) + 1 => jobs[k] \in Entry /\ WasSent(jobs[k])
        BY <1>1, <4>1 DEF SentInv
      <4>3. PICK x \in Entry : jobs'[k] = x /\ WasSent(x)'
        BY <1>0, <3>4, <4>1, <4>2
      <4> QED
        BY <4>3 DEF WasSent
    <3> QED
      BY <1>2, <2>1, <3>5, <3>6 DEF SentInv
  <2>3. CASE ~SeqAnswers(sequencer, sn, clock)
    BY <1>2, <1>3, <1>4, <1>7, <2>1, <2>3 DEF handleRTCP, SentInv
  <2> QED
    BY <2>2, <2>3
<1>8. CASE RetransmitPackets
  <2>1. /\ sequencer' = sequencer /\ head' = head /\ jobs # <<>> /\ jobs' = Tail(jobs)
    BY <1>8 DEF RetransmitPackets
  <2>2. ASSUME NEW k \in 1 .. Len(jobs')
        PROVE  WasSent(jobs[k])'
    <3>1. k + 1 \in 1 .. Len(jobs) /\ jobs'[k] = jobs[k + 1]
      BY <1>1, <2>1
    <3>2. jobs[k + 1] \in Entry /\ WasSent(jobs[k + 1])
      BY <1>1, <3>1 DEF SentInv
    <3>3. PICK x \in Entry : jobs'[k] = x /\ WasSent(x)'
      BY <1>0, <3>1, <3>2
    <3> QED
      BY <3>3 DEF WasSent
  <2>3. CASE rtx' # rtx
    <3>1. PICK e \in Entry : e = Head(jobs) /\ WasSent(e)
      <4>1. Head(jobs) = jobs[1] /\ 1 \in 1 .. Len(jobs) /\ jobs[1] \in Entry
        BY <1>1, <2>1
      <4> QED
        BY <4>1 DEF SentInv
    <3>2. rtx' = <<[idx |-> InBuffer(e.source), target |-> e.target, entry |-> e.idx,
                    head |-> head]>>
      BY <1>8, <2>3, <3>1 DEF RetransmitPackets
    <3>3. e.idx # NoIdx /\ head - e.idx < SNSpace =>
             InBuffer(e.source) = e.idx /\ [idx |-> e.idx, target |-> e.target] \in sent
      <4>1. e.idx # NoIdx => e.idx \in Nat
        BY DEF Entry
      <4> QED
        BY <3>1, <4>1, Found DEF WasSent
    <3>4. ASSUME NEW k \in DOMAIN rtx', rtx'[k].entry # NoIdx,
                 rtx'[k].head - rtx'[k].entry < SNSpace
          PROVE  [idx |-> rtx'[k].idx, target |-> rtx'[k].target] \in sent'
      <4>1. rtx'[k] = [idx |-> InBuffer(e.source), target |-> e.target, entry |-> e.idx,
                       head |-> head]
        BY <3>2, <3>4
      <4> QED
        BY <1>0, <3>3, <3>4, <4>1
    <3>5. RtxRepeatsSent'
      BY <3>4 DEF RtxRepeatsSent
    <3> QED
      BY <1>3, <2>1, <2>2, <3>5 DEF SentInv
  <2>4. CASE rtx' = rtx
    BY <1>2, <1>3, <2>1, <2>2, <2>4 DEF SentInv
  <2> QED
    BY <2>3, <2>4
<1>9. ASSUME sequencer' = sequencer /\ jobs' = jobs /\ rtx' = rtx
      PROVE  SentInv'
  BY <1>2, <1>3, <1>4, <1>9 DEF SentInv
<1>10. ASSUME NEW i \in 0 .. MaxIdx, NEW key \in BOOLEAN, WriteRTP(i, key)
       PROVE  SentInv'
  BY <1>9, <1>10 DEF WriteRTP
<1>11. ASSUME NEW val \in BOOLEAN, Mute(val)
       PROVE  SentInv'
  BY <1>9, <1>11 DEF Mute
<1>12. CASE Resync \/ ClearResync \/ Bind \/ BindEnable \/ BindBound
  BY <1>9, <1>12 DEF Resync, ClearResync, Bind, BindEnable, BindBound
<1>13. CASE Unbind \/ MuteResync \/ Tick \/ UNCHANGED vars
  BY <1>9, <1>13 DEF Unbind, MuteResync, Tick, vars
<1> QED
  BY <1>5, <1>6, <1>7, <1>8, <1>10, <1>11, <1>12, <1>13 DEF Next

\* A retransmission repeats what was sent: the table and the worker's queue lead from
\* the subscriber's number back to the packet that was sent with it, across mutes,
\* resyncs and new tables, for a packet less than a lap of the numbers behind.
THEOREM RepeatsSent == Spec => []RtxRepeatsSent
<1>1. Init => DownTypeOK /\ StreamInv /\ SentInv
  <2>1. Init => SentInv
    <3>1. ASSUME Init PROVE \A s \in Entries : WasSent(sequencer.seq[s])
      BY <3>1, NewTableEmpty DEF Init, WasSent
    <3>2. ASSUME Init PROVE jobs = <<>> /\ rtx = <<>>
      BY <3>2 DEF Init
    <3> QED
      BY <3>1, <3>2 DEF SentInv, RtxRepeatsSent
  <2> QED
    BY <2>1, TypeInit, TableInit
<1>2. DownTypeOK /\ StreamInv /\ SentInv /\ [Next]_vars
        => (DownTypeOK /\ StreamInv /\ SentInv)'
  BY TypeStep, StreamStep, SentStep
<1>3. SentInv => RtxRepeatsSent
  BY DEF SentInv
<1> QED
  BY <1>1, <1>2, <1>3, PTL DEF Spec

-----------------------------------------------------------------------------
(* What the subscriber sees moves forward                                  *)

\* A number after the next one is one more after this one.
LEMMA AfterNext ==
    ASSUME NEW a \in SN, NEW b \in SN, Minus(a, Plus(b, 1)) + 1 < SNSpace
    PROVE  Minus(a, b) = Minus(a, Plus(b, 1)) + 1
BY NumberOps DEF SN, Minus, Plus

\* The offset of a resync takes the packet to the number after the last.
LEMMA OffsetRestarts ==
    ASSUME NEW s \in SN, NEW l \in SN
    PROVE  Minus(s, Minus(Minus(s, l), 1)) = Plus(l, 1)
BY NumberOps DEF SN, Minus, Plus

\* Every step keeps the offset in step with the last head, or starts it again.
LEMMA AlignStep ==
    ASSUME DownTypeOK, StreamInv, AlignInv, [Next]_vars
    PROVE  AlignInv'
<1>0. /\ plan' = plan /\ head <= head' /\ head' \in Int /\ head \in Int
      /\ \A k : SnOf(k)' = SnOf(k)
  BY SentStays DEF SnOf, DownTypeOK
<1>1. ASSUME UNCHANGED <<snOffset, lastHead, base>>
      PROVE  AlignInv'
  <2>1. base \in Int
    BY DEF DownTypeOK
  <2> QED
    BY <1>0, <1>1, <2>1 DEF AlignInv
<1>2. CASE Resync
  <2>1. CASE base' = base /\ snOffset' = snOffset
    BY <1>1, <1>2, <2>1 DEF Resync
  <2>2. CASE ~(base' = base /\ snOffset' = snOffset) /\ lastHead.idx # -1
    <3>1. /\ snOffset' = NewOffset(pkt.sn) /\ base' = NewBase
          /\ lastHead' = lastHead /\ head' = head
      BY <1>2, <2>2 DEF Resync
    <3>2. /\ snOffset' = Minus(Minus(pkt.sn, lastSN), 1) /\ base' = pkt.idx
          /\ lastSN = lastHead.target
      BY <2>2, <3>1 DEF NewOffset, NewBase, StreamInv
    <3>3. /\ pkt.sn \in SN /\ pkt.idx \in Nat /\ lastSN \in SN /\ lastHead.idx \in Int
          /\ pkt.sn = SnOf(pkt.idx) /\ pkt.idx <= head /\ head - Late <= pkt.idx
          /\ lastHead.idx <= head /\ Late \in Nat
      BY <1>2, DownTrackAssumption DEF DownTypeOK, StreamInv, Resync, Packet
    <3>4. Minus(pkt.sn, snOffset') = Plus(lastHead.target, 1)
      BY <3>2, <3>3, OffsetRestarts
    <3>5. SnOf(base)' = pkt.sn
      BY <1>0, <3>2, <3>3 DEF SnOf
    <3>6. lastHead.idx - Late <= base' /\ base' <= head' /\ base' # -1
      BY <1>0, <3>1, <3>2, <3>3
    <3> QED
      BY <3>1, <3>4, <3>5, <3>6 DEF AlignInv
  <2>3. CASE lastHead.idx = -1
    BY <1>2, <2>3 DEF Resync, AlignInv
  <2> QED
    BY <2>1, <2>2, <2>3
<1>3. CASE Send
  <2>1. CASE pkt.head = TRUE
    <3>1. /\ lastHead'.idx = pkt.idx /\ lastHead'.target = Minus(pkt.sn, snOffset)
          /\ snOffset' = snOffset /\ base' = pkt.idx /\ pkt.sn = SnOf(pkt.idx)
          /\ pkt.idx # -1
      BY <1>3, <2>1 DEF Send, StreamInv, DownTypeOK, Packet
    <3>2. SnOf(base)' = pkt.sn
      BY <1>0, <3>1 DEF SnOf
    <3> QED
      BY <3>1, <3>2 DEF AlignInv
  <2>2. CASE pkt.head = FALSE
    BY <1>1, <1>3, <2>2 DEF Send
  <2> QED
    BY <2>1, <2>2 DEF DownTypeOK, Packet
<1>4. ASSUME NEW i \in 0 .. MaxIdx, NEW key \in BOOLEAN, WriteRTP(i, key)
      PROVE  AlignInv'
  BY <1>1, <1>4 DEF WriteRTP
<1>5. ASSUME NEW sn \in SN, handleRTCP(sn)
      PROVE  AlignInv'
  BY <1>1, <1>5 DEF handleRTCP, writeVars, ghosts
<1>6. ASSUME NEW val \in BOOLEAN, Mute(val)
      PROVE  AlignInv'
  BY <1>1, <1>6 DEF Mute, writeVars, ghosts
<1>7. CASE ClearResync \/ Bind \/ BindEnable \/ BindSequencer \/ BindBound \/ Unbind
  BY <1>1, <1>7 DEF ClearResync, Bind, BindEnable, BindSequencer, BindBound, Unbind,
                    writeVars, ghosts
<1>8. CASE MuteResync \/ RetransmitPackets \/ Tick \/ UNCHANGED vars
  BY <1>1, <1>8 DEF MuteResync, RetransmitPackets, Tick, vars, writeVars, ghosts
<1> QED
  BY <1>2, <1>3, <1>4, <1>5, <1>6, <1>7, <1>8 DEF Next

\* Less than a lap above the packet the offset counts from, a new head gets a number
\* above the last head's, by what was skipped and, after a resync on a late packet, by
\* what that lies behind.
LEMMA NewHead ==
    ASSUME DownTypeOK, StreamInv, AlignInv, Send, pkt.head = TRUE,
           lastHead.idx # -1, pkt.idx > lastHead.idx, pkt.idx - base < SNSpace - 1
    PROVE  Minus(Minus(pkt.sn, snOffset), lastHead.target)
              \in 1 .. pkt.idx - lastHead.idx + Late + 1
<1> DEFINE target == Minus(pkt.sn, snOffset)
<1>1. /\ pkt.idx \in Nat /\ pkt.sn \in SN /\ lastHead.idx \in Nat /\ lastHead.target \in SN
      /\ snOffset \in SN /\ pkt.idx = head /\ pkt.sn = SnOf(pkt.idx) /\ plan \in Plans
      /\ target \in SN /\ Late \in Nat /\ SNSpace \in Nat
  BY TargetType, NumberOps, DownTrackAssumption DEF DownTypeOK, StreamInv, Send, Packet
<1>2. base \in Nat /\ base <= pkt.idx
  BY <1>1 DEF AlignInv, DownTypeOK
<1>3. SnOf(base) \in SN /\ Minus(pkt.sn, SnOf(base)) = pkt.idx - base
  BY <1>1, <1>2, SnDistance
<1>4. Minus(target, Minus(SnOf(base), snOffset)) = pkt.idx - base
  BY <1>1, <1>3, MinusCancels
<1> HIDE DEF target
<1>5. CASE base = lastHead.idx /\ Minus(SnOf(base), snOffset) = lastHead.target
  <2>1. Minus(target, lastHead.target) = pkt.idx - lastHead.idx
    BY <1>4, <1>5
  <2> QED
    BY <1>1, <2>1 DEF target
<1>6. CASE /\ lastHead.idx - Late <= base
           /\ Minus(SnOf(base), snOffset) = Plus(lastHead.target, 1)
  <2>1. Minus(target, Plus(lastHead.target, 1)) = pkt.idx - base
    BY <1>4, <1>6
  <2>2. Minus(target, Plus(lastHead.target, 1)) + 1 < SNSpace
    BY <1>1, <1>2, <2>1
  <2>3. Minus(target, lastHead.target) = pkt.idx - base + 1
    BY <1>1, <2>1, <2>2, AfterNext
  <2> QED
    BY <1>1, <1>2, <1>6, <2>3 DEF target
<1> QED
  BY <1>5, <1>6 DEF AlignInv

\* Through every mute, resync, loss and new table, a newer packet gets a number above
\* the last head's, by no more than the packets skipped and one resync on a late
\* packet explain, up to a lap above the packet the offset counts from.
THEOREM NumbersAdvance == Spec => HeadsAdvance
<1> DEFINE I == DownTypeOK /\ StreamInv /\ AlignInv
           A == lastHead.idx # -1 /\ lastHead'.idx > lastHead.idx
                  /\ lastHead'.idx - base < SNSpace - 1 =>
                  Minus(lastHead'.target, lastHead.target)
                      \in 1 .. lastHead'.idx - lastHead.idx + Late + 1
<1>1. Init => I
  <2>1. Init => AlignInv
    BY DEF Init, AlignInv
  <2> QED
    BY <2>1, TypeInit, TableInit
<1>2. I /\ [Next]_vars => I'
  BY TypeStep, StreamStep, AlignStep
<1>3. ASSUME I, [Next]_vars
      PROVE  [A]_vars
  <2>1. CASE Send /\ pkt.head = TRUE
    <3>1. lastHead'.idx = pkt.idx /\ lastHead'.target = Minus(pkt.sn, snOffset)
      BY <2>1 DEF Send
    <3> QED
      BY <1>3, <2>1, <3>1, NewHead
  <2>2. CASE ~(Send /\ pkt.head = TRUE)
    <3>1. lastHead' = lastHead
      <4>1. CASE Send
        BY <1>3, <2>2, <4>1 DEF Send, DownTypeOK, Packet
      <4>2. CASE ~Send
        BY <1>3, <4>2 DEF Next, WriteRTP, Resync, ClearResync, Bind, BindEnable, BindSequencer,
           BindBound, Unbind, Mute, MuteResync, handleRTCP, RetransmitPackets, Tick, vars, ghosts
      <4> QED
        BY <4>1, <4>2
    <3> QED
      BY <1>3, <3>1 DEF DownTypeOK
  <2> QED
    BY <2>1, <2>2
<1> QED
  BY <1>1, <1>2, <1>3, PTL DEF Spec, HeadsAdvance

-----------------------------------------------------------------------------
(* The table finds what it has                                             *)

\* A number below the modulus is its own remainder.
LEMMA ModSmall ==
    ASSUME NEW k \in Nat, k > 0, NEW x \in 0 .. k - 1
    PROVE  x % k = x
<1>0. x \in Int
  OBVIOUS
<1>1. PICK q \in Int, r \in 0 .. k - 1 : x = k * q + r /\ x % k = r
  BY <1>0, ModDef
<1>2. k * 0 + x = k * q + r
  BY <1>1
<1> QED
  BY <1>1, <1>2, ModUnique

\* When the head moves m numbers on, what was d below it stays where it is.
LEMMA SlotStays ==
    ASSUME NEW step \in Entries, NEW m \in Nat, NEW d \in Nat, m >= 1, d + m < MaxTrack
    PROVE  Slot(After((step + (m - 1)) % MaxTrack), d + m) = Slot(step, d)
<1>1. MaxTrack \in Nat /\ MaxTrack > 1 /\ step \in 0 .. MaxTrack - 1 /\ m - 1 \in 0 .. MaxTrack - 1
  BY SequencerAssumption DEF Entries
<1>2. step % MaxTrack = step
  BY <1>1, ModSmall
<1>3. (step + (m - 1)) % MaxTrack
        = IF step + (m - 1) < MaxTrack THEN step + (m - 1) ELSE step + (m - 1) - MaxTrack
  BY <1>1, <1>2, ModAdd
<1> QED
  BY <1>1, <1>3, SMTT(40) DEF Slot, After

\* The entry just written is the head's.
LEMMA SlotOfHead ==
    ASSUME NEW at \in Entries
    PROVE  Slot(After(at), 0) = at
BY SequencerAssumption DEF Slot, After, Entries

\* Distances below the head add up, short of a lap.
LEMMA MinusAdds ==
    ASSUME NEW a \in SN, NEW b \in SN, NEW c \in SN, Minus(a, b) + Minus(b, c) < SNSpace
    PROVE  Minus(a, c) = Minus(a, b) + Minus(b, c)
BY NumberOps DEF SN, Minus

\* Slots of different distances below the head are different.
LEMMA SlotsDiffer ==
    ASSUME NEW step \in Entries, NEW c \in Nat, NEW d \in Nat,
           c < MaxTrack, d < MaxTrack, Slot(step, c) = Slot(step, d)
    PROVE  c = d /\ Slot(step, d) \in Entries
BY SequencerAssumption DEF Slot, Entries

\* When the head moves on, an entry that stays within reach is kept.
LEMMA KeptOn ==
    ASSUME NEW n \in Table, NEW m \in Table, NEW r \in [idx : Nat, target : SN],
           NEW target \in SN, NEW at \in Entries, NEW e,
           KeptIn(n, r), target # n.headSN, n.init = TRUE,
           at = (n.step + GapTo(n, target)) % MaxTrack,
           m.headSN = target, m.step = After(at), m.seq = [n.seq EXCEPT ![at] = e],
           Minus(n.headSN, r.target) + Minus(target, n.headSN) < MaxTrack - 1
    PROVE  KeptIn(m, r)
<1>1. /\ n.step \in Entries /\ n.headSN \in SN /\ r.target \in SN /\ MaxTrack \in Nat
      /\ n.seq \in [Entries -> Entry] /\ m.step \in Entries
  BY SequencerAssumption DEF Table
<1>2. PICK g \in Nat : g = Minus(target, n.headSN) /\ g >= 1
  <2>1. Minus(target, n.headSN) \in Nat /\ Minus(target, n.headSN) >= 1
    BY <1>1, MinusType
  <2> QED
    BY <2>1
<1>3. PICK d \in Nat : d = Minus(n.headSN, r.target)
  <2>1. Minus(n.headSN, r.target) \in Nat
    BY <1>1, MinusType
  <2> QED
    BY <2>1
<1>4. d + g < MaxTrack - 1 /\ d + g < MaxTrack /\ d + g \in Nat /\ d < MaxTrack
  BY <1>1, <1>2, <1>3
<1>5. Minus(target, r.target) = d + g
  <2>1. Minus(target, n.headSN) + Minus(n.headSN, r.target) < SNSpace
    BY <1>1, <1>2, <1>3, <1>4, NumberOps
  <2>2. Minus(target, r.target) = Minus(target, n.headSN) + Minus(n.headSN, r.target)
    BY <1>1, <2>1, MinusAdds
  <2> QED
    BY <1>2, <1>3, <2>2
<1>6. GapTo(n, target) = g - 1
  BY <1>2 DEF GapTo, BaseSN
<1>7. Slot(m.step, d + g) = Slot(n.step, d)
  <2>1. m.step = After((n.step + (g - 1)) % MaxTrack)
    BY <1>6
  <2>2. \A st \in Entries : Slot(After((st + (g - 1)) % MaxTrack), d + g) = Slot(st, d)
    BY <1>2, <1>4, SlotStays
  <2> QED
    BY <1>1, <2>1, <2>2, Zenon
<1>8. Slot(m.step, 0) = at
  BY SlotOfHead
<1>9. Slot(m.step, d + g) # at
  <2>1. ASSUME Slot(m.step, d + g) = at
        PROVE  FALSE
    <3>1. Slot(m.step, 0) = Slot(m.step, d + g) /\ 0 \in Nat /\ 0 < MaxTrack
      BY <1>1, <1>4, <1>8, <2>1
    <3> DEFINE step == m.step
               k == d + g
    <3>2. step \in Entries /\ k \in Nat /\ k < MaxTrack /\ Slot(step, 0) = Slot(step, k)
      BY <1>1, <1>4, <3>1
    <3>3. k # 0
      BY <1>2
    <3> HIDE DEF step, k
    <3>4. 0 = k
      BY <3>1, <3>2, SlotsDiffer
    <3> QED
      BY <3>3, <3>4
  <2> QED
    BY <2>1
<1>10. m.seq[Slot(m.step, d + g)] = n.seq[Slot(n.step, d)]
  BY <1>1, <1>7, <1>9
<1>11. n.seq[Slot(n.step, d)].target = r.target /\ n.seq[Slot(n.step, d)].idx = r.idx
  BY <1>3 DEF KeptIn
<1> QED
  BY <1>4, <1>5, <1>10, <1>11 DEF KeptIn

\* In order, push keeps every recent packet where its distance from the head says.
LEMMA RingPush ==
    ASSUME DownTypeOK, OrderInv, RingInv, Send, Video, seqLate' = FALSE
    PROVE  RingInv'
<1> DEFINE target == Minus(pkt.sn, snOffset)
           at == (sequencer.step + GapTo(sequencer, target)) % MaxTrack
           e == NewEntry(pkt, target)
           new == [idx |-> pkt.idx, target |-> target]
<1>1. /\ pkt \in Packet /\ pkt.idx \in Nat /\ pkt.head \in BOOLEAN /\ sequencer \in Table
      /\ sequencer.seq \in [Entries -> Entry] /\ sequencer.step \in Entries
      /\ sequencer.init \in BOOLEAN /\ target \in SN
      /\ recent \subseteq [idx : Nat, target : SN]
  BY TargetType DEF DownTypeOK, Packet, Table
<1>2. /\ seqLate = FALSE /\ pkt.head = TRUE
      /\ sequencer.init = TRUE => target # sequencer.headSN
  BY <1>1 DEF Send, OrderInv
<1>3. /\ at \in Entries /\ sequencer'.init = TRUE /\ sequencer'.headSN = target
      /\ sequencer'.step = After(at)
      /\ sequencer'.seq = [sequencer.seq EXCEPT ![at] = e]
  <2>1. LET m == SeqPush(sequencer, pkt, target)
        IN  /\ at \in Entries /\ m.init = TRUE /\ m.headSN = target /\ m.step = After(at)
            /\ m.seq = Written(sequencer, pkt, target, at)
    BY <1>1, <1>2, PushCases, ZenonT(60)
  <2>2. sequencer' = SeqPush(sequencer, pkt, target)
    BY DEF Send
  <2> QED
    BY <2>1, <2>2, Zenon DEF Written
<1>4. sequencer' \in Table
  BY <1>1, PushType DEF Send
<1>5. recent' = StillRecent(target) \cup {new}
  BY <1>2 DEF Send
<1>6. e.idx = pkt.idx /\ e.target = target /\ new.target = target /\ new.idx = pkt.idx
  BY DEF NewEntry
<1>7. Minus(target, target) = 0
  BY <1>1, NumberOps DEF SN, Minus
<1> HIDE DEF e, new
<1>8. KeptIn(sequencer', new)
  <2>1. Slot(sequencer'.step, 0) = at
    BY <1>3, SlotOfHead
  <2> HIDE DEF at, target
  <2>2. sequencer'.seq[at] = e
    BY <1>1, <1>3
  <2>3. 0 < MaxTrack - 1
    BY SequencerAssumption
  <2> QED
    BY <1>3, <1>6, <1>7, <2>1, <2>2, <2>3 DEF KeptIn
<1>9. ASSUME NEW r \in StillRecent(target)
      PROVE  KeptIn(sequencer', r)
  <2>1. /\ r \in recent /\ r \in [idx : Nat, target : SN]
        /\ Minus(sequencer.headSN, r.target) + Minus(target, sequencer.headSN) < MaxTrack - 1
    BY <1>1, <1>9 DEF StillRecent
  <2>2. sequencer.init = TRUE /\ KeptIn(sequencer, r)
    BY <1>1, <1>2, <2>1 DEF RingInv
  <2> HIDE DEF target
  <2> QED
    BY <1>1, <1>2, <1>3, <1>4, <2>1, <2>2, KeptOn
<1> QED
  BY <1>3, <1>5, <1>8, <1>9 DEF RingInv, KeptIn, Slot

\* Every step keeps the recent packets where their distance says.
LEMMA RingStep ==
    ASSUME DownTypeOK, OrderInv, RingInv, [Next]_vars
    PROVE  RingInv'
<1>1. ASSUME UNCHANGED <<sequencer, seqLate, recent>>
      PROVE  RingInv'
  BY <1>1 DEF RingInv, KeptIn, Slot
<1>2. CASE Send
  <2>1. seqLate' \in BOOLEAN
    BY <1>2 DEF Send, OrderInv
  <2>2. CASE seqLate' = TRUE /\ Video
    <3>1. Minus(pkt.sn, snOffset) \in SN /\ sequencer \in Table /\ pkt \in Packet
      BY TargetType DEF DownTypeOK
    <3>2. SeqPush(sequencer, pkt, Minus(pkt.sn, snOffset)).init = TRUE
      BY <3>1, PushCases, ZenonT(60)
    <3>3. sequencer'.init = TRUE
      BY <1>2, <2>2, <3>2 DEF Send
    <3> QED
      BY <2>2, <3>3 DEF RingInv
  <2>3. CASE ~Video
    <3>1. sequencer' = sequencer /\ recent' = recent /\ sequencer.init = FALSE
      BY <1>2, <2>3 DEF Send, OrderInv
    <3> QED
      BY <3>1 DEF RingInv
  <2> QED
    BY <1>2, <2>1, <2>2, <2>3, RingPush
<1>3. CASE BindSequencer
  BY <1>3 DEF BindSequencer, RingInv
<1>4. ASSUME NEW sn \in SN, handleRTCP(sn)
      PROVE  RingInv'
  <2>1. CASE SeqAnswers(sequencer, sn, clock)
    <3>1. /\ sequencer \in Table /\ clock \in Nat /\ SeqHas(sequencer, sn)
          /\ sequencer' = SeqAnswered(sequencer, sn, clock)
          /\ sequencer.seq \in [Entries -> Entry] /\ UNCHANGED <<seqLate, recent>>
      BY <1>4, <2>1 DEF DownTypeOK, SeqAnswers, handleRTCP, Table, ghosts
    <3>2. /\ sequencer'.init = sequencer.init /\ sequencer'.step = sequencer.step
          /\ sequencer'.headSN = sequencer.headSN
      BY <3>1, AnsweredIs, ZenonT(60)
    <3>3. PICK at \in Entries : sequencer'.seq = [sequencer.seq EXCEPT ![at] =
             [source |-> sequencer.seq[at].source, target |-> sequencer.seq[at].target,
              idx |-> sequencer.seq[at].idx, lastNack |-> clock]]
      BY <3>1, AnsweredIs, ZenonT(60)
    <3>4. \A s : /\ sequencer'.seq[s].idx = sequencer.seq[s].idx
                 /\ sequencer'.seq[s].target = sequencer.seq[s].target
      BY <3>1, <3>3
    <3>5. \A r : KeptIn(sequencer, r) => KeptIn(sequencer', r)
      BY <3>2, <3>4 DEF KeptIn
    <3> QED
      BY <3>1, <3>2, <3>5 DEF RingInv, KeptIn, Slot
  <2>2. CASE ~SeqAnswers(sequencer, sn, clock)
    BY <1>1, <1>4, <2>2 DEF handleRTCP, ghosts
  <2> QED
    BY <2>1, <2>2
<1>5. ASSUME NEW i \in 0 .. MaxIdx, NEW key \in BOOLEAN, WriteRTP(i, key)
      PROVE  RingInv'
  BY <1>1, <1>5 DEF WriteRTP
<1>6. ASSUME NEW val \in BOOLEAN, Mute(val)
      PROVE  RingInv'
  BY <1>1, <1>6 DEF Mute, ghosts
<1>7. CASE Resync \/ ClearResync \/ Bind \/ BindEnable \/ BindBound \/ Unbind
  BY <1>1, <1>7 DEF Resync, ClearResync, Bind, BindEnable, BindBound, Unbind, ghosts
<1>8. CASE MuteResync \/ RetransmitPackets \/ Tick \/ UNCHANGED vars
  BY <1>1, <1>8 DEF MuteResync, RetransmitPackets, Tick, vars, ghosts
<1> QED
  BY <1>2, <1>3, <1>4, <1>5, <1>6, <1>7, <1>8 DEF Next

\* As long as packets come in order, the table finds every packet sent under the last
\* MaxTrack - 1 numbers, across gaps, mutes and resyncs, however long the stream.
THEOREM TableFinds == Spec => []SequencerFinds
<1> DEFINE I == DownTypeOK /\ StreamInv /\ OrderInv /\ RingInv
<1>1. Init => I
  <2>1. Init => RingInv
    BY DEF Init, RingInv
  <2> QED
    BY <2>1, TypeInit, TableInit
<1>2. I /\ [Next]_vars => I'
  BY TypeStep, StreamStep, OrderStep, RingStep
<1>3. I => SequencerFinds
  <2>1. SUFFICES ASSUME I, ~seqLate, NEW r \in recent
                 PROVE  /\ SeqHas(sequencer, r.target)
                        /\ sequencer.seq[SeqPos(sequencer, r.target)].idx = r.idx
    BY DEF SequencerFinds
  <2>2. /\ seqLate = FALSE /\ sequencer.step \in Entries
        /\ sequencer.headSN \in SN /\ r.target \in SN
    BY <2>1 DEF OrderInv, DownTypeOK, Table
  <2>3. PICK d \in Nat : d = Minus(sequencer.headSN, r.target)
    <3>1. Minus(sequencer.headSN, r.target) \in Nat
      BY <2>2, MinusType
    <3> QED
      BY <3>1
  <2>4. /\ d < MaxTrack - 1
        /\ sequencer.seq[Slot(sequencer.step, d)].target = r.target
        /\ sequencer.seq[Slot(sequencer.step, d)].idx = r.idx
    BY <2>1, <2>2, <2>3 DEF RingInv, KeptIn
  <2>5. SeqRaw(sequencer, r.target) = sequencer.step - d - 1
    BY <2>3 DEF SeqRaw
  <2>6. sequencer.step - d - 1 > -MaxTrack
    BY <2>2, <2>4, SequencerAssumption DEF Entries
  <2>7. SeqPos(sequencer, r.target) = Slot(sequencer.step, d)
    BY <2>5 DEF SeqPos, Slot
  <2> QED
    BY <2>4, <2>5, <2>6, <2>7 DEF SeqHas
<1> QED
  BY <1>1, <1>2, <1>3, PTL DEF Spec

=============================================================================
