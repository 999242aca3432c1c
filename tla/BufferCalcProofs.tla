-------------------------- MODULE BufferCalcProofs --------------------------
(***************************************************************************)
(* Proofs about calc (BufferCalc), for every width of the sequence         *)
(* numbers, size of the ring and reordering window: the extended head is   *)
(* right (HeadExtended), the ring finds what it holds (RingFinds), a       *)
(* packet is refused as a repeat only for a reason (RtxWasStored), a       *)
(* repeat is not handed on (RepeatDropped) and reports count the packets   *)
(* that are missing (LostExact).                                           *)
(***************************************************************************)
EXTENDS BufferCalc, FiniteSetTheorems, TLAPS

-----------------------------------------------------------------------------
(* Arithmetic                                                              *)

\* Division with remainder is unique.
LEMMA ModUnique ==
    ASSUME NEW k \in Nat, k > 0,
           NEW p \in Int, NEW q \in Int, NEW r \in 0 .. k - 1, NEW t \in 0 .. k - 1,
           k * p + r = k * q + t
    PROVE  p = q /\ r = t
<1>1. CASE p >= q + 1
  <2>1. k * p >= k * q + k
    BY <1>1
  <2> QED
    BY <2>1
<1>2. CASE q >= p + 1
  <2>1. k * q >= k * p + k
    BY <1>2
  <2> QED
    BY <2>1
<1> QED
  BY <1>1, <1>2

\* What x % k and x \div k are.
LEMMA ModDef ==
    ASSUME NEW k \in Nat, k > 0, NEW x \in Int
    PROVE  /\ x % k \in 0 .. k - 1
           /\ x \div k \in Int
           /\ x = k * (x \div k) + (x % k)
OBVIOUS

\* The remainder of a number written as quotient and remainder.
LEMMA ModIs ==
    ASSUME NEW k \in Nat, k > 0, NEW x \in Int,
           NEW q \in Int, NEW r \in 0 .. k - 1, x = k * q + r
    PROVE  x % k = r
BY ModDef, ModUnique

\* A number below the modulus is its own remainder.
LEMMA ModSmall ==
    ASSUME NEW k \in Nat, k > 0, NEW x \in 0 .. k - 1
    PROVE  x % k = x
BY ModDef, ModUnique

\* Adding less than the modulus wraps at most once.
LEMMA ModAdd ==
    ASSUME NEW k \in Nat, k > 0, NEW x \in Int, NEW d \in 0 .. k - 1
    PROVE  (x + d) % k = IF (x % k) + d < k THEN (x % k) + d ELSE (x % k) + d - k
<1>1. PICK q \in Int, r \in 0 .. k - 1 : x = k * q + r /\ x % k = r
  BY ModDef
<1>2. CASE r + d < k
  BY <1>1, <1>2, ModIs
<1>3. CASE ~(r + d < k)
  <2>1. q + 1 \in Int /\ r + d - k \in 0 .. k - 1 /\ x + d \in Int
    BY <1>3
  <2>2. k * (q + 1) = k * q + k
    OBVIOUS
  <2>3. x + d = k * (q + 1) + (r + d - k)
    BY <1>1, <2>2
  <2>4. (x + d) % k = r + d - k
    BY <2>1, <2>3, ModIs
  <2> QED
    BY <2>4, <1>1, <1>3
<1> QED
  BY <1>2, <1>3

\* Sequence numbers of packets less than a whole number space apart.
LEMMA SnDistance ==
    ASSUME origin \in SN, NEW i \in Nat, NEW j \in Nat, i <= j, j - i < SNSpace
    PROVE  /\ SnOf(i) \in SN /\ SnOf(j) \in SN
           /\ Minus(SnOf(j), SnOf(i)) = j - i
           /\ i < j => Minus(SnOf(i), SnOf(j)) = SNSpace - (j - i)
           /\ i < j => SnOf(i) # SnOf(j)
           /\ SnOf(j) = Plus(SnOf(i), j - i)
<1>1. SNSpace \in Nat /\ SNSpace > 0
  BY HalfAssumption DEF SNSpace
<1>2. origin \in Nat
  BY <1>1 DEF SN
<1>3. SnOf(i) \in 0 .. SNSpace - 1
  BY <1>1, <1>2, ModDef DEF SnOf
<1>4. SnOf(j) = IF SnOf(i) + (j - i) < SNSpace THEN SnOf(i) + (j - i)
                ELSE SnOf(i) + (j - i) - SNSpace
  <2>1. origin + i \in Int /\ j - i \in 0 .. SNSpace - 1 /\ origin + j = (origin + i) + (j - i)
    BY <1>1, <1>2
  <2> QED
    BY <1>1, <2>1, ModAdd DEF SnOf
<1> QED
  BY <1>1, <1>3, <1>4 DEF SN, Minus, Plus

-----------------------------------------------------------------------------
(* The ring                                                                *)

\* The packets that fit the ring have slots of their own in it.
LEMMA SlotsDistinct ==
    ASSUME NEW step \in Slots, NEW c \in Slots, NEW d \in Slots
    PROVE  /\ SlotOf(step, c) \in Slots
           /\ c # d => SlotOf(step, c) # SlotOf(step, d)
BY MaxStepsAssumption DEF Slots, SlotOf, WrapPos

\* The loop over missing packets stays inside the ring.
LEMMA SkipInRing ==
    ASSUME NEW step \in Slots, NEW n \in Nat
    PROVE  Skip(step, n) \in Slots
<1>1. MaxSteps \in Nat /\ MaxSteps > 0 /\ step \in Nat
  BY MaxStepsAssumption DEF Slots
<1>2. (n - 1) % MaxSteps \in 0 .. MaxSteps - 1
  BY <1>1, ModDef
<1>3. (step + n) % MaxSteps \in 0 .. MaxSteps - 1
  BY <1>1, ModDef
<1> QED
  BY <1>1, <1>2, <1>3 DEF Skip, Slots

\* A skip that keeps its place, followed by push, moves every packet that is
\* still in the window as far behind the head as the head moved.
LEMMA SkipKeepsSlots ==
    ASSUME NEW step \in Slots, NEW gap \in Nat, NEW next,
           NEW d \in Nat, d + gap + 1 <= MaxSteps,
           next = (step + gap) % (MaxSteps + 1)
    PROVE  /\ next \in Slots
           /\ LET pushed == IF next + 1 > MaxSteps THEN 0 ELSE next + 1
              IN SlotOf(pushed, d + gap + 1) = SlotOf(step, d)
<1>1. MaxSteps \in Nat /\ step \in 0 .. MaxSteps /\ gap \in 0 .. MaxSteps
  BY MaxStepsAssumption DEF Slots
<1>2. ASSUME NEW k \in Nat, k = MaxSteps + 1
      PROVE  (step + gap) % k = IF step + gap < k THEN step + gap ELSE step + gap - k
  <2>1. step \in 0 .. k - 1 /\ gap \in 0 .. k - 1 /\ k > 0
    BY <1>1, <1>2
  <2>2. step % k = step
    BY <2>1, ModSmall
  <2> QED
    BY <2>1, <2>2, ModAdd
<1>3. next = IF step + gap < MaxSteps + 1 THEN step + gap ELSE step + gap - (MaxSteps + 1)
  BY <1>1, <1>2
<1> QED
  BY <1>1, <1>3 DEF SlotOf, WrapPos, Slots

\* The slot push writes is the head's.
LEMMA PushedIsHead ==
    ASSUME NEW s \in Slots
    PROVE  SlotOf(IF s + 1 > MaxSteps THEN 0 ELSE s + 1, 0) = s
BY MaxStepsAssumption DEF SlotOf, WrapPos, Slots

\* What AddPacket makes of the ring when the packet is the newest, and the slot
\* it pushes the packet in
Pushed(b, pkt) == Push(Advanced(Opened(b, pkt), pkt), pkt)
PushSlot(b, pkt) == Skip(Opened(b, pkt).step, Gap(Opened(b, pkt), pkt.sn))

\* AddPacket of the newest packet.
LEMMA AddLatest ==
    ASSUME NEW b \in Ring, NEW pkt, pkt.sn \in SN, pkt.idx \in Idx
    PROVE  /\ Pushed(b, pkt) \in Ring /\ PushSlot(b, pkt) \in Slots
           /\ Pushed(b, pkt).init = TRUE /\ Pushed(b, pkt).headSN = pkt.sn
           /\ Pushed(b, pkt).step =
                 IF PushSlot(b, pkt) + 1 > MaxSteps THEN 0 ELSE PushSlot(b, pkt) + 1
           /\ Pushed(b, pkt).buf =
                 [b.buf EXCEPT ![PushSlot(b, pkt)] = [sn |-> pkt.sn, idx |-> pkt.idx]]
           /\ b.init = TRUE => PushSlot(b, pkt) = Skip(b.step, Gap(b, pkt.sn))
<1> DEFINE o == Opened(b, pkt)
           s == PushSlot(b, pkt)
<1>1. SNSpace \in Nat /\ SNSpace > 1 /\ SN = 0 .. SNSpace - 1
  BY HalfAssumption DEF SNSpace, SN
<1>2. Minus(pkt.sn, 1) \in SN
  BY <1>1 DEF Minus
<1>3. o \in Ring /\ o.step = b.step /\ o.buf = b.buf /\ o.init = TRUE
      /\ (b.init => o = b) /\ (~b.init => o.headSN = Minus(pkt.sn, 1))
  <2>1. CASE b.init
    BY <2>1 DEF Opened, Ring
  <2>2. CASE ~b.init
    BY <1>2, <2>2 DEF Opened, Ring
  <2> QED
    BY <2>1, <2>2
<1>4. o.headSN \in SN /\ o.step \in Slots
  BY <1>3 DEF Ring
<1>5. Gap(o, pkt.sn) \in Nat
  BY <1>1, <1>4 DEF Gap, Minus
<1>7. s \in Slots
  BY <1>4, <1>5, SkipInRing DEF PushSlot
<1>9. Advanced(o, pkt) = [o EXCEPT !.headSN = pkt.sn, !.step = s]
  BY Zenon DEF Advanced, PushSlot
<1> HIDE DEF o, s
<1>10. Advanced(o, pkt) \in Ring /\ Advanced(o, pkt).init = TRUE
       /\ Advanced(o, pkt).step = s /\ Advanced(o, pkt).headSN = pkt.sn
       /\ Advanced(o, pkt).buf = b.buf
  BY <1>3, <1>7, <1>9 DEF Ring
<1>11. (IF s + 1 > MaxSteps THEN 0 ELSE s + 1) \in Slots
  BY <1>7, MaxStepsAssumption DEF Slots
<1>12. ASSUME NEW a \in Ring, a.step = s, a.headSN = pkt.sn, a.buf = b.buf, a.init = TRUE
       PROVE  /\ Push(a, pkt) \in Ring
              /\ Push(a, pkt).init = TRUE /\ Push(a, pkt).headSN = pkt.sn
              /\ Push(a, pkt).step = IF s + 1 > MaxSteps THEN 0 ELSE s + 1
              /\ Push(a, pkt).buf = [b.buf EXCEPT ![s] = [sn |-> pkt.sn, idx |-> pkt.idx]]
  BY <1>7, <1>11, <1>12 DEF Push, Ring
<1>13. Pushed(b, pkt) = Push(Advanced(o, pkt), pkt)
  BY Zenon DEF Pushed, o
<1>14. b.init = TRUE => s = Skip(b.step, Gap(b, pkt.sn))
  BY <1>3, Zenon DEF o, s, PushSlot
<1> QED
  BY <1>7, <1>10, <1>12, <1>13, <1>14 DEF s

\* AddPacket of a packet behind the head.
LEMMA AddLate ==
    ASSUME NEW b \in Ring, NEW pkt, pkt.sn \in SN, pkt.idx \in Idx,
           Minus(b.headSN, pkt.sn) \in 1 .. Half - 1
    PROVE  LET d == Minus(b.headSN, pkt.sn)
               s == SlotOf(b.step, d)
           IN /\ d > MaxSteps => Set(b, pkt).err = "errPacketTooOld" /\ Set(b, pkt).b = b
              /\ d <= MaxSteps => s \in Slots
              /\ d <= MaxSteps /\ b.buf[s].sn = pkt.sn =>
                    Set(b, pkt).err = "errRTXPacket" /\ Set(b, pkt).b = b
              /\ d <= MaxSteps /\ b.buf[s].sn # pkt.sn =>
                    /\ Set(b, pkt).err = "nil"
                    /\ Set(b, pkt).b =
                          [b EXCEPT !.buf[s] = [sn |-> pkt.sn, idx |-> pkt.idx]]
<1> DEFINE d == Minus(b.headSN, pkt.sn)
           s == SlotOf(b.step, d)
           add == Set(b, pkt)
<1>1. MaxSteps \in Nat /\ Half \in Nat /\ b.step \in Slots /\ d \in Nat
  BY MaxStepsAssumption, HalfAssumption DEF Ring
<1>2. WrapPos(RawPos(b, pkt.sn)) = s
  <2>1. Plus(d, 1) = d + 1
    BY <1>1 DEF Plus, SNSpace
  <2> QED
    BY <2>1 DEF RawPos, SlotOf
<1>4. ASSUME d <= MaxSteps PROVE s \in Slots
  <2>1. d \in Slots
    BY <1>1, <1>4 DEF Slots
  <2> QED
    BY <1>1, <2>1, SlotsDistinct
<1>3. Minus(b.headSN, pkt.sn) = d /\ add = Set(b, pkt)
  OBVIOUS
<1> HIDE DEF s, d, add
<1>5. ASSUME d > MaxSteps PROVE add.err = "errPacketTooOld" /\ add.b = b
  <2>1. Minus(b.headSN, pkt.sn) >= MaxSteps + 1
    BY <1>1, <1>3, <1>5
  <2>2. add = [b |-> b, slot |-> 0, err |-> "errPacketTooOld"]
    BY <1>3, <2>1, Zenon DEF Set
  <2> QED
    BY <2>2
<1>6. ASSUME d <= MaxSteps, b.buf[s].sn = pkt.sn PROVE add.err = "errRTXPacket" /\ add.b = b
  <2>1. ~(Minus(b.headSN, pkt.sn) >= MaxSteps + 1)
    BY <1>1, <1>3, <1>6
  <2>2. add = [b |-> b, slot |-> 0, err |-> "errRTXPacket"]
    BY <1>2, <1>3, <1>6, <2>1, Zenon DEF Set
  <2> QED
    BY <2>2
<1>7. ASSUME d <= MaxSteps, b.buf[s].sn # pkt.sn
      PROVE  /\ add.err = "nil"
             /\ add.b = [b EXCEPT !.buf[s] = [sn |-> pkt.sn, idx |-> pkt.idx]]
  <2> DEFINE n == [b EXCEPT !.buf[s] = [sn |-> pkt.sn, idx |-> pkt.idx]]
  <2>1. ~(Minus(b.headSN, pkt.sn) >= MaxSteps + 1)
    BY <1>1, <1>3, <1>7
  <2>2. add = [b |-> n, slot |-> s, err |-> "nil"]
    BY <1>2, <1>3, <1>7, <2>1, Zenon DEF Set
  <2> HIDE DEF n
  <2>3. add.err = "nil" /\ add.b = n
    BY <2>2
  <2> QED
    BY <2>3 DEF n
<1> QED
  BY <1>4, <1>5, <1>6, <1>7 DEF s, d, add

-----------------------------------------------------------------------------
(* One calc                                                                *)

\* Numbers the constants give.
LEMMA Constants ==
    /\ Half \in Nat /\ Half > 1 /\ SNSpace = 2 * Half /\ SN = 0 .. SNSpace - 1
    /\ SNSpace \in Nat /\ U32 \in Nat /\ U32 >= 2 * SNSpace
    /\ Late \in Nat /\ Jump \in Nat /\ Jump > 0 /\ Late + Jump < Half
    /\ MaxIdx \in Nat /\ Late <= MaxIdx /\ MaxIdx + SNSpace < U32 /\ Idx = 0 .. MaxIdx
    /\ MaxSteps \in Nat /\ MaxSteps > 0 /\ MaxSteps + 1 < Half
<1>1. Half \in Nat /\ Half > 1 /\ SNSpace = 2 * Half /\ SN = 0 .. SNSpace - 1 /\ SNSpace \in Nat
  BY HalfAssumption DEF SNSpace, SN
<1>2. SNSpace * Cycles >= 2 * SNSpace /\ SNSpace * Cycles \in Nat
  BY <1>1, CyclesAssumption
<1> QED
  BY <1>1, <1>2, StreamAssumption, MaxStepsAssumption DEF U32, Idx

\* The variables calc sets whatever becomes of the packet.
LEMMA CalcAlways ==
    ASSUME NEW pkt, NEW due, Calc(pkt, due)
    PROVE  /\ origin' = origin /\ nackOn' = nackOn
           /\ maxSeqNo' = NextMaxSeqNo(pkt.sn) /\ cycles' = NextCycles(pkt.sn)
           /\ packetCount' \in {packetCount, packetCount + 1}
           /\ baseSN' \in {baseSN, pkt.sn}
           /\ top' = IF pkt.idx > top THEN pkt.idx ELSE top
           /\ last' = pkt.idx
           /\ head' = IF First \/ Ahead(pkt.sn) THEN pkt.idx ELSE head
           /\ anchor' = IF First THEN pkt.idx ELSE anchor
<1>1. packetCount' \in {packetCount, packetCount + 1} /\ baseSN' \in {baseSN, pkt.sn}
  BY DEF Calc, Rejected, NotForwarded, Forwarded
<1> QED
  BY <1>1 DEF Calc, Remember

\* The newest packet is pushed.
LEMMA CalcNewest ==
    ASSUME NEW pkt, NEW due, Calc(pkt, due), pkt.sn = NextMaxSeqNo(pkt.sn)
    PROVE  /\ bucket' = Pushed(bucket, pkt)
           /\ err' = "nil"
           /\ stored' = stored \cup {pkt.idx}
<1> DEFINE add == AddPacket(bucket, pkt, pkt.sn = NextMaxSeqNo(pkt.sn))
<1>1. add = [b |-> Push(Advanced(Opened(bucket, pkt), pkt), pkt),
             slot |-> Advanced(Opened(bucket, pkt), pkt).step, err |-> "nil"]
  BY Zenon DEF AddPacket
<1>2. bucket' = add.b /\ err' = add.err
      /\ stored' = IF add.err = "nil" THEN stored \cup {pkt.idx} ELSE stored
  BY Zenon DEF Calc, Remember
<1> HIDE DEF add
<1> QED
  BY <1>1, <1>2 DEF Pushed

\* Any other packet is set.
LEMMA CalcLate ==
    ASSUME NEW pkt, NEW due, Calc(pkt, due), pkt.sn # NextMaxSeqNo(pkt.sn),
           bucket.init = TRUE, NEW add, add = Set(bucket, pkt)
    PROVE  /\ bucket' = add.b
           /\ err' = add.err
           /\ stored' = IF add.err = "nil" THEN stored \cup {pkt.idx} ELSE stored
           /\ add.err # "nil" => out' = <<>>
<1>1. AddPacket(bucket, pkt, pkt.sn = NextMaxSeqNo(pkt.sn)) = add
  <2>1. Opened(bucket, pkt) = bucket
    BY Zenon DEF Opened
  <2> QED
    BY <2>1, Zenon DEF AddPacket
<1>2. bucket' = add.b /\ err' = add.err
      /\ stored' = IF add.err = "nil" THEN stored \cup {pkt.idx} ELSE stored
  BY <1>1, Zenon DEF Calc, Remember
<1>3. ASSUME add.err # "nil" PROVE out' = <<>>
  BY <1>1, <1>3, Zenon DEF Calc, Rejected
<1> QED
  BY <1>2, <1>3

\* Where a packet of the network lies relative to the head.
LEMMA PacketPlace ==
    ASSUME CalcIInv, NEW i \in Idx, MayArrive(i, top)
    PROVE  /\ SnOf(i) \in SN
           /\ bucket.init = TRUE => head - Late <= i /\ i <= head + Late + Jump
           /\ bucket.init = TRUE /\ i >= head =>
                 /\ Minus(SnOf(i), maxSeqNo) = i - head /\ NotOlder(SnOf(i), maxSeqNo)
                 /\ SnOf(i) = Plus(maxSeqNo, i - head)
           /\ bucket.init = TRUE /\ i < head =>
                 /\ Minus(maxSeqNo, SnOf(i)) = head - i /\ ~NotOlder(SnOf(i), maxSeqNo)
                 /\ SnOf(i) # maxSeqNo
<1>1. origin \in SN /\ i \in Nat /\ head \in Nat /\ top \in Int
  BY Constants DEF CalcIInv
<1>2. SnOf(i) \in SN
  BY <1>1, Constants, SnDistance
<1>3. ASSUME bucket.init = TRUE
      PROVE  head - Late <= i /\ i <= head + Late + Jump /\ maxSeqNo = SnOf(head)
  BY <1>1, <1>3, Constants DEF CalcIInv, HeadFollowed, MayArrive
<1>4. ASSUME bucket.init = TRUE, i >= head
      PROVE  /\ Minus(SnOf(i), maxSeqNo) = i - head /\ NotOlder(SnOf(i), maxSeqNo)
             /\ SnOf(i) = Plus(maxSeqNo, i - head)
  <2>0. i <= head + Late + Jump
    BY <1>3, <1>4
  <2>1. i - head < Half /\ i - head < SNSpace /\ head <= i
    BY <1>1, <1>4, <2>0, Constants
  <2>2. Minus(SnOf(i), SnOf(head)) = i - head /\ SnOf(i) = Plus(SnOf(head), i - head)
    BY <1>1, <2>1, SnDistance
  <2> QED
    BY <1>3, <1>4, <2>1, <2>2 DEF NotOlder
<1>5. ASSUME bucket.init = TRUE, i < head
      PROVE  /\ Minus(maxSeqNo, SnOf(i)) = head - i /\ ~NotOlder(SnOf(i), maxSeqNo)
             /\ SnOf(i) # maxSeqNo
  <2>0. head - Late <= i
    BY <1>3, <1>5
  <2>1. head - i < Half /\ head - i < SNSpace /\ i <= head
    BY <1>1, <1>5, <2>0, Constants
  <2>2. /\ Minus(SnOf(head), SnOf(i)) = head - i
        /\ Minus(SnOf(i), SnOf(head)) = SNSpace - (head - i)
        /\ SnOf(i) # SnOf(head)
    BY <1>1, <1>5, <2>1, SnDistance
  <2>3. ~(SNSpace - (head - i) < Half)
    BY <1>1, <2>1, Constants
  <2> QED
    BY <1>3, <1>5, <2>2, <2>3 DEF NotOlder
<1> QED
  BY <1>2, <1>3, <1>4, <1>5

\* A packet is the newest, or late: which one, and what calc makes of it.
LEMMA NewestOrLate ==
    ASSUME CalcIInv, NEW i \in Idx, MayArrive(i, top)
    PROVE  LET sn == SnOf(i)
           IN /\ First => NextMaxSeqNo(sn) = sn /\ NextCycles(sn) = cycles
              /\ ~First => bucket.init = TRUE
              /\ ~First /\ i >= head =>
                    Ahead(sn) /\ NextMaxSeqNo(sn) = sn /\ NextCycles(sn) + sn = Ext(i)
              /\ ~First /\ i < head =>
                    ~Ahead(sn) /\ NextMaxSeqNo(sn) = maxSeqNo /\ sn # maxSeqNo
                    /\ NextCycles(sn) = cycles
              /\ NextCycles(sn) \in 0 .. U32 - 1
<1> DEFINE sn == SnOf(i)
<1>1. sn \in SN /\ origin \in SN /\ maxSeqNo \in SN /\ cycles \in 0 .. U32 - 1
      /\ head \in Nat /\ anchor \in Nat /\ i \in Nat /\ head <= MaxIdx /\ i <= MaxIdx
  <2>1. sn \in SN
    BY PacketPlace
  <2> HIDE DEF sn
  <2> QED
    BY <2>1, Constants DEF CalcIInv, HeadTypeOK
<1>2. First => NextMaxSeqNo(sn) = sn /\ NextCycles(sn) = cycles
  BY DEF NextMaxSeqNo, NextCycles, Ahead
<1>3. ~First => bucket.init = TRUE
  BY DEF CalcIInv, Ring, Fresh
<1>4. ASSUME ~First, i >= head
      PROVE  /\ Ahead(sn) /\ NextMaxSeqNo(sn) = sn /\ NextCycles(sn) + sn = Ext(i)
             /\ NextCycles(sn) \in 0 .. U32 - 1
  <2>1. NotOlder(sn, maxSeqNo) /\ sn = Plus(maxSeqNo, i - head) /\ i - head < SNSpace
    <3>1. bucket.init = TRUE
      BY <1>3, <1>4
    <3>2. i <= head + Late + Jump /\ NotOlder(sn, maxSeqNo) /\ sn = Plus(maxSeqNo, i - head)
      BY <3>1, <1>4, PacketPlace
    <3> QED
      BY <3>2, <1>1, Constants
  <2>2. cycles + maxSeqNo = SnOf(anchor) + head - anchor /\ anchor <= head
    BY <1>3, <1>4 DEF CalcIInv, HeadFollowed, Ext
  <2>3. SnOf(anchor) \in SN
    <3>1. anchor - anchor < SNSpace /\ anchor <= anchor
      BY <1>1, Constants
    <3> QED
      BY <1>1, <3>1, SnDistance
  <2>4. Ahead(sn) /\ NextMaxSeqNo(sn) = sn
    BY <1>4, <2>1 DEF Ahead, NextMaxSeqNo
  <2>5. CASE maxSeqNo + (i - head) < SNSpace
    <3>1. sn = maxSeqNo + (i - head) /\ ~(sn < maxSeqNo)
      BY <1>1, <1>4, <2>1, <2>5, Constants DEF Plus
    <3>2. NextCycles(sn) = cycles
      BY <3>1 DEF NextCycles
    <3> QED
      BY <1>1, <2>2, <2>3, <2>4, <3>1, <3>2, Constants DEF Ext
  <2>6. CASE ~(maxSeqNo + (i - head) < SNSpace)
    <3>1. sn = maxSeqNo + (i - head) - SNSpace /\ sn < maxSeqNo
      BY <1>1, <1>4, <2>1, <2>6, Constants DEF Plus
    <3>2. NextCycles(sn) = Add32(cycles, SNSpace)
      BY <2>4, <3>1 DEF NextCycles
    <3>3. cycles + SNSpace < U32 /\ (cycles + SNSpace) + sn = SnOf(anchor) + i - anchor
      BY <1>1, <2>2, <2>3, <3>1, Constants
    <3>4. NextCycles(sn) = cycles + SNSpace
      BY <3>2, <3>3 DEF Add32
    <3> QED
      BY <1>1, <2>4, <3>3, <3>4, Constants DEF Ext
  <2> QED
    BY <2>5, <2>6
<1>5. ASSUME ~First, i < head
      PROVE  ~Ahead(sn) /\ NextMaxSeqNo(sn) = maxSeqNo /\ sn # maxSeqNo /\ NextCycles(sn) = cycles
  <2>1. ~NotOlder(sn, maxSeqNo) /\ sn # maxSeqNo
    BY <1>3, <1>5, PacketPlace
  <2> QED
    BY <1>5, <2>1 DEF Ahead, NextMaxSeqNo, NextCycles
<1>6. NextCycles(sn) \in 0 .. U32 - 1
  BY <1>1, <1>2, <1>4, <1>5
<1> QED
  BY <1>2, <1>3, <1>4, <1>5, <1>6

\* When a skip keeps its place.
LEMMA CalcAligned ==
    ASSUME aligned \in BOOLEAN, NEW pkt, NEW due, Calc(pkt, due)
    PROVE  /\ aligned' \in BOOLEAN
           /\ aligned' = TRUE => aligned = TRUE
           /\ aligned' = TRUE /\ bucket.init = TRUE /\ (First \/ Ahead(pkt.sn)) =>
                 /\ pkt.idx > head
                 /\ Skip(bucket.step, Gap(bucket, pkt.sn))
                       = (bucket.step + Gap(bucket, pkt.sn)) % (MaxSteps + 1)
<1>1. aligned' =
         (aligned /\ ((First \/ Ahead(pkt.sn)) /\ bucket.init =>
             /\ pkt.idx > head
             /\ Skip(bucket.step, Gap(bucket, pkt.sn))
                   = (bucket.step + Gap(bucket, pkt.sn)) % (MaxSteps + 1)))
  BY Zenon DEF Calc, Remember
<1> QED
  BY <1>1, Zenon

\* The head after one calc.
LEMMA HeadStep ==
    ASSUME CalcIInv, NEW i \in Idx, NEW kind, NEW due, MayArrive(i, top),
           Calc(Packet(i, kind), due), bucket' \in Ring,
           bucket'.headSN = IF First \/ i >= head THEN SnOf(i) ELSE bucket.headSN
    PROVE  HeadTypeOK' /\ HeadFollowed'
           /\ top' \in Idx /\ head' \in Idx /\ anchor' \in Idx /\ last' = i /\ origin' = origin
           /\ head' = IF First \/ i >= head THEN i ELSE head
<1> DEFINE sn == SnOf(i)
<1>1. /\ origin' = origin /\ nackOn' = nackOn
      /\ maxSeqNo' = NextMaxSeqNo(sn) /\ cycles' = NextCycles(sn)
      /\ packetCount' \in {packetCount, packetCount + 1}
      /\ baseSN' \in {baseSN, sn}
      /\ top' = IF i > top THEN i ELSE top
      /\ last' = i
      /\ head' = IF First \/ Ahead(sn) THEN i ELSE head
      /\ anchor' = IF First THEN i ELSE anchor
  <2>1. Packet(i, kind).idx = i /\ Packet(i, kind).sn = sn
    BY DEF Packet
  <2> QED
    BY <2>1, CalcAlways
<1>2. \A j : SnOf(j)' = SnOf(j)
  BY <1>1 DEF SnOf
<1>3. /\ sn \in SN /\ NextCycles(sn) \in 0 .. U32 - 1
      /\ First => NextMaxSeqNo(sn) = sn /\ NextCycles(sn) = cycles
      /\ ~First => bucket.init = TRUE
      /\ ~First /\ i >= head =>
            Ahead(sn) /\ NextMaxSeqNo(sn) = sn /\ NextCycles(sn) + sn = Ext(i)
      /\ ~First /\ i < head =>
            ~Ahead(sn) /\ NextMaxSeqNo(sn) = maxSeqNo /\ NextCycles(sn) = cycles
  BY NewestOrLate, PacketPlace
<1> HIDE DEF sn
<1>4. /\ top \in Idx \cup {-1} /\ head \in Idx /\ anchor \in Idx /\ packetCount \in Nat
      /\ maxSeqNo \in SN /\ baseSN \in SN /\ nackOn \in BOOLEAN
  BY DEF CalcIInv, HeadTypeOK
<1>5. head' = IF First \/ i >= head THEN i ELSE head
  BY <1>1, <1>3, <1>4, Constants
<1>6. HeadTypeOK'
  BY <1>1, <1>3, <1>4, Constants DEF HeadTypeOK, NextMaxSeqNo
<1>7. top' \in Idx /\ head' \in Idx /\ anchor' \in Idx
  BY <1>1, <1>4, Constants DEF MayArrive
<1>8. ASSUME bucket.init = TRUE PROVE HeadFollowed
  BY <1>8 DEF CalcIInv
<1>9. First => cycles = 0
  BY DEF CalcIInv, Ring, Fresh, HeadFollowed
<1>10. ASSUME First PROVE HeadFollowed'
  <2>1. top' # -1 /\ top' - Late <= head' /\ head' <= top' /\ anchor' <= head' /\ anchor' = head'
    BY <1>1, <1>4, <1>10, Constants DEF MayArrive
  <2>2. head' = i /\ anchor' = i /\ maxSeqNo' = sn /\ cycles' = 0 /\ bucket'.headSN = sn
    BY <1>1, <1>3, <1>9, <1>10 DEF sn
  <2>3. Ext(head)' = sn
    BY <1>2, <1>3, <2>2, Constants DEF Ext, sn
  <2> QED
    BY <1>2, <1>3, <2>1, <2>2, <2>3, Constants DEF HeadFollowed, sn
<1>11. ASSUME ~First PROVE HeadFollowed'
  <2>1. HeadFollowed
    BY <1>3, <1>8, <1>11
  <2>2. ~First'
    BY <1>1, <1>4, <1>11 DEF First
  <2>3. anchor' = anchor
    BY <1>1, <1>11
  <2>4. \A j : Ext(j)' = Ext(j)
    BY <1>2, <2>3 DEF Ext
  <2>5. top' # -1 /\ top' - Late <= head' /\ head' <= top' /\ anchor' <= head'
    BY <1>1, <1>4, <1>5, <1>11, <2>1, <2>3, Constants DEF HeadFollowed, MayArrive
  <2>6. CASE i >= head
    BY <1>1, <1>2, <1>3, <1>5, <1>11, <2>2, <2>4, <2>5, <2>6 DEF HeadFollowed, sn
  <2>7. CASE ~(i >= head)
    <3>1. i < head
      BY <1>4, <2>7, Constants
    <3> QED
      BY <1>1, <1>2, <1>3, <1>5, <1>11, <2>1, <2>2, <2>4, <2>5, <2>7, <3>1 DEF HeadFollowed, sn
  <2> QED
    BY <2>6, <2>7
<1> QED
  BY <1>1, <1>5, <1>6, <1>7, <1>10, <1>11

\* The newest packet preserves the invariant.
LEMMA NewestStep ==
    ASSUME CalcIInv, NEW i \in Idx, NEW kind, NEW due, MayArrive(i, top),
           Calc(Packet(i, kind), due), First \/ i >= head
    PROVE  CalcIInv'
<1> DEFINE sn == SnOf(i)
           pkt == Packet(i, kind)
           s == PushSlot(bucket, pkt)
<1>1. pkt.sn = sn /\ pkt.idx = i
  BY DEF Packet
<1>2. sn \in SN /\ sn = NextMaxSeqNo(sn) /\ (First \/ Ahead(sn))
  BY NewestOrLate, PacketPlace
<1>3. bucket \in Ring /\ origin \in SN /\ stored \subseteq Idx /\ aligned \in BOOLEAN
      /\ head \in Idx
  BY DEF CalcIInv
<1>4. bucket' = Pushed(bucket, pkt) /\ err' = "nil" /\ stored' = stored \cup {i}
  BY <1>1, <1>2, CalcNewest
<1> HIDE DEF pkt, s, sn
<1>5. /\ bucket' \in Ring /\ s \in Slots
      /\ bucket'.init = TRUE /\ bucket'.headSN = sn
      /\ bucket'.step = IF s + 1 > MaxSteps THEN 0 ELSE s + 1
      /\ bucket'.buf = [bucket.buf EXCEPT ![s] = [sn |-> sn, idx |-> i]]
      /\ bucket.init = TRUE => s = Skip(bucket.step, Gap(bucket, sn))
  <2>1. pkt.sn \in SN /\ pkt.idx \in Idx
    BY <1>1, <1>2
  <2> QED
    BY <1>1, <1>3, <1>4, <2>1, AddLatest DEF s
<1>6. /\ HeadTypeOK' /\ HeadFollowed' /\ top' \in Idx /\ head' \in Idx /\ anchor' \in Idx
      /\ last' = i /\ origin' = origin /\ head' = i
  BY <1>5, HeadStep DEF sn
<1>7. \A j : SnOf(j)' = SnOf(j)
  BY <1>6 DEF SnOf
<1>8. /\ aligned' \in BOOLEAN
      /\ aligned' = TRUE => aligned = TRUE
      /\ aligned' = TRUE /\ bucket.init = TRUE =>
            i > head /\ Skip(bucket.step, Gap(bucket, sn))
                          = (bucket.step + Gap(bucket, sn)) % (MaxSteps + 1)
  BY <1>1, <1>2, <1>3, CalcAligned DEF pkt
<1>9. SlotsAccounted'
  <2> SUFFICES ASSUME NEW t \in Slots
               PROVE  \/ bucket'.buf[t].idx = NoPacket /\ bucket'.buf[t].sn \in Leftovers
                      \/ /\ bucket'.buf[t].idx \in stored'
                         /\ bucket'.buf[t].sn = SnOf(bucket'.buf[t].idx)
    BY <1>6 DEF SlotsAccounted, SnOf
  <2>1. CASE t = s
    <3>1. bucket'.buf[t] = [sn |-> sn, idx |-> i]
      BY <1>3, <1>5, <2>1 DEF Ring
    <3> QED
      BY <1>4, <3>1 DEF sn
  <2>2. CASE t # s
    <3>1. bucket'.buf[t] = bucket.buf[t]
      BY <1>3, <1>5, <2>2 DEF Ring
    <3>2. \/ bucket.buf[t].idx = NoPacket /\ bucket.buf[t].sn \in Leftovers
          \/ bucket.buf[t].idx \in stored /\ bucket.buf[t].sn = SnOf(bucket.buf[t].idx)
      BY DEF CalcIInv, SlotsAccounted
    <3> QED
      BY <1>4, <3>1, <3>2
  <2> QED
    BY <2>1, <2>2
<1>10. RingInPlace'
  <2> SUFFICES ASSUME aligned' = TRUE, NEW j \in stored'
               PROVE  /\ j <= i
                      /\ i - j <= MaxSteps =>
                            bucket'.buf[SlotOf(bucket'.step, i - j)] = [sn |-> SnOf(j), idx |-> j]
    BY <1>6, <1>7 DEF RingInPlace
  <2>1. i \in Nat /\ bucket'.step \in Slots /\ bucket.step \in Slots /\ head \in Nat
    BY <1>3, <1>5, Constants DEF Ring
  <2>2. CASE j = i
    <3>1. i - j = 0
      BY <2>1, <2>2
    <3>2. SlotOf(bucket'.step, 0) = s
      BY <1>5, PushedIsHead
    <3>3. bucket'.buf[s] = [sn |-> sn, idx |-> i]
      BY <1>3, <1>5 DEF Ring
    <3> QED
      BY <2>1, <2>2, <3>1, <3>2, <3>3 DEF sn
  <2>3. CASE j # i
    <3>1. j \in stored /\ j \in Nat
      BY <1>3, <1>4, <2>3, Constants
    <3>2. bucket.init = TRUE
      BY <3>1 DEF CalcIInv, Ring, Fresh
    <3>3. i > head /\ s = (bucket.step + Gap(bucket, sn)) % (MaxSteps + 1)
          /\ aligned = TRUE
      BY <1>5, <1>8, <3>2
    <3>4. j <= head /\ (head - j <= MaxSteps =>
              bucket.buf[SlotOf(bucket.step, head - j)] = [sn |-> SnOf(j), idx |-> j])
      BY <3>1, <3>3 DEF CalcIInv, RingInPlace
    <3>5. Gap(bucket, sn) = i - head - 1
      <4>1. bucket.headSN = maxSeqNo /\ i >= head
        BY <2>1, <3>2, <3>3 DEF CalcIInv, HeadFollowed
      <4>2. Minus(sn, maxSeqNo) = i - head
        BY <3>2, <4>1, PacketPlace DEF sn
      <4> QED
        BY <4>1, <4>2, <2>1, <3>3 DEF Gap
    <3>6. ASSUME i - j <= MaxSteps
          PROVE  bucket'.buf[SlotOf(bucket'.step, i - j)] = [sn |-> SnOf(j), idx |-> j]
      <4> DEFINE gap == i - head - 1
                 d == head - j
      <4>1. gap \in Nat /\ d \in Nat /\ d + gap + 1 = i - j /\ d + gap + 1 <= MaxSteps
            /\ d <= MaxSteps /\ i - j \in Slots /\ 0 \in Slots /\ i - j # 0
        BY <2>1, <3>1, <3>3, <3>4, <3>6, Constants DEF Slots
      <4>2. s = (bucket.step + gap) % (MaxSteps + 1)
        BY <3>3, <3>5
      <4> HIDE DEF gap, d
      <4>3. SlotOf(bucket'.step, i - j) = SlotOf(bucket.step, d)
        BY <1>5, <2>1, <4>1, <4>2, SkipKeepsSlots
      <4>4. SlotOf(bucket'.step, i - j) # s /\ SlotOf(bucket'.step, i - j) \in Slots
        <5>1. SlotOf(bucket'.step, 0) = s
          BY <1>5, PushedIsHead
        <5> QED
          BY <2>1, <4>1, <5>1, SlotsDistinct
      <4>5. bucket.buf[SlotOf(bucket.step, d)] = [sn |-> SnOf(j), idx |-> j]
        BY <3>4, <4>1 DEF d
      <4> QED
        BY <1>3, <1>5, <4>3, <4>4, <4>5 DEF Ring
    <3> QED
      BY <2>1, <3>1, <3>3, <3>4, <3>6
  <2> QED
    BY <2>2, <2>3
<1>11. RtxWasStored'
  BY <1>4 DEF RtxWasStored
<1>12. stored' \subseteq Idx
  BY <1>3, <1>4
<1>13. (bucket.init = FALSE => Fresh)' /\ (bucket.init = TRUE => HeadFollowed)'
  BY <1>5, <1>6
<1>14. origin' \in SN /\ top' \in Idx \cup {-1} /\ last' \in Idx
  BY <1>3, <1>6
<1> QED
  BY <1>5, <1>6, <1>8, <1>9, <1>10, <1>11, <1>12, <1>13, <1>14 DEF CalcIInv

\* What calc makes of a packet behind the head.
LEMMA CalcBehind ==
    ASSUME CalcIInv, NEW i \in Idx, NEW kind, NEW due, MayArrive(i, top),
           Calc(Packet(i, kind), due), ~First, i < head,
           NEW s, s = SlotOf(bucket.step, head - i)
    PROVE  /\ bucket.init = TRUE /\ i \in Nat /\ head \in Nat
           /\ head - i <= MaxSteps => s \in Slots
           /\ \/ bucket' = bucket /\ stored' = stored /\ err' = "errPacketTooOld"
                /\ out' = <<>>
              \/ /\ head - i <= MaxSteps /\ bucket.buf[s].sn = SnOf(i)
                 /\ bucket' = bucket /\ stored' = stored /\ err' = "errRTXPacket"
                 /\ out' = <<>>
              \/ /\ head - i <= MaxSteps /\ bucket.buf[s].sn # SnOf(i)
                 /\ bucket' = [bucket EXCEPT !.buf[s] = [sn |-> SnOf(i), idx |-> i]]
                 /\ stored' = stored \cup {i} /\ err' = "nil"
<1> DEFINE pkt == Packet(i, kind)
           add == Set(bucket, pkt)
           d == head - i
<1>1. pkt.sn = SnOf(i) /\ pkt.idx = i
  BY DEF Packet
<1>2. bucket \in Ring /\ i \in Nat /\ head \in Nat
  BY Constants DEF CalcIInv
<1>3. bucket.init = TRUE /\ SnOf(i) \in SN /\ SnOf(i) # NextMaxSeqNo(SnOf(i))
  BY NewestOrLate, PacketPlace
<1>4. d \in 1 .. Half - 1 /\ Minus(bucket.headSN, SnOf(i)) = d
  <2>1. bucket.headSN = maxSeqNo
    BY <1>3 DEF CalcIInv, HeadFollowed
  <2>2. head - Late <= i /\ Minus(maxSeqNo, SnOf(i)) = head - i
    BY <1>3, PacketPlace
  <2> QED
    BY <1>2, <2>1, <2>2, Constants
<1> HIDE DEF pkt, add
<1>5. /\ bucket' = add.b /\ err' = add.err
      /\ stored' = IF add.err = "nil" THEN stored \cup {i} ELSE stored
      /\ add.err # "nil" => out' = <<>>
  <2>1. pkt.sn # NextMaxSeqNo(pkt.sn) /\ add = Set(bucket, pkt) /\ Calc(pkt, due)
    BY <1>1, <1>3 DEF add, pkt
  <2> QED
    BY <1>1, <1>3, <2>1, CalcLate
<1>6. /\ d > MaxSteps => add.err = "errPacketTooOld" /\ add.b = bucket
      /\ d <= MaxSteps => s \in Slots
      /\ d <= MaxSteps /\ bucket.buf[s].sn = SnOf(i) =>
            add.err = "errRTXPacket" /\ add.b = bucket
      /\ d <= MaxSteps /\ bucket.buf[s].sn # SnOf(i) =>
            /\ add.err = "nil"
            /\ add.b = [bucket EXCEPT !.buf[s] = [sn |-> SnOf(i), idx |-> i]]
  <2>1. s = SlotOf(bucket.step, d) /\ pkt.sn \in SN /\ pkt.idx \in Idx
        /\ Minus(bucket.headSN, pkt.sn) = d
    BY <1>1, <1>3, <1>4
  <2> HIDE DEF d
  <2>2. /\ d > MaxSteps => add.err = "errPacketTooOld" /\ add.b = bucket
        /\ d <= MaxSteps => s \in Slots
        /\ d <= MaxSteps /\ bucket.buf[s].sn = pkt.sn =>
              add.err = "errRTXPacket" /\ add.b = bucket
        /\ d <= MaxSteps /\ bucket.buf[s].sn # pkt.sn =>
              /\ add.err = "nil"
              /\ add.b = [bucket EXCEPT !.buf[s] = [sn |-> pkt.sn, idx |-> pkt.idx]]
    BY <1>2, <1>4, <2>1, AddLate DEF add
  <2> QED
    BY <1>1, <2>2, Zenon
<1>7. d <= MaxSteps \/ d > MaxSteps
  BY <1>2, Constants
<1> QED
  BY <1>2, <1>3, <1>5, <1>6, <1>7

\* A late packet preserves the invariant.
LEMMA LateStep ==
    ASSUME CalcIInv, NEW i \in Idx, NEW kind, NEW due, MayArrive(i, top),
           Calc(Packet(i, kind), due), ~First, i < head
    PROVE  CalcIInv'
<1> DEFINE s == SlotOf(bucket.step, head - i)
<1>1. /\ bucket.init = TRUE /\ i \in Nat /\ head \in Nat
      /\ head - i <= MaxSteps => s \in Slots
      /\ \/ bucket' = bucket /\ stored' = stored /\ err' = "errPacketTooOld"
         \/ /\ head - i <= MaxSteps /\ bucket.buf[s].sn = SnOf(i)
            /\ bucket' = bucket /\ stored' = stored /\ err' = "errRTXPacket"
         \/ /\ head - i <= MaxSteps /\ bucket.buf[s].sn # SnOf(i)
            /\ bucket' = [bucket EXCEPT !.buf[s] = [sn |-> SnOf(i), idx |-> i]]
            /\ stored' = stored \cup {i} /\ err' = "nil"
  BY CalcBehind
<1>2. bucket \in Ring /\ origin \in SN /\ stored \subseteq Idx /\ aligned \in BOOLEAN
      /\ SnOf(i) \in SN
  BY PacketPlace DEF CalcIInv
<1> HIDE DEF s
<1>3. /\ bucket' \in Ring /\ bucket'.init = TRUE /\ bucket'.headSN = bucket.headSN
      /\ bucket'.step = bucket.step
  BY <1>1, <1>2 DEF Ring
<1>4. /\ HeadTypeOK' /\ HeadFollowed' /\ top' \in Idx /\ head' \in Idx /\ anchor' \in Idx
      /\ last' = i /\ origin' = origin /\ head' = head
  <2>1. ~(First \/ i >= head)
    BY <1>1
  <2> QED
    BY <1>3, <2>1, HeadStep
<1>5. \A j : SnOf(j)' = SnOf(j)
  BY <1>4 DEF SnOf
<1>6. aligned' \in BOOLEAN /\ (aligned' = TRUE => aligned = TRUE)
  BY <1>2, CalcAligned
<1>7. CASE bucket' = bucket /\ stored' = stored
  <2>1. SlotsAccounted'
    BY <1>4, <1>7 DEF CalcIInv, SlotsAccounted, SnOf
  <2>2. RingInPlace'
    BY <1>4, <1>5, <1>6, <1>7 DEF CalcIInv, RingInPlace
  <2>3. RtxWasStored'
    <3>1. CASE err' = "errPacketTooOld"
      BY <3>1 DEF RtxWasStored
    <3>2. CASE err' = "nil"
      BY <3>2 DEF RtxWasStored
    <3>3. CASE err' = "errRTXPacket" /\ head - i <= MaxSteps /\ bucket.buf[s].sn = SnOf(i)
      <4>1. SnOf(i) \in Leftovers \/ \E j \in stored : SnOf(j) = SnOf(i)
        BY <1>1, <3>3 DEF CalcIInv, SlotsAccounted
      <4>2. SnOf(last)' = SnOf(i)
        BY <1>4 DEF SnOf
      <4> QED
        BY <1>5, <1>7, <4>1, <4>2 DEF RtxWasStored
    <3> QED
      BY <1>1, <3>1, <3>2, <3>3
  <2> QED
    BY <2>1, <2>2, <2>3, <1>2, <1>3, <1>4, <1>6, <1>7 DEF CalcIInv
<1>8. CASE /\ head - i <= MaxSteps
           /\ bucket' = [bucket EXCEPT !.buf[s] = [sn |-> SnOf(i), idx |-> i]]
           /\ stored' = stored \cup {i} /\ err' = "nil"
  <2>1. s \in Slots /\ bucket'.buf[s] = [sn |-> SnOf(i), idx |-> i]
        /\ \A t \in Slots : t # s => bucket'.buf[t] = bucket.buf[t]
    BY <1>1, <1>2, <1>8 DEF Ring
  <2>2. SlotsAccounted'
    <3> SUFFICES ASSUME NEW t \in Slots
                 PROVE  \/ bucket'.buf[t].idx = NoPacket /\ bucket'.buf[t].sn \in Leftovers
                        \/ /\ bucket'.buf[t].idx \in stored'
                           /\ bucket'.buf[t].sn = SnOf(bucket'.buf[t].idx)
      BY <1>4 DEF SlotsAccounted, SnOf
    <3>1. CASE t = s
      BY <1>8, <2>1, <3>1
    <3>2. CASE t # s
      <4>1. \/ bucket.buf[t].idx = NoPacket /\ bucket.buf[t].sn \in Leftovers
            \/ bucket.buf[t].idx \in stored /\ bucket.buf[t].sn = SnOf(bucket.buf[t].idx)
        BY DEF CalcIInv, SlotsAccounted
      <4>2. bucket'.buf[t] = bucket.buf[t]
        BY <2>1, <3>2
      <4> QED
        BY <1>8, <4>1, <4>2
    <3> QED
      BY <3>1, <3>2
  <2>3. RingInPlace'
    <3> SUFFICES ASSUME aligned' = TRUE, NEW j \in stored'
                 PROVE  /\ j <= head
                        /\ head - j <= MaxSteps =>
                              bucket'.buf[SlotOf(bucket.step, head - j)]
                                  = [sn |-> SnOf(j), idx |-> j]
      BY <1>3, <1>4, <1>5 DEF RingInPlace
    <3>1. CASE j = i
      BY <1>1, <2>1, <3>1 DEF s
    <3>2. CASE j # i
      <4>1. j \in stored /\ j \in Nat
        BY <1>2, <1>8, <3>2, Constants
      <4>2. j <= head /\ (head - j <= MaxSteps =>
                bucket.buf[SlotOf(bucket.step, head - j)] = [sn |-> SnOf(j), idx |-> j])
        BY <1>6, <4>1 DEF CalcIInv, RingInPlace
      <4>3. ASSUME head - j <= MaxSteps
            PROVE  SlotOf(bucket.step, head - j) \in Slots /\ SlotOf(bucket.step, head - j) # s
        <5>1. head - i <= MaxSteps /\ bucket.step \in Slots
          BY <1>2, <1>8 DEF Ring
        <5>2. j <= head /\ i \in Nat /\ head \in Nat /\ j \in Nat
          BY <1>1, <4>1, <4>2
        <5>3. head - j \in Slots /\ head - i \in Slots /\ head - j # head - i
          BY <3>2, <4>3, <5>1, <5>2, MaxStepsAssumption DEF Slots
        <5> QED
          BY <5>1, <5>3, SlotsDistinct DEF s
      <4> QED
        BY <2>1, <4>2, <4>3
    <3> QED
      BY <3>1, <3>2
  <2>4. RtxWasStored' /\ stored' \subseteq Idx
    BY <1>2, <1>8 DEF RtxWasStored
  <2> QED
    BY <2>2, <2>3, <2>4, <1>2, <1>3, <1>4, <1>6 DEF CalcIInv
<1> QED
  BY <1>1, <1>7, <1>8

-----------------------------------------------------------------------------
(* The invariant, and what follows from it                                 *)

\* The invariant holds when the buffer is bound.
LEMMA CalcInitInv == CalcInit => CalcIInv
<1> SUFFICES ASSUME CalcInit PROVE CalcIInv
  OBVIOUS
<1>1. PICK fill \in Leftovers : bucket = NewBucket(fill)
  BY DEF CalcInit
<1>2. fill \in SN /\ 0 \in SN /\ 0 \in Slots /\ 0 \in Idx /\ origin \in SN /\ nackOn \in BOOLEAN
  BY StreamAssumption, Constants DEF CalcInit, Slots
<1>3. bucket \in Ring /\ bucket.init = FALSE /\ bucket.step = 0
      /\ \A s \in Slots : bucket.buf[s].idx = NoPacket /\ bucket.buf[s].sn = fill
  BY <1>1, <1>2 DEF NewBucket, Ring
<1>4. HeadTypeOK
  BY <1>2, Constants DEF CalcInit, HeadTypeOK
<1>5. Fresh
  BY <1>3 DEF CalcInit, Fresh, First
<1>6. SlotsAccounted
  BY <1>1, <1>3 DEF SlotsAccounted
<1>7. RingInPlace /\ RtxWasStored
  BY DEF CalcInit, RingInPlace, RtxWasStored
<1>8. top \in Idx \cup {-1} /\ last \in Idx /\ head \in Idx /\ anchor \in Idx
      /\ stored \subseteq Idx /\ aligned \in BOOLEAN
  BY <1>2 DEF CalcInit
<1> QED
  BY <1>2, <1>3, <1>4, <1>5, <1>6, <1>7, <1>8 DEF CalcIInv

\* One calc preserves the invariant.
LEMMA CalcStep ==
    ASSUME CalcIInv, NEW i \in Idx, NEW kind, NEW due, MayArrive(i, top),
           Calc(Packet(i, kind), due)
    PROVE  CalcIInv'
<1>1. CASE First \/ i >= head
  BY <1>1, NewestStep
<1>2. CASE ~(First \/ i >= head)
  <2>1. ~First /\ i < head
    BY <1>2, Constants DEF CalcIInv
  <2> QED
    BY <2>1, LateStep
<1> QED
  BY <1>1, <1>2

\* So does a step of CalcSpec.
LEMMA CalcNextInv == CalcIInv /\ [CalcNext]_calcVars => CalcIInv'
<1> SUFFICES ASSUME CalcIInv, [CalcNext]_calcVars PROVE CalcIInv'
  OBVIOUS
<1>1. CASE CalcNext
  BY <1>1, CalcStep DEF CalcNext
<1>2. CASE UNCHANGED calcVars
  <2>1. /\ origin' = origin /\ bucket' = bucket /\ nackOn' = nackOn /\ maxSeqNo' = maxSeqNo
        /\ cycles' = cycles /\ baseSN' = baseSN /\ packetCount' = packetCount /\ err' = err
        /\ top' = top /\ last' = last /\ head' = head /\ anchor' = anchor
        /\ stored' = stored /\ aligned' = aligned
    BY <1>2 DEF calcVars, codeVars, statVars, history
  <2> QED
    BY <2>1 DEF CalcIInv, HeadTypeOK, Fresh, First, HeadFollowed, Ext, SlotsAccounted,
                RingInPlace, RtxWasStored, SnOf
<1> QED
  BY <1>1, <1>2

\* The invariant of calc: types, the place of the head in the stream, and the
\* place of every packet in the ring.
THEOREM CalcInvariant == CalcSpec => []CalcIInv
BY CalcInitInv, CalcNextInv, PTL DEF CalcSpec

\* The extended number calc keeps in cycles and maxSeqNo is the head's, across
\* wraps, reordering and duplicates, as long as the stream fits a uint32.
THEOREM HeadIsExtended == CalcSpec => []HeadExtended
<1>1. CalcIInv => HeadExtended
  BY DEF CalcIInv, Ring, HeadFollowed, HeadExtended
<1> QED
  BY <1>1, CalcInvariant, PTL

\* Bucket.GetPacket finds every packet the ring took within its size of the head,
\* and finds that very packet, while no skip has lost its place.
THEOREM RingAnswers == CalcSpec => []RingFinds
<1>1. CalcIInv => RingFinds
  <2> SUFFICES ASSUME CalcIInv, aligned, NEW i \in stored, head - i \in 0 .. MaxSteps
               PROVE  Found(bucket, SnOf(i)) /\ GetPacket(bucket, SnOf(i)) = i
    BY DEF RingFinds
  <2> DEFINE d == head - i
  <2>1. bucket \in Ring /\ origin \in SN /\ aligned = TRUE /\ i \in Nat /\ head \in Nat
    BY Constants DEF CalcIInv
  <2>2. bucket.init = TRUE
    BY DEF CalcIInv, Ring, Fresh
  <2>3. bucket.headSN = SnOf(head)
    BY <2>2 DEF CalcIInv, HeadFollowed
  <2>4. bucket.buf[SlotOf(bucket.step, d)] = [sn |-> SnOf(i), idx |-> i]
    BY <2>1, Constants DEF CalcIInv, RingInPlace
  <2>5. Minus(bucket.headSN, SnOf(i)) = d
    <3>1. i <= head /\ head - i < SNSpace
      BY <2>1, Constants
    <3> QED
      BY <2>1, <2>3, <3>1, SnDistance
  <2>6. d \in Nat /\ d <= MaxSteps /\ bucket.step \in 0 .. MaxSteps
    BY <2>1, Constants DEF Ring, Slots
  <2>7. RawPos(bucket, SnOf(i)) = bucket.step - (d + 1)
    <3>1. Plus(d, 1) = d + 1
      BY <2>6, Constants DEF Plus
    <3> QED
      BY <2>5, <3>1 DEF RawPos
  <2>8. bucket.step - (d + 1) >= -(MaxSteps + 1)
    BY <2>6, Constants
  <2> QED
    BY <2>4, <2>7, <2>8 DEF Found, GetPacket, SlotOf
<1> QED
  BY <1>1, CalcInvariant, PTL

\* errRTXPacket is returned only for a sequence number the ring has taken, or one
\* that unwritten memory reads as.
THEOREM RtxIsAccounted == CalcSpec => []RtxWasStored
<1>1. CalcIInv => RtxWasStored
  BY DEF CalcIInv
<1> QED
  BY <1>1, CalcInvariant, PTL

\* A packet the ring still holds is not handed on a second time.
THEOREM RepeatsAreDropped == CalcSpec => RepeatDropped
<1> DEFINE A == (packetCount > 0 /\ aligned /\ last' \in stored /\ head - last' \in 1 .. MaxSteps)
                   => out' = <<>>
<1>1. CalcIInv /\ [CalcNext]_calcVars => [A]_calcVars
  <2> SUFFICES ASSUME CalcIInv, CalcNext, packetCount > 0, aligned, last' \in stored,
                      head - last' \in 1 .. MaxSteps
               PROVE  out' = <<>>
    OBVIOUS
  <2>1. PICK i \in Idx, kind \in Kinds, due \in DueChoices :
           MayArrive(i, top) /\ Calc(Packet(i, kind), due)
    BY DEF CalcNext
  <2>2. last' = i
    <3>1. Packet(i, kind).idx = i
      BY DEF Packet
    <3> QED
      BY <2>1, <3>1, CalcAlways
  <2>3. ~First /\ i < head /\ aligned = TRUE /\ head - i <= MaxSteps
    BY <2>2, Constants DEF First, CalcIInv
  <2>4. bucket.buf[SlotOf(bucket.step, head - i)].sn = SnOf(i)
    <3>1. bucket.buf[SlotOf(bucket.step, head - i)] = [sn |-> SnOf(i), idx |-> i]
      BY <2>2, <2>3 DEF CalcIInv, RingInPlace
    <3> QED
      BY <3>1
  <2> QED
    BY <2>1, <2>3, <2>4, CalcBehind
<1> QED
  BY <1>1, CalcInvariant, PTL DEF CalcSpec, RepeatDropped

-----------------------------------------------------------------------------
(* The losses that are reported                                            *)

\* baseSN is the lowest number of a packet that was counted
BaseLeast == \E m \in counted : baseSN = SnOf(m) /\ \A i \in counted : baseSN <= SnOf(i)

\* What packetCount, minPacketProbe and baseSN say of the packets counted
CountInv ==
    /\ minPacketProbe \in Nat /\ minPacketProbe <= packetCount
    /\ counted \subseteq Idx /\ Cardinality(counted) <= packetCount
    /\ packetCount = 0 <=> counted = {}
    /\ \A i \in counted : i <= head
    /\ reportedHead \in Idx \cup {-1} /\ backfilled \in BOOLEAN
    /\ packetCount = 0 => reportedHead = -1
    /\ reportedHead <= head
    /\ reportedHead = -1 => lastExpected = 0 /\ lastReceived = 0
    /\ minPacketProbe = packetCount /\ packetCount > 0 => BaseLeast

\* What was expected and received at the last report, as the packets counted show
ReportInv ==
    PlainCount /\ ~backfilled /\ reportedHead # -1 =>
        /\ Min(counted) <= reportedHead
        /\ lastExpected = reportedHead - Min(counted) + 1
        /\ lastReceived = Cardinality({i \in counted : i <= reportedHead})

\* The numbers of the stream go on from the anchor's while they do not wrap.
LEMMA NumbersRun ==
    ASSUME NEW o \in Nat, NEW a \in Nat, NEW i \in Nat,
           ((o + a) % SNSpace) + i - a \in SN
    PROVE  (o + i) % SNSpace = ((o + a) % SNSpace) + i - a
<1>1. SNSpace \in Nat /\ SNSpace > 0 /\ SN = 0 .. SNSpace - 1
  BY Constants
<1>2. PICK q \in Int, r \in 0 .. SNSpace - 1 : o + a = SNSpace * q + r /\ (o + a) % SNSpace = r
  <2>1. o + a \in Int
    OBVIOUS
  <2> QED
    BY <1>1, <2>1, ModDef
<1>3. o + i = SNSpace * q + (r + i - a) /\ r + i - a \in 0 .. SNSpace - 1 /\ o + i \in Int
  BY <1>1, <1>2
<1>4. (o + i) % SNSpace = r + i - a
  BY <1>1, <1>3, ModIs
<1> QED
  BY <1>2, <1>4

\* The least element is the minimum.
LEMMA MinIs ==
    ASSUME NEW S \in SUBSET Int, NEW m \in S, \A i \in S : m <= i
    PROVE  Min(S) = m
<1>1. \A x \in S : (\A y \in S : x =< y) => x = m
  OBVIOUS
<1> QED
  BY <1>1 DEF Min

\* How many numbers of an interval are not in a set.
LEMMA OthersCount ==
    ASSUME NEW S \in SUBSET Int, NEW m \in Int, NEW h \in Int, m <= h + 1,
           \A i \in S : m <= i /\ i <= h
    PROVE  /\ IsFiniteSet(S) /\ Cardinality(S) \in Nat
           /\ Cardinality(S) <= h - m + 1
           /\ Cardinality((m .. h) \ S) = h - m + 1 - Cardinality(S)
<1>1. S \subseteq m .. h
  OBVIOUS
<1>2. IsFiniteSet(m .. h) /\ Cardinality(m .. h) = h - m + 1
  BY FS_Interval
<1>3. IsFiniteSet(S) /\ Cardinality(S) <= h - m + 1
  <2>1. IsFiniteSet(S) /\ Cardinality(S) <= Cardinality(m .. h)
    BY <1>1, <1>2, FS_Subset, ZenonT(60)
  <2> QED
    BY <1>2, <2>1
<1>4. Cardinality(S) \in Nat
  BY <1>3, FS_CardinalityType
<1>5. Cardinality((m .. h) \cap S) = Cardinality(S)
  <2>1. (m .. h) \cap S = S
    BY <1>1
  <2> QED
    BY <2>1
<1>6. Cardinality((m .. h) \ S) = Cardinality(m .. h) - Cardinality((m .. h) \cap S)
  BY <1>2, FS_Difference
<1> QED
  BY <1>2, <1>3, <1>4, <1>5, <1>6

\* What a calc counts and reports.
LEMMA CalcCounts ==
    ASSUME packetCount \in Nat, backfilled \in BOOLEAN, NEW pkt, NEW due, Calc(pkt, due)
    PROVE  \/ /\ packetCount' = packetCount /\ counted' = counted /\ feedback'.report = {}
              /\ UNCHANGED <<minPacketProbe, lastExpected, lastReceived, reportedHead, backfilled>>
              /\ ~First => baseSN' = baseSN
           \/ /\ packetCount' = packetCount + 1 /\ counted' = counted \cup {pkt.idx}
              /\ \/ minPacketProbe' = minPacketProbe
                 \/ /\ minPacketProbe' = minPacketProbe + 1
                    /\ baseSN' = IF ~First /\ ~(pkt.sn < baseSN) THEN baseSN ELSE pkt.sn
              /\ \/ /\ feedback'.report = {}
                    /\ UNCHANGED <<lastExpected, lastReceived, reportedHead>>
                    /\ backfilled' = (backfilled \/ (counted' # counted /\ pkt.idx <= reportedHead))
                 \/ /\ ~First /\ reportedHead' = head' /\ backfilled' = FALSE
                    /\ lastExpected' = Expected(cycles' + maxSeqNo', baseSN')
                    /\ lastReceived' = packetCount'
                    /\ feedback'.report =
                          {[total |-> TotalLost(lastExpected', packetCount'),
                            interval |-> LostInterval(lastExpected', packetCount')]}
<1>1. /\ counted' = IF packetCount' > packetCount THEN counted \cup {pkt.idx} ELSE counted
      /\ reportedHead' = IF feedback'.report # {} THEN head' ELSE reportedHead
      /\ backfilled' = (feedback'.report = {} /\
             (backfilled \/ (counted' # counted /\ pkt.idx <= reportedHead)))
  BY DEF Calc, Remember
<1>2. \/ \E q : Rejected(pkt, q)
      \/ \E q : NotForwarded(pkt, q)
      \/ \E q, slot : Forwarded(pkt, q, slot, due)
  BY Zenon DEF Calc
<1>3. CASE \E q : Rejected(pkt, q)
  <2>1. /\ packetCount' = packetCount /\ feedback'.report = {}
        /\ UNCHANGED <<minPacketProbe, lastExpected, lastReceived>>
        /\ ~First => baseSN' = baseSN
    BY <1>3 DEF Rejected, NoFeedback
  <2> QED
    BY <1>1, <2>1
<1>4. CASE \E q : NotForwarded(pkt, q)
  <2>1. /\ packetCount' = packetCount + 1 /\ feedback'.report = {}
        /\ UNCHANGED <<minPacketProbe, lastExpected, lastReceived>>
    BY <1>4 DEF NotForwarded, NoFeedback
  <2> QED
    BY <1>1, <2>1
<1>5. CASE \E q, slot : Forwarded(pkt, q, slot, due)
  <2>1. /\ packetCount' = packetCount + 1 /\ (due => ~First)
        /\ \/ minPacketProbe' = minPacketProbe
           \/ /\ minPacketProbe' = minPacketProbe + 1
              /\ baseSN' = IF ~First /\ ~(pkt.sn < baseSN) THEN baseSN ELSE pkt.sn
    BY <1>5 DEF Forwarded
  <2>2. CASE ~due
    <3>1. feedback'.report = {} /\ UNCHANGED <<lastExpected, lastReceived>>
      BY <1>5, <2>2 DEF Forwarded
    <3> QED
      BY <1>1, <2>1, <3>1
  <2>3. CASE due
    <3>1. /\ lastExpected' = Expected(cycles' + maxSeqNo', baseSN')
          /\ lastReceived' = packetCount'
          /\ feedback'.report =
                {[total |-> TotalLost(lastExpected', packetCount'),
                  interval |-> LostInterval(lastExpected', packetCount')]}
      BY <1>5, <2>3 DEF Forwarded
    <3>2. reportedHead' = head' /\ backfilled' = FALSE
      BY <1>1, <3>1
    <3> QED
      BY <1>1, <2>1, <2>3, <3>1, <3>2
  <2> QED
    BY <2>2, <2>3
<1> QED
  BY <1>2, <1>3, <1>4, <1>5

\* The head of calc, as the packets counted see it.
LEMMA CountHead ==
    ASSUME CalcIInv, CalcIInv', NEW i \in Idx, NEW kind, NEW due, MayArrive(i, top),
           Calc(Packet(i, kind), due)
    PROVE  /\ Packet(i, kind).idx = i /\ Packet(i, kind).sn = SnOf(i) /\ SnOf(i) \in SN
           /\ \A j : SnOf(j)' = SnOf(j)
           /\ head \in Nat /\ head' \in Nat /\ i <= head' /\ last' = i
           /\ First => head' = i
           /\ ~First => head <= head' /\ \A j : Ext(j)' = Ext(j)
           /\ ~First /\ cycles' = 0 => cycles = 0
<1> DEFINE sn == SnOf(i)
<1>1. Packet(i, kind).idx = i /\ Packet(i, kind).sn = sn
  BY DEF Packet
<1>2. /\ sn \in SN /\ First => NextCycles(sn) = cycles
      /\ ~First => bucket.init = TRUE
      /\ ~First /\ i >= head => Ahead(sn) /\ NextCycles(sn) + sn = Ext(i)
      /\ ~First /\ i < head => ~Ahead(sn) /\ NextCycles(sn) = cycles
  BY NewestOrLate, PacketPlace
<1>3. sn \in SN
  BY PacketPlace
<1>4. /\ origin' = origin /\ cycles' = NextCycles(sn) /\ last' = i
      /\ head' = IF First \/ Ahead(sn) THEN i ELSE head
      /\ anchor' = IF First THEN i ELSE anchor
  BY <1>1, CalcAlways
<1>5. \A j : SnOf(j)' = SnOf(j)
  BY <1>4 DEF SnOf
<1> HIDE DEF sn
<1>6. /\ i \in Nat /\ head \in Nat /\ head' \in Nat /\ anchor \in Nat /\ maxSeqNo \in SN
      /\ cycles \in Nat
  BY Constants DEF CalcIInv, HeadTypeOK
<1>7. i <= head' /\ (First => head' = i) /\ (~First => head <= head')
  BY <1>2, <1>4, <1>6
<1>8. ASSUME ~First PROVE \A j : Ext(j)' = Ext(j)
  BY <1>4, <1>5, <1>8 DEF Ext
<1>9. ASSUME ~First, cycles' = 0 PROVE cycles = 0
  <2>1. CASE i < head
    BY <1>2, <1>4, <1>9, <2>1
  <2>2. CASE i >= head
    <3>1. sn = Ext(i) /\ cycles + maxSeqNo = Ext(head)
      BY <1>2, <1>3, <1>4, <1>9, <2>2, Constants DEF CalcIInv, HeadFollowed
    <3>2. SnOf(anchor) \in Nat
      BY <1>6, Constants, ModDef DEF SnOf, CalcIInv
    <3>3. Ext(head) <= Ext(i)
      BY <1>6, <2>2, <3>2 DEF Ext
    <3>4. ~(sn < maxSeqNo)
      BY <1>3, <1>6, <3>1, <3>3, Constants
    <3> QED
      BY <1>4, <1>9, <3>4 DEF NextCycles
  <2> QED
    BY <1>6, <2>1, <2>2
<1> QED
  BY <1>1, <1>3, <1>4, <1>5, <1>6, <1>7, <1>8, <1>9 DEF sn

\* A calc keeps the counts.
LEMMA CountStep ==
    ASSUME CalcIInv, CalcIInv', CountInv, NEW i \in Idx, NEW kind, NEW due,
           MayArrive(i, top), Calc(Packet(i, kind), due)
    PROVE  CountInv'
<1> DEFINE sn == SnOf(i)
           pkt == Packet(i, kind)
<1>1. /\ pkt.idx = i /\ pkt.sn = sn /\ sn \in SN /\ \A j : SnOf(j)' = SnOf(j)
      /\ head \in Nat /\ head' \in Nat /\ i <= head'
      /\ First => head' = i
      /\ ~First => head <= head'
  BY CountHead
<1>2. /\ packetCount \in Nat /\ backfilled \in BOOLEAN /\ minPacketProbe \in Nat
      /\ counted \subseteq Idx /\ Idx \subseteq Nat /\ i \in Nat /\ baseSN \in SN /\ SN \subseteq Nat
      /\ reportedHead \in Idx \cup {-1} /\ head' \in Idx
  BY Constants DEF CalcIInv, HeadTypeOK, CountInv
<1>3. First <=> packetCount = 0
  BY DEF First
<1>4. IsFiniteSet(counted) /\ Cardinality(counted) \in Nat
  <2>1. IsFiniteSet(0 .. MaxIdx)
    BY Constants, FS_Interval
  <2> QED
    BY <1>2, <2>1, FS_Subset, FS_CardinalityType, Constants
<1>n. head' \in Nat /\ sn \in Nat /\ SnOf(i) \in Nat /\ SnOf(i)' = SnOf(i)
  BY <1>1, <1>2, Zenon
<1>5. CASE /\ packetCount' = packetCount /\ counted' = counted
           /\ UNCHANGED <<minPacketProbe, lastExpected, lastReceived, reportedHead, backfilled>>
           /\ ~First => baseSN' = baseSN
  <2>1. \A j \in counted' : j <= head'
    BY <1>1, <1>2, <1>3, <1>5 DEF CountInv
  <2>2. reportedHead' <= head'
    BY <1>1, <1>2, <1>3, <1>5 DEF CountInv
  <2>3. minPacketProbe' = packetCount' /\ packetCount' > 0 => BaseLeast'
    BY <1>1, <1>2, <1>3, <1>5 DEF CountInv, BaseLeast
  <2> QED
    BY <1>5, <2>1, <2>2, <2>3 DEF CountInv
<1>6. CASE /\ packetCount' = packetCount + 1 /\ counted' = counted \cup {i}
           /\ \/ minPacketProbe' = minPacketProbe
              \/ /\ minPacketProbe' = minPacketProbe + 1
                 /\ baseSN' = IF ~First /\ ~(sn < baseSN) THEN baseSN ELSE sn
           /\ \/ /\ UNCHANGED <<lastExpected, lastReceived, reportedHead>>
                 /\ backfilled' \in BOOLEAN
              \/ reportedHead' = head' /\ backfilled' = FALSE
  <2> HIDE DEF sn
  <2>1. minPacketProbe' \in Nat /\ minPacketProbe' <= packetCount' /\ packetCount' # 0
        /\ counted' \subseteq Idx /\ counted' # {}
    BY <1>2, <1>6 DEF CountInv
  <2>2. Cardinality(counted') <= packetCount'
    <3>1. Cardinality(counted \cup {i}) \in {Cardinality(counted), Cardinality(counted) + 1}
      BY <1>4, FS_AddElement
    <3>2. Cardinality(counted \cup {i}) \in Nat
      BY <1>4, FS_AddElement, FS_CardinalityType
    <3> QED
      BY <1>2, <1>4, <1>6, <3>1, <3>2 DEF CountInv
  <2>3. \A j \in counted' : j <= head'
    BY <1>1, <1>2, <1>3, <1>6 DEF CountInv
  <2>4. reportedHead' \in Idx \cup {-1} /\ backfilled' \in BOOLEAN /\ reportedHead' <= head'
        /\ (reportedHead' = -1 => lastExpected' = 0 /\ lastReceived' = 0)
    <3>1. CASE /\ UNCHANGED <<lastExpected, lastReceived, reportedHead>>
               /\ backfilled' \in BOOLEAN
      BY <1>1, <1>2, <1>3, <3>1 DEF CountInv
    <3>2. CASE reportedHead' = head' /\ backfilled' = FALSE
      <4>1. -1 \notin Nat
        OBVIOUS
      <4>2. head' \in Idx /\ head' <= head'
        BY <1>2, <1>n
      <4> QED
        BY <1>n, <3>2, <4>1, <4>2
    <3> QED
      BY <1>6, <3>1, <3>2
  <2>5. ASSUME minPacketProbe' = packetCount' PROVE BaseLeast'
    <3>1. minPacketProbe = packetCount /\ baseSN' = IF ~First /\ ~(sn < baseSN) THEN baseSN ELSE sn
      BY <1>2, <1>6, <2>5 DEF CountInv
    <3>2. CASE First
      <4>1. counted' = {i} /\ baseSN' = sn
        BY <1>3, <1>6, <3>1, <3>2 DEF CountInv
      <4>2. SnOf(i)' = sn /\ sn <= sn
        BY <1>n DEF sn
      <4> QED
        BY <4>1, <4>2 DEF BaseLeast
    <3>3. CASE ~First
      <4>1. PICK m \in counted : baseSN = SnOf(m) /\ \A j \in counted : baseSN <= SnOf(j)
        BY <1>2, <1>3, <3>1, <3>3 DEF CountInv, BaseLeast
      <4>2. \A j \in counted : SnOf(j) \in Nat
        BY <1>2, Constants, ModDef DEF SnOf, CalcIInv
      <4>3. CASE sn < baseSN
        <5>1. baseSN' = sn /\ i \in counted' /\ \A j \in counted' : sn <= SnOf(j)
          BY <1>1, <1>2, <1>6, <3>1, <4>1, <4>2, <4>3 DEF sn
        <5> QED
          BY <1>1, <5>1 DEF BaseLeast, sn
      <4>4. CASE ~(sn < baseSN)
        <5>0. baseSN <= SnOf(i)
          BY <1>2, <1>n, <4>4 DEF sn
        <5>1. baseSN' = baseSN /\ m \in counted' /\ \A j \in counted' : baseSN <= SnOf(j)
          BY <1>6, <3>1, <3>3, <4>1, <4>4, <5>0
        <5> QED
          BY <1>1, <4>1, <5>1 DEF BaseLeast
      <4> QED
        BY <4>3, <4>4
    <3> QED
      BY <3>2, <3>3
  <2> QED
    BY <2>1, <2>2, <2>3, <2>4, <2>5 DEF CountInv
<1> QED
  BY <1>1, <1>2, <1>5, <1>6, CalcCounts

\* The packets C of a stream whose packet i has number o + i were counted, a the
\* first of them to arrive and h the newest, none before number zero; m has the
\* least number, b, and x is the newest's.
Unwrapped(C, o, a, h, b, x, m) ==
    /\ C \in SUBSET Nat /\ o \in SN /\ a \in Nat /\ h \in Nat /\ x \in SN /\ m \in C
    /\ x = ((o + a) % SNSpace) + h - a
    /\ b = (o + m) % SNSpace /\ \A j \in C : b <= (o + j) % SNSpace
    /\ \A j \in C : j <= h /\ ((o + a) % SNSpace) + j - a >= 0

\* Where numbers do not wrap, the packet with the least number is the first.
LEMMA LeastIsFirst ==
    ASSUME NEW C, NEW o, NEW a, NEW h, NEW b, NEW x, NEW m, Unwrapped(C, o, a, h, b, x, m)
    PROVE  /\ Min(C) = m /\ \A j \in C : m <= j
           /\ m \in Nat /\ b \in SN /\ x - b = h - m
<1> USE DEF Unwrapped
<1> DEFINE f == (o + a) % SNSpace
<1>1. SNSpace \in Nat /\ SNSpace > 0 /\ SN = 0 .. SNSpace - 1 /\ o \in Nat
  BY Constants
<1>2. f \in Nat
  <2>1. o + a \in Int
    BY <1>1
  <2> QED
    BY <1>1, <2>1, ModDef
<1>3. ASSUME NEW j \in C PROVE (o + j) % SNSpace = f + j - a /\ f + j - a \in SN
  <2>1. f + j - a \in SN
    BY <1>1, <1>2, <1>3
  <2> QED
    BY <1>1, <2>1, NumbersRun
<1> HIDE DEF f
<1>5. b = f + m - a /\ b \in SN
  BY <1>3
<1>6. ASSUME NEW j \in C PROVE m <= j
  <2>1. f + m - a <= f + j - a
    BY <1>3, <1>5
  <2> QED
    BY <1>2, <2>1
<1>7. Min(C) = m
  BY <1>6, MinIs
<1>8. x - b = h - m
  BY <1>2, <1>5 DEF f
<1> QED
  BY <1>5, <1>6, <1>7, <1>8

\* A calc that leaves the counts plain found them plain.
LEMMA PlainBefore ==
    ASSUME CalcIInv, CalcIInv', CountInv, NEW i \in Idx, NEW kind, NEW due,
           MayArrive(i, top), Calc(Packet(i, kind), due), ~First, PlainCount'
    PROVE  /\ PlainCount
           /\ packetCount' # packetCount => i \notin counted
<1>1. /\ Packet(i, kind).idx = i /\ cycles = 0 /\ \A j : Ext(j)' = Ext(j)
  BY CountHead DEF PlainCount
<1>2. /\ packetCount \in Nat /\ backfilled \in BOOLEAN /\ minPacketProbe \in Nat
      /\ minPacketProbe <= packetCount /\ Cardinality(counted) <= packetCount
      /\ ProbeWindow \in Nat
  BY StreamAssumption DEF CalcIInv, HeadTypeOK, CountInv
<1>3. /\ minPacketProbe' = packetCount' /\ minPacketProbe' < ProbeWindow
      /\ packetCount' = Cardinality(counted')
  BY DEF PlainCount
<1>4. IsFiniteSet(counted) /\ Cardinality(counted) \in Nat
  <2>1. IsFiniteSet(0 .. MaxIdx)
    BY Constants, FS_Interval
  <2> QED
    BY <2>1, FS_Subset, FS_CardinalityType, Constants DEF CountInv
<1>5. \/ packetCount' = packetCount /\ counted' = counted /\ minPacketProbe' = minPacketProbe
      \/ packetCount' = packetCount + 1 /\ counted' = counted \cup {i}
         /\ minPacketProbe' \in {minPacketProbe, minPacketProbe + 1}
  BY <1>1, <1>2, CalcCounts
<1>6. Cardinality(counted \cup {i})
        = IF i \in counted THEN Cardinality(counted) ELSE Cardinality(counted) + 1
  BY <1>4, FS_AddElement
<1>7. /\ minPacketProbe = packetCount /\ minPacketProbe < ProbeWindow
      /\ packetCount = Cardinality(counted)
      /\ packetCount' # packetCount => i \notin counted
  <2>1. CASE packetCount' = packetCount /\ counted' = counted /\ minPacketProbe' = minPacketProbe
    BY <1>3, <2>1
  <2>2. CASE packetCount' = packetCount + 1 /\ counted' = counted \cup {i}
             /\ minPacketProbe' \in {minPacketProbe, minPacketProbe + 1}
    <3>1. packetCount + 1 = IF i \in counted THEN Cardinality(counted) ELSE Cardinality(counted) + 1
      BY <1>3, <1>6, <2>2
    <3>2. i \notin counted /\ packetCount = Cardinality(counted)
      BY <1>2, <1>4, <3>1
    <3>3. minPacketProbe' = packetCount + 1 /\ minPacketProbe' < ProbeWindow
      BY <1>3, <2>2
    <3> QED
      BY <1>2, <2>2, <3>2, <3>3
  <2> QED
    BY <1>5, <2>1, <2>2
<1>8. \A j \in counted : Ext(j) >= 0
  <2>1. counted \subseteq counted'
    BY <1>5
  <2>2. \A j \in counted' : Ext(j)' >= 0
    BY DEF PlainCount
  <2> QED
    BY <1>1, <2>1, <2>2
<1> QED
  BY <1>1, <1>7, <1>8 DEF PlainCount

\* The first packet counted, before a calc.
LEMMA FirstCounted ==
    ASSUME CalcIInv, CountInv, PlainCount, ~First
    PROVE  \E m \in counted : Min(counted) = m /\ \A j \in counted : m <= j
<1>1. bucket.init = TRUE /\ packetCount > 0
  BY DEF CalcIInv, Ring, Fresh, First, HeadTypeOK
<1>2. /\ counted \in SUBSET Nat /\ origin \in SN /\ anchor \in Nat /\ head \in Nat
      /\ maxSeqNo \in SN /\ maxSeqNo = ((origin + anchor) % SNSpace) + head - anchor
  BY <1>1, Constants DEF CalcIInv, CountInv, HeadFollowed, HeadTypeOK, PlainCount, Ext, SnOf
<1>3. PICK m \in counted : /\ baseSN = (origin + m) % SNSpace
                           /\ \A j \in counted : baseSN <= (origin + j) % SNSpace
  BY <1>1 DEF CountInv, PlainCount, BaseLeast, SnOf
<1>4. \A j \in counted : j <= head /\ ((origin + anchor) % SNSpace) + j - anchor >= 0
  BY DEF CountInv, PlainCount, Ext, SnOf
<1>5. Unwrapped(counted, origin, anchor, head, baseSN, maxSeqNo, m)
  BY <1>2, <1>3, <1>4, Zenon DEF Unwrapped
<1> QED
  BY <1>5, LeastIsFirst, Zenon

\* The number of packets expected between the first and the newest.
LEMMA ExpectedIs ==
    ASSUME NEW x \in Nat, NEW b \in Nat, NEW h \in Nat, NEW m \in Nat,
           m <= h, h <= MaxIdx, x - b = h - m
    PROVE  Expected(0 + x, b) = h - m + 1
<1>1. 0 + x = x /\ x >= b /\ x - b < U32 /\ h - m + 1 < U32 /\ U32 \in Nat
  BY Constants
<1> QED
  BY <1>1 DEF Expected, Add32, Sub32

\* The first packet counted after a calc, and the number of packets expected.
LEMMA ExpectedNow ==
    ASSUME CalcIInv', CountInv', PlainCount', counted' # {}
    PROVE  \E m \in counted' :
              /\ Min(counted') = m /\ \A j \in counted' : m <= j
              /\ m <= head' /\ Expected(cycles' + maxSeqNo', baseSN') = head' - m + 1
<1>1. bucket'.init = TRUE /\ packetCount' \in Nat /\ packetCount' > 0
  BY DEF CalcIInv, CountInv, HeadTypeOK, Ring, Fresh, First
<1>2. /\ counted' \in SUBSET Nat /\ origin' \in SN /\ anchor' \in Nat /\ head' \in Nat
      /\ head' <= MaxIdx /\ MaxIdx \in Nat /\ maxSeqNo' \in SN /\ SN \subseteq Nat /\ cycles' = 0
  BY Constants DEF CalcIInv, CountInv, HeadTypeOK, PlainCount
<1>3. maxSeqNo' = ((origin' + anchor') % SNSpace) + head' - anchor'
  <2>1. cycles' + maxSeqNo' = Ext(head)'
    BY <1>1 DEF CalcIInv, HeadFollowed
  <2>2. Ext(head)' = ((origin' + anchor') % SNSpace) + head' - anchor'
    BY DEF Ext, SnOf
  <2> QED
    BY <1>2, <2>1, <2>2
<1>4. PICK m \in counted' : /\ baseSN' = (origin' + m) % SNSpace
                            /\ \A j \in counted' : baseSN' <= (origin' + j) % SNSpace
  BY <1>1 DEF CountInv, PlainCount, BaseLeast, SnOf
<1>5. \A j \in counted' : j <= head' /\ ((origin' + anchor') % SNSpace) + j - anchor' >= 0
  BY DEF CountInv, PlainCount, Ext, SnOf
<1>6. Unwrapped(counted', origin', anchor', head', baseSN', maxSeqNo', m)
  BY <1>2, <1>3, <1>4, <1>5, Zenon DEF Unwrapped
<1>7. /\ Min(counted') = m /\ \A j \in counted' : m <= j
      /\ m \in Nat /\ baseSN' \in SN /\ maxSeqNo' - baseSN' = head' - m
  BY <1>6, LeastIsFirst
<1>8. m <= head' /\ baseSN' \in Nat /\ maxSeqNo' \in Nat /\ head' \in Nat /\ head' <= MaxIdx
      /\ m \in Nat /\ maxSeqNo' - baseSN' = head' - m /\ cycles' = 0
  BY <1>2, <1>4, <1>5, <1>7, Zenon
<1>9. Expected(0 + maxSeqNo', baseSN') = head' - m + 1
  BY <1>8, ExpectedIs
<1> QED
  BY <1>7, <1>8, <1>9, Zenon

\* A calc keeps what the last report left behind.
LEMMA ReportStep ==
    ASSUME CalcIInv, CalcIInv', CountInv, CountInv', ReportInv, NEW i \in Idx, NEW kind, NEW due,
           MayArrive(i, top), Calc(Packet(i, kind), due)
    PROVE  ReportInv'
<1> SUFFICES ASSUME PlainCount', ~backfilled', reportedHead' # -1
             PROVE  /\ Min(counted') <= reportedHead'
                    /\ lastExpected' = reportedHead' - Min(counted') + 1
                    /\ lastReceived' = Cardinality({j \in counted' : j <= reportedHead'})
  BY DEF ReportInv
<1>1. /\ Packet(i, kind).idx = i /\ packetCount \in Nat /\ backfilled \in BOOLEAN
      /\ counted \in SUBSET Nat /\ counted' \in SUBSET Nat /\ i \in Nat
      /\ reportedHead \in Nat \cup {-1}
  <2>1. Packet(i, kind).idx = i
    BY DEF Packet
  <2>2. Idx \subseteq Nat
    BY Constants
  <2> QED
    BY <2>1, <2>2 DEF CalcIInv, HeadTypeOK, CountInv
<1>2. ASSUME reportedHead' = reportedHead PROVE ~First
  BY <1>2 DEF CountInv, First
<1>3. CASE /\ packetCount' = packetCount /\ counted' = counted
           /\ UNCHANGED <<minPacketProbe, lastExpected, lastReceived, reportedHead, backfilled>>
  <2>1. PlainCount
    BY <1>2, <1>3, PlainBefore
  <2> QED
    BY <1>3, <2>1 DEF ReportInv
<1>4. CASE /\ packetCount' = packetCount + 1 /\ counted' = counted \cup {i}
           /\ UNCHANGED <<lastExpected, lastReceived, reportedHead>>
           /\ backfilled' = (backfilled \/ (counted' # counted /\ i <= reportedHead))
  <2>1. ~First
    BY <1>2, <1>4
  <2>2. PlainCount /\ i \notin counted
    <3>1. packetCount' # packetCount
      BY <1>1, <1>4
    <3> QED
      BY <2>1, <3>1, PlainBefore
  <2>3. ~backfilled /\ ~(i <= reportedHead)
    BY <1>1, <1>4, <2>2
  <2>4. /\ Min(counted) <= reportedHead
        /\ lastExpected = reportedHead - Min(counted) + 1
        /\ lastReceived = Cardinality({j \in counted : j <= reportedHead})
    BY <1>4, <2>2, <2>3 DEF ReportInv
  <2>5. PICK m \in counted : Min(counted) = m /\ \A j \in counted : m <= j
    BY <2>1, <2>2, FirstCounted
  <2>6. Min(counted') = m
    <3>1. counted' \in SUBSET Int /\ m \in counted' /\ m \in Nat
      BY <1>1, <1>4
    <3>2. m <= i
      BY <1>1, <2>3, <2>4, <2>5, <3>1
    <3>3. \A j \in counted' : m <= j
      BY <1>4, <2>5, <3>2
    <3> QED
      BY <3>1, <3>3, MinIs
  <2>7. {j \in counted' : j <= reportedHead} = {j \in counted : j <= reportedHead}
    BY <1>4, <2>3
  <2> QED
    BY <1>4, <2>4, <2>5, <2>6, <2>7
<1>5. CASE /\ counted' = counted \cup {i} /\ reportedHead' = head'
           /\ lastExpected' = Expected(cycles' + maxSeqNo', baseSN')
           /\ lastReceived' = packetCount'
  <2>1. PICK m \in counted' : /\ Min(counted') = m /\ \A j \in counted' : m <= j
                              /\ m <= head' /\ Expected(cycles' + maxSeqNo', baseSN') = head' - m + 1
    <3>1. counted' # {}
      BY <1>5
    <3> QED
      BY <3>1, ExpectedNow
  <2>2. {j \in counted' : j <= head'} = counted'
    BY DEF CountInv
  <2>3. packetCount' = Cardinality(counted')
    BY DEF PlainCount
  <2> QED
    BY <1>5, <2>1, <2>2, <2>3, Zenon
<1> QED
  BY <1>1, <1>3, <1>4, <1>5, CalcCounts

\* The packets of S up to r, and after it
UpTo(S, r) == {j \in S : j <= r}
After(S, r) == {j \in S : j > r}

\* How many of the packets from m to h are not in C.
LEMMA LossCounts ==
    ASSUME NEW C \in SUBSET Nat, NEW m \in C, NEW h \in Nat, \A j \in C : m <= j /\ j <= h
    PROVE  /\ m \in Nat /\ m <= h /\ IsFiniteSet(C)
           /\ Cardinality(C) \in Nat /\ Cardinality(C) # 0 /\ Cardinality(C) <= h - m + 1
           /\ Cardinality((m .. h) \ C) = h - m + 1 - Cardinality(C)
<1>1. m \in Nat /\ m <= h /\ m <= h + 1 /\ C \in SUBSET Int /\ m \in Int /\ h \in Int
  OBVIOUS
<1>2. /\ IsFiniteSet(C) /\ Cardinality(C) \in Nat /\ Cardinality(C) <= h - m + 1
      /\ Cardinality((m .. h) \ C) = h - m + 1 - Cardinality(C)
  BY <1>1, OthersCount
<1>3. Cardinality(C) # 0
  BY <1>2, FS_EmptySet
<1> QED
  BY <1>1, <1>2, <1>3

\* How many of the packets after r are not in C.
LEMMA LossCountsAfter ==
    ASSUME NEW C \in SUBSET Nat, NEW m \in C, NEW h \in Nat, \A j \in C : m <= j /\ j <= h,
           NEW r \in m .. h
    PROVE  /\ Cardinality(UpTo(C, r)) \in Nat
           /\ Cardinality(UpTo(C, r)) <= Cardinality(C)
           /\ Cardinality(C) - Cardinality(UpTo(C, r)) <= h - r
           /\ Cardinality(After((m .. h) \ C, r))
                = h - r - (Cardinality(C) - Cardinality(UpTo(C, r)))
<1> DEFINE A == {j \in C : j <= r}
           B == C \ A
<1>1. m \in Nat /\ m <= h /\ IsFiniteSet(C)
  BY LossCounts
<1>2. IsFiniteSet(A) /\ Cardinality(A) <= Cardinality(C)
  BY <1>1, FS_Subset
<1>3. Cardinality(A) \in Nat
  BY <1>2, FS_CardinalityType
<1>4. Cardinality(B) = Cardinality(C) - Cardinality(A)
  <2>1. C \cap A = A
    OBVIOUS
  <2>2. Cardinality(B) = Cardinality(C) - Cardinality(C \cap A)
    BY <1>1, FS_Difference
  <2> QED
    BY <2>1, <2>2
<1>5. /\ Cardinality(B) <= h - r
      /\ Cardinality(((r + 1) .. h) \ B) = h - r - Cardinality(B)
  <2>1. /\ B \in SUBSET Int /\ r + 1 \in Int /\ h \in Int /\ r + 1 <= h + 1
        /\ \A j \in B : r + 1 <= j /\ j <= h
    <3>1. \A j \in B : j \in Nat /\ ~(j <= r) /\ j <= h
      OBVIOUS
    <3>2. r \in Int /\ r <= h
      BY <1>1
    <3> HIDE DEF B
    <3> QED
      BY <3>1, <3>2
  <2>2. /\ Cardinality(B) \in Nat /\ Cardinality(B) <= h - (r + 1) + 1
        /\ Cardinality(((r + 1) .. h) \ B) = h - (r + 1) + 1 - Cardinality(B)
    BY <2>1, OthersCount
  <2> HIDE DEF B
  <2> QED
    BY <1>1, <2>2
<1>6. After((m .. h) \ C, r) = ((r + 1) .. h) \ B
  BY <1>1 DEF After
<1>7. UpTo(C, r) = A
  BY DEF UpTo
<1> HIDE DEF A, B
<1> QED
  BY <1>2, <1>3, <1>4, <1>5, <1>6, <1>7

\* The unsigned arithmetic of the first report counts the packets from m to h that are
\* not in C.
LEMMA ReportNumbers ==
    ASSUME NEW C \in SUBSET Nat, NEW m \in C, NEW h \in Nat, \A j \in C : m <= j /\ j <= h
    PROVE  /\ TotalLost(h - m + 1, Cardinality(C)) = Cardinality((m .. h) \ C)
           /\ Sub32(Sub32(h - m + 1, 0), Sub32(Cardinality(C), 0))
                 = Cardinality(After((m .. h) \ C, -1))
<1> DEFINE n == Cardinality(C)
           e == h - m + 1
<1>1. /\ n \in Nat /\ n # 0 /\ n <= e
      /\ Cardinality((m .. h) \ C) = e - n
  <2>1. /\ Cardinality(C) \in Nat /\ Cardinality(C) # 0 /\ Cardinality(C) <= h - m + 1
        /\ Cardinality((m .. h) \ C) = h - m + 1 - Cardinality(C)
    BY LossCounts
  <2> QED
    BY <2>1
<1>2. m \in Nat /\ m <= h /\ e \in Nat
  OBVIOUS
<1>3. After((m .. h) \ C, -1) = (m .. h) \ C
  BY <1>2 DEF After
<1> HIDE DEF n, e
<1>4. TotalLost(e, n) = e - n
  BY <1>1, <1>2 DEF TotalLost
<1>5. Sub32(Sub32(e, 0), Sub32(n, 0)) = e - n
  BY <1>1, <1>2 DEF Sub32
<1> QED
  BY <1>1, <1>3, <1>4, <1>5 DEF n, e

\* That of a later one counts those of them after r, the newest at the last report.
LEMMA ReportNumbersAfter ==
    ASSUME NEW C \in SUBSET Nat, NEW m \in C, NEW h \in Nat, \A j \in C : m <= j /\ j <= h,
           NEW r \in m .. h
    PROVE  Sub32(Sub32(h - m + 1, r - m + 1),
                 Sub32(Cardinality(C), Cardinality(UpTo(C, r))))
              = Cardinality(After((m .. h) \ C, r))
<1> DEFINE n == Cardinality(C)
           n0 == Cardinality(UpTo(C, r))
           e == h - m + 1
           e0 == r - m + 1
<1>1. n \in Nat /\ m \in Nat /\ m <= h
  BY LossCounts
<1>2. /\ n0 \in Nat /\ n0 <= n /\ n - n0 <= h - r
      /\ Cardinality(After((m .. h) \ C, r)) = h - r - (n - n0)
  BY LossCountsAfter
<1>3. e \in Nat /\ e0 \in Nat /\ e0 <= e /\ e - e0 = h - r
  BY <1>1
<1> HIDE DEF n, n0, e, e0
<1>4. Sub32(Sub32(e, e0), Sub32(n, n0)) = (e - e0) - (n - n0)
  BY <1>1, <1>2, <1>3 DEF Sub32
<1>5. Sub32(Sub32(e, e0), Sub32(n, n0)) = Cardinality(After((m .. h) \ C, r))
  BY <1>2, <1>3, <1>4
<1> QED
  BY <1>5 DEF n, n0, e, e0

\* What a report of a calc says, its counts being plain.
LEMMA LostStep ==
    ASSUME CalcIInv, CalcIInv', CountInv, CountInv', ReportInv, NEW i \in Idx, NEW kind, NEW due,
           MayArrive(i, top), Calc(Packet(i, kind), due), NEW r \in feedback'.report, PlainCount'
    PROVE  /\ r.total = Cardinality(Gone')
           /\ ~backfilled /\ last' > reportedHead =>
                 r.interval = Cardinality({j \in Gone' : j > reportedHead})
<1>1. /\ Packet(i, kind).idx = i /\ packetCount \in Nat /\ backfilled \in BOOLEAN
      /\ counted \in SUBSET Nat /\ counted' \in SUBSET Nat /\ i \in Nat
      /\ reportedHead \in Nat \cup {-1}
  <2>1. Packet(i, kind).idx = i
    BY DEF Packet
  <2>2. Idx \subseteq Nat
    BY Constants
  <2> QED
    BY <2>1, <2>2 DEF CalcIInv, HeadTypeOK, CountInv
<1>2. /\ head \in Nat /\ head' \in Nat /\ last' = i /\ (~First => head <= head')
  BY CountHead
<1>3. /\ ~First /\ packetCount' = packetCount + 1 /\ counted' = counted \cup {i}
      /\ lastExpected' = Expected(cycles' + maxSeqNo', baseSN')
      /\ r = [total |-> TotalLost(lastExpected', packetCount'),
              interval |-> LostInterval(lastExpected', packetCount')]
  BY <1>1, CalcCounts
<1>4. PICK m \in counted' : /\ Min(counted') = m /\ \A j \in counted' : m <= j
                            /\ m <= head' /\ lastExpected' = head' - m + 1
  <2>1. counted' # {}
    BY <1>3
  <2> QED
    BY <1>3, <2>1, ExpectedNow
<1>5. packetCount' = Cardinality(counted') /\ Gone' = (m .. head') \ counted'
  BY <1>4 DEF PlainCount, Gone
<1>6. /\ \A j \in counted' : m <= j /\ j <= head'
      /\ m \in Nat
  BY <1>1, <1>4 DEF CountInv
<1>7. /\ r.total = TotalLost(head' - m + 1, Cardinality(counted'))
      /\ r.interval = Sub32(Sub32(head' - m + 1, lastExpected),
                            Sub32(Cardinality(counted'), lastReceived))
  BY <1>3, <1>4, <1>5 DEF LostInterval
<1>8. r.total = Cardinality(Gone')
  <2>1. TotalLost(head' - m + 1, Cardinality(counted')) = Cardinality((m .. head') \ counted')
    BY <1>1, <1>2, <1>6, ReportNumbers
  <2> QED
    BY <1>5, <1>7, <2>1
<1>9. ASSUME ~backfilled, i > reportedHead
      PROVE  r.interval = Cardinality({j \in Gone' : j > reportedHead})
  <2>1. CASE reportedHead = -1
    <3>1. lastExpected = 0 /\ lastReceived = 0
      BY <2>1 DEF CountInv
    <3>2. Sub32(Sub32(head' - m + 1, 0), Sub32(Cardinality(counted'), 0))
            = Cardinality(After((m .. head') \ counted', -1))
      BY <1>1, <1>2, <1>6, ReportNumbers
    <3> QED
      BY <1>5, <1>7, <2>1, <3>1, <3>2 DEF After
  <2>2. CASE reportedHead # -1
    <3>1. PlainCount /\ i \notin counted
      <4>1. packetCount' # packetCount
        BY <1>1, <1>3
      <4> QED
        BY <1>3, <4>1, PlainBefore
    <3>2. PICK k \in counted : Min(counted) = k /\ \A j \in counted : k <= j
      BY <1>3, <3>1, FirstCounted
    <3>3. /\ k <= reportedHead /\ lastExpected = reportedHead - k + 1
          /\ lastReceived = Cardinality({j \in counted : j <= reportedHead})
      BY <1>9, <2>2, <3>1, <3>2 DEF ReportInv
    <3>4. /\ reportedHead \in Nat /\ k \in Nat /\ k \in counted' /\ k <= i
          /\ reportedHead <= head'
      BY <1>1, <1>2, <1>3, <1>9, <2>2, <3>3 DEF CountInv
    <3>5. m = k
      <4>1. m <= k
        BY <1>4, <3>4
      <4>2. k <= m
        BY <1>3, <3>2, <3>4
      <4> QED
        BY <1>6, <3>4, <4>1, <4>2
    <3>6. {j \in counted' : j <= reportedHead} = {j \in counted : j <= reportedHead}
      <4>1. ~(i <= reportedHead)
        BY <1>1, <1>9, <3>4
      <4> QED
        BY <1>3, <4>1
    <3>7. Sub32(Sub32(head' - m + 1, reportedHead - m + 1),
                Sub32(Cardinality(counted'), Cardinality(UpTo(counted', reportedHead))))
            = Cardinality(After((m .. head') \ counted', reportedHead))
      <4>1. reportedHead \in m .. head'
        BY <1>2, <1>6, <3>3, <3>4, <3>5
      <4> QED
        BY <1>1, <1>2, <1>6, <4>1, ReportNumbersAfter
    <3> QED
      BY <1>5, <1>7, <3>3, <3>5, <3>6, <3>7 DEF UpTo, After
  <2> QED
    BY <2>1, <2>2
<1> QED
  BY <1>2, <1>8, <1>9

\* As long as the numbers have not wrapped, no packet came twice and all were counted
\* within the probe window, a reception report counts exactly the packets that are
\* missing, in all and since the report before.
THEOREM LossesReported == CalcSpec => LostExact
<1> DEFINE A == \A r \in feedback'.report : PlainCount' =>
                   /\ r.total = Cardinality(Gone')
                   /\ ~backfilled /\ last' > reportedHead =>
                         r.interval = Cardinality({i \in Gone' : i > reportedHead})
           Counts == CountInv /\ ReportInv
<1>1. CalcInit => Counts
  <2> SUFFICES ASSUME CalcInit PROVE Counts
    OBVIOUS
  <2>1. /\ minPacketProbe = 0 /\ packetCount = 0 /\ counted = {} /\ reportedHead = -1
        /\ backfilled = FALSE /\ head = 0 /\ lastExpected = 0 /\ lastReceived = 0
    BY DEF CalcInit
  <2>2. Cardinality(counted) = 0
    BY <2>1, FS_EmptySet
  <2>3. 0 <= 0 /\ -1 <= 0 /\ ~(0 > 0) /\ 0 \in Nat
    OBVIOUS
  <2>4. CountInv
    BY <2>1, <2>2, <2>3 DEF CountInv
  <2> QED
    BY <2>1, <2>4 DEF ReportInv
<1>2. CalcIInv /\ CalcIInv' /\ Counts /\ [CalcNext]_calcVars => Counts'
  <2> SUFFICES ASSUME CalcIInv, CalcIInv', Counts, [CalcNext]_calcVars PROVE Counts'
    OBVIOUS
  <2>1. CASE CalcNext
    <3>1. PICK i \in Idx, kind \in Kinds, due \in DueChoices :
             MayArrive(i, top) /\ Calc(Packet(i, kind), due)
      BY <2>1 DEF CalcNext
    <3>2. CountInv'
      BY <3>1, CountStep
    <3>3. ReportInv'
      BY <3>1, <3>2, ReportStep
    <3> QED
      BY <3>2, <3>3
  <2>2. CASE UNCHANGED calcVars
    <3>1. /\ origin' = origin /\ cycles' = cycles /\ baseSN' = baseSN
          /\ packetCount' = packetCount /\ minPacketProbe' = minPacketProbe
          /\ lastExpected' = lastExpected /\ lastReceived' = lastReceived
          /\ head' = head /\ anchor' = anchor /\ counted' = counted
          /\ reportedHead' = reportedHead /\ backfilled' = backfilled
      BY <2>2 DEF calcVars, codeVars, statVars, history
    <3> QED
      BY <3>1 DEF CountInv, BaseLeast, ReportInv, PlainCount, Ext, SnOf
  <2> QED
    BY <2>1, <2>2
<1>3. CalcIInv /\ CalcIInv' /\ Counts /\ Counts' /\ [CalcNext]_calcVars => [A]_calcVars
  <2> SUFFICES ASSUME CalcIInv, CalcIInv', Counts, Counts', CalcNext PROVE A
    OBVIOUS
  <2>1. PICK i \in Idx, kind \in Kinds, due \in DueChoices :
           MayArrive(i, top) /\ Calc(Packet(i, kind), due)
    BY DEF CalcNext
  <2> QED
    BY <2>1, LostStep
<1> HIDE DEF Counts
<1> QED
  BY <1>1, <1>2, <1>3, CalcInvariant, PTL DEF CalcSpec, LostExact
=============================================================================
