---------------------------- MODULE BufferProofs ----------------------------
(***************************************************************************)
(* Proofs about the life of a receive buffer (Buffer), for every           *)
(* interleaving of Write, Bind, Read, ReadExtended and Close: calc sees    *)
(* what the network alone could have sent it (ImplementsCalc), in the      *)
(* order Write accepted it (HandledInOrder); a packet on its way to        *)
(* ReadExtended keeps its payload (PayloadAlive); the ring is not written  *)
(* after Close has returned it (NoWriteAfterReturn); and ReadExtended      *)
(* keeps the promise of PacketPipe (ImplementsPipe).                       *)
(***************************************************************************)
EXTENDS Buffer, BufferCalcProofs, SequenceTheorems

-----------------------------------------------------------------------------
(* The inductive invariant                                                 *)

\* t is the highest of the first k packets Write accepted, -1 for none
TopOf(t, k) ==
    IF k = 0 THEN t = -1
    ELSE (\E j \in 1 .. k : order[j] = t) /\ (\A j \in 1 .. k : order[j] <= t)

\* calc has handled the first `writes` packets of `order`, each of which may
\* arrive after those before it
OrderInv ==
    /\ order \in Seq(Idx) /\ Len(order) <= MaxWrites
    /\ writes \in 0 .. Len(order)
    /\ top \in Idx \cup {-1} /\ TopOf(top, writes)
    /\ newest \in Idx \cup {-1} /\ TopOf(newest, Len(order))
    /\ \A k \in 1 .. Len(order), t \in Idx \cup {-1} :
          TopOf(t, k - 1) => MayArrive(order[k], t)
    /\ writes > 0 => last = order[writes]

\* Until Bind is done pPackets has every packet accepted, and calc has had those
\* Bind has come to; from then on calc has had them all
PhaseInv ==
    /\ phase \in {"unbound", "binding", "bound"} /\ bindPos \in Nat
    /\ phase = "unbound" => bindPos = 0
    /\ phase = "bound" => pPackets = <<>> /\ writes = Len(order)
    /\ phase # "bound" =>
          /\ Len(pPackets) = Len(order) /\ writes = bindPos
          /\ pPackets \in Seq([idx : Idx, sn : SN, kind : Kinds])
          /\ \A k \in 1 .. Len(order) : pPackets[k] = Packet(order[k], pPackets[k].kind)
    /\ pool = "returned" => closed /\ phase = "bound"

\* What calc pushes on extPackets
Handed == [idx : Idx, sn : SN, slot : Slots, head : BOOLEAN, cycle : 0 .. U32 - 1]

\* The reader has a packet exactly while it forwards it, and one that has had a
\* packet after Close does not come back for more
ReadInv ==
    /\ extPackets \in Seq(Handed)
    /\ held = <<>> \/ \E ep \in Handed : held = <<ep>>
    /\ held # <<>> <=> extReader = "forward"
    /\ closed \in BOOLEAN /\ late \in {0, 1}
    /\ ~closed => late = 0
    /\ extReader = "pop" => late = 0

\* A packet that was handed on lies in the slot it points at
Placed(ep) ==
    /\ ep.idx \in stored
    /\ aligned = TRUE /\ head - ep.idx <= MaxSteps =>
          ep.slot = SlotOf(bucket.step, head - ep.idx)

AllPlaced ==
    /\ \A k \in 1 .. Len(extPackets) : Placed(extPackets[k])
    /\ \A k \in 1 .. Len(held) : Placed(held[k])

BufferIInv == OrderInv /\ PhaseInv /\ ReadInv /\ AllPlaced

-----------------------------------------------------------------------------
(* The order of the packets                                                *)

\* The highest of k packets is one number.
LEMMA TopUnique ==
    ASSUME order \in Seq(Idx), NEW k \in 0 .. Len(order),
           NEW t \in Idx \cup {-1}, NEW u \in Idx \cup {-1}, TopOf(t, k), TopOf(u, k)
    PROVE  t = u
BY Constants DEF TopOf

\* The highest of one packet more.
LEMMA TopNext ==
    ASSUME order \in Seq(Idx), NEW k \in 0 .. Len(order) - 1,
           NEW t \in Idx \cup {-1}, TopOf(t, k)
    PROVE  TopOf(IF order[k + 1] > t THEN order[k + 1] ELSE t, k + 1)
<1> DEFINE i == order[k + 1]
           u == IF i > t THEN i ELSE t
<1>1. i \in Nat /\ t \in Int /\ k + 1 \in 1 .. Len(order)
  BY Constants
<1>2. CASE k = 0
  BY <1>1, <1>2, Constants DEF TopOf
<1>3. CASE k # 0
  <2>1. PICK j \in 1 .. k : order[j] = t
    BY <1>3 DEF TopOf
  <2>2. \A m \in 1 .. k : order[m] <= t /\ order[m] \in Int
    BY <1>3, Constants DEF TopOf
  <2>3. \E m \in 1 .. k + 1 : order[m] = u
    BY <1>1, <2>1
  <2>4. \A m \in 1 .. k + 1 : order[m] <= u
    BY <1>1, <2>2
  <2> QED
    BY <1>3, <2>3, <2>4 DEF TopOf
<1> QED
  BY <1>2, <1>3

\* Write puts the packet at the end of the order.
Accepts(i) ==
    /\ i \in Idx /\ Len(order) < MaxWrites /\ MayArrive(i, newest)
    /\ order' = Append(order, i)
    /\ newest' = IF i > newest THEN i ELSE newest

\* It leaves what came before it as it was.
LEMMA AcceptKeeps ==
    ASSUME OrderInv, NEW i, Accepts(i)
    PROVE  /\ order' \in Seq(Idx) /\ Len(order') = Len(order) + 1 /\ Len(order') <= MaxWrites
           /\ newest' \in Idx \cup {-1} /\ TopOf(newest, Len(order))'
           /\ order'[Len(order')] = i
           /\ \A k \in 1 .. Len(order) : order'[k] = order[k]
           /\ \A k \in 0 .. Len(order), t \in Idx \cup {-1} : TopOf(t, k)' <=> TopOf(t, k)
           /\ \A k \in 1 .. Len(order'), t \in Idx \cup {-1} :
                 TopOf(t, k - 1)' => MayArrive(order'[k], t)
<1> DEFINE n == Len(order)
<1>1. order \in Seq(Idx) /\ n \in Nat /\ i \in Idx /\ newest \in Idx \cup {-1}
  BY DEF OrderInv, Accepts
<1>2. order' \in Seq(Idx) /\ Len(order') = n + 1 /\ order'[n + 1] = i
      /\ \A k \in 1 .. n : order'[k] = order[k]
  BY <1>1 DEF Accepts
<1>3. n + 1 <= MaxWrites
  BY <1>1, StreamAssumption DEF Accepts
<1>4. ASSUME NEW k \in 0 .. n, NEW t \in Idx \cup {-1}
      PROVE  TopOf(t, k)' <=> TopOf(t, k)
  BY <1>2 DEF TopOf
<1>5. newest' \in Idx \cup {-1}
  BY <1>1 DEF Accepts
<1>6. TopOf(newest, n)
  BY DEF OrderInv
<1>7. TopOf(newest, Len(order))'
  <2>1. CASE n = 0
    BY <1>1, <1>2, <1>6, <2>1, Constants DEF TopOf, Accepts
  <2>2. CASE n # 0
    <3>1. PICK j \in 1 .. n : order[j] = newest
      BY <1>6, <2>2 DEF TopOf
    <3>2. \A m \in 1 .. n : order[m] <= newest /\ order[m] \in Int
      BY <1>1, <1>6, <2>2, Constants, SMTT(40) DEF TopOf
    <3>3. \E m \in 1 .. n + 1 : order'[m] = newest'
      BY <1>1, <1>2, <3>1 DEF Accepts
    <3>4. ASSUME NEW m \in 1 .. n + 1 PROVE order'[m] <= newest'
      <4>1. CASE m = n + 1
        BY <1>1, <1>2, <4>1, Constants DEF Accepts
      <4>2. CASE m # n + 1
        <5>1. m \in 1 .. n /\ newest \in Int /\ newest' \in Int /\ newest <= newest'
          BY <1>1, <4>2, Constants DEF Accepts
        <5>2. order'[m] = order[m] /\ order[m] <= newest /\ order[m] \in Int
          BY <1>2, <3>2, <5>1
        <5> QED
          BY <5>1, <5>2
      <4> QED
        BY <4>1, <4>2
    <3> QED
      BY <1>1, <1>2, <3>3, <3>4 DEF TopOf
  <2> QED
    BY <2>1, <2>2
<1>8. ASSUME NEW k \in 1 .. n + 1, NEW t \in Idx \cup {-1}, TopOf(t, k - 1)'
      PROVE  MayArrive(order'[k], t)
  <2>0. k - 1 \in 0 .. n
    BY <1>1
  <2>1. TopOf(t, k - 1)
    BY <1>4, <1>8, <2>0
  <2>2. CASE k = n + 1
    <3>1. t = newest
      BY <1>1, <1>6, <2>0, <2>1, <2>2, TopUnique
    <3> QED
      BY <1>2, <2>2, <3>1 DEF Accepts
  <2>3. CASE k # n + 1
    <3>1. k \in 1 .. n /\ order'[k] = order[k]
      BY <1>1, <1>2, <2>3
    <3> QED
      BY <2>1, <3>1 DEF OrderInv
  <2> QED
    BY <2>2, <2>3
<1> QED
  BY <1>2, <1>3, <1>4, <1>5, <1>7, <1>8

\* calc moves on by one packet.
LEMMA CalcMovesOn ==
    ASSUME NEW pkt, NEW due, Calc(pkt, due)
    PROVE  /\ writes' = writes + 1 /\ last' = pkt.idx /\ origin' = origin
           /\ top' = IF pkt.idx > top THEN pkt.idx ELSE top
<1>1. writes' = writes + 1
  BY DEF Calc, Remember
<1> QED
  BY <1>1, CalcAlways

\* The next packet of the order is one calc may be given.
LEMMA NextMayArrive ==
    ASSUME OrderInv, writes < Len(order)
    PROVE  /\ writes + 1 \in 1 .. Len(order)
           /\ order[writes + 1] \in Idx /\ MayArrive(order[writes + 1], top)
           /\ writes < MaxWrites
<1>1. order \in Seq(Idx) /\ writes + 1 \in 1 .. Len(order) /\ (writes + 1) - 1 = writes
      /\ top \in Idx \cup {-1} /\ TopOf(top, writes)
  BY DEF OrderInv
<1>2. \A k \in 1 .. Len(order), t \in Idx \cup {-1} :
          TopOf(t, k - 1) => MayArrive(order[k], t)
  BY DEF OrderInv
<1>3. MayArrive(order[writes + 1], top)
  BY <1>1, <1>2
<1>4. writes < MaxWrites
  BY StreamAssumption DEF OrderInv
<1> QED
  BY <1>1, <1>3, <1>4

\* Between Bind and the last packet it found, and after, calc has no arrears.
LEMMA CaughtUp ==
    ASSUME OrderInv, writes = Len(order)
    PROVE  top = newest
<1>1. writes \in 0 .. Len(order) /\ TopOf(newest, writes)
  BY DEF OrderInv
<1> QED
  BY <1>1, TopUnique DEF OrderInv

\* What a packet accepted before Bind looks like when Bind comes to it.
LEMMA PendingPacket ==
    ASSUME OrderInv, PhaseInv, phase = "binding", bindPos < Len(pPackets)
    PROVE  \E kind \in Kinds : pPackets[bindPos + 1] = Packet(order[bindPos + 1], kind)
<1>1. bindPos + 1 \in 1 .. Len(pPackets) /\ Len(pPackets) = Len(order)
      /\ pPackets \in Seq([idx : Idx, sn : SN, kind : Kinds])
  BY DEF PhaseInv
<1>2. pPackets[bindPos + 1] = Packet(order[bindPos + 1], pPackets[bindPos + 1].kind)
  BY <1>1 DEF PhaseInv
<1>3. pPackets[bindPos + 1] \in [idx : Idx, sn : SN, kind : Kinds]
  <2> DEFINE S == [idx : Idx, sn : SN, kind : Kinds]
  <2>1. pPackets \in Seq(S)
    BY <1>1
  <2> HIDE DEF S
  <2>2. pPackets[bindPos + 1] \in S
    BY <1>1, <2>1
  <2> QED
    BY <2>2 DEF S
<1>4. pPackets[bindPos + 1].kind \in Kinds
  BY <1>3
<1> QED
  BY <1>2, <1>4

\* Write before Bind.
LEMMA WritePendingOrder ==
    ASSUME OrderInv, PhaseInv, origin \in SN, NEW i \in Idx, NEW kind \in Kinds, NEW due,
           Write(i, kind, due), WritePending(i, kind)
    PROVE  OrderInv' /\ PhaseInv'
<1>1. Accepts(i) /\ UNCHANGED <<phase, bindPos, closed, pool>>
  BY DEF Write, Accepts
<1>2. phase = "unbound" /\ bindPos = 0 /\ writes = 0 /\ top \in Idx \cup {-1}
      /\ TopOf(top, 0) /\ Len(pPackets) = Len(order)
  BY DEF WritePending, PhaseInv, OrderInv
<1>3. top' = top /\ writes' = writes /\ origin' = origin
      /\ pPackets' = Append(pPackets, Packet(i, kind))
  BY DEF WritePending, calcVars, history
<1>4. order' \in Seq(Idx) /\ Len(order') = Len(order) + 1
      /\ order'[Len(order')] = i
      /\ \A k \in 1 .. Len(order) : order'[k] = order[k]
  BY <1>1, AcceptKeeps
<1>5. OrderInv'
  <2>1. /\ Len(order') <= MaxWrites
        /\ newest' \in Idx \cup {-1} /\ TopOf(newest, Len(order))'
        /\ \A k \in 1 .. Len(order'), t \in Idx \cup {-1} :
              TopOf(t, k - 1)' => MayArrive(order'[k], t)
    BY <1>1, AcceptKeeps
  <2>2. TopOf(top, writes)'
    BY <1>2, <1>3 DEF TopOf
  <2>3. writes' \in 0 .. Len(order') /\ ~(writes' > 0)
    BY <1>2, <1>3, <1>4
  <2> QED
    BY <1>2, <1>3, <1>4, <2>1, <2>2, <2>3 DEF OrderInv, MayArrive
<1>6. PhaseInv'
  <2> DEFINE S == [idx : Idx, sn : SN, kind : Kinds]
             n == Len(order)
  <2>1. pPackets \in Seq(S) /\ n \in Nat
    BY <1>2 DEF PhaseInv, OrderInv
  <2>2. Packet(i, kind) \in S
    <3>1. SnOf(i) \in SN
      <4>1. i \in Nat /\ i <= i /\ i - i < SNSpace
        BY Constants
      <4> QED
        BY <4>1, SnDistance
    <3> QED
      BY <3>1 DEF Packet
  <2>3. \A k \in 1 .. n : pPackets[k] = Packet(order[k], pPackets[k].kind)
    BY <1>2 DEF PhaseInv
  <2>4. Packet(i, kind) = Packet(i, Packet(i, kind).kind)
    BY DEF Packet
  <2>5. \A j, c : Packet(j, c)' = Packet(j, c)
    BY <1>3 DEF Packet, SnOf
  <2> HIDE DEF S
  <2>6. pPackets' \in Seq(S) /\ Len(pPackets') = n + 1 /\ pPackets'[n + 1] = Packet(i, kind)
        /\ \A k \in 1 .. n : pPackets'[k] = pPackets[k]
    BY <1>2, <1>3, <2>1, <2>2
  <2>7. ASSUME NEW k \in 1 .. n + 1
        PROVE  pPackets'[k] = Packet(order'[k], pPackets'[k].kind)
    <3>1. CASE k = n + 1
      <4>1. k = Len(order')
        BY <1>4, <3>1
      <4>2. order'[k] = i
        BY <1>4, <4>1
      <4>3. pPackets'[k] = Packet(i, kind)
        BY <2>6, <3>1
      <4> QED
        BY <2>4, <4>2, <4>3, Zenon
    <3>2. CASE k # n + 1
      <4>1. k \in 1 .. n /\ order'[k] = order[k] /\ pPackets'[k] = pPackets[k]
        BY <1>4, <2>1, <2>6, <3>2
      <4> QED
        BY <2>3, <4>1, Zenon
    <3> QED
      BY <3>1, <3>2
  <2>8. \A k \in 1 .. Len(order') : pPackets'[k] = Packet(order[k], pPackets[k].kind)'
    BY <1>4, <2>5, <2>7 DEF Packet
  <2>9. PhaseInv
    OBVIOUS
  <2>10. Len(pPackets') = Len(order') /\ writes' = bindPos' /\ bindPos' = 0
         /\ phase' = "unbound"
    BY <1>1, <1>2, <1>3, <1>4, <2>6
  <2> QED
    BY <1>1, <1>2, <2>6, <2>8, <2>9, <2>10 DEF PhaseInv, S
<1> QED
  BY <1>5, <1>6

\* Write after Bind.
LEMMA WriteBoundOrder ==
    ASSUME OrderInv, PhaseInv, NEW i \in Idx, NEW kind \in Kinds, NEW due \in DueChoices,
           Write(i, kind, due), WriteBound(i, kind, due)
    PROVE  OrderInv' /\ PhaseInv' /\ CalcNext /\ MayArrive(i, top)
<1>1. Accepts(i) /\ UNCHANGED <<phase, bindPos, closed, pool>>
  BY DEF Write, Accepts
<1>2. phase = "bound" /\ writes = Len(order) /\ pPackets = <<>> /\ pPackets' = pPackets
      /\ Calc(Packet(i, kind), due) /\ Len(order) < MaxWrites
  BY <1>1 DEF WriteBound, PhaseInv, Accepts
<1>3. top = newest
  BY <1>2, CaughtUp
<1>4. writes' = writes + 1 /\ last' = i /\ top' = newest'
  <2>1. Packet(i, kind).idx = i
    BY DEF Packet
  <2> QED
    BY <1>1, <1>2, <1>3, <2>1, CalcMovesOn DEF Accepts
<1>5. OrderInv'
  <2>1. /\ order' \in Seq(Idx) /\ Len(order') = Len(order) + 1 /\ Len(order') <= MaxWrites
        /\ newest' \in Idx \cup {-1} /\ TopOf(newest, Len(order))'
        /\ order'[Len(order')] = i
        /\ \A k \in 1 .. Len(order'), t \in Idx \cup {-1} :
              TopOf(t, k - 1)' => MayArrive(order'[k], t)
    BY <1>1, AcceptKeeps
  <2>2. writes' = Len(order') /\ writes' \in 0 .. Len(order')
    BY <1>2, <1>4, <2>1
  <2>3. TopOf(top, writes)'
    BY <1>4, <2>1, <2>2 DEF TopOf
  <2> QED
    BY <1>4, <2>1, <2>2, <2>3 DEF OrderInv, MayArrive
<1>6. PhaseInv'
  <2>1. writes' = Len(order')
    BY <1>1, <1>2, <1>4, AcceptKeeps
  <2> QED
    BY <1>1, <1>2, <2>1 DEF PhaseInv
<1>7. MayArrive(i, top)
  BY <1>1, <1>3 DEF Accepts
<1> QED
  BY <1>2, <1>5, <1>6, <1>7 DEF CalcNext

\* Bind handles the next packet.
LEMMA BindPendingOrder ==
    ASSUME OrderInv, PhaseInv, NEW due \in DueChoices, BindPending(due)
    PROVE  /\ OrderInv' /\ PhaseInv' /\ CalcNext
           /\ \E i \in Idx, kind \in Kinds :
                 /\ i = order[bindPos + 1]
                 /\ MayArrive(i, top) /\ pPackets[bindPos + 1] = Packet(i, kind)
                 /\ Calc(Packet(i, kind), due)
<1>1. /\ phase = "binding" /\ bindPos < Len(pPackets) /\ bindPos' = bindPos + 1
      /\ Calc(pPackets[bindPos + 1], due)
      /\ UNCHANGED <<phase, pPackets, closed, pool, newest, order>>
  BY DEF BindPending
<1>2. writes = bindPos /\ Len(pPackets) = Len(order) /\ writes < Len(order)
  BY <1>1 DEF PhaseInv
<1> DEFINE i == order[writes + 1]
<1>3. writes + 1 \in 1 .. Len(order) /\ i \in Idx /\ MayArrive(i, top) /\ writes < MaxWrites
  BY <1>2, NextMayArrive
<1>4. PICK kind \in Kinds : pPackets[bindPos + 1] = Packet(i, kind)
  BY <1>1, <1>2, PendingPacket
<1>5. writes' = writes + 1 /\ last' = i /\ origin' = origin
      /\ top' = IF i > top THEN i ELSE top
  <2>1. Packet(i, kind).idx = i
    BY DEF Packet
  <2> QED
    BY <1>1, <1>4, <2>1, CalcMovesOn
<1>6. OrderInv'
  <2>1. top \in Idx \cup {-1} /\ TopOf(top, writes) /\ order \in Seq(Idx)
        /\ writes \in 0 .. Len(order) - 1
    BY <1>2 DEF OrderInv
  <2>2. TopOf(IF i > top THEN i ELSE top, writes + 1)
    BY <2>1, TopNext
  <2>3. TopOf(top, writes)'
    BY <1>1, <1>5, <2>2 DEF TopOf
  <2>4. top' \in Idx \cup {-1} /\ writes' \in 0 .. Len(order) /\ last' = order[writes']
    BY <1>3, <1>5, <2>1
  <2>5. TopOf(newest, Len(order))'
        /\ \A k \in 1 .. Len(order), t \in Idx \cup {-1} :
              TopOf(t, k - 1)' => MayArrive(order[k], t)
    BY <1>1 DEF OrderInv, TopOf
  <2> QED
    BY <1>1, <2>3, <2>4, <2>5 DEF OrderInv, MayArrive
<1>7. PhaseInv'
  <2>1. \A j, c : Packet(j, c)' = Packet(j, c)
    BY <1>5 DEF Packet, SnOf
  <2>2. \A k \in 1 .. Len(order) : pPackets[k] = Packet(order[k], pPackets[k].kind)
    BY <1>1 DEF PhaseInv
  <2>3. \A k \in 1 .. Len(order) : pPackets'[k] = Packet(order[k], pPackets[k].kind)'
    BY <1>1, <1>5, <2>2 DEF Packet, SnOf
  <2>4. bindPos \in Nat /\ pPackets \in Seq([idx : Idx, sn : SN, kind : Kinds])
        /\ pool # "returned"
    BY <1>1 DEF PhaseInv
  <2> QED
    BY <1>1, <1>2, <1>5, <2>3, <2>4 DEF PhaseInv
<1> QED
  BY <1>1, <1>2, <1>3, <1>4, <1>6, <1>7 DEF CalcNext

\* Steps that touch neither calc nor the order.
LEMMA OtherOrder ==
    ASSUME OrderInv, PhaseInv, UNCHANGED <<calcVars, newest, order>>,
           \/ phase = "unbound" /\ phase' = "binding" /\ pool' = "held"
              /\ UNCHANGED <<pPackets, bindPos, closed>>
           \/ phase = "binding" /\ bindPos = Len(pPackets) /\ phase' = "bound"
              /\ pPackets' = <<>> /\ UNCHANGED <<bindPos, closed, pool>>
           \/ phase # "binding" /\ ~closed /\ closed' = TRUE
              /\ pool' = (IF phase = "bound" THEN "returned" ELSE pool)
              /\ UNCHANGED <<phase, pPackets, bindPos>>
           \/ UNCHANGED <<phase, pPackets, bindPos, closed, pool>>
    PROVE  OrderInv' /\ PhaseInv'
<1>1. UNCHANGED <<order, newest, top, last, writes, origin>>
  BY DEF calcVars, history
<1>2. OrderInv'
  BY <1>1 DEF OrderInv, TopOf, MayArrive
<1>3. \A j, c : Packet(j, c)' = Packet(j, c)
  BY <1>1 DEF Packet, SnOf
<1>4. PhaseInv'
  BY <1>1 DEF PhaseInv, Packet, SnOf
<1> QED
  BY <1>2, <1>4

\* Every step keeps the order, and is for calc a step of the network or none.
LEMMA OrderStep ==
    OrderInv /\ PhaseInv /\ origin \in SN /\ [BufferNext]_bufferVars
        => OrderInv' /\ PhaseInv' /\ [CalcNext]_calcVars
<1> SUFFICES ASSUME OrderInv, PhaseInv, origin \in SN, [BufferNext]_bufferVars
             PROVE  OrderInv' /\ PhaseInv' /\ [CalcNext]_calcVars
  OBVIOUS
<1>1. ASSUME NEW i \in Idx, NEW kind \in Kinds, NEW due \in DueChoices, Write(i, kind, due)
      PROVE  OrderInv' /\ PhaseInv' /\ [CalcNext]_calcVars
  <2>1. CASE WritePending(i, kind)
    BY <1>1, <2>1, WritePendingOrder DEF WritePending
  <2>2. CASE WriteBound(i, kind, due)
    BY <1>1, <2>2, WriteBoundOrder
  <2> QED
    BY <1>1, <2>1, <2>2 DEF Write
<1>2. ASSUME NEW due \in DueChoices, BindPending(due)
      PROVE  OrderInv' /\ PhaseInv' /\ [CalcNext]_calcVars
  BY <1>2, BindPendingOrder
<1>3. CASE Bind
  BY <1>3, OtherOrder DEF Bind
<1>4. CASE BindDone
  BY <1>4, OtherOrder DEF BindDone
<1>5. CASE Close
  BY <1>5, OtherOrder DEF Close, Unlocked
<1>6. CASE ReadExtendedCheck \/ ReadExtendedPop \/ Forward \/ ReadCheck \/ ReadTake
  BY <1>6, OtherOrder
     DEF ReadExtendedCheck, ReadExtendedPop, Forward, ReadCheck, ReadTake
<1>7. CASE UNCHANGED bufferVars
  BY <1>7, OtherOrder DEF bufferVars, lifeVars
<1> QED
  BY <1>1, <1>2, <1>3, <1>4, <1>5, <1>6, <1>7 DEF BufferNext

\* Before the first packet.
LEMMA OrderInit == BufferInit => OrderInv /\ PhaseInv /\ origin \in SN
BY StreamAssumption, Constants
   DEF BufferInit, CalcInit, OrderInv, PhaseInv, TopOf

\* A buffer hands to calc what the network could have sent to calc directly:
\* Write, Bind and Close in any interleaving refine CalcSpec.
THEOREM LifeImplementsCalc == BufferSpec => ImplementsCalc
<1>1. BufferInit => CalcInit
  BY DEF BufferInit
<1>2. OrderInv /\ PhaseInv /\ origin \in SN /\ [BufferNext]_bufferVars => (origin \in SN)'
  <2>1. CalcNext => origin' = origin
    BY CalcAlways DEF CalcNext
  <2>2. UNCHANGED calcVars => origin' = origin
    BY DEF calcVars
  <2> QED
    BY <2>1, <2>2, OrderStep
<1> QED
  BY <1>1, <1>2, OrderInit, OrderStep, PTL DEF BufferSpec, CalcSpec, ImplementsCalc

\* The order and the phases, in every state.
LEMMA OrderKept == BufferSpec => [](OrderInv /\ PhaseInv /\ CalcIInv)
<1>1. CalcIInv => origin \in SN
  BY DEF CalcIInv
<1> QED
  BY <1>1, OrderInit, OrderStep, LifeImplementsCalc, CalcInvariant, PTL
     DEF BufferSpec, ImplementsCalc

\* calc handles the packets in the order Write accepted them, none twice and none
\* skipped, whether they came before, during or after Bind.
THEOREM BindKeepsOrder == BufferSpec => []HandledInOrder
<1>1. OrderInv /\ PhaseInv => HandledInOrder
  BY DEF OrderInv, PhaseInv, HandledInOrder
<1> QED
  BY <1>1, OrderKept, PTL

\* Once Close has given the ring back, calc does not run on it.
THEOREM RingLeftAlone == BufferSpec => NoWriteAfterReturn
<1>1. PhaseInv /\ [BufferNext]_bufferVars => [pool = "returned" => UNCHANGED bucket]_bufferVars
  <2> SUFFICES ASSUME PhaseInv, BufferNext, pool = "returned" PROVE UNCHANGED bucket
    OBVIOUS
  <2>1. closed /\ phase = "bound"
    BY DEF PhaseInv
  <2> QED
    BY <2>1 DEF BufferNext, Write, WritePending, WriteBound, Bind, BindPending, BindDone, Close,
       ReadExtendedCheck, ReadExtendedPop, Forward, ReadCheck, ReadTake, calcVars, codeVars
<1> QED
  BY <1>1, OrderKept, PTL DEF BufferSpec, NoWriteAfterReturn

-----------------------------------------------------------------------------
(* The packets on their way to the reader                                  *)

\* What calc hands on, and the slot it says the packet is in: that of AddPacket.
LEMMA CalcHands ==
    ASSUME NEW pkt, NEW due, Calc(pkt, due)
    PROVE  LET add == AddPacket(bucket, pkt, pkt.sn = NextMaxSeqNo(pkt.sn))
           IN \/ out' = <<>>
              \/ /\ add.err = "nil"
                 /\ out' = << [idx |-> pkt.idx, sn |-> pkt.sn, slot |-> add.slot,
                               head |-> pkt.sn = maxSeqNo', cycle |-> cycles'] >>
<1> DEFINE add == AddPacket(bucket, pkt, pkt.sn = NextMaxSeqNo(pkt.sn))
           q == Requeued(pkt.sn)
<1>1. \/ Rejected(pkt, q) \/ NotForwarded(pkt, q)
      \/ add.err = "nil" /\ Forwarded(pkt, q, add.slot, due)
  BY Zenon DEF Calc
<1> HIDE DEF add, q
<1>2. Rejected(pkt, q) => out' = <<>>
  BY Zenon DEF Rejected
<1>3. NotForwarded(pkt, q) => out' = <<>>
  BY Zenon DEF NotForwarded
<1>4. Forwarded(pkt, q, add.slot, due) =>
         out' = << [idx |-> pkt.idx, sn |-> pkt.sn, slot |-> add.slot,
                    head |-> pkt.sn = maxSeqNo', cycle |-> cycles'] >>
  BY Zenon DEF Forwarded
<1> QED
  BY <1>1, <1>2, <1>3, <1>4 DEF add

\* A packet handed on was taken by the ring, and points at its slot in it.
LEMMA HandedIsPlaced ==
    ASSUME CalcIInv, CalcIInv', NEW i \in Idx, NEW kind, NEW due, MayArrive(i, top),
           Calc(Packet(i, kind), due)
    PROVE  \/ out' = <<>>
           \/ \E ep \in Handed :
                 out' = <<ep>> /\ ep.idx = i /\ i \in stored'
                 /\ ep.slot = SlotOf(bucket'.step, head' - i)
<1> DEFINE pkt == Packet(i, kind)
           add == AddPacket(bucket, pkt, pkt.sn = NextMaxSeqNo(pkt.sn))
           ep == [idx |-> pkt.idx, sn |-> pkt.sn, slot |-> add.slot,
                  head |-> pkt.sn = maxSeqNo', cycle |-> cycles']
<1>1. pkt.sn = SnOf(i) /\ pkt.idx = i
  BY DEF Packet
<1>2. out' = <<>> \/ (add.err = "nil" /\ out' = <<ep>>)
  BY CalcHands
<1>3. bucket \in Ring /\ i \in Nat /\ head \in Nat /\ SnOf(i) \in SN /\ cycles' \in 0 .. U32 - 1
  <2>1. bucket \in Ring /\ i \in Nat /\ head \in Nat
    BY Constants DEF CalcIInv
  <2>2. SnOf(i) \in SN
    BY PacketPlace
  <2>3. cycles' \in 0 .. U32 - 1
    BY DEF CalcIInv, HeadTypeOK
  <2> QED
    BY <2>1, <2>2, <2>3
<1>4. head' = IF First \/ Ahead(SnOf(i)) THEN i ELSE head
  BY <1>1, CalcAlways DEF pkt
<1>5. ASSUME add.slot \in Slots
      PROVE  ep \in Handed /\ ep.idx = i /\ ep.slot = add.slot
  <2> DEFINE h == pkt.sn = maxSeqNo'
  <2>1. h \in BOOLEAN
    OBVIOUS
  <2> HIDE DEF pkt, add, h
  <2> QED
    BY <1>1, <1>3, <1>5, <2>1 DEF Handed, h
<1>6. ASSUME First \/ i >= head
      PROVE  add.slot \in Slots /\ i \in stored' /\ add.slot = SlotOf(bucket'.step, head' - i)
  <2>1. pkt.sn = NextMaxSeqNo(pkt.sn) /\ (First \/ Ahead(SnOf(i)))
    BY <1>1, <1>6, NewestOrLate
  <2>2. add = [b |-> Push(Advanced(Opened(bucket, pkt), pkt), pkt),
               slot |-> Advanced(Opened(bucket, pkt), pkt).step, err |-> "nil"]
    BY <2>1, Zenon DEF AddPacket
  <2>3. bucket' = Pushed(bucket, pkt) /\ stored' = stored \cup {i}
    BY <1>1, <2>1, CalcNewest DEF pkt
  <2> DEFINE s == PushSlot(bucket, pkt)
  <2>4. s \in Slots /\ bucket'.step = IF s + 1 > MaxSteps THEN 0 ELSE s + 1
    BY <1>1, <1>3, <2>3, AddLatest, ZenonT(60)
  <2>5. add.slot = s
    <3>1. Advanced(Opened(bucket, pkt), pkt)
             = [Opened(bucket, pkt) EXCEPT !.headSN = pkt.sn, !.step = s]
      BY Zenon DEF Advanced, PushSlot
    <3>2. Opened(bucket, pkt) \in [init : BOOLEAN, step : Slots, headSN : Int,
                buf : [Slots -> [sn : SN, idx : Idx \cup {NoPacket}]]]
      <4>1. CASE bucket.init
        BY <1>3, <4>1, Constants DEF Opened, Ring
      <4>2. CASE ~bucket.init
        <5>1. Minus(pkt.sn, 1) \in Int
          BY <1>1, <1>3, Constants DEF Minus
        <5> QED
          BY <1>3, <4>2, <5>1 DEF Opened, Ring
      <4> QED
        BY <4>1, <4>2
    <3> HIDE DEF pkt, add, s
    <3>3. Advanced(Opened(bucket, pkt), pkt).step = s
      BY <3>1, <3>2
    <3> QED
      BY <2>2, <3>3
  <2>6. head' - i = 0
    BY <1>3, <1>4, <2>1
  <2> HIDE DEF add, s
  <2> QED
    BY <2>3, <2>4, <2>5, <2>6, PushedIsHead
<1>7. ASSUME ~First, i < head, add.err = "nil"
      PROVE  add.slot \in Slots /\ i \in stored' /\ add.slot = SlotOf(bucket'.step, head' - i)
  <2> DEFINE s == SlotOf(bucket.step, head - i)
             d == head - i
  <2>1. /\ bucket.init = TRUE
        /\ head - i <= MaxSteps => s \in Slots
        /\ \/ bucket' = bucket /\ err' = "errPacketTooOld"
           \/ bucket' = bucket /\ err' = "errRTXPacket"
           \/ /\ head - i <= MaxSteps /\ bucket.buf[s].sn # SnOf(i)
              /\ bucket' = [bucket EXCEPT !.buf[s] = [sn |-> SnOf(i), idx |-> i]]
              /\ stored' = stored \cup {i} /\ err' = "nil"
    BY <1>7, CalcBehind
  <2>2. err' = add.err
    BY Zenon DEF Calc
  <2>3. /\ head - i <= MaxSteps /\ bucket.buf[s].sn # SnOf(i) /\ s \in Slots
        /\ bucket' = [bucket EXCEPT !.buf[s] = [sn |-> SnOf(i), idx |-> i]]
        /\ stored' = stored \cup {i}
    BY <1>7, <2>1, <2>2
  <2>4. bucket'.step = bucket.step
    BY <1>3, <2>3 DEF Ring
  <2>5. SnOf(i) # NextMaxSeqNo(SnOf(i)) /\ ~Ahead(SnOf(i))
    BY <1>7, NewestOrLate
  <2>6. add = Set(bucket, pkt)
    <3>1. Opened(bucket, pkt) = bucket
      BY <2>1, Zenon DEF Opened
    <3>2. ~(pkt.sn = NextMaxSeqNo(pkt.sn))
      BY <1>1, <2>5
    <3> QED
      BY <3>1, <3>2, Zenon DEF AddPacket
  <2>7. Minus(bucket.headSN, pkt.sn) = d
    <3>1. bucket.headSN = maxSeqNo
      BY <2>1 DEF CalcIInv, HeadFollowed
    <3> QED
      BY <1>1, <1>7, <2>1, <3>1, PacketPlace
  <2>8. WrapPos(RawPos(bucket, pkt.sn)) = s
    <3>1. head - i <= MaxSteps
      BY <2>3
    <3>2. d \in Nat /\ d + 1 < SNSpace
      BY <1>3, <1>7, <3>1, Constants
    <3>3. Plus(d, 1) = d + 1
      BY <3>2 DEF Plus
    <3> QED
      BY <2>7, <3>3 DEF RawPos, SlotOf
  <2>9. ~(Minus(bucket.headSN, pkt.sn) >= MaxSteps + 1)
    BY <1>3, <2>3, <2>7, Constants, SMTT(40)
  <2>10. ~(bucket.buf[s].sn = pkt.sn)
    BY <1>1, <2>3
  <2>11. add = [b |-> [bucket EXCEPT !.buf[s] = [sn |-> pkt.sn, idx |-> pkt.idx]],
                slot |-> s, err |-> "nil"]
    BY <2>6, <2>8, <2>9, <2>10, Zenon DEF Set
  <2> HIDE DEF s, add, pkt
  <2>12. add.slot = s
    BY <2>11
  <2>13. head' = head
    BY <1>4, <1>7, <2>5
  <2> QED
    BY <2>3, <2>4, <2>12, <2>13 DEF s
<1>8. CASE out' = <<>>
  BY <1>8
<1>9. CASE add.err = "nil" /\ out' = <<ep>>
  <2>1. add.slot \in Slots /\ i \in stored' /\ add.slot = SlotOf(bucket'.step, head' - i)
    <3>1. (First \/ i >= head) \/ (~First /\ i < head)
      BY <1>3
    <3> HIDE DEF add
    <3> QED
      BY <1>6, <1>7, <1>9, <3>1
  <2>2. ep \in Handed /\ ep.idx = i /\ ep.slot = add.slot
    BY <1>5, <2>1
  <2> HIDE DEF ep, add
  <2> QED
    BY <1>9, <2>1, <2>2
<1> QED
  BY <1>2, <1>8, <1>9

\* A packet the ring took stays in its slot, as long as it is in the ring's reach
\* and no skip loses its place.
LEMMA SlotsStay ==
    ASSUME CalcIInv, NEW i \in Idx, NEW kind, NEW due, MayArrive(i, top),
           Calc(Packet(i, kind), due), NEW j \in stored,
           aligned' = TRUE, head' - j <= MaxSteps
    PROVE  /\ aligned = TRUE /\ head - j <= MaxSteps
           /\ SlotOf(bucket'.step, head' - j) = SlotOf(bucket.step, head - j)
<1> DEFINE pkt == Packet(i, kind)
<1>1. pkt.sn = SnOf(i) /\ pkt.idx = i
  BY DEF Packet
<1>2. bucket \in Ring /\ i \in Nat /\ head \in Nat /\ SnOf(i) \in SN /\ aligned \in BOOLEAN
      /\ stored \subseteq Idx /\ j \in Nat
  <2>1. bucket \in Ring /\ i \in Nat /\ head \in Nat /\ aligned \in BOOLEAN
        /\ stored \subseteq Idx /\ j \in Nat
    BY Constants DEF CalcIInv
  <2>2. SnOf(i) \in SN
    BY PacketPlace
  <2> QED
    BY <2>1, <2>2
<1>3. bucket.init = TRUE
  BY DEF CalcIInv, Ring, Fresh
<1>4. aligned = TRUE /\ (First \/ Ahead(SnOf(i)) =>
        /\ i > head
        /\ Skip(bucket.step, Gap(bucket, SnOf(i)))
              = (bucket.step + Gap(bucket, SnOf(i))) % (MaxSteps + 1))
  BY <1>1, <1>2, <1>3, CalcAligned DEF pkt
<1>5. j <= head
  BY <1>4 DEF CalcIInv, RingInPlace
<1>6. head' = IF First \/ Ahead(SnOf(i)) THEN i ELSE head
  BY <1>1, CalcAlways DEF pkt
<1>7. CASE First \/ i >= head
  <2>1. pkt.sn = NextMaxSeqNo(pkt.sn) /\ (First \/ Ahead(SnOf(i)))
    BY <1>1, <1>7, NewestOrLate
  <2>2. bucket' = Pushed(bucket, pkt)
    BY <1>1, <2>1, CalcNewest DEF pkt
  <2> DEFINE s == PushSlot(bucket, pkt)
             gap == i - head - 1
             d == head - j
  <2>3. /\ bucket'.step = IF s + 1 > MaxSteps THEN 0 ELSE s + 1
        /\ s = Skip(bucket.step, Gap(bucket, SnOf(i)))
    <3>1. bucket \in Ring /\ pkt.sn \in SN /\ pkt.idx \in Idx
      BY <1>1, <1>2
    <3> HIDE DEF pkt
    <3> QED
      BY <1>1, <1>3, <2>2, <3>1, AddLatest, ZenonT(60)
  <2>4. Gap(bucket, SnOf(i)) = gap
    <3>1. bucket.headSN = maxSeqNo /\ i >= head /\ i > head
      BY <1>2, <1>3, <1>4, <2>1 DEF CalcIInv, HeadFollowed
    <3>2. Minus(SnOf(i), maxSeqNo) = i - head
      BY <1>3, <3>1, PacketPlace
    <3> QED
      BY <1>2, <3>1, <3>2 DEF Gap
  <2>5. s = (bucket.step + gap) % (MaxSteps + 1)
    BY <1>4, <2>1, <2>3, <2>4
  <2>6. gap \in Nat /\ d \in Nat /\ d + gap + 1 = head' - j /\ d + gap + 1 <= MaxSteps
        /\ d <= MaxSteps /\ bucket.step \in Slots
    BY <1>2, <1>4, <1>5, <1>6, <2>1, Constants DEF Ring
  <2> HIDE DEF s, gap, pkt
  <2>7. SlotOf(bucket'.step, head' - j) = SlotOf(bucket.step, d)
    <3> HIDE DEF d
    <3> QED
      BY <2>3, <2>5, <2>6, SkipKeepsSlots
  <2> QED
    BY <1>4, <2>6, <2>7
<1>8. CASE ~(First \/ i >= head)
  <2>1. ~First /\ i < head
    BY <1>2, <1>8
  <2>2. ~Ahead(SnOf(i))
    BY <2>1, NewestOrLate
  <2>3. bucket'.step = bucket.step
    <3>1. bucket' = bucket \/
            \E s : bucket' = [bucket EXCEPT !.buf[s] = [sn |-> SnOf(i), idx |-> i]]
      BY <2>1, CalcBehind
    <3> QED
      BY <1>2, <3>1 DEF Ring
  <2> QED
    BY <1>4, <1>6, <2>1, <2>2, <2>3
<1> QED
  BY <1>7, <1>8

\* calc leaves the packets handed on before it in their slots.
LEMMA CalcKeepsPlaced ==
    ASSUME CalcIInv, NEW i \in Idx, NEW kind, NEW due, MayArrive(i, top),
           Calc(Packet(i, kind), due), NEW ep, Placed(ep)
    PROVE  Placed(ep)'
<1>1. ep.idx \in stored'
  <2>1. stored \subseteq stored'
    BY Zenon DEF Calc, Remember
  <2> QED
    BY <2>1 DEF Placed
<1>2. ASSUME aligned' = TRUE, head' - ep.idx <= MaxSteps
      PROVE  ep.slot = SlotOf(bucket'.step, head' - ep.idx)
  <2>1. ep.idx \in stored
    BY DEF Placed
  <2>2. /\ aligned = TRUE /\ head - ep.idx <= MaxSteps
        /\ SlotOf(bucket'.step, head' - ep.idx) = SlotOf(bucket.step, head - ep.idx)
    BY <1>2, <2>1, SlotsStay
  <2> QED
    BY <2>2 DEF Placed
<1> QED
  BY <1>1, <1>2 DEF Placed

\* One calc, and what it pushes on extPackets.
LEMMA CalcPushes ==
    ASSUME CalcIInv, CalcIInv', ReadInv, AllPlaced,
           NEW i \in Idx, NEW kind, NEW due, MayArrive(i, top), Calc(Packet(i, kind), due),
           extPackets' = extPackets \o out', UNCHANGED <<readVars, closed, late>>
    PROVE  ReadInv' /\ AllPlaced'
<1>1. \/ out' = <<>>
      \/ \E ep \in Handed : out' = <<ep>> /\ Placed(ep)'
  <2>1. \/ out' = <<>>
        \/ \E ep \in Handed :
              out' = <<ep>> /\ ep.idx = i /\ i \in stored'
              /\ ep.slot = SlotOf(bucket'.step, head' - i)
    BY HandedIsPlaced
  <2> QED
    BY <2>1 DEF Placed
<1>2. \A ep : Placed(ep) => Placed(ep)'
  BY CalcKeepsPlaced
<1>3. UNCHANGED <<held, extReader, closed, late>>
  BY DEF readVars
<1>4. extPackets \in Seq(Handed) /\ Len(extPackets) \in Nat
  BY DEF ReadInv
<1>5. extPackets' \in Seq(Handed) /\ \A k \in 1 .. Len(extPackets') : Placed(extPackets[k])'
  <2>1. CASE out' = <<>>
    <3>1. extPackets' = extPackets
      BY <1>4, <2>1
    <3>2. \A k \in 1 .. Len(extPackets) : Placed(extPackets[k])
      BY DEF AllPlaced
    <3> QED
      BY <1>2, <1>4, <3>1, <3>2 DEF Placed
  <2>2. ASSUME NEW ep \in Handed, out' = <<ep>>, Placed(ep)'
        PROVE  extPackets' \in Seq(Handed)
               /\ \A k \in 1 .. Len(extPackets') : Placed(extPackets[k])'
    <3> DEFINE n == Len(extPackets)
    <3>1. extPackets' \in Seq(Handed) /\ Len(extPackets') = n + 1
          /\ extPackets'[n + 1] = ep
          /\ \A k \in 1 .. n : extPackets'[k] = extPackets[k]
      BY <1>4, <2>2
    <3>2. ASSUME NEW k \in 1 .. Len(extPackets') PROVE Placed(extPackets[k])'
      <4>1. CASE k = n + 1
        BY <2>2, <3>1, <4>1 DEF Placed
      <4>2. CASE k # n + 1
        <5>1. k \in 1 .. n /\ extPackets'[k] = extPackets[k]
          BY <1>4, <3>1, <4>2
        <5>2. Placed(extPackets[k])
          BY <5>1 DEF AllPlaced
        <5> QED
          BY <1>2, <5>1, <5>2 DEF Placed
      <4> QED
        BY <4>1, <4>2
    <3> QED
      BY <3>1, <3>2
  <2> QED
    BY <1>1, <2>1, <2>2
<1>6. ReadInv'
  BY <1>3, <1>5 DEF ReadInv
<1>7. \A k \in 1 .. Len(held') : Placed(held[k])'
  BY <1>2, <1>3 DEF AllPlaced, Placed
<1> QED
  BY <1>5, <1>6, <1>7 DEF AllPlaced

\* Taking a packet off the queue, and giving it back.
LEMMA PopPlaced ==
    ASSUME ReadInv, AllPlaced, ReadExtendedPop \/ Forward
    PROVE  ReadInv' /\ AllPlaced'
<1>1. \A ep : Placed(ep)' <=> Placed(ep)
  BY DEF ReadExtendedPop, Forward, Placed, calcVars, codeVars, history
<1>2. CASE Forward
  <2>1. UNCHANGED <<extPackets, closed, late>> /\ held' = <<>> /\ extReader' = "check"
    BY <1>2 DEF Forward
  <2>2. ReadInv'
    BY <2>1 DEF ReadInv
  <2>3. AllPlaced'
    BY <1>1, <2>1 DEF AllPlaced
  <2> QED
    BY <2>2, <2>3
<1>3. CASE ReadExtendedPop /\ extPackets = <<>>
  <2>1. UNCHANGED <<extPackets, closed, late, held>> /\ extReader = "pop"
        /\ extReader' = "check"
    BY <1>3 DEF ReadExtendedPop
  <2>2. ReadInv'
    BY <2>1 DEF ReadInv
  <2>3. AllPlaced'
    BY <1>1, <2>1 DEF AllPlaced
  <2> QED
    BY <2>2, <2>3
<1>4. CASE ReadExtendedPop /\ extPackets # <<>>
  <2>1. /\ extReader = "pop" /\ extReader' = "forward" /\ held' = <<Head(extPackets)>>
        /\ extPackets' = Tail(extPackets) /\ closed' = closed
        /\ late' = IF closed THEN late + 1 ELSE late
    BY <1>4 DEF ReadExtendedPop
  <2>2. extPackets \in Seq(Handed) /\ Len(extPackets) \in Nat \ {0}
    BY <1>4 DEF ReadInv
  <2>3. Head(extPackets) = extPackets[1] /\ Head(extPackets) \in Handed
        /\ Tail(extPackets) \in Seq(Handed) /\ Len(Tail(extPackets)) = Len(extPackets) - 1
        /\ \A k \in 1 .. Len(extPackets) - 1 : Tail(extPackets)[k] = extPackets[k + 1]
    BY <1>4, <2>2
  <2>4. ReadInv'
    <3>1. late = 0 /\ closed \in BOOLEAN
      BY <2>1 DEF ReadInv
    <3>2. late' \in {0, 1} /\ (~closed => late' = 0)
      BY <2>1, <3>1
    <3> QED
      BY <2>1, <2>3, <3>1, <3>2 DEF ReadInv
  <2>5. ASSUME NEW k \in 1 .. Len(extPackets') PROVE Placed(extPackets[k])'
    <3>1. k + 1 \in 1 .. Len(extPackets) /\ extPackets'[k] = extPackets[k + 1]
      BY <2>1, <2>2, <2>3
    <3> QED
      BY <1>1, <3>1 DEF AllPlaced, Placed
  <2>6. \A k \in 1 .. Len(held') : Placed(held[k])'
    <3>1. Placed(extPackets[1])
      BY <2>2 DEF AllPlaced
    <3>2. Len(held') = 1 /\ held'[1] = extPackets[1]
      BY <2>1, <2>3
    <3> QED
      BY <1>1, <3>1, <3>2 DEF Placed
  <2> QED
    BY <2>4, <2>5, <2>6 DEF AllPlaced
<1> QED
  BY <1>2, <1>3, <1>4

\* Every step keeps the packets in their places.
LEMMA PlacedStep ==
    OrderInv /\ PhaseInv /\ CalcIInv /\ CalcIInv' /\ ReadInv /\ AllPlaced
        /\ [BufferNext]_bufferVars => ReadInv' /\ AllPlaced'
<1> SUFFICES ASSUME OrderInv, PhaseInv, CalcIInv, CalcIInv', ReadInv, AllPlaced,
                    [BufferNext]_bufferVars
             PROVE  ReadInv' /\ AllPlaced'
  OBVIOUS
<1>1. ASSUME UNCHANGED <<calcVars, extPackets, held, late>>,
             closed' \in BOOLEAN, closed => closed', 
             \/ extReader' = extReader
             \/ extReader # "forward" /\ extReader' \in {"done", "pop"}
                /\ (extReader' = "pop" => ~closed)
      PROVE  ReadInv' /\ AllPlaced'
  <2>1. AllPlaced'
    BY <1>1 DEF AllPlaced, Placed, calcVars, codeVars, history
  <2>2. ReadInv'
    BY <1>1 DEF ReadInv
  <2> QED
    BY <2>1, <2>2
<1>2. ASSUME NEW i \in Idx, NEW kind \in Kinds, NEW due \in DueChoices, Write(i, kind, due)
      PROVE  ReadInv' /\ AllPlaced'
  <2>1. CASE WritePending(i, kind)
    BY <1>1, <1>2, <2>1 DEF Write, WritePending, readVars, ReadInv
  <2>2. CASE WriteBound(i, kind, due)
    <3>1. MayArrive(i, top)
      BY <1>2, <2>2, WriteBoundOrder
    <3> QED
      BY <1>2, <2>2, <3>1, CalcPushes DEF Write, WriteBound
  <2> QED
    BY <1>2, <2>1, <2>2 DEF Write
<1>3. ASSUME NEW due \in DueChoices, BindPending(due) PROVE ReadInv' /\ AllPlaced'
  BY <1>3, BindPendingOrder, CalcPushes DEF BindPending
<1>4. CASE Bind \/ BindDone
  BY <1>1, <1>4 DEF Bind, BindDone, readVars, ReadInv
<1>5. CASE Close
  BY <1>1, <1>5 DEF Close, readVars, ReadInv
<1>6. CASE ReadExtendedCheck
  BY <1>1, <1>6 DEF ReadExtendedCheck, ReadInv
<1>7. CASE ReadCheck \/ ReadTake
  BY <1>1, <1>7 DEF ReadCheck, ReadTake, ReadInv
<1>8. CASE ReadExtendedPop \/ Forward
  BY <1>8, PopPlaced
<1>9. CASE UNCHANGED bufferVars
  BY <1>1, <1>9 DEF bufferVars, lifeVars, readVars, ReadInv
<1> QED
  BY <1>2, <1>3, <1>4, <1>5, <1>6, <1>7, <1>8, <1>9 DEF BufferNext

\* The invariant of the life cycle: the order, the phases, the readers and the
\* place of every packet under way.
THEOREM LifeInvariant == BufferSpec => [](BufferIInv /\ CalcIInv)
<1>1. ASSUME BufferInit PROVE ReadInv /\ AllPlaced
  <2>1. extPackets = <<>> /\ held = <<>> /\ extReader = "check" /\ closed = FALSE /\ late = 0
    BY <1>1 DEF BufferInit
  <2>2. ReadInv
    <3>1. <<>> \in Seq(Handed)
      OBVIOUS
    <3>2. closed \in BOOLEAN /\ late \in {0, 1}
      BY <2>1
    <3>3. held # <<>> <=> extReader = "forward"
      BY <2>1
    <3> QED
      BY <2>1, <3>1, <3>2, <3>3 DEF ReadInv
  <2>3. AllPlaced
    BY <2>1 DEF AllPlaced
  <2> QED
    BY <2>2, <2>3
<1> QED
  BY <1>1, OrderKept, PlacedStep, PTL DEF BufferSpec, BufferIInv

\* A packet that waits in extPackets or is being forwarded still has its payload in
\* the slot it points at, unless the ring has lapped it or lost its alignment.
THEOREM PayloadStays == BufferSpec => []PayloadAlive
<1>1. BufferIInv /\ CalcIInv => PayloadAlive
  <2> SUFFICES ASSUME BufferIInv, CalcIInv, aligned,
                      NEW ep \in ToSet(held) \cup ToSet(extPackets),
                      head - ep.idx <= MaxSteps
               PROVE  bucket.buf[ep.slot].idx = ep.idx
    BY DEF PayloadAlive
  <2>1. Placed(ep)
    <3>1. held \in Seq(Handed) /\ extPackets \in Seq(Handed)
      <4>1. extPackets \in Seq(Handed) /\ (held = <<>> \/ \E e \in Handed : held = <<e>>)
        BY DEF BufferIInv, ReadInv
      <4>2. <<>> \in Seq(Handed) /\ \A e \in Handed : <<e>> \in Seq(Handed)
        OBVIOUS
      <4> QED
        BY <4>1, <4>2, Zenon
    <3>2. (\E k \in DOMAIN held : ep = held[k]) \/ (\E k \in DOMAIN extPackets : ep = extPackets[k])
      BY DEF ToSet
    <3> QED
      BY <3>1, <3>2 DEF BufferIInv, AllPlaced
  <2>2. aligned = TRUE
    BY DEF CalcIInv
  <2>3. bucket.buf[SlotOf(bucket.step, head - ep.idx)] = [sn |-> SnOf(ep.idx), idx |-> ep.idx]
    BY <2>1, <2>2 DEF Placed, CalcIInv, RingInPlace
  <2> QED
    BY <2>1, <2>2, <2>3 DEF Placed
<1> QED
  BY <1>1, LifeInvariant, PTL

-----------------------------------------------------------------------------
(* ReadExtended implements PacketPipe                                      *)

\* Taking the idx of every packet of a sequence.
LEMMA IdxOfSeq ==
    ASSUME NEW S, NEW s \in Seq(S), \A x \in S : x.idx \in Idx
    PROVE  /\ IdxOf(s) \in Seq(Idx) /\ Len(IdxOf(s)) = Len(s)
           /\ \A k \in 1 .. Len(s) : IdxOf(s)[k] = s[k].idx
<1>1. DOMAIN s = 1 .. Len(s) /\ Len(s) \in Nat /\ \A k \in 1 .. Len(s) : s[k] \in S
  BY LenProperties, ElementOfSeq
<1>2. IdxOf(s) = [k \in 1 .. Len(s) |-> s[k].idx]
  BY <1>1 DEF IdxOf
<1>3. \A k \in 1 .. Len(s) : s[k].idx \in Idx
  BY <1>1
<1>4. IdxOf(s) \in [1 .. Len(s) -> Idx]
  BY <1>2, <1>3
<1>5. IdxOf(s) \in Seq(Idx)
  BY <1>1, <1>4, SeqDef
<1>6. Len(IdxOf(s)) = Len(s)
  BY <1>1, <1>4, <1>5, LenProperties
<1> QED
  BY <1>2, <1>5, <1>6

\* Packets as extPackets and as pPackets hold them
OnTheWay == Handed \cup [idx : Idx, sn : SN, kind : Kinds]

\* The packets under way, as PacketPipe sees them
Under == IdxOf(extPackets \o SubSeq(pPackets, bindPos + 1, Len(pPackets)))

\* Packets that come before Bind has handled them
Waits == IF phase = "bound" THEN 0 ELSE Len(order) - bindPos

UnderShape ==
    /\ Under \in Seq(Idx) /\ Len(extPackets) \in Nat /\ Waits \in Nat
    /\ Len(Under) = Len(extPackets) + Waits
    /\ \A k \in 1 .. Len(extPackets) : Under[k] = extPackets[k].idx
    /\ \A k \in 1 .. Waits : Under[Len(extPackets) + k] = order[bindPos + k]

\* They are those handed on and not yet taken, then those Bind has still to do.
LEMMA UnderIs == BufferIInv => UnderShape
<1> SUFFICES ASSUME BufferIInv PROVE UnderShape
  OBVIOUS
<1> DEFINE P == [idx : Idx, sn : SN, kind : Kinds]
<1>2. extPackets \in Seq(Handed) /\ bindPos \in Nat /\ order \in Seq(Idx)
  BY DEF BufferIInv, ReadInv, PhaseInv, OrderInv
<1>3. pPackets \in Seq(P)
  <2>1. CASE phase = "bound"
    BY <2>1 DEF BufferIInv, PhaseInv
  <2>2. CASE phase # "bound"
    BY <2>2 DEF BufferIInv, PhaseInv
  <2> QED
    BY <2>1, <2>2
<1>4. extPackets \in Seq(OnTheWay) /\ pPackets \in Seq(OnTheWay)
  <2>1. Handed \subseteq OnTheWay /\ P \subseteq OnTheWay
    BY DEF OnTheWay
  <2> HIDE DEF P
  <2> QED
    BY <1>2, <1>3, <2>1, SeqMonotonic
<1> DEFINE rest == IF bindPos <= Len(pPackets) THEN Len(pPackets) - bindPos ELSE 0
<1>5. /\ Under \in Seq(Idx) /\ Len(extPackets) \in Nat /\ Len(pPackets) \in Nat
      /\ Len(Under) = Len(extPackets) + rest
      /\ \A k \in 1 .. Len(extPackets) : Under[k] = extPackets[k].idx
      /\ \A k \in 1 .. rest : Under[Len(extPackets) + k] = pPackets[bindPos + k].idx
  <2> DEFINE r == SubSeq(pPackets, bindPos + 1, Len(pPackets))
             S == OnTheWay
  <2>0. /\ \A x \in S : x.idx \in Idx
        /\ extPackets \in Seq(S) /\ pPackets \in Seq(S) /\ bindPos \in Nat
        /\ Under = IdxOf(extPackets \o r)
    BY <1>2, <1>4 DEF OnTheWay, Handed, Under
  <2> HIDE DEF S
  <2>1. Len(extPackets) \in Nat /\ Len(pPackets) \in Nat /\ \A k \in 1 .. Len(pPackets) : pPackets[k] \in S
    BY <2>0, LenProperties, ElementOfSeq
  <2>2. r \in Seq(S) /\ Len(r) = rest /\ \A k \in 1 .. rest : r[k] = pPackets[bindPos + k]
    <3>1. bindPos + 1 \in Int /\ Len(pPackets) \in Int /\ \A k \in bindPos + 1 .. Len(pPackets) : pPackets[k] \in S
      BY <2>0, <2>1
    <3>2. /\ r \in Seq(S)
          /\ Len(r) = IF bindPos + 1 <= Len(pPackets) THEN Len(pPackets) - (bindPos + 1) + 1 ELSE 0
          /\ \A k \in 1 .. Len(pPackets) - (bindPos + 1) + 1 : r[k] = pPackets[(bindPos + 1) + k - 1]
      <4> DEFINE m == bindPos + 1
                 n == Len(pPackets)
      <4>1. m \in Int /\ n \in Int /\ \A k \in m .. n : pPackets[k] \in S
        BY <3>1
      <4> HIDE DEF m, n
      <4>2. /\ SubSeq(pPackets, m, n) \in Seq(S)
            /\ Len(SubSeq(pPackets, m, n)) = IF m <= n THEN n - m + 1 ELSE 0
            /\ \A k \in 1 .. n - m + 1 : SubSeq(pPackets, m, n)[k] = pPackets[m + k - 1]
        BY <4>1, SubSeqProperties
      <4> QED
        BY <4>2, Zenon DEF m, n
    <3> HIDE DEF r
    <3>3. ASSUME NEW k \in 1 .. rest PROVE r[k] = pPackets[bindPos + k]
      <4>1. k \in 1 .. Len(pPackets) - (bindPos + 1) + 1 /\ (bindPos + 1) + k - 1 = bindPos + k
        BY <2>0, <2>1
      <4> QED
        BY <3>2, <4>1
    <3> QED
      BY <2>0, <2>1, <3>2, <3>3
  <2> HIDE DEF r
  <2>3. /\ extPackets \o r \in Seq(S) /\ Len(extPackets \o r) = Len(extPackets) + rest
        /\ \A k \in 1 .. Len(extPackets) + rest :
              (extPackets \o r)[k] = IF k <= Len(extPackets) THEN extPackets[k] ELSE r[k - Len(extPackets)]
    <3>1. r \in Seq(S)
      BY <2>2
    <3>2. /\ extPackets \o r \in Seq(S) /\ Len(extPackets \o r) = Len(extPackets) + Len(r)
          /\ \A k \in 1 .. Len(extPackets) + Len(r) :
                (extPackets \o r)[k] = IF k <= Len(extPackets) THEN extPackets[k] ELSE r[k - Len(extPackets)]
      BY <2>0, <3>1, ConcatProperties
    <3> QED
      BY <2>2, <3>2
  <2>4. Under \in Seq(Idx) /\ Len(Under) = Len(extPackets) + rest
        /\ \A k \in 1 .. Len(extPackets) + rest : Under[k] = (extPackets \o r)[k].idx
    BY <2>0, <2>3, IdxOfSeq
  <2>5. ASSUME NEW k \in 1 .. Len(extPackets) PROVE Under[k] = extPackets[k].idx
    BY <2>1, <2>3, <2>4
  <2>6. ASSUME NEW k \in 1 .. rest PROVE Under[Len(extPackets) + k] = pPackets[bindPos + k].idx
    <3>1. Len(extPackets) + k \in 1 .. Len(extPackets) + rest /\ ~(Len(extPackets) + k <= Len(extPackets))
          /\ (Len(extPackets) + k) - Len(extPackets) = k
      BY <2>0, <2>1
    <3> QED
      BY <2>2, <2>3, <2>4, <3>1
  <2> QED
    BY <2>1, <2>4, <2>5, <2>6
<1>6. CASE phase = "bound"
  <2>1. Len(pPackets) = 0
    BY <1>6 DEF BufferIInv, PhaseInv
  <2>2. rest = 0 /\ Waits = 0
    BY <1>2, <1>6, <2>1 DEF Waits
  <2> QED
    BY <1>5, <2>2 DEF UnderShape
<1>7. CASE phase # "bound"
  <2>1. Len(pPackets) = Len(order) /\ bindPos <= Len(order)
        /\ \A k \in 1 .. Len(order) : pPackets[k] = Packet(order[k], pPackets[k].kind)
    BY <1>7 DEF BufferIInv, PhaseInv, OrderInv
  <2>2. rest = Waits /\ Waits \in Nat
    BY <1>2, <1>5, <1>7, <2>1 DEF Waits
  <2>3. ASSUME NEW k \in 1 .. Waits PROVE pPackets[bindPos + k].idx = order[bindPos + k]
    <3>1. bindPos + k \in 1 .. Len(order)
      BY <1>2, <1>7, <2>1, <2>2 DEF Waits
    <3>2. pPackets[bindPos + k] = Packet(order[bindPos + k], pPackets[bindPos + k].kind)
      BY <2>1, <3>1
    <3>3. \A i, c : Packet(i, c).idx = i
      BY DEF Packet
    <3> QED
      BY <3>2, <3>3
  <2> QED
    BY <1>5, <2>2, <2>3 DEF UnderShape
<1> QED
  BY <1>6, <1>7

\* A step that appends i.
LEMMA UnderAppends ==
    ASSUME UnderShape, UnderShape', NEW i \in Idx, Len(Under') = Len(Under) + 1,
           \A k \in 1 .. Len(Under) : Under'[k] = Under[k], Under'[Len(Under) + 1] = i
    PROVE  Under' = Append(Under, i)
<1>1. Under \in Seq(Idx) /\ Under' \in Seq(Idx) /\ Len(Under) \in Nat
  BY DEF UnderShape
<1>2. /\ Append(Under, i) \in Seq(Idx) /\ Len(Append(Under, i)) = Len(Under) + 1
      /\ \A k \in 1 .. Len(Under) : Append(Under, i)[k] = Under[k]
      /\ Append(Under, i)[Len(Under) + 1] = i
  BY <1>1, AppendProperties
<1>3. \A k \in 1 .. Len(Under') : Under'[k] = Append(Under, i)[k]
  BY <1>1, <1>2
<1> QED
  BY <1>1, <1>2, <1>3, SeqEqual

\* A step that leaves them as they are.
LEMMA UnderStays ==
    ASSUME UnderShape, UnderShape', Len(Under') = Len(Under),
           \A k \in 1 .. Len(Under) : Under'[k] = Under[k]
    PROVE  Under' = Under
<1>1. Under \in Seq(Idx) /\ Under' \in Seq(Idx)
  BY DEF UnderShape
<1> QED
  BY <1>1, SeqEqual

\* A step that leaves out the one at place d.
LEMMA UnderDrops ==
    ASSUME UnderShape, UnderShape', NEW d \in 1 .. Len(Under), Len(Under') = Len(Under) - 1,
           \A k \in 1 .. d - 1 : Under'[k] = Under[k],
           \A k \in d .. Len(Under) - 1 : Under'[k] = Under[k + 1]
    PROVE  Under' = SubSeq(Under, 1, d - 1) \o SubSeq(Under, d + 1, Len(Under))
<1> DEFINE n == Len(Under)
           a == SubSeq(Under, 1, d - 1)
           b == SubSeq(Under, d + 1, n)
<1>1. Under \in Seq(Idx) /\ Under' \in Seq(Idx) /\ n \in Nat /\ d \in Nat
      /\ \A k \in 1 .. n : Under[k] \in Idx
  BY ElementOfSeq DEF UnderShape
<1>2. a \in Seq(Idx) /\ Len(a) = d - 1 /\ \A k \in 1 .. d - 1 : a[k] = Under[k]
  <2>1. 1 \in Int /\ d - 1 \in Int /\ \A k \in 1 .. d - 1 : Under[k] \in Idx
    BY <1>1
  <2>2. a \in Seq(Idx) /\ Len(a) = (IF 1 <= d - 1 THEN (d - 1) - 1 + 1 ELSE 0)
        /\ \A k \in 1 .. (d - 1) - 1 + 1 : a[k] = Under[1 + k - 1]
    <3> DEFINE m == d - 1
    <3>1. m \in Int
      BY <2>1
    <3> HIDE DEF m
    <3> SUFFICES /\ SubSeq(Under, 1, m) \in Seq(Idx)
                 /\ Len(SubSeq(Under, 1, m)) = (IF 1 <= m THEN m - 1 + 1 ELSE 0)
                 /\ \A k \in 1 .. m - 1 + 1 : SubSeq(Under, 1, m)[k] = Under[1 + k - 1]
      BY Zenon DEF m
    <3>2. \A k \in 1 .. m : Under[k] \in Idx
      BY <2>1 DEF m
    <3> QED
      BY <2>1, <3>1, <3>2, SubSeqProperties
  <2> HIDE DEF a
  <2> QED
    BY <1>1, <2>2
<1>3. b \in Seq(Idx) /\ Len(b) = n - d /\ \A k \in 1 .. n - d : b[k] = Under[d + k]
  <2>1. d + 1 \in Int /\ n \in Int /\ \A k \in d + 1 .. n : Under[k] \in Idx
    BY <1>1
  <2>2. b \in Seq(Idx) /\ Len(b) = (IF d + 1 <= n THEN n - (d + 1) + 1 ELSE 0)
        /\ \A k \in 1 .. n - (d + 1) + 1 : b[k] = Under[(d + 1) + k - 1]
    <3> DEFINE m == d + 1
    <3>1. m \in Int
      BY <2>1
    <3> HIDE DEF m
    <3> SUFFICES /\ SubSeq(Under, m, n) \in Seq(Idx)
                 /\ Len(SubSeq(Under, m, n)) = (IF m <= n THEN n - m + 1 ELSE 0)
                 /\ \A k \in 1 .. n - m + 1 : SubSeq(Under, m, n)[k] = Under[m + k - 1]
      BY Zenon DEF m
    <3>2. \A k \in m .. n : Under[k] \in Idx
      BY <2>1 DEF m
    <3> HIDE DEF n
    <3> QED
      BY <2>1, <3>1, <3>2, SubSeqProperties
  <2> HIDE DEF b
  <2>3. ASSUME NEW k \in 1 .. n - d PROVE b[k] = Under[d + k]
    <3>1. k \in 1 .. n - (d + 1) + 1 /\ (d + 1) + k - 1 = d + k
      BY <1>1
    <3> QED
      BY <2>2, <3>1
  <2> QED
    BY <1>1, <2>2, <2>3
<1> HIDE DEF a, b
<1>4. /\ a \o b \in Seq(Idx) /\ Len(a \o b) = Len(a) + Len(b)
      /\ \A k \in 1 .. Len(a) + Len(b) :
            (a \o b)[k] = IF k <= Len(a) THEN a[k] ELSE b[k - Len(a)]
  BY <1>2, <1>3, ConcatProperties, ZenonT(60)
<1>5. ASSUME NEW k \in 1 .. n - 1 PROVE Under'[k] = (a \o b)[k]
  <2>1. CASE k <= d - 1
    BY <1>1, <1>2, <1>3, <1>4, <2>1
  <2>2. CASE ~(k <= d - 1)
    <3>0. Len(a) = d - 1 /\ Len(b) = n - d
      BY <1>2, <1>3
    <3>1. k \in d .. n - 1 /\ k - Len(a) \in 1 .. n - d /\ d + (k - Len(a)) = k + 1
          /\ k \in 1 .. Len(a) + Len(b) /\ ~(k <= Len(a))
      BY <1>1, <2>2, <3>0
    <3>2. Under'[k] = Under[k + 1] /\ (a \o b)[k] = b[k - Len(a)]
      BY <1>4, <3>1
    <3>3. b[k - Len(a)] = Under[k + 1]
      BY <1>3, <3>1
    <3> QED
      BY <3>2, <3>3
  <2> QED
    BY <2>1, <2>2
<1>6. Len(a \o b) = n - 1
  BY <1>1, <1>2, <1>3, <1>4
<1>7. Under' = a \o b
  BY <1>1, <1>4, <1>5, <1>6, SeqEqual
<1> QED
  BY <1>7 DEF a, b

\* What each step of PacketPipe is for the buffer.
LEMMA PipeSteps ==
    /\ \A i \in Idx : ~closed /\ Under' = Append(Under, i) /\ UNCHANGED <<held, closed, late>>
          => Pipe!Accept(i)
    /\ \A d \in DOMAIN Under :
          /\ Under' = SubSeq(Under, 1, d - 1) \o SubSeq(Under, d + 1, Len(Under))
          /\ UNCHANGED <<held, closed, late>>
          => Pipe!Drop(d)
    /\ Under' = Under /\ UNCHANGED <<held, closed, late>> => UNCHANGED Pipe!pipeVars
    /\ /\ Under # <<>> /\ held = <<>> /\ IdxOf(held') = <<Head(Under)>> /\ Under' = Tail(Under)
       /\ IF closed THEN late = 0 /\ late' = 1 ELSE late' = late
       /\ closed' = closed
       => Pipe!HandOut
    /\ IdxOf(held) # <<>> /\ IdxOf(held') = <<>> /\ Under' = Under /\ UNCHANGED <<closed, late>>
          => Pipe!GiveBack
    /\ ~closed /\ closed' = TRUE /\ Under' = Under /\ UNCHANGED <<held, late>> => Pipe!End
<1>1. IdxOf(<<>>) = <<>>
  BY DEF IdxOf
<1>2. held' = held => IdxOf(held') = IdxOf(held)
  OBVIOUS
<1>3. \A i \in Idx : ~closed /\ Under' = Append(Under, i) /\ UNCHANGED <<held, closed, late>>
          => Pipe!Accept(i)
  BY <1>2 DEF Under, Pipe!Accept
<1>4. \A d \in DOMAIN Under :
          /\ Under' = SubSeq(Under, 1, d - 1) \o SubSeq(Under, d + 1, Len(Under))
          /\ UNCHANGED <<held, closed, late>>
          => Pipe!Drop(d)
  BY <1>2 DEF Under, Pipe!Drop
<1>5. Under' = Under /\ UNCHANGED <<held, closed, late>> => UNCHANGED Pipe!pipeVars
  BY <1>2 DEF Under, Pipe!pipeVars
<1>6. /\ Under # <<>> /\ held = <<>> /\ IdxOf(held') = <<Head(Under)>> /\ Under' = Tail(Under)
      /\ IF closed THEN late = 0 /\ late' = 1 ELSE late' = late
      /\ closed' = closed
      => Pipe!HandOut
  BY <1>1 DEF Under, Pipe!HandOut
<1>7. IdxOf(held) # <<>> /\ IdxOf(held') = <<>> /\ Under' = Under /\ UNCHANGED <<closed, late>>
          => Pipe!GiveBack
  BY DEF Under, Pipe!GiveBack
<1>8. ~closed /\ closed' = TRUE /\ Under' = Under /\ UNCHANGED <<held, late>> => Pipe!End
  BY <1>2 DEF Under, Pipe!End
<1> QED
  BY <1>3, <1>4, <1>5, <1>6, <1>7, <1>8

\* Write before Bind: the packet goes to the end of pPackets.
LEMMA WritePendingPipe ==
    ASSUME BufferIInv, UnderShape, UnderShape', NEW i \in Idx, NEW kind, NEW due,
           Write(i, kind, due), WritePending(i, kind)
    PROVE  Pipe!Accept(i)
<1>1. ~closed /\ phase = "unbound" /\ phase' = "unbound" /\ bindPos' = bindPos
      /\ extPackets' = extPackets /\ UNCHANGED <<held, closed, late>>
      /\ order' = Append(order, i)
  BY DEF Write, WritePending, readVars
<1>2. bindPos = 0 /\ order \in Seq(Idx) /\ Len(order) \in Nat
  BY <1>1 DEF BufferIInv, OrderInv, PhaseInv
<1>3. Len(order') = Len(order) + 1 /\ order'[Len(order) + 1] = i
      /\ \A k \in 1 .. Len(order) : order'[k] = order[k]
  BY <1>1, <1>2
<1> DEFINE n == Len(extPackets)
           m == Len(order)
<1>4. Waits = m /\ Waits' = m + 1 /\ n \in Nat
  BY <1>1, <1>2, <1>3 DEF Waits, UnderShape
<1>5. Len(Under) = n + m /\ Len(Under') = n + m + 1
  BY <1>1, <1>2, <1>4 DEF UnderShape
<1>6. /\ \A k \in 1 .. n : Under'[k] = Under[k]
      /\ \A k \in 1 .. m : Under[n + k] = order[k]
      /\ \A k \in 1 .. m + 1 : Under'[n + k] = order'[k]
  <2>1. \A k \in 1 .. m + 1 : 0 + k = k
    BY <1>2
  <2>2. \A k \in 1 .. n : Under[k] = extPackets[k].idx
    BY DEF UnderShape
  <2>3. \A k \in 1 .. n : Under'[k] = extPackets[k].idx
    BY <1>1 DEF UnderShape
  <2>4. \A k \in 1 .. m : Under[n + k] = order[0 + k]
    BY <1>2, <1>4 DEF UnderShape
  <2>5. \A k \in 1 .. m + 1 : Under'[n + k] = order'[0 + k]
    BY <1>1, <1>2, <1>4 DEF UnderShape
  <2> QED
    BY <1>2, <2>1, <2>2, <2>3, <2>4, <2>5
<1>7. ASSUME NEW k \in 1 .. n + m PROVE Under'[k] = Under[k]
  <2>1. CASE k <= n
    BY <1>2, <1>4, <1>6, <2>1
  <2>2. CASE ~(k <= n)
    <3> DEFINE j == k - n
    <3>1. j \in 1 .. m /\ k = n + j /\ j \in 1 .. m + 1
      BY <1>2, <1>4, <2>2
    <3> HIDE DEF j
    <3>2. Under[n + j] = order[j] /\ Under'[n + j] = order'[j] /\ order'[j] = order[j]
      BY <1>3, <1>6, <3>1
    <3> QED
      BY <3>1, <3>2
  <2> QED
    BY <2>1, <2>2
<1>8. Under'[n + m + 1] = i
  <2>1. m + 1 \in 1 .. m + 1 /\ n + m + 1 = n + (m + 1)
    BY <1>2, <1>4
  <2> QED
    BY <1>3, <1>6, <2>1
<1>9. Under' = Append(Under, i)
  BY <1>5, <1>7, <1>8, UnderAppends
<1> QED
  BY <1>1, <1>9, PipeSteps

\* Write after Bind: the packet goes to the end of extPackets, or nowhere.
LEMMA WriteBoundPipe ==
    ASSUME BufferIInv, CalcIInv, CalcIInv', UnderShape, UnderShape',
           NEW i \in Idx, NEW kind \in Kinds, NEW due \in DueChoices,
           Write(i, kind, due), WriteBound(i, kind, due)
    PROVE  Pipe!Accept(i) \/ UNCHANGED Pipe!pipeVars
<1>1. ~closed /\ phase = "bound" /\ phase' = "bound" /\ extPackets' = extPackets \o out'
      /\ UNCHANGED <<held, closed, late>> /\ Calc(Packet(i, kind), due)
  BY DEF Write, WriteBound, readVars
<1> DEFINE n == Len(extPackets)
<1>2. Waits = 0 /\ Waits' = 0 /\ extPackets \in Seq(Handed) /\ n \in Nat
  BY <1>1 DEF Waits, BufferIInv, ReadInv
<1>3. \/ out' = <<>>
      \/ \E ep \in Handed : out' = <<ep>> /\ ep.idx = i
  <2>1. MayArrive(i, top)
    BY WriteBoundOrder DEF BufferIInv
  <2> QED
    BY <1>1, <2>1, HandedIsPlaced
<1>4. Len(Under) = n /\ Len(Under') = Len(extPackets')
      /\ \A k \in 1 .. n : Under[k] = extPackets[k].idx
  BY <1>2 DEF UnderShape
<1>5. \A k \in 1 .. Len(extPackets') : Under'[k] = extPackets'[k].idx
  BY DEF UnderShape
<1>6. CASE out' = <<>>
  <2>1. extPackets' = extPackets
    BY <1>1, <1>2, <1>6
  <2>2. Under' = Under
    BY <1>4, <1>5, <2>1, UnderStays
  <2> QED
    BY <1>1, <2>2, PipeSteps
<1>7. ASSUME NEW ep \in Handed, out' = <<ep>>, ep.idx = i PROVE Pipe!Accept(i)
  <2>1. Len(extPackets') = n + 1 /\ extPackets'[n + 1] = ep
        /\ \A k \in 1 .. n : extPackets'[k] = extPackets[k]
    BY <1>1, <1>2, <1>7
  <2>2. Len(Under') = n + 1 /\ Under'[n + 1] = i
        /\ \A k \in 1 .. n : Under'[k] = Under[k]
    BY <1>2, <1>4, <1>5, <1>7, <2>1
  <2>3. Under' = Append(Under, i)
    BY <1>4, <2>2, UnderAppends
  <2> QED
    BY <1>1, <2>3, PipeSteps
<1> QED
  BY <1>3, <1>6, <1>7

\* Bind handles a packet: it moves to extPackets, where it was in line, or is dropped.
LEMMA BindPendingPipe ==
    ASSUME BufferIInv, CalcIInv, CalcIInv', UnderShape, UnderShape',
           NEW due \in DueChoices, BindPending(due)
    PROVE  (\E d \in DOMAIN Under : Pipe!Drop(d)) \/ UNCHANGED Pipe!pipeVars
<1>1. phase = "binding" /\ phase' = "binding" /\ extPackets' = extPackets \o out'
      /\ bindPos < Len(pPackets) /\ bindPos' = bindPos + 1 /\ order' = order
      /\ UNCHANGED <<held, closed, late>>
  BY DEF BindPending, readVars
<1> DEFINE n == Len(extPackets)
           w == Len(order) - bindPos
           i == order[bindPos + 1]
<1>2. extPackets \in Seq(Handed) /\ n \in Nat /\ bindPos \in Nat /\ Len(order) \in Nat
      /\ w \in Nat /\ w >= 1 /\ Waits = w /\ Waits' = w - 1
  BY <1>1 DEF Waits, BufferIInv, ReadInv, PhaseInv, OrderInv
<1>3. \/ out' = <<>>
      \/ \E ep \in Handed : out' = <<ep>> /\ ep.idx = i
  <2>1. PICK j \in Idx, kind \in Kinds :
           j = i /\ MayArrive(j, top) /\ Calc(Packet(j, kind), due)
    BY BindPendingOrder DEF BufferIInv
  <2> QED
    BY <2>1, HandedIsPlaced
<1>4. Len(Under) = n + w /\ Len(Under') = Len(extPackets') + (w - 1)
  BY <1>2 DEF UnderShape
<1>5. /\ \A k \in 1 .. n : Under[k] = extPackets[k].idx
      /\ \A k \in 1 .. Len(extPackets') : Under'[k] = extPackets'[k].idx
      /\ \A k \in 1 .. w : Under[n + k] = order[bindPos + k]
      /\ \A k \in 1 .. w - 1 : Under'[Len(extPackets') + k] = order[(bindPos + 1) + k]
  BY <1>1, <1>2 DEF UnderShape
<1> HIDE DEF w
<1>6. CASE out' = <<>>
  <2>1. extPackets' = extPackets
    BY <1>1, <1>2, <1>6
  <2>2. Len(Under') = Len(Under) - 1 /\ n + 1 \in 1 .. Len(Under)
    BY <1>2, <1>4, <2>1
  <2>3. \A k \in 1 .. (n + 1) - 1 : Under'[k] = Under[k]
    BY <1>2, <1>5, <2>1
  <2>4. ASSUME NEW k \in n + 1 .. Len(Under) - 1 PROVE Under'[k] = Under[k + 1]
    <3> DEFINE j == k - n
    <3>1. j \in 1 .. w - 1 /\ j + 1 \in 1 .. w /\ k = n + j /\ k + 1 = n + (j + 1)
          /\ bindPos + (j + 1) = (bindPos + 1) + j
      BY <1>2, <1>4
    <3> HIDE DEF j
    <3>2. Under'[n + j] = order[(bindPos + 1) + j] /\ Under[n + (j + 1)] = order[bindPos + (j + 1)]
      BY <1>5, <2>1, <3>1
    <3> QED
      BY <3>1, <3>2
  <2>5. n + 1 \in DOMAIN Under
    BY <2>2 DEF UnderShape
  <2> DEFINE d == n + 1
  <2> HIDE DEF n
  <2>6. Under' = SubSeq(Under, 1, d - 1) \o SubSeq(Under, d + 1, Len(Under))
    <3> d \in 1 .. Len(Under)
      BY <2>2
    <3> HIDE DEF d
    <3>1. \A k \in 1 .. d - 1 : Under'[k] = Under[k]
      BY <2>3 DEF d
    <3>2. \A k \in d .. Len(Under) - 1 : Under'[k] = Under[k + 1]
      BY <2>4 DEF d
    <3> QED
      BY <2>2, <3>1, <3>2, UnderDrops
  <2> HIDE DEF d
  <2>7. d \in DOMAIN Under
    BY <2>5 DEF d
  <2> QED
    BY <1>1, <2>6, <2>7, PipeSteps
<1>7. ASSUME NEW ep \in Handed, out' = <<ep>>, ep.idx = i PROVE UNCHANGED Pipe!pipeVars
  <2>1. Len(extPackets') = n + 1 /\ extPackets'[n + 1] = ep
        /\ \A k \in 1 .. n : extPackets'[k] = extPackets[k]
    BY <1>1, <1>2, <1>7
  <2>2. Len(Under') = Len(Under)
    BY <1>2, <1>4, <2>1
  <2>3. ASSUME NEW k \in 1 .. Len(Under) PROVE Under'[k] = Under[k]
    <3>1. CASE k <= n
      <4>1. k \in 1 .. n /\ k \in 1 .. Len(extPackets')
        BY <1>2, <1>4, <2>1, <3>1
      <4> QED
        BY <1>5, <2>1, <4>1
    <3>2. CASE k = n + 1
      <4>1. k \in 1 .. Len(extPackets') /\ 1 \in 1 .. w /\ k = n + 1
        BY <1>2, <2>1, <3>2
      <4>2. Under'[k] = ep.idx /\ Under[k] = order[bindPos + 1]
        BY <1>5, <2>1, <4>1
      <4> QED
        BY <1>7, <4>2
    <3>3. CASE k > n + 1
      <4> DEFINE j == k - (n + 1)
      <4>1. j \in 1 .. w - 1 /\ j + 1 \in 1 .. w /\ k = (n + 1) + j /\ k = n + (j + 1)
            /\ bindPos + (j + 1) = (bindPos + 1) + j
        BY <1>2, <1>4, <3>3
      <4> HIDE DEF j
      <4>2. Under'[(n + 1) + j] = order[(bindPos + 1) + j] /\ Under[n + (j + 1)] = order[bindPos + (j + 1)]
        BY <1>5, <2>1, <4>1
      <4> QED
        BY <4>1, <4>2
    <3> QED
      BY <1>2, <1>4, <3>1, <3>2, <3>3
  <2>4. Under' = Under
    BY <2>2, <2>3, UnderStays
  <2> QED
    BY <1>1, <2>4, PipeSteps
<1> QED
  BY <1>3, <1>6, <1>7

\* Steps that move no packet.
LEMMA OtherUnder ==
    ASSUME BufferIInv, UnderShape, UnderShape', UNCHANGED <<extPackets, order, bindPos>>,
           \/ phase' = phase
           \/ phase = "unbound" /\ phase' = "binding"
           \/ phase = "binding" /\ phase' = "bound" /\ bindPos = Len(pPackets)
    PROVE  Under' = Under
<1>1. Waits' = Waits
  BY DEF Waits, BufferIInv, PhaseInv, OrderInv
<1>2. Len(Under') = Len(Under)
  BY <1>1 DEF UnderShape
<1>3. ASSUME NEW k \in 1 .. Len(Under) PROVE Under'[k] = Under[k]
  <2> DEFINE n == Len(extPackets)
  <2>0. n \in Nat /\ Waits \in Nat /\ Len(Under) = n + Waits
    BY DEF UnderShape
  <2>1. CASE k <= n
    <3>1. k \in 1 .. n
      BY <2>0, <2>1
    <3> QED
      BY <3>1 DEF UnderShape
  <2>2. CASE ~(k <= n)
    <3> DEFINE j == k - n
    <3>1. j \in 1 .. Waits /\ k = n + j
      BY <2>0, <2>2
    <3> HIDE DEF j
    <3>2. Under[n + j] = order[bindPos + j] /\ Under'[n + j] = order[bindPos + j]
      BY <1>1, <3>1 DEF UnderShape
    <3> QED
      BY <3>1, <3>2
  <2> QED
    BY <2>1, <2>2
<1> QED
  BY <1>2, <1>3, UnderStays

\* ReadExtended takes the packet in front, and after Close only the first one.
LEMMA PopPipe ==
    ASSUME BufferIInv, UnderShape, UnderShape', ReadExtendedPop
    PROVE  Pipe!HandOut \/ UNCHANGED Pipe!pipeVars
<1>1. extReader = "pop" /\ UNCHANGED <<phase, bindPos, closed, order>>
  BY DEF ReadExtendedPop
<1>2. extPackets \in Seq(Handed) /\ late = 0
      /\ closed \in BOOLEAN
  BY <1>1 DEF BufferIInv, ReadInv
<1>3. held = <<>>
  BY <1>1 DEF BufferIInv, ReadInv
<1>4. CASE extPackets = <<>>
  <2>1. UNCHANGED <<extPackets, held, late, closed>>
    BY <1>4 DEF ReadExtendedPop
  <2>2. Under' = Under
    BY <1>1, <2>1, OtherUnder
  <2> QED
    BY <2>1, <2>2, PipeSteps
<1>5. CASE extPackets # <<>>
  <2> DEFINE n == Len(extPackets)
  <2>1. held' = <<Head(extPackets)>> /\ extPackets' = Tail(extPackets)
        /\ late' = IF closed THEN late + 1 ELSE late
    BY <1>5 DEF ReadExtendedPop
  <2>2. n \in Nat /\ n >= 1 /\ Len(extPackets') = n - 1 /\ Head(extPackets) = extPackets[1]
        /\ \A k \in 1 .. n - 1 : extPackets'[k] = extPackets[k + 1]
    <3>1. n \in Nat /\ n # 0
      BY <1>2, <1>5, EmptySeq, LenProperties
    <3>2. Len(Tail(extPackets)) = n - 1
          /\ \A k \in 1 .. n - 1 : Tail(extPackets)[k] = extPackets[k + 1]
          /\ Head(extPackets) = extPackets[1]
      <4> DEFINE S == Handed
      <4> HIDE DEF S
      <4>1. extPackets \in Seq(S) /\ extPackets # <<>>
        BY <1>2, <1>5 DEF S
      <4> QED
        BY <4>1, HeadTailProperties
    <3> QED
      BY <2>1, <3>1, <3>2
  <2>3. Waits' = Waits /\ Waits \in Nat
    BY <1>1 DEF Waits, UnderShape
  <2>4. Under \in Seq(Idx) /\ Under' \in Seq(Idx) /\ Len(Under) = n + Waits
        /\ Len(Under') = Len(Under) - 1
    BY <2>2, <2>3 DEF UnderShape
  <2>5. Under # <<>> /\ Head(Under) = Under[1] /\ Tail(Under) \in Seq(Idx)
        /\ Len(Tail(Under)) = Len(Under) - 1
        /\ \A k \in 1 .. Len(Under) - 1 : Tail(Under)[k] = Under[k + 1]
    BY <2>2, <2>3, <2>4
  <2>6. /\ \A k \in 1 .. n : Under[k] = extPackets[k].idx
        /\ \A k \in 1 .. n - 1 : Under'[k] = extPackets'[k].idx
        /\ \A k \in 1 .. Waits : Under[n + k] = order[bindPos + k]
        /\ \A k \in 1 .. Waits : Under'[(n - 1) + k] = order[bindPos + k]
    BY <1>1, <2>2, <2>3 DEF UnderShape
  <2>7. ASSUME NEW k \in 1 .. Len(Under) - 1 PROVE Under'[k] = Tail(Under)[k]
    <3>0. Tail(Under)[k] = Under[k + 1]
      BY <2>5
    <3>1. CASE k <= n - 1
      <4>1. k \in 1 .. n - 1 /\ k + 1 \in 1 .. n
        BY <2>2, <3>1
      <4> QED
        BY <2>2, <2>6, <3>0, <4>1
    <3>2. CASE ~(k <= n - 1)
      <4> DEFINE j == k - (n - 1)
      <4>1. j \in 1 .. Waits /\ k = (n - 1) + j /\ k + 1 = n + j
        BY <2>2, <2>3, <2>4, <3>2
      <4> HIDE DEF j
      <4>2. Under'[(n - 1) + j] = order[bindPos + j] /\ Under[n + j] = order[bindPos + j]
        BY <2>6, <4>1
      <4> QED
        BY <3>0, <4>1, <4>2
    <3> QED
      BY <3>1, <3>2
  <2>8. Under' = Tail(Under)
    BY <2>4, <2>5, <2>7, SeqEqual
  <2>9. IdxOf(held') = <<Head(Under)>>
    <3>1. Head(Under) = Head(extPackets).idx
      BY <2>2, <2>5, <2>6
    <3>2. \A x : IdxOf(<<x>>) = <<x.idx>>
      BY DEF IdxOf
    <3> QED
      BY <2>1, <3>1, <3>2
  <2>10. IF closed THEN late = 0 /\ late' = 1 ELSE late' = late
    BY <1>2, <2>1
  <2> QED
    BY <1>1, <1>3, <2>5, <2>8, <2>9, <2>10, PipeSteps
<1> QED
  BY <1>4, <1>5

\* Every step of the buffer is a step of the pipe or none.
LEMMA PipeStep ==
    /\ BufferIInv /\ CalcIInv /\ UnderShape /\ BufferIInv' /\ CalcIInv' /\ UnderShape'
    /\ [BufferNext]_bufferVars
    => [Pipe!PipeNext]_(Pipe!pipeVars)
<1> SUFFICES ASSUME BufferIInv, CalcIInv, UnderShape, CalcIInv', UnderShape',
                    [BufferNext]_bufferVars
             PROVE  Pipe!PipeNext \/ UNCHANGED Pipe!pipeVars
  OBVIOUS
<1>1. ASSUME NEW i \in Idx, NEW kind \in Kinds, NEW due \in DueChoices, Write(i, kind, due)
      PROVE  Pipe!PipeNext \/ UNCHANGED Pipe!pipeVars
  <2>1. CASE WritePending(i, kind)
    BY <1>1, <2>1, WritePendingPipe DEF Pipe!PipeNext
  <2>2. CASE WriteBound(i, kind, due)
    BY <1>1, <2>2, WriteBoundPipe DEF Pipe!PipeNext
  <2> QED
    BY <1>1, <2>1, <2>2 DEF Write
<1>2. ASSUME NEW due \in DueChoices, BindPending(due)
      PROVE  Pipe!PipeNext \/ UNCHANGED Pipe!pipeVars
  BY <1>2, BindPendingPipe DEF Pipe!PipeNext, Under
<1>3. CASE Bind
  <2>1. Under' = Under /\ UNCHANGED <<held, closed, late>>
    BY <1>3, OtherUnder DEF Bind, readVars
  <2> QED
    BY <2>1, PipeSteps
<1>4. CASE BindDone
  <2>1. Under' = Under /\ UNCHANGED <<held, closed, late>>
    BY <1>4, OtherUnder DEF BindDone, readVars
  <2> QED
    BY <2>1, PipeSteps
<1>5. CASE Close
  <2>1. Under' = Under /\ UNCHANGED <<held, late>> /\ ~closed /\ closed' = TRUE
    BY <1>5, OtherUnder DEF Close, readVars
  <2> QED
    BY <2>1, PipeSteps DEF Pipe!PipeNext
<1>6. CASE ReadExtendedPop
  BY <1>6, PopPipe DEF Pipe!PipeNext
<1>7. CASE Forward
  <2>1. Under' = Under /\ UNCHANGED <<closed, late>> /\ held' = <<>> /\ extReader = "forward"
    BY <1>7, OtherUnder DEF Forward
  <2>2. PICK ep \in Handed : held = <<ep>>
    BY <2>1 DEF BufferIInv, ReadInv
  <2>3. IdxOf(held) = <<ep.idx>> /\ IdxOf(held') = <<>>
    BY <2>1, <2>2 DEF IdxOf
  <2> QED
    BY <2>1, <2>3, PipeSteps DEF Pipe!PipeNext
<1>8. CASE ReadExtendedCheck \/ ReadCheck \/ ReadTake \/ UNCHANGED bufferVars
  <2>1. Under' = Under /\ UNCHANGED <<held, closed, late>>
    BY <1>8, OtherUnder DEF ReadExtendedCheck, ReadCheck, ReadTake, bufferVars, lifeVars, readVars
  <2> QED
    BY <2>1, PipeSteps
<1> QED
  BY <1>1, <1>2, <1>3, <1>4, <1>5, <1>6, <1>7, <1>8 DEF BufferNext

\* ReadExtended keeps the promise of PacketPipe for every interleaving: packets come
\* out in the order Write accepted them, each at most once, and after Close at most
\* one more.
THEOREM ReaderGetsPipe == BufferSpec => ImplementsPipe
<1>1. BufferInit => Pipe!PipeInit
  <2> SUFFICES ASSUME BufferInit PROVE Pipe!PipeInit
    OBVIOUS
  <2>1. extPackets = <<>> /\ pPackets = <<>> /\ held = <<>> /\ closed = FALSE /\ late = 0
        /\ bindPos = 0
    BY DEF BufferInit
  <2>2. IdxOf(<<>>) = <<>>
    BY DEF IdxOf
  <2>3. extPackets \o SubSeq(pPackets, bindPos + 1, Len(pPackets)) = <<>>
    BY <2>1
  <2> QED
    BY <2>1, <2>2, <2>3 DEF Pipe!PipeInit
<1> QED
  BY <1>1, LifeInvariant, UnderIs, PipeStep, PTL
     DEF BufferSpec, ImplementsPipe, Pipe!PipeSpec
=============================================================================
