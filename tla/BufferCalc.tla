----------------------------- MODULE BufferCalc -----------------------------
(***************************************************************************)
(* What the receive buffer does with one RTP packet: Buffer.calc of        *)
(* buffer/buffer.go, which runs with the buffer locked.  It follows the    *)
(* head of the stream across sequence-number wraps, files the packet in    *)
(* the ring (Bucket), keeps the queue of missing packets (NackQueue),      *)
(* hands the packet on, and produces RTCP feedback for the publisher.      *)
(*                                                                         *)
(* The stream is numbered by idx = 0, 1, 2, ...: the sender puts sequence  *)
(* number SnOf(idx) on packet idx, and the network loses, repeats and      *)
(* reorders packets within the window Late .. Jump around the newest.      *)
(* The variables from `top` on are history: no action of the code reads    *)
(* them, the properties do.                                                *)
(***************************************************************************)
EXTENDS Bucket, NackQueue

CONSTANTS Late,         \* how far behind the newest packet one may arrive
          Jump,         \* how far ahead of the newest packet one may arrive
          MaxIdx,       \* bound: last packet of the stream
          MaxWrites,    \* bound: packets delivered by the network
          ProbeWindow,  \* 25: packets during which baseSN may still move down
          Origins,      \* sequence numbers the stream may start with
          Kinds,        \* what a payload may be, subset of AllKinds
          NackChoices,  \* was NACK negotiated: subset of BOOLEAN
          DueChoices,   \* may a report fall due: subset of BOOLEAN
          Leftovers     \* what pool memory may read as: 0 is fresh memory

\* A packet the RTP parser rejects, one whose payload descriptor is too short
\* (padding only), and media.
AllKinds == {"unparsable", "padding", "media"}

ASSUME StreamAssumption ==
    /\ Late \in Nat /\ Jump \in Nat \ {0} /\ Late + Jump < Half
    /\ MaxIdx \in Nat /\ Late <= MaxIdx /\ MaxIdx + SNSpace < U32
    /\ MaxWrites \in Nat /\ ProbeWindow \in Nat
    /\ Origins \subseteq SN /\ Leftovers \subseteq SN
    /\ Kinds \subseteq AllKinds /\ NackChoices \subseteq BOOLEAN
    /\ DueChoices \subseteq BOOLEAN

VARIABLES
    origin,         \* sequence number of packet 0 (the sender's choice)
    nackOn,         \* b.nack
    bucket,         \* b.bucket
    nacks, kfSN,    \* b.nacker
    maxSeqNo, cycles, baseSN,
    packetCount,    \* b.stats.PacketCount
    minPacketProbe,
    lastExpected, lastReceived,     \* b.stats
    err,            \* what AddPacket returned to the last calc
    feedback,       \* what the last calc gave to feedbackCB
    out,            \* what the last calc pushed on extPackets: <<>> or one packet
    \* history
    top,            \* highest idx handled, -1 before the first
    last,           \* idx of the last packet handled
    writes,         \* packets handled
    head, anchor,   \* idx of maxSeqNo's packet, idx at which counting started
    arrived,        \* packets handled since anchor
    stored,         \* packets the ring took
    counted,        \* packets in packetCount
    lost,           \* packets skipped by the head while NACK is on
    misfiled,       \* of those, the ones filed under a wrong extended number
    overflowed,     \* the queue of missing packets has hit its limit
    aligned,        \* no skip has lost its place in the ring
    reportedHead,   \* head at the last report
    backfilled,     \* since then, a packet at or below it has been counted
    chances,        \* per packet: NACK rounds it was due in while missing
    asked           \* per packet: NACK rounds that named it on the wire

nackVars == <<nacks, kfSN>>
statVars == <<baseSN, packetCount, minPacketProbe, lastExpected, lastReceived>>
codeVars == <<nackOn, bucket, nackVars, maxSeqNo, cycles, statVars, err, feedback, out>>
history == <<top, last, writes, head, anchor, arrived, stored, counted, lost, misfiled,
             overflowed, aligned, reportedHead, backfilled, chances, asked>>
calcVars == <<origin, codeVars, history>>

Idx == 0 .. MaxIdx

SnOf(i) == (origin + i) % SNSpace

Packet(i, kind) == [idx |-> i, sn |-> SnOf(i), kind |-> kind]

\* The extended number of packet i, had it been counted without error
Ext(i) == SnOf(anchor) + i - anchor

NoFeedback == [nack |-> {}, pli |-> FALSE, report |-> {}]

CalcInit ==
    /\ origin \in Origins
    /\ nackOn \in NackChoices
    /\ \E fill \in Leftovers : bucket = NewBucket(fill)
    /\ nacks = <<>> /\ kfSN = 0
    /\ maxSeqNo = 0 /\ cycles = 0 /\ baseSN = 0
    /\ packetCount = 0 /\ minPacketProbe = 0
    /\ lastExpected = 0 /\ lastReceived = 0
    /\ err = "nil" /\ feedback = NoFeedback /\ out = <<>>
    /\ top = -1 /\ last = 0 /\ writes = 0 /\ head = 0 /\ anchor = 0
    /\ arrived = {} /\ stored = {} /\ counted = {}
    /\ lost = {} /\ misfiled = {} /\ overflowed = FALSE /\ aligned = TRUE
    /\ reportedHead = -1 /\ backfilled = FALSE
    /\ chances = [i \in Idx |-> 0] /\ asked = [i \in Idx |-> 0]

-----------------------------------------------------------------------------
(* The head of the stream.                                                 *)

First == packetCount = 0
Ahead(sn) == ~First /\ NotOlder(sn, maxSeqNo)
Behind(sn) == ~First /\ ~NotOlder(sn, maxSeqNo)

NextMaxSeqNo(sn) == IF First \/ Ahead(sn) THEN sn ELSE maxSeqNo

\* Mutant of NextCycles: <= for <
NextCyclesOnRepeat(sn) ==
    IF Ahead(sn) /\ sn <= maxSeqNo THEN Add32(cycles, SNSpace) ELSE cycles

NextCycles(sn) ==
    IF Ahead(sn) /\ sn < maxSeqNo THEN Add32(cycles, SNSpace) ELSE cycles

\* extSN of a packet other than the newest; `maxSeqNo` is still the old one
ExtSN(sn, cyc) ==
    IF sn > maxSeqNo /\ TopBit(sn) /\ ~TopBit(maxSeqNo)
    THEN Sub32(cyc, SNSpace) + sn
    ELSE cyc + sn

\* The loop over the packets between the old head and sn, newest first
Missing(sn) ==
    LET diff == Minus(sn, maxSeqNo)
    IN [i \in 1 .. (IF diff = 0 THEN 0 ELSE diff - 1) |-> ExtSN(Minus(sn, i), NextCycles(sn))]

\* The queue after the sequence-number part of calc
Requeued(sn) ==
    CASE nackOn /\ Ahead(sn) -> PushAll(nacks, Missing(sn))
      [] nackOn /\ Behind(sn) -> NackRemove(nacks, ExtSN(sn, cycles))
      [] OTHER -> nacks

\* buildNACKPacket
NackFeedback(q, extHead) ==
    [nack |-> Requested(NackPairs(q, extHead)),
     pli |-> NextKfSN(q, kfSN) # kfSN]

\* buildReceptionReport: the packets expected, lost in all, and lost since the last
\* report, an unsigned difference

Expected(extMax, base) == Add32(Sub32(extMax, base), 1)
TotalLost(expected, count) ==
    IF count < expected /\ count # 0 THEN expected - count ELSE 0

\* Mutant of LostInterval: what was received before is not taken off
LostIntervalForgets(expected, count) == Sub32(Sub32(expected, lastExpected), count)

LostInterval(expected, count) ==
    Sub32(Sub32(expected, lastExpected), Sub32(count, lastReceived))

-----------------------------------------------------------------------------
(* calc                                                                    *)

\* The bucket returned an error, or the packet does not parse
Rejected(pkt, q) ==
    /\ nacks' = q
    /\ feedback' = NoFeedback /\ out' = <<>>
    /\ UNCHANGED <<kfSN, packetCount, minPacketProbe, lastExpected, lastReceived>>
    /\ baseSN' = IF First THEN pkt.sn ELSE baseSN

\* Counted, but the payload descriptor does not parse
NotForwarded(pkt, q) ==
    /\ nacks' = q
    /\ packetCount' = packetCount + 1
    /\ feedback' = NoFeedback /\ out' = <<>>
    /\ UNCHANGED <<kfSN, minPacketProbe, lastExpected, lastReceived>>
    /\ baseSN' = IF First THEN pkt.sn ELSE baseSN

\* The whole of calc; `due` says that reportDelta has passed since lastReport,
\* which the first packet sets to its own arrival
Forwarded(pkt, q, slot, due) ==
    LET extHead == cycles' + maxSeqNo'
        fb == IF nackOn THEN NackFeedback(q, extHead)
              ELSE [nack |-> {}, pli |-> FALSE]
        base == IF First THEN pkt.sn ELSE baseSN
        expected == Expected(extHead, baseSN')
    IN /\ due => ~First
       /\ packetCount' = packetCount + 1
       /\ baseSN' = IF minPacketProbe < ProbeWindow /\ pkt.sn < base THEN pkt.sn ELSE base
       /\ minPacketProbe' = IF minPacketProbe < ProbeWindow THEN minPacketProbe + 1
                            ELSE minPacketProbe
       /\ out' = << [idx |-> pkt.idx, sn |-> pkt.sn, slot |-> slot,
                     head |-> pkt.sn = maxSeqNo', cycle |-> cycles'] >>
       /\ nacks' = IF nackOn THEN Renacked(q, extHead) ELSE q
       /\ kfSN' = IF nackOn THEN NextKfSN(q, kfSN) ELSE kfSN
       /\ feedback' = [nack |-> fb.nack, pli |-> fb.pli,
                        report |-> IF ~due THEN {}
                                   ELSE {[total |-> TotalLost(expected, packetCount'),
                                          interval |-> LostInterval(expected, packetCount')]}]
       /\ IF due
          THEN /\ lastExpected' = expected
               /\ lastReceived' = packetCount'
          ELSE UNCHANGED <<lastExpected, lastReceived>>

\* History of one calc
Remember(pkt, q, add) ==
    LET newHead == First \/ Ahead(pkt.sn)
        skipped == IF nackOn /\ Ahead(pkt.sn) THEN head + 1 .. pkt.idx - 1 ELSE {}
        gap == Gap(bucket, pkt.sn)
        due == {i \in lost' \ arrived' : nackOn /\ out' # <<>> /\ head' - i > 2}
    IN /\ top' = IF pkt.idx > top THEN pkt.idx ELSE top
       /\ last' = pkt.idx /\ writes' = writes + 1
       /\ head' = IF newHead THEN pkt.idx ELSE head
       /\ anchor' = IF First THEN pkt.idx ELSE anchor
       /\ arrived' = (IF First THEN {} ELSE arrived) \cup {pkt.idx}
       /\ stored' = IF add.err = "nil" THEN stored \cup {pkt.idx} ELSE stored
       /\ counted' = IF packetCount' > packetCount THEN counted \cup {pkt.idx} ELSE counted
       /\ lost' = lost \cup skipped
       /\ misfiled' = misfiled \cup
             {i \in skipped : ExtSN(SnOf(i), NextCycles(pkt.sn)) # Ext(i)}
       /\ overflowed' = (overflowed \/ Len(nacks) + Cardinality(skipped) >= MaxNackCache)
       /\ aligned' =
             (aligned /\ (newHead /\ bucket.init =>
                 /\ pkt.idx > head
                 /\ Skip(bucket.step, gap) = (bucket.step + gap) % (MaxSteps + 1)))
       /\ reportedHead' = IF feedback'.report # {} THEN head' ELSE reportedHead
       /\ backfilled' = (feedback'.report = {} /\
             (backfilled \/ (counted' # counted /\ pkt.idx <= reportedHead)))
       /\ chances' = [i \in Idx |-> IF i \in due THEN chances[i] + 1 ELSE chances[i]]
       /\ asked' = [i \in Idx |->
             IF i \in lost' /\ SnOf(i) \in feedback'.nack
             THEN asked[i] + 1 ELSE asked[i]]

Calc(pkt, due) ==
    LET q == Requeued(pkt.sn)
        add == AddPacket(bucket, pkt, pkt.sn = NextMaxSeqNo(pkt.sn))
    IN /\ maxSeqNo' = NextMaxSeqNo(pkt.sn)
       /\ cycles' = NextCycles(pkt.sn)
       /\ bucket' = add.b /\ err' = add.err
       /\ \/ /\ add.err # "nil" \/ pkt.kind = "unparsable"
             /\ ~due
             /\ Rejected(pkt, q)
          \/ /\ add.err = "nil" /\ pkt.kind = "padding"
             /\ ~due
             /\ NotForwarded(pkt, q)
          \/ /\ add.err = "nil" /\ pkt.kind = "media"
             /\ Forwarded(pkt, q, add.slot, due)
       /\ Remember(pkt, q, add)
       /\ UNCHANGED <<origin, nackOn>>

-----------------------------------------------------------------------------
(* The network: the first packet to arrive is number Late, so that packets *)
(* sent before it may still follow it.                                     *)

MayArrive(i, newest) ==
    /\ i \in Idx
    /\ IF newest = -1 THEN i = Late ELSE i >= newest - Late /\ i <= newest + Jump

CalcNext ==
    /\ writes < MaxWrites
    /\ \E i \in Idx, kind \in Kinds, due \in DueChoices :
          MayArrive(i, top) /\ Calc(Packet(i, kind), due)

CalcSpec == CalcInit /\ [][CalcNext]_calcVars

-----------------------------------------------------------------------------
(* Properties                                                              *)

\* Step and head sequence number index the ring and the number space
Ring == [init : BOOLEAN, step : Slots, headSN : SN,
         buf : [Slots -> [sn : SN, idx : Idx \cup {NoPacket}]]]

HeadTypeOK ==
    /\ nackOn \in BOOLEAN /\ maxSeqNo \in SN /\ baseSN \in SN
    /\ cycles \in 0 .. U32 - 1 /\ packetCount \in Nat

NackTypeOK ==
    /\ \A k \in DOMAIN nacks : nacks[k].sn \in 0 .. U32 - 1
                               /\ nacks[k].nacked \in 0 .. MaxNackTimes
    /\ \A i, j \in DOMAIN nacks : i < j => nacks[i].sn <= nacks[j].sn
    /\ kfSN \in 0 .. U32 - 1
    /\ cycles % SNSpace = 0 /\ feedback.nack \subseteq SN

\* Every variable of calc keeps the range its Go type and the ring give it: no
\* access outside the ring, no entry NACKed more than maxNackTimes, and the queue in
\* the order sort.Search needs, also when it is at its limit.
CalcTypeOK == bucket \in Ring /\ HeadTypeOK /\ NackTypeOK

\* Across every wrap, reordering and duplicate, cycles and maxSeqNo together
\* count the packets of the stream: the extended number the reports and the
\* NACK queue are computed from is exactly the head's.
HeadExtended == bucket.init => cycles + maxSeqNo = Ext(head)

\* While no skip has lost its place, GetPacket finds every packet the ring took
\* and that is at most MaxSteps behind the head, and finds that very packet.
RingFinds ==
    aligned => \A i \in stored :
        head - i \in 0 .. MaxSteps =>
            Found(bucket, SnOf(i)) /\ GetPacket(bucket, SnOf(i)) = i

\* An entry of the queue stands for a packet that is still missing: a late
\* arrival takes its entry out.  (Misfiled entries and a queue that has hit its
\* limit are the exceptions the code has.)
NackOnlyMissing ==
    ~overflowed => \A k \in DOMAIN nacks :
        \/ \E i \in (lost \ arrived) \ misfiled : nacks[k].sn = Ext(i)
        \/ \E i \in misfiled : Low16(nacks[k].sn) = SnOf(i)

\* A missing packet is never forgotten: it waits in the queue, or a key frame
\* has been asked for in its place.
NeverForgotten ==
    ~overflowed => \A i \in (lost \ arrived) \ misfiled :
        \/ \E k \in DOMAIN nacks : nacks[k].sn = Ext(i)
        \/ kfSN >= Ext(i)

\* No other packet with i's sequence number was lost, a lap earlier or later
OnlyLoss(i) == \A j \in lost : SnOf(j) = SnOf(i) => j = i

\* A loss with a higher number comes before i in the queue, from before the last wrap
\* or because it is misfiled: the pair opened for it may swallow i
PairWraps(i) == \E j \in lost : (j < i \/ j \in misfiled) /\ SnOf(j) > SnOf(i)

\* A missing packet is named on the wire in each NACK round it is due in, up
\* to maxNackTimes rounds and never more.  (Sequence number 0, a number lost twice, a
\* pair open across the wrap, misfiled entries and an overflowed queue excepted.)
NackRounds ==
    ~overflowed => \A i \in lost \ misfiled : OnlyLoss(i) =>
        /\ asked[i] <= MaxNackTimes
        /\ SnOf(i) # 0 /\ ~PairWraps(i) /\ i \notin arrived =>
              asked[i] >= Min({chances[i], MaxNackTimes})

\* "packet already received" is said only when the ring took a packet with that
\* sequence number before, or when unwritten memory happens to read as it.
RtxWasStored ==
    err = "errRTXPacket" =>
        (\E i \in stored : SnOf(i) = SnOf(last)) \/ SnOf(last) \in Leftovers

\* Once a packet has been counted, one the ring still holds is not handed on a
\* second time, unless it repeats the newest packet.
RepeatDropped ==
    [][ (packetCount > 0 /\ aligned /\ last' \in stored /\ head - last' \in 1 .. MaxSteps)
            => out' = <<>> ]_calcVars

\* Packets from the first to the newest that were not counted
Gone == (Min(counted) .. head) \ counted

\* No wrap, no duplicates, every packet counted within the probe window
PlainCount ==
    /\ cycles = 0 /\ minPacketProbe = packetCount /\ minPacketProbe < ProbeWindow
    /\ packetCount = Cardinality(counted) /\ \A i \in counted : Ext(i) >= 0

\* A reception report gives the number of packets between the first and the newest
\* that were not counted, and of those the ones sent since the last report (of a
\* PlainCount; the latter also unless a packet from before the last report was
\* counted since).
LostExact ==
    [][ \A r \in feedback'.report : PlainCount' =>
          /\ r.total = Cardinality(Gone')
          /\ ~backfilled /\ last' > reportedHead =>
                r.interval = Cardinality({i \in Gone' : i > reportedHead})
      ]_calcVars

-----------------------------------------------------------------------------
(* The inductive invariant behind HeadExtended, RingFinds, RtxWasStored    *)
(* and RepeatDropped                                                       *)

\* The slot of the packet d behind the head
SlotOf(step, d) == WrapPos(step - (d + 1))

\* Before the first packet
Fresh ==
    /\ top = -1 /\ First /\ cycles = 0 /\ aligned = TRUE
    /\ stored = {} /\ bucket.step = 0

\* The head is a packet of the window, counted from anchor
HeadFollowed ==
    /\ top # -1 /\ top - Late <= head /\ head <= top /\ anchor <= head
    /\ maxSeqNo = SnOf(head) /\ bucket.headSN = maxSeqNo
    /\ cycles + maxSeqNo = Ext(head)
    /\ First => anchor = head /\ cycles = 0

\* A slot is unwritten, or has a packet the ring took under its own number
SlotsAccounted ==
    \A s \in Slots :
        \/ bucket.buf[s].idx = NoPacket /\ bucket.buf[s].sn \in Leftovers
        \/ bucket.buf[s].idx \in stored /\ bucket.buf[s].sn = SnOf(bucket.buf[s].idx)

\* A packet the ring took lies as many slots before step as it is behind the head
RingInPlace ==
    aligned = TRUE => \A i \in stored :
        /\ i <= head
        /\ head - i <= MaxSteps =>
              bucket.buf[SlotOf(bucket.step, head - i)] = [sn |-> SnOf(i), idx |-> i]

CalcIInv ==
    /\ origin \in SN /\ bucket \in Ring /\ HeadTypeOK
    /\ top \in Idx \cup {-1} /\ last \in Idx /\ head \in Idx /\ anchor \in Idx
    /\ stored \subseteq Idx /\ aligned \in BOOLEAN
    /\ bucket.init = FALSE => Fresh
    /\ bucket.init = TRUE => HeadFollowed
    /\ SlotsAccounted /\ RingInPlace /\ RtxWasStored

-----------------------------------------------------------------------------
(* What the repository says and the code does not do                       *)

\* nack.go:10, "Max NACK sn the sfu will keep reference": the queue of missing
\* packets never exceeds maxNackCache entries.
NackCacheBounded == Len(nacks) <= MaxNackCache
=============================================================================
