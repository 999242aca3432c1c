------------------------------- MODULE Bucket -------------------------------
(***************************************************************************)
(* The ring of the last packets of one stream (buffer/bucket.go).          *)
(*                                                                         *)
(* A slot holds one packet; of its bytes the model keeps the sequence      *)
(* number the code reads back, and idx, the packet's place in the sender's *)
(* stream, which the code does not see: it tells two packets with the same *)
(* sequence number apart.  idx = NoPacket marks memory this stream never   *)
(* wrote (fresh zeroes, or what an earlier stream left in the pool).       *)
(***************************************************************************)
EXTENDS SeqNum

CONSTANT MaxSteps     \* index of the last slot: len(buf)/maxPktSize - 1

ASSUME MaxStepsAssumption ==
    MaxSteps \in Nat /\ MaxSteps > 0 /\ MaxSteps + 1 < Half

NoPacket == -1
Slots == 0 .. MaxSteps

\* NewBucket on memory whose every slot reads `fill` as a sequence number
NewBucket(fill) ==
    [init |-> FALSE, step |-> 0, headSN |-> 0,
     buf |-> [s \in Slots |-> [sn |-> fill, idx |-> NoPacket]]]

\* The loop of AddPacket that steps over the slots of n missing packets.  It
\* wraps at >= maxSteps, one slot earlier than push does.
Skip(step, n) ==
    CASE n = 0 -> step
      [] n > 0 /\ step = MaxSteps -> (n - 1) % MaxSteps
      [] OTHER -> (step + n) % MaxSteps

\* Mutant of Push: wraps where the loop of AddPacket does
PushWrapsEarly(b, pkt) ==
    [b EXCEPT !.buf[b.step] = [sn |-> pkt.sn, idx |-> pkt.idx],
              !.step = IF b.step + 1 >= MaxSteps THEN 0 ELSE b.step + 1]

\* push: write at step, then advance; wraps at > maxSteps
Push(b, pkt) ==
    [b EXCEPT !.buf[b.step] = [sn |-> pkt.sn, idx |-> pkt.idx],
              !.step = IF b.step + 1 > MaxSteps THEN 0 ELSE b.step + 1]

\* step - int(headSN - sn + 1), before it is brought back into the ring
RawPos(b, sn) == b.step - Plus(Minus(b.headSN, sn), 1)

WrapPos(pos) == IF pos < 0 THEN MaxSteps + pos + 1 ELSE pos

\* get: the slot that answers for sn, or none.  (off > len(buf) is never true:
\* a non-negative position is at most step.)
Found(b, sn) ==
    /\ RawPos(b, sn) >= -(MaxSteps + 1)
    /\ b.buf[WrapPos(RawPos(b, sn))].sn = sn

GetPacket(b, sn) == b.buf[WrapPos(RawPos(b, sn))].idx

\* Mutant of Set: overwrites a packet that is there already
SetOverwrites(b, pkt) ==
    LET pos == WrapPos(RawPos(b, pkt.sn))
    IN IF Minus(b.headSN, pkt.sn) >= MaxSteps + 1
       THEN [b |-> b, slot |-> 0, err |-> "errPacketTooOld"]
       ELSE [b |-> [b EXCEPT !.buf[pos] = [sn |-> pkt.sn, idx |-> pkt.idx]],
             slot |-> pos, err |-> "nil"]

\* Mutant of Set: whatever is in the slot counts as the packet
SetOccupied(b, pkt) ==
    LET pos == WrapPos(RawPos(b, pkt.sn))
    IN IF Minus(b.headSN, pkt.sn) >= MaxSteps + 1
       THEN [b |-> b, slot |-> 0, err |-> "errPacketTooOld"]
       ELSE IF b.buf[pos].sn # 0
       THEN [b |-> b, slot |-> 0, err |-> "errRTXPacket"]
       ELSE [b |-> [b EXCEPT !.buf[pos] = [sn |-> pkt.sn, idx |-> pkt.idx]],
             slot |-> pos, err |-> "nil"]

\* set: file a late packet.  The second result is the error returned.
Set(b, pkt) ==
    LET pos == WrapPos(RawPos(b, pkt.sn))
    IN IF Minus(b.headSN, pkt.sn) >= MaxSteps + 1
       THEN [b |-> b, slot |-> 0, err |-> "errPacketTooOld"]
       ELSE IF b.buf[pos].sn = pkt.sn
       THEN [b |-> b, slot |-> 0, err |-> "errRTXPacket"]
       ELSE [b |-> [b EXCEPT !.buf[pos] = [sn |-> pkt.sn, idx |-> pkt.idx]],
             slot |-> pos, err |-> "nil"]

\* The first packet makes its predecessor the head
Opened(b, pkt) ==
    IF b.init THEN b
    ELSE [b EXCEPT !.init = TRUE, !.headSN = Minus(pkt.sn, 1)]

\* Number of slots AddPacket steps over: the loop runs for 1 <= i < diff
Gap(b, sn) == IF Minus(sn, b.headSN) = 0 THEN 0 ELSE Minus(sn, b.headSN) - 1

\* The bucket at the end of the loop, ready to push
Advanced(b, pkt) ==
    [b EXCEPT !.headSN = pkt.sn, !.step = Skip(b.step, Gap(b, pkt.sn))]

AddPacket(b, pkt, latest) ==
    LET o == Opened(b, pkt)
        a == Advanced(o, pkt)
    IN IF latest THEN [b |-> Push(a, pkt), slot |-> a.step, err |-> "nil"]
       ELSE Set(o, pkt)
=============================================================================
