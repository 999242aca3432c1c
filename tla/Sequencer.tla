------------------------------ MODULE Sequencer -----------------------------
(***************************************************************************)
(* The table of the packets last sent to one subscriber (sequencer.go):    *)
(* from the number the subscriber saw (target) back to the publisher's     *)
(* number (source).  idx, the packet's place in the publisher's stream, is *)
(* history.  A zeroed entry of the Go slice reads source 0, target 0.      *)
(***************************************************************************)
EXTENDS SeqNum

CONSTANTS MaxTrack,               \* entries of the table
          IgnoreRetransmission    \* 100 (ms)

ASSUME SequencerAssumption ==
    /\ MaxTrack \in Nat /\ MaxTrack > 1 /\ MaxTrack < Half
    /\ IgnoreRetransmission \in Nat

NoIdx == -1
Entries == 0 .. MaxTrack - 1

newSequencer ==
    [init |-> FALSE, step |-> 0, headSN |-> 0,
     seq |-> [s \in Entries |->
                [source |-> 0, target |-> 0, idx |-> NoIdx, lastNack |-> 0]]]

\* One entry written at step, then step advances; the ring wraps at >= max
Place(n, pkt, target) ==
    [n EXCEPT !.seq[n.step] = [source |-> pkt.sn, target |-> target,
                               idx |-> pkt.idx, lastNack |-> 0],
              !.step = IF n.step + 1 >= MaxTrack THEN 0 ELSE n.step + 1]

SeqOpened(n, target) ==
    IF n.init THEN n ELSE [n EXCEPT !.init = TRUE, !.headSN = target]

\* Mutant of SeqGap: <= for <
SeqGapTooFar(n, target) == Minus(target, n.headSN)

\* The loop over the numbers between the old head and the new one
SeqGap(n, target) ==
    IF Minus(target, n.headSN) = 0 THEN 0 ELSE Minus(target, n.headSN) - 1

\* "Old packet received, can not be sequenced"
TooOldToSequence(n, target) == n.step - Minus(n.headSN, target) <= -MaxTrack

\* push.  A late packet's own place is computed (to see whether it is too old)
\* but the entry is written at n.step, which advances, as for a new packet.
SeqPush(n, pkt, target) ==
    LET o == SeqOpened(n, target)
    IN CASE pkt.head ->
              Place([o EXCEPT !.step = (o.step + SeqGap(o, target)) % MaxTrack,
                              !.headSN = target], pkt, target)
         [] ~pkt.head /\ TooOldToSequence(o, target) -> o
         [] OTHER -> Place(o, pkt, target)

SeqRaw(n, sn) == n.step - Minus(n.headSN, sn) - 1

SeqPos(n, sn) == IF SeqRaw(n, sn) < 0 THEN MaxTrack + SeqRaw(n, sn) ELSE SeqRaw(n, sn)

\* Does the table have an entry for sn?
SeqHas(n, sn) ==
    /\ SeqRaw(n, sn) > -MaxTrack
    /\ n.seq[SeqPos(n, sn)].target = sn

\* getSeqNoPairs answers for sn at time now, unless it did so a moment ago
SeqAnswers(n, sn, now) ==
    /\ SeqHas(n, sn)
    /\ LET e == n.seq[SeqPos(n, sn)]
       IN e.lastNack = 0 \/ now - e.lastNack > IgnoreRetransmission

SeqAnswered(n, sn, now) == [n EXCEPT !.seq[SeqPos(n, sn)].lastNack = now]
=============================================================================
