------------------------------ MODULE DownTrack -----------------------------
(***************************************************************************)
(* A DownTrack (downtrack.go): what one subscriber is sent of one          *)
(* publisher's stream.  An audio track has no key frames and no table, and *)
(* no NACK is negotiated for it.                                           *)
(*                                                                         *)
(* Three goroutines meet here without a common lock.  The receiver's       *)
(* goroutine calls WriteRTP for each packet of the stream; it is split     *)
(* where the code reads or writes the atomics `enabled`, `bound` and       *)
(* `reSync`.  Whoever controls the track calls Mute.  The RTCP goroutine   *)
(* runs handleRTCP, and hands retransmissions to a worker.  The sequencer  *)
(* has its own lock.                                                       *)
(*                                                                         *)
(* The stream comes from the receive buffer: packets are new heads, with   *)
(* gaps, or late ones, or the head again.  It may go on for longer than a  *)
(* lap of the numbers.  Timestamps are not modelled.                       *)
(***************************************************************************)
EXTENDS Sequencer, FiniteSets, Sequences

CONSTANTS Late, Jump,   \* how far behind or ahead of the head a packet may be
          Plans         \* what a behaviour is made of, see DownTrackAssumption

\* Of each plan: the kind of the track, the number the stream starts with, and the
\* bounds: packets the receiver gets, calls of Mute, sequence numbers NACKed by the
\* subscriber, times the track is bound, clock in steps of a millisecond
ASSUME DownTrackAssumption ==
    /\ Late \in Nat /\ Jump \in Nat \ {0} /\ Late + Jump < Half
    /\ \A p \in Plans :
          /\ p.kind \in {"video", "audio"} /\ p.origin \in SN
          /\ p.packets \in Nat /\ p.mutes \in Nat /\ p.nacks \in Nat
          /\ p.binds \in Nat /\ p.clock \in Nat

VARIABLES
    plan,                       \* of Plans; plan.origin is the number of packet 0
    enabled, bound, reSync,     \* atomics
    snOffset, lastSN,           \* only WriteRTP uses them
    lastSSRC,                   \* has a resync recorded the publisher's SSRC
    sequencer,
    wpc, pkt,                   \* WriteRTP: "idle", "resync", "clear", "send"
    mpc,                        \* Mute: "idle", "resync"
    bpc,                        \* Bind: "idle", "enable", "sequencer", "bound"
    jobs,                       \* queue of the nack worker
    clock,
    \* history
    packets, mutes, nacked, binds,  \* counts, for the bounds
    head,                       \* highest idx the receiver got, -1 before the first
    sent,                       \* first transmissions: [idx, target]
    rtx,                        \* the last retransmission: <<>> or one record: the packet
                                \* taken and the one meant (entry), number, head then
    lastHead,                   \* last head packet sent: [idx, target], idx -1: none
    base,                       \* packet snOffset counts from: the last head sent, or
                                \* the packet of a resync since
    recent,                     \* heads sent under the last MaxTrack - 1 numbers of
                                \* this table: [idx, target]
    needKey,                    \* packets were withheld, and no key frame has passed since
    muteSeen,                   \* a resync was asked for since the last packet was let in
    raced,                      \* that request was overwritten
    blindStart,                 \* a delta frame passed while a key frame was needed
    answered,                   \* NACKs answered from this table: [target, idx, at]
    doubled,                    \* one was answered again too soon, with packets in order
    seqLate                     \* the sequencer was given a late or repeated packet,
                                \* or the head's number again

writeVars == <<snOffset, lastSN, lastSSRC, wpc, pkt>>
counts == <<packets, mutes, nacked, binds>>
ghosts == <<sent, lastHead, base, recent, needKey, muteSeen, raced, blindStart, seqLate>>
nackGhosts == <<answered, doubled>>
vars == <<plan, enabled, bound, reSync, writeVars, sequencer, mpc, bpc, jobs, clock,
          counts, head, ghosts, nackGhosts, rtx>>

SnOf(i) == (plan.origin + i) % SNSpace
Video == plan.kind = "video"
MaxIdx == Late + plan.packets * Jump
NoPkt == [idx |-> 0, sn |-> 0, head |-> FALSE, key |-> FALSE]

Init ==
    /\ plan \in Plans
    /\ enabled = FALSE /\ bound = FALSE /\ reSync = FALSE
    /\ snOffset = 0 /\ lastSN = 0 /\ lastSSRC = FALSE
    /\ sequencer = newSequencer
    /\ wpc = "idle" /\ pkt = NoPkt /\ mpc = "idle" /\ bpc = "idle"
    /\ jobs = <<>> /\ clock = 0
    /\ packets = 0 /\ mutes = 0 /\ nacked = 0 /\ binds = 0
    /\ head = -1 /\ sent = {} /\ rtx = <<>>
    /\ lastHead = [idx |-> -1, target |-> 0] /\ base = -1 /\ recent = {}
    /\ needKey = TRUE /\ muteSeen = FALSE /\ raced = FALSE
    /\ blindStart = FALSE /\ seqLate = FALSE
    /\ answered = {} /\ doubled = FALSE

-----------------------------------------------------------------------------
(* WriteRTP                                                                *)

\* The next packet of the stream.  The first one is number Late.
Arrives(i) ==
    IF head = -1 THEN i = Late ELSE i >= head - Late /\ i <= head + Jump

\* if !enabled || !bound return
WriteRTP(i, key) ==
    /\ wpc = "idle" /\ packets < plan.packets /\ Arrives(i)
    /\ packets' = packets + 1
    /\ head' = IF i > head THEN i ELSE head
    /\ IF enabled /\ bound
       THEN /\ wpc' = "resync" /\ muteSeen' = FALSE
            /\ pkt' = [idx |-> i, sn |-> SnOf(i), head |-> i >= head, key |-> key]
            /\ UNCHANGED needKey
       ELSE needKey' = TRUE /\ UNCHANGED <<wpc, pkt, muteSeen>>
    /\ UNCHANGED <<plan, bpc, enabled, bound, reSync, snOffset, lastSN, lastSSRC,
                   sequencer, mpc, jobs, clock, mutes, nacked, binds, sent, lastHead,
                   base, recent, raced, blindStart, seqLate, rtx, nackGhosts>>

\* Mutant of NewOffset: the next number is not skipped
NewOffsetRepeats(sn) == IF lastSN # 0 THEN Minus(sn, lastSN) ELSE snOffset

\* snOffset after a resync; lastSN = 0 stands for "nothing sent yet"
NewOffset(sn) == IF lastSN # 0 THEN Minus(Minus(sn, lastSN), 1) ELSE snOffset
NewBase == IF lastSN # 0 THEN pkt.idx ELSE base

\* Mutant of Resync: a delta frame may start the track
ResyncAnyFrame ==
    /\ wpc = "resync"
    /\ IF reSync
       THEN /\ wpc' = "clear" /\ snOffset' = NewOffset(pkt.sn) /\ base' = NewBase
            /\ lastSSRC' = TRUE
       ELSE wpc' = "send" /\ UNCHANGED <<snOffset, base, lastSSRC>>
    /\ needKey' = (needKey \/ wpc' = "idle")
    /\ blindStart' = (blindStart \/ (wpc' # "idle" /\ Video /\ needKey /\ ~pkt.key))
    /\ UNCHANGED <<plan, bpc, enabled, bound, reSync, lastSN, pkt, sequencer, mpc, jobs,
                   clock, counts, head, sent, lastHead, recent, muteSeen, raced, seqLate,
                   rtx, nackGhosts>>

\* if reSync: a delta frame of a video is dropped (and the receiver asked for a PLI)
Resync ==
    /\ wpc = "resync"
    /\ \/ /\ reSync /\ Video /\ ~pkt.key
          /\ wpc' = "idle" /\ UNCHANGED <<snOffset, base, lastSSRC>>
       \/ /\ reSync /\ (Video => pkt.key)
          /\ wpc' = "clear" /\ snOffset' = NewOffset(pkt.sn) /\ base' = NewBase
          /\ lastSSRC' = TRUE
       \/ ~reSync /\ wpc' = "send" /\ UNCHANGED <<snOffset, base, lastSSRC>>
    /\ needKey' = (needKey \/ wpc' = "idle")
    /\ blindStart' = (blindStart \/ (wpc' # "idle" /\ Video /\ needKey /\ ~pkt.key))
    /\ UNCHANGED <<plan, bpc, enabled, bound, reSync, lastSN, pkt, sequencer, mpc, jobs,
                   clock, counts, head, sent, lastHead, recent, muteSeen, raced, seqLate,
                   rtx, nackGhosts>>

\* reSync.set(false)
ClearResync ==
    /\ wpc = "clear" /\ wpc' = "send"
    /\ reSync' = FALSE
    /\ raced' = (raced \/ muteSeen)
    /\ UNCHANGED <<plan, bpc, enabled, bound, snOffset, lastSN, lastSSRC, pkt, sequencer,
                   mpc, jobs, clock, counts, head, sent, lastHead, base, recent, needKey,
                   muteSeen, blindStart, seqLate, rtx, nackGhosts>>

NextLastSN(target) == IF pkt.head THEN target ELSE lastSN

\* History: of the recent heads, those within MaxTrack - 1 numbers of the new one
StillRecent(target) ==
    {r \in recent : Minus(sequencer.headSN, r.target) + Minus(target, sequencer.headSN)
                        < MaxTrack - 1}

\* Rewrite the number, record it, send
Send ==
    LET target == Minus(pkt.sn, snOffset)
    IN /\ wpc = "send" /\ wpc' = "idle"
       /\ sequencer' = IF Video THEN SeqPush(sequencer, pkt, target) ELSE sequencer
       /\ lastSN' = NextLastSN(target)
       /\ sent' = sent \cup {[idx |-> pkt.idx, target |-> target]}
       /\ lastHead' = IF pkt.head THEN [idx |-> pkt.idx, target |-> target] ELSE lastHead
       /\ base' = IF pkt.head THEN pkt.idx ELSE base
       /\ recent' = IF Video /\ pkt.head
                    THEN StillRecent(target) \cup {[idx |-> pkt.idx, target |-> target]}
                    ELSE recent
       /\ needKey' = (needKey /\ ~pkt.key)
       /\ seqLate' = (seqLate \/ ~pkt.head
                      \/ (sequencer.init /\ (\/ pkt.idx = lastHead.idx
                                              \/ target = sequencer.headSN)))
       /\ UNCHANGED <<plan, bpc, enabled, bound, reSync, snOffset, lastSSRC, pkt, mpc, jobs,
                      clock, counts, head, muteSeen, raced, blindStart, rtx, nackGhosts>>

-----------------------------------------------------------------------------
(* Bind and Unbind (pion, when the track is negotiated or stopped), Mute.  *)

\* Bind asks for a resync, enables the track, makes a new table, and only then
\* says that the track is bound: four steps a WriteRTP under way, a Mute or a
\* NACK may fall between
Bind ==
    /\ bpc = "idle" /\ ~bound /\ binds < plan.binds
    /\ bpc' = "enable" /\ reSync' = TRUE
    /\ binds' = binds + 1
    /\ needKey' = TRUE /\ muteSeen' = TRUE
    /\ UNCHANGED <<plan, enabled, bound, writeVars, sequencer, mpc, jobs, clock,
                   packets, mutes, nacked, head, sent, lastHead, base, recent, raced,
                   blindStart, seqLate, nackGhosts, rtx>>

BindEnable ==
    /\ bpc = "enable" /\ bpc' = "sequencer"
    /\ enabled' = TRUE
    /\ UNCHANGED <<plan, bound, reSync, writeVars, sequencer, mpc, jobs, clock, counts,
                   head, ghosts, nackGhosts, rtx>>

BindSequencer ==
    /\ bpc = "sequencer" /\ bpc' = "bound"
    /\ sequencer' = IF Video THEN newSequencer ELSE sequencer
    /\ seqLate' = FALSE /\ answered' = {} /\ recent' = {}
    /\ UNCHANGED <<plan, enabled, bound, reSync, writeVars, mpc, jobs, clock, counts,
                   head, sent, lastHead, base, needKey, muteSeen, raced, blindStart,
                   doubled, rtx>>

BindBound ==
    /\ bpc = "bound" /\ bpc' = "idle"
    /\ bound' = TRUE
    /\ UNCHANGED <<plan, enabled, reSync, writeVars, sequencer, mpc, jobs, clock, counts,
                   head, ghosts, nackGhosts, rtx>>

Unbind ==
    /\ bound /\ bound' = FALSE
    /\ UNCHANGED <<plan, bpc, enabled, reSync, writeVars, sequencer, mpc, jobs, clock,
                   counts, head, ghosts, rtx, nackGhosts>>

\* if enabled != val return; enabled.set(!val)
Mute(val) ==
    /\ mpc = "idle" /\ mutes < plan.mutes /\ mutes' = mutes + 1
    /\ IF enabled = val
       THEN enabled' = ~val /\ mpc' = IF val THEN "resync" ELSE "idle"
       ELSE UNCHANGED <<enabled, mpc>>
    /\ UNCHANGED <<plan, bpc, bound, reSync, writeVars, sequencer, jobs, clock,
                   packets, nacked, binds, head, ghosts, rtx, nackGhosts>>

\* if val: reSync.set(true)
MuteResync ==
    /\ mpc = "resync" /\ mpc' = "idle"
    /\ reSync' = TRUE
    /\ needKey' = TRUE /\ muteSeen' = TRUE
    /\ UNCHANGED <<plan, bpc, enabled, bound, writeVars, sequencer, jobs, clock, counts, head,
                   sent, lastHead, base, recent, raced, blindStart, seqLate, rtx,
                   nackGhosts>>

-----------------------------------------------------------------------------
(* handleRTCP: a NACK of the subscriber.  (The subscriber asks for numbers *)
(* up to the last it saw; a PLI or FIR only goes on to the receiver.)      *)

\* History of an answered NACK.  Time 0 is the code's mark for "never asked".
RememberAnswer(sn) ==
    LET i == sequencer.seq[SeqPos(sequencer, sn)].idx
    IN /\ doubled' = (doubled \/ \E a \in answered :
             /\ ~seqLate /\ a.target = sn /\ a.idx = i /\ i # NoIdx
             /\ a.at # 0 /\ clock - a.at <= IgnoreRetransmission)
       /\ answered' = answered \cup {[target |-> sn, idx |-> i, at |-> clock]}

\* Mutant of handleRTCP: the time of the answer is not recorded
handleRTCPForgets(sn) ==
    /\ Video /\ nacked < plan.nacks /\ nacked' = nacked + 1
    /\ lastHead.idx # -1 /\ NotOlder(lastHead.target, sn)
    /\ enabled /\ lastSSRC
    /\ IF SeqAnswers(sequencer, sn, clock)
       THEN jobs' = Append(jobs, sequencer.seq[SeqPos(sequencer, sn)]) /\ RememberAnswer(sn)
       ELSE UNCHANGED <<jobs, nackGhosts>>
    /\ UNCHANGED <<plan, bpc, enabled, bound, reSync, writeVars, sequencer, mpc, clock,
                   packets, mutes, binds, head, ghosts, rtx>>

handleRTCP(sn) ==
    /\ Video /\ nacked < plan.nacks /\ nacked' = nacked + 1
    /\ lastHead.idx # -1 /\ NotOlder(lastHead.target, sn)
    /\ enabled /\ lastSSRC
    /\ IF SeqAnswers(sequencer, sn, clock)
       THEN /\ jobs' = Append(jobs, sequencer.seq[SeqPos(sequencer, sn)])
            /\ sequencer' = SeqAnswered(sequencer, sn, clock)
            /\ RememberAnswer(sn)
       ELSE UNCHANGED <<jobs, sequencer, nackGhosts>>
    /\ UNCHANGED <<plan, bpc, enabled, bound, reSync, writeVars, mpc, clock,
                   packets, mutes, binds, head, ghosts, rtx>>

\* The packet the receive buffer holds under a publisher's sequence number
InBuffer(sn) == head - Minus(SnOf(head), sn)

\* Mutant of RetransmitPackets: looks the packet up under the subscriber's number
RetransmitByTarget ==
    /\ jobs # <<>> /\ jobs' = Tail(jobs)
    /\ \/ UNCHANGED rtx
       \/ /\ InBuffer(Head(jobs).target) >= 0
          /\ rtx' = <<[idx |-> InBuffer(Head(jobs).target), target |-> Head(jobs).target,
                       entry |-> Head(jobs).idx, head |-> head]>>
    /\ UNCHANGED <<plan, bpc, enabled, bound, reSync, writeVars, sequencer, mpc, clock,
                   counts, head, ghosts, nackGhosts>>

\* The nack worker: GetPacket by source number; the buffer has it or not
RetransmitPackets ==
    /\ jobs # <<>> /\ jobs' = Tail(jobs)
    /\ \/ UNCHANGED rtx
       \/ /\ InBuffer(Head(jobs).source) >= 0
          /\ rtx' = <<[idx |-> InBuffer(Head(jobs).source), target |-> Head(jobs).target,
                       entry |-> Head(jobs).idx, head |-> head]>>
    /\ UNCHANGED <<plan, bpc, enabled, bound, reSync, writeVars, sequencer, mpc, clock,
                   counts, head, ghosts, nackGhosts>>

Tick ==
    /\ clock < plan.clock /\ clock' = clock + 1
    /\ UNCHANGED <<plan, bpc, enabled, bound, reSync, writeVars, sequencer, mpc, jobs,
                   counts, head, ghosts, rtx, nackGhosts>>

Next ==
    \/ \E i \in 0 .. MaxIdx, key \in BOOLEAN : WriteRTP(i, key)
    \/ Resync \/ ClearResync \/ Send
    \/ Bind \/ BindEnable \/ BindSequencer \/ BindBound \/ Unbind
    \/ \E val \in BOOLEAN : Mute(val)
    \/ MuteResync
    \/ \E sn \in SN : handleRTCP(sn)
    \/ RetransmitPackets
    \/ Tick

Spec == Init /\ [][Next]_vars

-----------------------------------------------------------------------------
(* Properties                                                              *)

\* Through every mute, resync and loss, what the subscriber sees keeps moving
\* forward: a newer packet gets a number above the last head's, and above it by
\* no more than the packets skipped and one resync on a late packet explain.  Only
\* one a lap of the numbers away from the packet the offset counts from may not: when
\* packets were withheld for that long and no new offset was made, because the resync
\* was overwritten or the last number was 0.
HeadsAdvance ==
    [][ lastHead.idx # -1 /\ lastHead'.idx > lastHead.idx
          /\ lastHead'.idx - base < SNSpace - 1 =>
          Minus(lastHead'.target, lastHead.target)
              \in 1 .. lastHead'.idx - lastHead.idx + Late + 1 ]_vars

\* A track that starts, or starts again after packets were withheld (muted, not
\* bound, waiting for a resync), starts with a key frame, unless the request for it
\* was overwritten by a packet that had been let in before.
StartsOnKeyFrame == blindStart => raced

\* A retransmission repeats what was sent: the packet that got that number, unless
\* that lies a lap of the publisher's numbers behind by then.
RtxRepeatsSent ==
    \A r \in {rtx[k] : k \in DOMAIN rtx} :
        r.entry # NoIdx /\ r.head - r.entry < SNSpace =>
            [idx |-> r.idx, target |-> r.target] \in sent

\* As long as packets come in order, the table finds each packet it was given under
\* the last MaxTrack - 1 numbers, for as long as the stream goes on.
SequencerFinds ==
    ~seqLate => \A r \in recent :
        /\ SeqHas(sequencer, r.target)
        /\ sequencer.seq[SeqPos(sequencer, r.target)].idx = r.idx

\* As long as packets come in order, one the subscriber asks for again within
\* ignoreRetransmission is not sent again.  (Empty entries, which read as number 0,
\* excepted.)
RtxThrottled == ~doubled
=============================================================================
