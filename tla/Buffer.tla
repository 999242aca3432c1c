------------------------------- MODULE Buffer -------------------------------
(***************************************************************************)
(* The life of one receive buffer (buffer/buffer.go): the SRTP goroutine   *)
(* Writes packets, the signalling goroutine Binds it once the codec is     *)
(* known, the receiver's goroutine takes packets with ReadExtended, pion's *)
(* probe Reads raw packets before Bind, and the transport Closes it.       *)
(*                                                                         *)
(* Everything but the tests of b.closed runs with b locked.  Bind handles  *)
(* the packets that came before it one after the other inside one critical *)
(* section; phase = "binding" is the time it holds the lock.  A packet     *)
(* handed to ReadExtended does not own its payload: it points into the     *)
(* ring, whose memory goes back to the pool on Close.                      *)
(***************************************************************************)
EXTENDS BufferCalc

VARIABLES
    phase,          \* "unbound", "binding" (Bind has the lock), "bound"
    pPackets,       \* b.pPackets: packets written before Bind
    bindPos,        \* how many of them Bind has handled
    lastPacketRead,
    closed,
    pool,           \* the ring's memory: "none" taken, "held", "returned"
    extPackets,     \* b.extPackets
    extReader,      \* where ReadExtended and its caller are: "check" closed,
                    \* "pop" the queue, "forward" the packet in `held`, "done"
    held,           \* the packet being forwarded, <<>> or one packet
    rawReader,      \* where Read is: "check", "take", "done"
    \* history
    newest,         \* highest idx written, -1 before the first
    order,          \* idx of the packets Write accepted, in order
    late            \* packets popped after Close

readVars == <<extReader, held, rawReader, lastPacketRead>>
lifeVars == <<phase, pPackets, bindPos, closed, pool, extPackets, readVars,
              newest, order, late>>
bufferVars == <<calcVars, lifeVars>>

BufferInit ==
    /\ CalcInit
    /\ phase = "unbound" /\ pPackets = <<>> /\ bindPos = 0
    /\ lastPacketRead = 0 /\ closed = FALSE /\ pool = "none"
    /\ extPackets = <<>> /\ held = <<>>
    /\ extReader = "check" /\ rawReader = "check"
    /\ newest = -1 /\ order = <<>> /\ late = 0

Unlocked == phase # "binding"

\* Write returns io.EOF on a closed buffer and changes nothing
WritePending(i, kind) ==
    /\ ~closed /\ phase = "unbound"
    /\ pPackets' = Append(pPackets, Packet(i, kind))
    /\ UNCHANGED <<calcVars, extPackets>>

WriteBound(i, kind, due) ==
    /\ ~closed /\ phase = "bound"
    /\ Calc(Packet(i, kind), due)
    /\ extPackets' = extPackets \o out'
    /\ UNCHANGED pPackets

\* Mutant of Write: does not test closed
WriteWhenClosed(i, kind, due) ==
    /\ Unlocked /\ Len(order) < MaxWrites /\ MayArrive(i, newest)
    /\ \/ ~due /\ WritePending(i, kind)
       \/ phase = "bound" /\ Calc(Packet(i, kind), due)
          /\ extPackets' = extPackets \o out' /\ UNCHANGED pPackets
    /\ order' = Append(order, i)
    /\ newest' = IF i > newest THEN i ELSE newest
    /\ UNCHANGED <<phase, bindPos, closed, pool, readVars, late>>

\* Mutant of Write: does not wait for Bind to finish
WriteWhileBinding(i, kind, due) ==
    /\ Len(order) < MaxWrites /\ MayArrive(i, newest)
    /\ \/ ~due /\ WritePending(i, kind)
       \/ ~closed /\ phase # "unbound" /\ Calc(Packet(i, kind), due)
          /\ extPackets' = extPackets \o out' /\ UNCHANGED pPackets
    /\ order' = Append(order, i)
    /\ newest' = IF i > newest THEN i ELSE newest
    /\ UNCHANGED <<phase, bindPos, closed, pool, readVars, late>>

Write(i, kind, due) ==
    /\ Unlocked /\ Len(order) < MaxWrites /\ MayArrive(i, newest)
    /\ (~due /\ WritePending(i, kind)) \/ WriteBound(i, kind, due)
    /\ order' = Append(order, i)
    /\ newest' = IF i > newest THEN i ELSE newest
    /\ UNCHANGED <<phase, bindPos, closed, pool, readVars, late>>

\* Bind takes the lock and memory from the pool ...
Bind ==
    /\ phase = "unbound"
    /\ phase' = "binding" /\ pool' = "held"
    /\ UNCHANGED <<calcVars, pPackets, bindPos, closed, extPackets, readVars,
                   newest, order, late>>

\* ... runs calc on each pending packet ...
BindPending(due) ==
    /\ phase = "binding" /\ bindPos < Len(pPackets)
    /\ Calc(pPackets[bindPos + 1], due)
    /\ bindPos' = bindPos + 1
    /\ extPackets' = extPackets \o out'
    /\ UNCHANGED <<phase, pPackets, closed, pool, readVars, newest, order, late>>

\* Mutant of BindDone: the count of wraps starts over
BindDoneResets ==
    /\ phase = "binding" /\ bindPos = Len(pPackets)
    /\ phase' = "bound" /\ pPackets' = <<>> /\ cycles' = 0
    /\ UNCHANGED <<origin, nackOn, bucket, nackVars, maxSeqNo, statVars, err, feedback, out,
                   history, bindPos, closed, pool, extPackets, readVars,
                   newest, order, late>>

\* ... and forgets them
BindDone ==
    /\ phase = "binding" /\ bindPos = Len(pPackets)
    /\ phase' = "bound" /\ pPackets' = <<>>
    /\ UNCHANGED <<calcVars, bindPos, closed, pool, extPackets, readVars,
                   newest, order, late>>

\* closeOnce: a second Close changes nothing.  (onClose removes the buffer from
\* the factory.)
Close ==
    /\ Unlocked /\ ~closed
    /\ closed' = TRUE
    /\ pool' = IF phase = "bound" THEN "returned" ELSE pool
    /\ UNCHANGED <<calcVars, phase, pPackets, bindPos, extPackets, readVars,
                   newest, order, late>>

\* ReadExtended: the test of closed is outside the lock
ReadExtendedCheck ==
    /\ extReader = "check"
    /\ extReader' = IF closed THEN "done" ELSE "pop"
    /\ UNCHANGED <<calcVars, phase, pPackets, bindPos, closed, pool, extPackets,
                   held, rawReader, lastPacketRead, newest, order, late>>

\* Mutant of ReadExtendedPop: an empty queue is polled without testing closed
ReadExtendedPopSpins ==
    /\ extReader = "pop" /\ Unlocked /\ extPackets # <<>>
    /\ extReader' = "forward" /\ held' = <<Head(extPackets)>>
    /\ extPackets' = Tail(extPackets)
    /\ late' = IF closed THEN late + 1 ELSE late
    /\ UNCHANGED <<calcVars, phase, pPackets, bindPos, closed, pool, rawReader,
                   lastPacketRead, newest, order>>

\* Under the lock: PopFront, or sleep 10 ms and start over
ReadExtendedPop ==
    /\ extReader = "pop" /\ Unlocked
    /\ IF extPackets = <<>>
       THEN extReader' = "check" /\ UNCHANGED <<extPackets, held, late>>
       ELSE /\ extReader' = "forward" /\ held' = <<Head(extPackets)>>
            /\ extPackets' = Tail(extPackets)
            /\ late' = IF closed THEN late + 1 ELSE late
    /\ UNCHANGED <<calcVars, phase, pPackets, bindPos, closed, pool, rawReader,
                   lastPacketRead, newest, order>>

\* Mutant of Forward: takes the next packet without testing closed
ForwardThenPop ==
    /\ extReader = "forward"
    /\ extReader' = "pop" /\ held' = <<>>
    /\ UNCHANGED <<calcVars, phase, pPackets, bindPos, closed, pool, extPackets,
                   rawReader, lastPacketRead, newest, order, late>>

\* The caller (WebRTCReceiver.writeRTP) is done with the packet
Forward ==
    /\ extReader = "forward"
    /\ extReader' = "check" /\ held' = <<>>
    /\ UNCHANGED <<calcVars, phase, pPackets, bindPos, closed, pool, extPackets,
                   rawReader, lastPacketRead, newest, order, late>>

ReadCheck ==
    /\ rawReader = "check"
    /\ rawReader' = IF closed THEN "done" ELSE "take"
    /\ UNCHANGED <<calcVars, phase, pPackets, bindPos, closed, pool, extPackets,
                   extReader, held, lastPacketRead, newest, order, late>>

\* Under the lock: the next pending packet, or sleep 25 ms and start over
ReadTake ==
    /\ rawReader = "take" /\ Unlocked
    /\ rawReader' = "check"
    /\ lastPacketRead' = IF Len(pPackets) > lastPacketRead THEN lastPacketRead + 1
                         ELSE lastPacketRead
    /\ UNCHANGED <<calcVars, phase, pPackets, bindPos, closed, pool, extPackets,
                   extReader, held, newest, order, late>>

BufferNext ==
    \/ \E i \in Idx, kind \in Kinds, due \in DueChoices : Write(i, kind, due)
    \/ Bind
    \/ \E due \in DueChoices : BindPending(due)
    \/ BindDone
    \/ Close
    \/ ReadExtendedCheck \/ ReadExtendedPop \/ Forward
    \/ ReadCheck \/ ReadTake

(***************************************************************************)
(* A goroutine that can run is eventually run: weak fairness for both      *)
(* readers and for a Bind that has started.  Nothing obliges a publisher   *)
(* to send or a transport to close.                                        *)
(***************************************************************************)
BufferFairness ==
    /\ WF_bufferVars(ReadExtendedCheck) /\ WF_bufferVars(ReadExtendedPop)
    /\ WF_bufferVars(Forward)
    /\ WF_bufferVars(ReadCheck) /\ WF_bufferVars(ReadTake)
    /\ WF_bufferVars((\E due \in DueChoices : BindPending(due)) \/ BindDone)

BufferSpec == BufferInit /\ [][BufferNext]_bufferVars /\ BufferFairness

-----------------------------------------------------------------------------
(* Properties                                                              *)

\* calc sees the packets in the order Write accepted them: those that came
\* before Bind first, none twice, none skipped, and nothing overtakes them while
\* Bind works through them.  Read, which looks at the same packets, takes none.
HandledInOrder ==
    /\ writes > 0 => last = order[writes]
    /\ phase = "bound" => writes = Len(order)

\* A packet waiting in extPackets or being forwarded still has its own payload
\* in the ring, unless the ring has lapped it, lost its alignment, or been
\* closed: nothing else protects the memory it points into.
PayloadAlive ==
    aligned /\ ~closed =>
        \A ep \in ToSet(held) \cup ToSet(extPackets) :
            head - ep.idx <= MaxSteps => bucket.buf[ep.slot].idx = ep.idx

\* The ring is not written once its memory is back in the pool.
NoWriteAfterReturn == [][pool = "returned" => UNCHANGED bucket]_bufferVars

\* Close ends both read loops.
ReadersStop == closed ~> extReader = "done" /\ rawReader = "done"

\* Whatever the interleaving of Write, Bind, Read and Close, what happens to the
\* variables of calc is a behaviour of calc fed by the network alone.
ImplementsCalc == CalcSpec

\* Packets on their way to ReadExtended: handled ones, then those Bind has still to do
IdxOf(pkts) == [k \in DOMAIN pkts |-> pkts[k].idx]
Pipe == INSTANCE PacketPipe WITH
            Packets <- Idx,
            pipe <- IdxOf(extPackets \o SubSeq(pPackets, bindPos + 1, Len(pPackets))),
            given <- IdxOf(held),
            over <- closed,
            extra <- late

\* ReadExtended keeps the promise of PacketPipe: packets come out in the order Write
\* accepted them, whether they came before, during or after Bind, each at most once,
\* and Close lets at most one more through.
ImplementsPipe == Pipe!PipeSpec
=============================================================================
