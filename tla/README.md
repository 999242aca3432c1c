# sfuforrtp in TLA+

A TLA+ development of the SFU in this repository: models of the parts whose
correctness depends on ordering, wrap-around arithmetic or concurrency, TLC
configurations that check them on small instances, and proofs checked by TLAPS.
`PROJECT.json` maps every definition to the source lines it models and lists the
runs, mutants, findings, hazards and theorems.

## 1. The system

A publisher sends RTP to the SFU; the SFU buffers it, asks for what is missing,
and forwards it to subscribers under rewritten sequence numbers. Two programs
share the repository: the library of an SFU (`pkg/webrtc`, derived from ion-sfu)
and a small websocket room (`cmd/app/main.go`) that fans tracks out with plain
pion objects.

```
 publisher --RTP--> Buffer.Write -> calc -> Bucket (ring)
                       |             |---> nackQueue --NACK/PLI--> rtcpCh --> publisher
                       |             '---> extPackets
                       v
           WebRTCReceiver.writeRTP (one goroutine per up track)
                       |---> DownTrack.WriteRTP -> sequencer --RTP--> subscriber
 subscriber --NACK--> DownTrack.handleRTCP -> sequencer -> RetransmitPackets -> Bucket
 router: AddReceiver / AddDownTracks / deleteReceiver, the reader of rtcpCh
 clients <--websocket--> Signal (pkg/signal)   or   signalPeerConnections (main.go)
```

| Component | State | Operations | What makes it correct |
|---|---|---|---|
| Packet ring (`buffer/bucket.go`) | slots, step, head number | AddPacket, GetPacket | a stored packet is found while it is in reach, duplicates are recognised |
| NACK queue (`buffer/nack.go`) | sorted list, last key-frame number | push, remove, pairs | missing packets, and only they, are asked for, a bounded number of times |
| Receive buffer (`buffer/buffer.go`) | head, cycles, counters, packets before Bind, queue, pool memory | Write, Bind, calc, Read, ReadExtended, Close | extended numbers are exact, order is kept, no use of memory after it is returned, readers end |
| Sequencer (`sequencer.go`) | table target to source | push, getSeqNoPairs | a NACKed number leads to the packet that was sent under it |
| DownTrack (`downtrack.go`) | offset, last number, enabled/bound/reSync | WriteRTP, Bind, Unbind, Mute, handleRTCP | numbers move forward across mutes, it starts on key frames, no early second retransmission |
| WebRTCReceiver, router, Subscriber, Publisher (`receiver.go`, `route.go`, `subscribe.go`, `publisher.go`) | up track, list of DownTracks, closed flags, rtcpCh | AddReceiver, AddDownTracks, writeRTP, closeTracks, sendRTCP, Stop, Close | one DownTrack per subscriber, all are closed at the end, shutdown completes |
| Room (`cmd/app/main.go`) | peerConnections, trackLocals | handler, addTrack, removeTrack, signalPeerConnections | at rest everyone has negotiated exactly the others' tracks |
| Signal (`pkg/signal/signal.go`) | connection, channel Send | reading loop, writing loop, Close | offers answered in order, loops end together |
| Factory, RTCP reader (`buffer/factory.go`, `buffer/rtcpreader.go`) | tables of buffers and readers by SSRC | GetOrNew, GetBufferPair, Close | who asks for a stream gets the open object pion writes to |
| Trickle ICE of Subscriber and Publisher | slice of waiting candidates | AddICECandidate, SetRemoteDescription, Answer | each candidate reaches the PeerConnection once |
| A subscriber's list (`subscribe.go`) | DownTracks of a stream, debounced negotiation | AddDownTrack, RemoveDownTrack, CreateOffer | no track twice, every change is offered |
| Audio observer (`audioobserver.go`) | sums per stream, last list | addStream, removeStream, observe, Calc | callers know who spoke, in order |
| RPC (`pkg/rabbitmq/rmq_rpc`) | pending calls, stop and error channels, connection | RemoteCall, consumer, serveCall, reconnect, Shutdown | a call returns what was answered to it, all ends |
| Helpers (`buffer/helpers.go`, `helpers.go`, parts of others) | none | parsing, NTP, codec choice, reports | agree with their formats |
| Statistics, media engine, shell, clients | see PROJECT.json | | not modelled (section 7) |

Hard behaviours: 16-bit numbers that wrap, and guesses of the cycle they belong
to; memory that is handed around without being owned; goroutines that test a
flag outside the lock; blocking channel sends made under locks; a list of
DownTracks read by one goroutine and replaced by another; retries that start new
goroutines; a client that does not answer; slices that are shared without a lock;
a broker that repeats messages and drops connections. `hazards` in PROJECT.json lists them
at the lines where they bite.

## 2. Modules

| Module | Models | Role |
|---|---|---|
| `SeqNum` | `uint16`/`uint32` arithmetic | number space of size 2*Half (2^16 in the code), extended numbers modulo SNSpace*Cycles |
| `Bucket` | `buffer/bucket.go` | operators on a ring record: AddPacket, GetPacket |
| `NackQueue` | `buffer/nack.go` | operators on the queue: push, remove, pairs |
| `BufferCalc` | `Buffer.calc`, NACK feedback, loss count | one action, Calc, fed by a network that loses, repeats and reorders; abstract specification for Buffer |
| `PacketPipe` | what a buffer promises its reader | abstract specification: order, at most once, at most one packet after Close |
| `Buffer` | Write, Bind, Read, ReadExtended, Close | extends BufferCalc with the buffer's life; implements CalcSpec and PacketPipe |
| `Sequencer` | `sequencer.go` | operators on the table |
| `DownTrack` | `downtrack.go`, RetransmitPackets | WriteRTP, Bind and Mute split at each atomic they touch |
| `Router` | `route.go`, `receiver.go`, parts of `subscribe.go`, `publisher.go` | one published track, its subscribers, the RTCP channel, shutdown; buffers reduced to lock, queue length and closed |
| `PeerSync` | `cmd/app/main.go` | the room |
| `Signal` | `pkg/signal/signal.go` | the two loops of a client and the channel between them |
| `Factory` | `factory.go`, `rtcpreader.go` | tables of buffers and readers; streams of one SSRC that follow each other or overlap |
| `Candidates` | trickle ICE in `subscribe.go`, `publisher.go` | unlocked appends against the loop that drains the slice |
| `Subscriber` | `subscribe.go`, AddDownTracks and AddDownTrack of `route.go` | several tracks of a stream, the shared slice, negotiation |
| `AudioObserver` | `audioobserver.go` | observe split at its loads and stores, Calc |
| `Rpc` | `pkg/rabbitmq/rmq_rpc` | calls, a client's and a server's consumer, reconnection, Shutdown |
| `Helpers` | pure functions of five files | operators and the reference definitions they are checked against |
| `BufferCalcProofs`, `BufferProofs`, `DownTrackProofs`, `RouterProofs`, `PeerSyncProofs`, `SignalProofs` | | theorems about the module of that name |
| `NackProofs` | | theorems about the queue of missing packets: NackQueue as BufferCalc uses it |
| `PartsProofs` | | theorems about Candidates, Factory, Subscriber, Rpc, AudioObserver and Helpers |
| `MC*` | | TLC instances; MCBufferCalc also checks that Skip, a closed form, is the loop of AddPacket; MCPeerSync and MCDownTrack give the sets of scenarios; MCParts runs the modules from Factory to Helpers, one of them per behaviour |

How state and code correspond:

* **BufferCalc.** The sender numbers packets 0, 1, 2, ... (`idx`) and puts
  `SnOf(idx)` on them. The variables up to `out` are fields of `Buffer`, `Stats`,
  `Bucket` and `nackQueue`; those from `top` on are history that no action of the
  code reads. `Calc(pkt, due)` is one call of `calc`: the head and its cycle, the
  queue of missing packets, AddPacket, then the early return taken (ring error or
  unparsable, padding, or a packet handed on), with its NACK feedback. `due` says
  whether a report falls due, because time is not modelled here.
* **Buffer.** `phase = "binding"` is the time Bind holds the lock; the two tests
  of `closed` outside the lock are steps of their own. A queued packet keeps its
  slot, so that `PayloadAlive` can ask what is in the slot now.
* **DownTrack.** `wpc`, `mpc` and `bpc` are program counters of WriteRTP, Mute and
  Bind. Timestamps are left out. Of the history, `base` is the packet the offset counts
  from and `recent` the packets that got the table's last MaxTrack - 1 numbers.
* **Router.** `loop[g]` is the goroutine of the g-th AddUpTrack. AddReceiver and
  AddDownTracks hold the router's lock from beginning to end, `bufLock` is the
  lock of a buffer, held while calc waits to send on `rtcpCh`.
* **PeerSync.** `sync` is the call of signalPeerConnections that holds listLock,
  one step per peer of its loop; calls that wait are kept apart by whether their
  caller waits for them. pion's PeerConnection is external: an offer cannot be
  made while the last one is unanswered.
* **Signal.** `out` and `holding` are the messages the reader is sending and the
  writer has taken. A panic on a closed channel ends the program. The calls of
  PeerConnection succeed or fail.
* **PacketPipe.** Under the mapping in `Buffer`, the pipe is the queue of packets
  to forward followed by those that wait for Bind; the reader has the packet that
  writeRTP is forwarding.
* **Factory.** Close marks the object (`CloseObject`) and then deletes the entry
  of its SSRC (`DeleteEntry`): two steps, as the factory's lock is taken only for the
  second. pion opens the streams; it is external.
* **Candidates, AudioObserver.** What Go does without a lock is split into a load
  and a store, so that two calls may undo each other.
* **Subscriber.** `slots` is the array behind the slice, `size` its length; a lookup
  reads entry by entry from the array it started on, RemoveDownTrack writes into it.
  Adding a DownTrack (AddTransceiver, the list, the receiver's list) is one step. The
  debounced callback makes an offer, or gets one of CreateOffer's errors: always when
  the last offer is `unanswered`, and possibly otherwise.
* **Rpc.** `loop` is the consumer, or the reconnect it runs; `finding` the getCall
  under way. connect does not assign Delivery at this commit, so `wired` chooses
  whether a connection ever yields messages. serveCall looks for the handler under
  "type", the client writes "Type": a handler is found or not, either way.
* **Helpers.** `sample` is the argument of one function; there are no steps.

## 3. Runs

Passing runs (TLC explores everything below the bounds):

| Run | Shows |
|---|---|
| `buffer_calc` | loss, repeats and reordering around a wrap, with unparsable and padding packets, reports due, packets older than the ring and reused pool memory: extended head exact, ring lookups exact, queue sorted and made of exactly the missing packets, NACKs on the wire, losses reported in all and since the last report, duplicates recognised and not forwarded |
| `buffer_life` | Write, Bind, Read, ReadExtended and Close interleaved, NACK not negotiated (audio): order, payloads, pool memory, ends of the readers, and two refinements: `ImplementsCalc` of CalcSpec, `ImplementsPipe` of PacketPipe |
| `downtrack` | audio and video, binding twice, muting and NACKs against packets in flight, across resyncs, a wrap and more than a lap of the numbers: numbers advance, start on key frames, the table finds what was sent under its last numbers, what is retransmitted was sent under that number, and not twice within the interval |
| `room` | peers with tracks of their own: at rest everyone has negotiated exactly the others' tracks and closed peers are off the list; peers that share a track id and a client that never answers: no loopback, no double send |
| `room_live` | two peers that publish, one may leave: the room comes to rest |
| `router_close` | one DownTrack per subscriber; DownTracks closed before the receiver is gone; the track and the publisher end unless RTCP is jammed |
| `signal_loops` | answers once and in order, every message read; the end of one loop ends the other |
| `parts` | the smaller parts, one per behaviour: `CandidatesExact`, `PairFound` (factory), `LookupExact` and `ChangesOffered` (subscriber), `SpeakersShown` (audio), `AnswersFit`, `PanicsExplained` and `RpcEnds` (RPC), `HelpersAgree` |

Violation runs, each a disagreement between the code and a text of the
repository (quoted in `findings`):

| Run | Counterexample |
|---|---|
| `nack_limit` | at maxNackCache the queue shifts but does not shrink, and grows past the limit |
| `room_rejoin` | a client that comes back under the same track id loses its track when the old connection ends |
| `router_jam` | the publisher closes: Stop has ended the reader of rtcpCh, Bind's feedback has filled it, calc blocks in its next feedback with the buffer's lock, the closing PeerConnection waits for that lock to close the buffer, and the receiver's close handler is never called. The run has no DownTracks (`MaxDown = 0`), so that nothing but feedback is sent on the channel |
| `timestamps` | IsLaterTimestamp is wrong after a pause of more than 2^26 ticks: its mask selects bits 26 and 27, not the top two |

The models have further behaviour of the code that a reader may not expect. It
appears as an exception in the statement of a property, not as a run:

* NackOnlyMissing, NeverForgotten: a gap across half of the number space is entered
  under a wrong cycle (`misfiled`), and a queue past its limit loses entries
  (`overflowed`);
* NackRounds: as those, and further packet number 0 (pairs takes it for "no pair
  yet"), a number lost a second time a lap later, and a packet that falls into a pair
  opened for an entry with a higher number before it in the queue, from before the wrap
  or misfiled (`PairWraps`), may be left out of the NACKs;
* RingFinds, PayloadAlive: after a gap that passes the last slot the ring no longer
  finds its packets, because AddPacket's loop wraps one slot earlier than push
  (`aligned`);
* RtxWasStored: a packet is refused as "already received" when unwritten memory reads
  as its number (`Leftovers`);
* HeadsAdvance: a resync on a late packet may give its number to a second packet; after
  a lap of packets withheld without a new offset (the resync was overwritten, or the last
  number was 0, which stands for "nothing sent yet") the numbers may go back;
* SequencerFinds, RtxThrottled: a late packet, or one whose number is already the
  table's head number, is entered at the head's place of the table (`seqLate`);
* RtxRepeatsSent: number 0 matches an empty entry (`NoIdx`); and an entry keeps the
  publisher's 16-bit number, so once the stream is a lap (65536 packets) past it, the
  receive buffer answers with the newer packet of that number, which goes out under the
  old one's;
* StartsOnKeyFrame: reSync set by Mute or Bind while WriteRTP is between letting a
  packet in and clearing the flag is cleared with it (`raced`);
* ClosedBeforeGone: a DownTrack stored while the receiver closes (not in `early`)
  stays open; a second AddReceiver under the id empties the list;
* LostExact: when a packet from before the last report was counted since it
  (`backfilled`), the unsigned interval of losses is too small or wraps; so it is after
  a wrap of the head and past the probe window;
* CandidatesExact: an append that crosses another append, or the loop that drains
  the slice, undoes it (`overwritten`); a candidate that was tested before the
  description and appended after it waits for the next one (`late`);
* PairFound: when two streams of an SSRC overlap (`shared`), the end of the first takes
  the entry of the second away; AddReceiver after the end of its stream (`overdue`)
  finds nil or another's buffer;
* LookupExact: a RemoveDownTrack during a lookup (`crossed`) makes it miss its track, or
  meet nil and crash;
* ChangesOffered: AddDownTracks that fails after its first DownTrack leaves it
  unannounced until the next change (`unannounced`); a CreateOffer that fails, as it does
  while the last offer is unanswered, is not repeated when the answer comes (`refused`);
* SpeakersShown: two audio tracks of one stream (`doubled`) share the first entry and
  lose updates;
* PanicsExplained: `done` is closed twice if the broker repeats an answer, `stop` if a
  Shutdown meets a lost connection; RpcEnds excludes programs that have panicked;
* HelpersAgree: a sender report computed while the publisher's clock is ahead of the
  SFU's is not covered: the unsigned difference wraps;
* room: one client that does not answer keeps later peers from being offered tracks
  (`Silent`; ComesToRest assumes that clients answer);
* EndTogether: the reader may wait for ever on the unbuffered Send (`Blocked`);
  AllProcessed: a callback ends the reading loop (`hooks`); a message without event
  is taken for the event of the message before it (`Decoded`).

Deadlock checking is off: every one of these systems may come to rest (a bound
is used up, a track has ended, a room is quiet); that the rest is the right one
is the subject of QuietMeansSynced, ComesToRest, ReadersStop, TrackEndsCleanly,
CloseReturns, EndTogether, ChangesOffered and RpcEnds.

### Bounds

* Receive buffer: 16 or 8 numbers instead of 2^16, a ring of 3 or 2 slots, up to 5
  packets starting just before a wrap: a first packet, a gap, and the three rounds
  after which a loss is given up. Windows `Late` and `Jump` with `Late + Jump < Half`
  leave room for a loss on each side, a late packet beyond the ring and a wrap within
  one behaviour. `buffer_calc` has NACK on, `buffer_life` off: the two questions do
  not meet, calc runs in one locked step. The proofs (section 5) remove these bounds for the properties they
  cover.
* `MaxNackTimes = 2`; `MaxNackCache = 5` in `buffer_calc`, 3 in `nack_limit`: two gaps
  reach the limit. `BlpBits = 3` makes pairs overflow into a second.
* DownTrack: 8 numbers, a table of 3 entries, up to 5 packets that move the head by up
  to 2, two mutes, up to three NACKs, so that the table laps, a resync happens after a
  wrap, a Mute falls between any two steps of a WriteRTP, and the stream runs past a lap
  of the numbers, where the exceptions above do occur.
* Router: one subscriber is enough for the races of one DownTrack with the end of
  the receiver (subscribers share nothing but the lists, which OneTrackPerSub and
  ClosedBeforeGone treat entry by entry); capacities 1 and 2 of rtcpCh reach
  "full" with two packets. The track's id is published once.
* Room: three peers (one that syncs, one that changes, one in between; two in
  `room_live`), at most two attempts per call. A `cast` says who publishes, may leave,
  or never answers.
* Signal: two messages of the client, one of the application, with and without a
  callback.
* Parts: three candidates and two descriptions; two visits of one SSRC and one sent
  stream; two tracks and three calls of AddDownTracks; three audio tracks of two
  streams, four packets, two intervals; two calls, of which a message may be
  repeated, or one call and two lost connections around a Shutdown of either side.
  Helpers: every combination of the eight VP8 flags, aggregates of up to three units
  cut off at every byte, every nanosecond of an era of 16 seconds of 10, up to 10
  descriptions in packets of 3, every 8-bit timestamp.

### Fairness

Goroutines that can run do run (weak fairness of each loop). Where a step waits
for a mutex others keep taking, or is one of several senders of a channel, strong
fairness is assumed: Go's mutex hands itself to a waiter that has starved for a
millisecond, channels serve blocked senders in order and select chooses at random.
In the room, clients outside `Silent` answer offers and timers fire. In Signal,
a ping on a connection that is closed at either end fails. Subscriber: AddDownTracks, the closing of
DownTracks and the debouncer's timer go on, and nobody has to answer an offer (`SubFairness`). Rpc: goroutines run and
timers fire, no message has to arrive and nobody has to read the error channel
(`RpcFairness`). Nothing obliges anyone
to publish, subscribe, mute, write, call, leave or close.

## 4. Mutants

Every property of a passing run is tied to a mutated definition, kept beside the
original with a comment "Mutant of", under which TLC finds it violated: a dropped
guard, an off-by-one, a missing reset. They show that the property depends on the
code it is about.

## 5. Proofs

Every theorem below is checked by TLAPS down to its leaves and holds for every value
of the constants that satisfies the named assumptions, where a run covers one small
instance: the bounds of section 3 (packets, peers, calls, tracks, sizes) do not
limit them. Each inductive invariant was checked by TLC on the run of its module
before it was proved.

### What is proved

| Theorem | Property or result |
|---|---|
| `CalcInvariant` | CalcSpec keeps `CalcIInv` |
| `HeadIsExtended` | `HeadExtended`: the extended head is exact across wraps |
| `RingAnswers` | `RingFinds`: the ring finds what it took |
| `RtxIsAccounted` | `RtxWasStored`: what is refused as a duplicate was stored or is unwritten memory |
| `RepeatsAreDropped` | `RepeatDropped` (action property) |
| `LossesReported` | `LostExact` (action property): reports count exactly the missing packets |
| `LifeInvariant` | BufferSpec keeps `BufferIInv` and `CalcIInv` |
| `LifeImplementsCalc` | `ImplementsCalc`: refinement of CalcSpec, so the results about calc hold of a buffer that is written, bound, read and closed concurrently |
| `ReaderGetsPipe` | `ImplementsPipe`: refinement of PacketPipe |
| `BindKeepsOrder` | `HandledInOrder` |
| `CalcTypesKept` | `CalcTypeOK`, with the order of the queue of missing packets, also past its limit |
| `QueueOnlyMissing`, `LossesNotForgotten` | `NackOnlyMissing`, `NeverForgotten`: below its limit the queue is made of exactly the missing packets, until a key frame is asked for |
| `RoundsKept` | `NackRounds`: through pairs and its packing, a missing packet is named in every round it is due in, up to the limit and no further |
| `RingLeftAlone` | `NoWriteAfterReturn` (action property) |
| `PayloadStays` | `PayloadAlive` |
| `KeyFrameFirst`, `Throttled` | `StartsOnKeyFrame`, `RtxThrottled` |
| `RepeatsSent`, `TableFinds`, `NumbersAdvance` | `RtxRepeatsSent`, `SequencerFinds`, `HeadsAdvance` (action property), for streams of any length |
| `RoomInvariant` | the room keeps `RoomIInv` |
| `NeverLoopsBack`, `NeverSendsTwice`, `RestIsSynced` | `NoLoopback`, `NoDoubleSend`, `QuietMeansSynced` |
| `OneDownTrack` | `OneTrackPerSub` |
| `GoneMeansClosed` | `ClosedBeforeGone`, for MaxUps = 1 |
| `AnsweredInOrder` | `AnswersInOrder` |
| `CallerGetsItsAnswer`, `ClosedOnce` | `AnswersFit`, `PanicsExplained` |
| `EachCandidateOnce`, `FindsThePair`, `ListIsExact` | `CandidatesExact`, `PairFound`, `LookupExact` |
| `SpeakersRanked` | `SpeakersShown` (action property) |
| `HelpersCorrect` | `HelpersAgree`, for every initial state, under the bounds below |
| `NtpRoundTrip`, `ReportsNow`, `BatchesCover` | three of its parts with weaker hypotheses: NTP time, reports at any time of the era, the spreading of source descriptions |
| `LaterWithinGap` | where IsLaterTimestamp is right; the run `timestamps` shows that it is wrong beyond |

The theorems about Rpc, Candidates, Factory, Subscriber and AudioObserver are about the module's own
initial states and steps, without fairness; MCParts, which runs one of them per
behaviour, takes only those steps or leaves the module's variables alone.

### Assumptions

* Number spaces and sizes: `HalfAssumption`, `CyclesAssumption`, `MaxStepsAssumption`
  and `SequencerAssumption` (the ring and the table are smaller than half of the
  number space; the code takes their size from MaxPacketTrack), `NackAssumption`.
* The stream, `StreamAssumption` and `DownTrackAssumption`: `Late + Jump < Half`,
  packets arrive within half of the number space of the newest, without which 16-bit
  numbers are ambiguous; a buffer's stream ends before extended numbers wrap at 2^32.
* MaxUps = 1, a hypothesis of `GoneMeansClosed`: a second AddReceiver under the id
  empties the list (section 3).
* `PeerAssumption`, `RouterAssumption`, `SignalAssumption`, `SubAssumption`: finite
  sets of peers, subscribers and tracks, bounds that are numbers.
* `AudioAssumption`: finitely many audio tracks, levels that are numbers.
* Of the helpers (`HelpersCorrect`, its parts), each theorem states its hypotheses. The
  constants that TLC scales
  down may be those of the code: `Fraction >= Second + 3` (2^32 and 10^9; without the
  3, rounding there and back may miss a nanosecond), `TsBits = 32` (the provers know
  powers only of literals), timestamps at most 2^26 apart, a sender report within an
  NTP era (until 2036) and made less than 2^64 ticks times nanoseconds (two days at
  90 kHz) after the publisher's.
* `FactoryAssumption`: the SSRC of a stream the SFU sends is used by no other stream
  (pion draws it at random).

### The arguments

None of the properties is inductive; what is added, and why:

**calc** (`CalcIInv`). `HeadFollowed` ties maxSeqNo, the ring's head number and cycles
to the packet `head`, and says that the head lies within `Late` of the newest packet;
with the window this decides every comparison of 16-bit numbers (`SnDistance`,
`PacketPlace`, `NewestOrLate`). `RingInPlace` says that a stored packet d behind the
head is d slots before step; a push moves all of them by the gap (`SkipKeepsSlots`), a
late packet is filed in its own slot (`AddLate`). It needs the history variable
`aligned`: the loop in AddPacket wraps one slot earlier than push, after which the
distances are wrong. `SlotsAccounted` carries over what a slot's bytes may be. The
induction has two cases, a packet that becomes the head (`NewestStep`) and one behind
it (`LateStep`).

For `LostExact`, `CountInv` says that every packet counted is at or before the head and
that baseSN is the least number counted while all were counted within the probe window;
where the numbers have not wrapped that is the number of the first packet
(`LeastIsFirst`), so the packets expected are the ones from the first to the head.
`ReportInv` says what the last report left in lastExpected and lastReceived, as the set
of packets counted shows it now; it holds as long as nothing from before that report is
counted after it, hence `backfilled`. The rest is counting: the packets of an interval
that are not in a set (`OthersCount`), and the unsigned differences that do not wrap.

**NACK queue.** The loops of nack.go are functions over the places of the queue. What
one leaves is described entry by entry (`IsKept` for the entries a round keeps,
`IsPacked` for the pairs, `IsPushes` for a gap), and the description is proved with the
least-number principle (`Least`): a place where it fails has a first one, and one turn
of the loop contradicts that. `QueueInv` (types and order) holds whatever happens.
`LossInv` holds below the limit: numbers strictly ascend, so an entry is one loss
(`OnlyMissing`), and a loss that has not arrived has its entry or kfSN has passed it
(`Waiting`); remove needs the order, which is why it is part of it. The history between
the head's move and the round that follows in the same call is `QueueNow`. For
`NackRounds`, `RoundsInv` says that the entry of a missing packet has been in as many
rounds as its `nacked` field counts, that `asked` is not above it, and, unless the
packet is one the exceptions of section 3 name, not below; it needs that an entry with
the packet's 16 bits is its own (`OwnEntry`) and what may come before it in the queue
(`EarlierEntry`).

**Buffer** (`BufferIInv`). A packet accepted before Bind was measured against the
packets accepted by then, calc sees it later: `OrderInv` keeps the order of arrival and
says of each packet that it may arrive after those before it, whatever is the newest
now, and `PhaseInv` that calc has handled exactly a prefix of it. Together they make
each call of calc one that BufferCalc allows, which is `LifeImplementsCalc`.
`AllPlaced` says of each packet in the deque or with the reader that its slot is where
`RingInPlace` expects it. For the pipe, `UnderShape` spells out the mapped queue: the
packets in the deque, then the ones Bind has still to come to; each action then is an
append, a removal at the front, a loss or a stutter of it, and `ReadInv` bounds the
packets after Close by one.

**Room** (`RoomIInv`). `SyncInv` is a loop invariant for a loop that other goroutines
disturb: each peer on the list has what it should have, or another call is pending, or
the call that holds listLock has still to come to it. A change of the table therefore
has to be followed by a call, which is what the code does after every one of them. At
rest the last two disjuncts are gone. `TableInv` and `TableFull` relate the table to
the publishers; only the latter needs distinct ids.

**Router.** `ListInv`: a DownTrack that is made and not yet stored has the highest
number of its owner and is not on the list. `CloseInv` follows the goroutine that
closes: once it has set closed, every DownTrack stored before that is closed or on its
copy of the list.

**DownTrack.** `KeyInv`: while a key frame is needed, reSync is set, or Mute or Bind
are about to set it, or the track is off, or a key frame is on its way out; `Asked`
shows where this fails, the request overwritten by a packet let in before. `AlignInv`:
the offset maps `base`, the last head or the packet of a resync since, to the number the
head was sent with or to the one after it; it speaks of one pair of packets, so the
length of the stream does not matter, and a head less than a lap above `base` gets a
number as far above. `OrderInv`: no two entries are for one packet, none is for a packet newer
than the head, and no answer is newer than its entry's lastNack, which is what `Throttled`
needs. `RingInv`: each packet of `recent` has its entry where the distance of its
number from the table's head number says (`KeptIn`); a push moves all distances by the
gap between two head numbers, and drops from `recent` what it leaves MaxTrack - 1 or
more behind, so two packets of `recent` never share a slot (`SlotsDiffer`). `SentInv`
follows an entry from the table through the worker's queue to the subscriber; the
buffer's answer to its 16-bit number is the entry's packet while that is less than a lap
behind the publisher's head.

**Signal.** `AnswersInOrder` is inductive with the types: the sequence it speaks of,
written, held and waiting, only grows at its end and moves within.

**Rpc** (`RpcIInv`). `StatusInv`: what a caller reads when done is closed was said of
this call. `OneMessage`: while nothing was repeated a call has one message at a time
(request, answer, the answer being handled, done), so done is closed once. `StopInv`
says who may have closed stop.

**Candidates, Factory, Subscriber.** `CandListed`: a candidate is on the slice once,
and not before its call has stored it. Factory: an object belongs to one kind and one
SSRC (`Owned`), a stream that overlaps no other has the table's entry (`Alone`), and
the entry of a closed object is about to be deleted (`Leaving`). Subscriber: the
entries up to size are different DownTracks (`Placed`), a lookup has passed no entry of
its track (`Looking`), and the array has room for what the calls can still make
(`Room`), by counting.

**Audio observer** (`AudioIInv`). Each live track has an entry of its own among those of
its stream (`Matched`, a placing of tracks in entries; removeStream may take the other
track's entry out, and the placing is mended), and an observe call holds an entry of its
stream (`Held`). Then no entry counts more than was heard: the updates under way are
subtracted (`Bounded`), so that a lost update, which two tracks of one stream cause, only
makes it less. A stream with one track has one entry (`Single`), and what it counts is
exact up to the update under way (`Exact`). Calc's list names the entries of the sorted
list in their order (`SpeakersRank`), so the truth about entries is the truth about
streams.

**Helpers.** The quotients of NTP time round to the nearest; what is less than half of the
divisor from a multiple is rounded to that (`Rounded`, `RoundsTo`), and a second is
cut into more fractions than nanoseconds. The slices of a list are a table whose turns are
followed from the last one back (`SlicesTurn`, `BatchesAre`). A timestamp's bits 26 and 27
are its sixty-fourths of the circle modulo four, and a gap of one of them moves to the next
at most. An H.264 aggregate of any number of units has a table of where each ends
(`LayoutExists`); the scan of its first n bytes, from where unit k ends, finds a parameter
set among those behind k that end within n (`ScanFinds`). Both tables are recursive
functions of which the library defines only a choice; that the function exists is shown by
extending it one argument down at a time (`UnitsExist`, `ScanExists`), and what it holds
likewise, as membership of every number in a set (`Upwards`, `Downwards`), which is the
form of induction these provers can use. For VP8 the offset of every optional byte is
counted from the flags (`Encoded`), and the size that Unmarshal computes from a part of
the payload is never less than that part (`SizeIs`).

### Only model-checked

* Liveness: `ReadersStop`, `ComesToRest`, `TrackEndsCleanly`, `CloseReturns`,
  `EndTogether`, `AllProcessed`, `ChangesOffered`, `RpcEnds`. Fairness and ENABLED are
  outside the prover.
* That the runs which expect a violation have one, and the correspondence of Skip with the
  loop of AddPacket (an ASSUME of MCBufferCalc).

## 6. Plan

Done: every module of section 2 with its runs; the proofs of section 5, which state every
safety property of the runs that pass.

What a change of the code would call for first: MaxUps = 1 is a hypothesis because the
code has no answer beyond it; an AddReceiver that keeps the list of an id would let
`GoneMeansClosed` drop it. A table that keeps extended numbers would do away with the
exception for a lap in RtxRepeatsSent, and a callback that offers again after an answer
with `refused`.

## 7. Not modelled

* Jitter, bitrate, REMB and loss rate as floating-point figures, TWCC, the extraction
  of audio levels: data that no modelled property depends on.
* When a subscriber's reports are sent: they change no state; how they are spread over
  packets and what a sender report says is in Helpers.
* Relays in `publisher.go` (lines 206-342 and 369-423): they use fields that are
  commented out of the Publisher and a package that is not imported, and do not
  compile. The commented-out statistics of `route.go`; `stats/stream.go`, which has no
  callers.
* `internal/controller/http/v1/websocket.go`, an unfinished port of the room's handler
  that refers to names its package does not have.
* Room: errors of pion's AddTrack and RemoveTrack, on which attemptSync starts over.
* A NACK for an audio DownTrack would meet a nil sequencer; NACK is not negotiated for
  audio, so the model sends none.
* Media engine tables, configuration, HTTP server, logging, database, the Flutter
  client: no state of their own, or I/O.
