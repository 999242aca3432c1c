------------------------------- MODULE Router -------------------------------
(***************************************************************************)
(* One published track on its way to the subscribers: the router of the    *)
(* publisher (route.go), the WebRTCReceiver of the track (receiver.go),    *)
(* the subscribers' lists of DownTracks (subscribe.go), the channel that   *)
(* carries RTCP to the publisher, and the publisher's Close.               *)
(*                                                                         *)
(* AddReceiver and AddDownTracks hold the router's lock from start to end. *)
(* The receiver forwards packets and closes itself in goroutines of its    *)
(* own, one per AddUpTrack, which read the copy-on-write list of           *)
(* DownTracks without a lock.  A receive buffer (module Buffer) is reduced *)
(* to its lock, its queue of packets and whether it is closed: calc sends  *)
(* feedback on the bounded channel with the buffer locked.                 *)
(*                                                                         *)
(* The module follows one WebRTCReceiver: a track published under the same *)
(* id after deleteReceiver gets another one.                               *)
(***************************************************************************)
EXTENDS Integers, FiniteSets, Sequences, SequencesExt

CONSTANTS Subs,         \* subscribers
          Cap,          \* capacity of rtcpCh: 10
          MaxUps,       \* bound: calls of AddReceiver for the track's id
          MaxPackets,   \* bound: packets written to each buffer
          MaxDown       \* bound: DownTracks made for one subscriber

ASSUME RouterAssumption ==
    /\ IsFiniteSet(Subs) /\ Cap \in Nat \ {0} /\ MaxUps \in Nat \ {0}
    /\ MaxPackets \in Nat /\ MaxDown \in Nat

Ups == 1 .. MaxUps
DownTracks == Subs \X (1 .. MaxDown)

VARIABLES
    routerLock,     \* <<>>, or who holds r.Lock: <<s>> for AddDownTracks, <<"up">>
    registered,     \* is the receiver in r.receivers
    published,      \* AddReceiver has returned it: Session.Publish may be called
    ups,            \* AddReceiver calls; the n-th brings buffer n
    buffers,        \* w.buffers: number of the buffer read, 0 before the first
    wclosed,        \* w.closed
    once,           \* closeOnce: "new", "running", "done"
    downTracks,     \* w.downTracks
    loop,           \* per writeRTP goroutine: where it is
    reading,        \* per goroutine: the buffer its ReadExtended call is about
    todo,           \* per goroutine: rest of the list it loaded
    bufLock,        \* per buffer: "free", or held by Bind or Write, whose
                    \* calc produces "feedback" or is "quiet"
    queued,         \* per buffer: length of extPackets
    written,        \* per buffer: packets written
    bclosed,        \* per buffer: closed
    tracks,         \* per subscriber: s.tracks, for this track's stream
    made,           \* per subscriber: DownTracks made
    adding,         \* per subscriber: where AddDownTracks is
    subClosed,      \* per subscriber: its PeerConnection is closed
    dtClosed,       \* DownTracks closed
    rtcpCh,         \* number of packets in the channel
    sending,        \* the goroutine sendRTCP runs
    pub,            \* Publisher: "open", "stopping", "closing", "closed"
    early           \* history: DownTracks stored before the receiver was closed

recvVars == <<buffers, wclosed, once, downTracks>>
loopVars == <<loop, reading, todo>>
bufVars == <<bufLock, queued, written, bclosed>>
subVars == <<tracks, made, adding, subClosed>>
routeVars == <<routerLock, registered, published, ups>>
rtcpVars == <<rtcpCh, sending, pub>>
vars == <<routeVars, recvVars, loopVars, bufVars, subVars, dtClosed, rtcpVars, early>>

Init ==
    /\ routerLock = <<>> /\ registered = FALSE /\ published = FALSE /\ ups = 0
    /\ buffers = 0 /\ wclosed = FALSE /\ once = "new" /\ downTracks = <<>>
    /\ loop = [g \in Ups |-> "none"] /\ reading = [g \in Ups |-> 0]
    /\ todo = [g \in Ups |-> <<>>]
    /\ bufLock = [b \in Ups |-> "free"] /\ queued = [b \in Ups |-> 0]
    /\ written = [b \in Ups |-> 0] /\ bclosed = [b \in Ups |-> FALSE]
    /\ tracks = [s \in Subs |-> {}] /\ made = [s \in Subs |-> 0]
    /\ adding = [s \in Subs |-> "idle"] /\ subClosed = [s \in Subs |-> FALSE]
    /\ dtClosed = {} /\ rtcpCh = 0 /\ sending = TRUE /\ pub = "open" /\ early = {}

\* A send on rtcpCh goes through only while there is room
Push == rtcpCh < Cap /\ rtcpCh' = rtcpCh + 1

-----------------------------------------------------------------------------
(* AddReceiver: OnTrack of the publisher, a new track or a known id        *)

\* What calc may turn out to do while it holds the buffer
Calcs == {"quiet", "feedback"}

\* feedbackCB sends on rtcpCh, with the buffer still locked
Feedback(b) == IF bufLock[b] = "feedback" THEN Push ELSE UNCHANGED rtcpCh

\* Registers the receiver if the id is new; AddUpTrack replaces the buffer AND
\* the list of DownTracks and starts a goroutine, unless the receiver is closed
AddReceiver(calc) ==
    /\ pub \in {"open", "stopping"} /\ routerLock = <<>>
    /\ ups < MaxUps /\ (ups = 0 \/ registered)
    /\ routerLock' = <<"up">> /\ registered' = TRUE /\ ups' = ups + 1
    /\ bufLock' = [bufLock EXCEPT ![ups + 1] = calc]
    /\ IF wclosed THEN UNCHANGED <<buffers, downTracks, loop>>
       ELSE /\ buffers' = ups + 1 /\ downTracks' = <<>>
            /\ loop' = [loop EXCEPT ![ups + 1] = "call"]
    /\ UNCHANGED <<published, wclosed, once, reading, todo, queued, written, bclosed,
                   subVars, dtClosed, rtcpVars, early>>

\* buff.Bind handles what came before it; feedback is sent under both locks
Bind ==
    /\ routerLock = <<"up">>
    /\ Feedback(ups)
    /\ bufLock' = [bufLock EXCEPT ![ups] = "free"]
    /\ routerLock' = <<>> /\ published' = TRUE
    /\ UNCHANGED <<registered, ups, recvVars, loopVars, queued, written, bclosed,
                   subVars, dtClosed, sending, pub, early>>

-----------------------------------------------------------------------------
(* AddDownTracks: Session.Publish passes the receiver it was given,        *)
(* Session.Subscribe takes those of r.receivers                            *)

AddDownTracks(s) ==
    /\ adding[s] = "idle" /\ routerLock = <<>> /\ made[s] < MaxDown
    /\ published \/ registered
    /\ routerLock' = <<s>>
    /\ adding' = [adding EXCEPT ![s] = "make"]
    /\ UNCHANGED <<registered, published, ups, recvVars, loopVars, bufVars, tracks, made,
                   subClosed, dtClosed, rtcpVars, early>>

\* Return from AddDownTracks: the deferred Unlock
Unlocks(s, pc) ==
    /\ adding' = [adding EXCEPT ![s] = pc]
    /\ routerLock' = IF pc = "idle" THEN <<>> ELSE routerLock

\* The DownTrack made[s] + 1, put on the subscriber's list
NewDownTrack(s) ==
    /\ made' = [made EXCEPT ![s] = @ + 1]
    /\ tracks' = [tracks EXCEPT ![s] = @ \cup {made[s] + 1}]

\* Mutant of AddDownTrack: does not look for a DownTrack the subscriber has
AddDownTrackAgain(s) ==
    /\ adding[s] = "make"
    /\ \/ ~subClosed[s] /\ NewDownTrack(s) /\ Unlocks(s, "check")
       \/ subClosed[s] /\ Unlocks(s, "idle") /\ UNCHANGED <<made, tracks>>
    /\ UNCHANGED <<registered, published, ups, recvVars, loopVars, bufVars,
                   subClosed, dtClosed, rtcpVars, early>>

\* Mutant of AddDownTrack: an error leaves the router locked
AddDownTrackLocked(s) ==
    /\ adding[s] = "make"
    /\ \/ tracks[s] # {} /\ Unlocks(s, "negotiate") /\ UNCHANGED <<made, tracks>>
       \/ tracks[s] = {} /\ subClosed[s] /\ adding' = [adding EXCEPT ![s] = "idle"]
          /\ UNCHANGED <<made, tracks, routerLock>>
       \/ tracks[s] = {} /\ ~subClosed[s] /\ NewDownTrack(s) /\ Unlocks(s, "check")
    /\ UNCHANGED <<registered, published, ups, recvVars, loopVars, bufVars,
                   subClosed, dtClosed, rtcpVars, early>>

\* The subscriber has the track already; its PeerConnection refuses a
\* transceiver; or a DownTrack is made and put on the subscriber's list
AddDownTrack(s) ==
    /\ adding[s] = "make"
    /\ \/ tracks[s] # {} /\ Unlocks(s, "negotiate") /\ UNCHANGED <<made, tracks>>
       \/ tracks[s] = {} /\ subClosed[s] /\ Unlocks(s, "idle") /\ UNCHANGED <<made, tracks>>
       \/ tracks[s] = {} /\ ~subClosed[s] /\ NewDownTrack(s) /\ Unlocks(s, "check")
    /\ UNCHANGED <<registered, published, ups, recvVars, loopVars, bufVars,
                   subClosed, dtClosed, rtcpVars, early>>

\* recv.AddDownTrack: a closed receiver ignores it ...
AddDownTrackCheck(s) ==
    /\ adding[s] = "check"
    /\ Unlocks(s, IF wclosed THEN "negotiate" ELSE "store")
    /\ UNCHANGED <<registered, published, ups, recvVars, loopVars, bufVars, tracks, made,
                   subClosed, dtClosed, rtcpVars, early>>

\* ... an open one stores it; closed is not tested again under w.Lock
storeDownTrack(s) ==
    /\ adding[s] = "store"
    /\ downTracks' = Append(downTracks, <<s, made[s]>>)
    /\ early' = IF wclosed THEN early ELSE early \cup {<<s, made[s]>>}
    /\ Unlocks(s, "negotiate")
    /\ UNCHANGED <<registered, published, ups, buffers, wclosed, once, loopVars, bufVars,
                   tracks, made, subClosed, dtClosed, rtcpVars>>

\* s.negotiate(), whose effect is the debounced renegotiation
Negotiate(s) ==
    /\ adding[s] = "negotiate"
    /\ Unlocks(s, "idle")
    /\ UNCHANGED <<registered, published, ups, recvVars, loopVars, bufVars, tracks, made,
                   subClosed, dtClosed, rtcpVars, early>>

\* ICE of the subscriber fails or closes: pc.Close.  Its DownTracks stay where
\* they are; they are no longer bound and drop what they are given.
SubscriberClose(s) ==
    /\ ~subClosed[s] /\ subClosed' = [subClosed EXCEPT ![s] = TRUE]
    /\ UNCHANGED <<routeVars, recvVars, loopVars, bufVars, tracks, made, adding,
                   dtClosed, rtcpVars, early>>

-----------------------------------------------------------------------------
(* The buffer, as the router sees it                                       *)

CalcStart(b, calc) ==
    /\ b <= ups /\ written[b] < MaxPackets
    /\ bufLock[b] = "free" /\ ~bclosed[b]
    /\ bufLock' = [bufLock EXCEPT ![b] = calc]
    /\ UNCHANGED <<routeVars, recvVars, loopVars, queued, written, bclosed, subVars,
                   dtClosed, rtcpVars, early>>

\* The packet is queued, and feedback, if there is any, sent before the unlock
CalcEnd(b) ==
    /\ bufLock[b] # "free" /\ ~(routerLock = <<"up">> /\ b = ups)
    /\ Feedback(b)
    /\ bufLock' = [bufLock EXCEPT ![b] = "free"]
    /\ queued' = [queued EXCEPT ![b] = @ + 1]
    /\ written' = [written EXCEPT ![b] = @ + 1]
    /\ UNCHANGED <<routeVars, recvVars, loopVars, bclosed, subVars, dtClosed, sending,
                   pub, early>>

\* The track ends, or the publisher's PeerConnection is being closed
CloseBuffer(b) ==
    /\ b <= ups /\ pub # "closed"
    /\ bufLock[b] = "free" /\ ~bclosed[b]
    /\ bclosed' = [bclosed EXCEPT ![b] = TRUE]
    /\ UNCHANGED <<routeVars, recvVars, loopVars, bufLock, queued, written, subVars,
                   dtClosed, rtcpVars, early>>

-----------------------------------------------------------------------------
(* writeRTP, goroutine g                                                   *)

At(g, pc) == loop' = [loop EXCEPT ![g] = pc]

\* w.buffers is read anew for each call of ReadExtended ...
ReadCall(g) ==
    /\ loop[g] = "call" /\ At(g, "read")
    /\ reading' = [reading EXCEPT ![g] = buffers]
    /\ UNCHANGED <<routeVars, recvVars, todo, bufVars, subVars, dtClosed, rtcpVars, early>>

\* ... which returns a packet, to be given to the DownTracks of this moment
ReadPacket(g) ==
    /\ loop[g] = "read" /\ At(g, "write")
    /\ LET b == reading[g]
       IN /\ ~bclosed[b] /\ bufLock[b] = "free" /\ queued[b] > 0
          /\ queued' = [queued EXCEPT ![b] = @ - 1]
    /\ todo' = [todo EXCEPT ![g] = downTracks]
    /\ UNCHANGED <<routeVars, recvVars, reading, bufLock, written, bclosed, subVars,
                   dtClosed, rtcpVars, early>>

\* dt.WriteRTP sends or drops the packet; waiting for a key frame it calls
\* SendRTCP, which lets a PLI through or drops it as too soon after the last
WriteRTP(g) ==
    /\ loop[g] = "write" /\ todo[g] # <<>>
    /\ At(g, "write") \/ At(g, "pli")
    /\ todo' = [todo EXCEPT ![g] = Tail(@)]
    /\ UNCHANGED <<routeVars, recvVars, reading, bufVars, subVars, dtClosed, rtcpVars, early>>

SendRTCP(g) ==
    /\ loop[g] = "pli" /\ At(g, "write")
    /\ Push
    /\ UNCHANGED <<routeVars, recvVars, reading, todo, bufVars, subVars, dtClosed,
                   sending, pub, early>>

WriteDone(g) ==
    /\ loop[g] = "write" /\ todo[g] = <<>> /\ At(g, "call")
    /\ UNCHANGED <<routeVars, recvVars, reading, todo, bufVars, subVars, dtClosed,
                   rtcpVars, early>>

\* io.EOF: the first goroutine to get here closes the receiver, others wait for it
ReadEOF(g) ==
    /\ loop[g] = "read" /\ bclosed[reading[g]]
    /\ \/ once = "new" /\ once' = "running" /\ At(g, "close")
       \/ once = "done" /\ At(g, "done") /\ UNCHANGED once
    /\ UNCHANGED <<routeVars, buffers, wclosed, downTracks, reading, todo, bufVars,
                   subVars, dtClosed, rtcpVars, early>>

\* Mutant of CloseReceiver: closed is not set
CloseReceiverForgets(g) ==
    /\ loop[g] = "close" /\ At(g, "load")
    /\ UNCHANGED <<routeVars, recvVars, reading, todo, bufVars, subVars, dtClosed,
                   rtcpVars, early>>

\* w.closed.set(true)
CloseReceiver(g) ==
    /\ loop[g] = "close" /\ At(g, "load")
    /\ wclosed' = TRUE
    /\ UNCHANGED <<routeVars, buffers, once, downTracks, reading, todo, bufVars, subVars,
                   dtClosed, rtcpVars, early>>

\* closeTracks loads the list ...
CloseTracks(g) ==
    /\ loop[g] = "load" /\ At(g, "tracks")
    /\ todo' = [todo EXCEPT ![g] = downTracks]
    /\ UNCHANGED <<routeVars, recvVars, reading, bufVars, subVars, dtClosed,
                   rtcpVars, early>>

\* ... and closes each DownTrack: the subscriber, unless it is closed itself,
\* takes it off its list and renegotiates
CloseDownTrack(g) ==
    /\ loop[g] = "tracks" /\ todo[g] # <<>>
    /\ LET d == Head(todo[g])
       IN /\ dtClosed' = dtClosed \cup {d}
          /\ tracks' = IF subClosed[d[1]] \/ d \in dtClosed THEN tracks
                       ELSE [tracks EXCEPT ![d[1]] = @ \ {d[2]}]
    /\ todo' = [todo EXCEPT ![g] = Tail(@)]
    /\ UNCHANGED <<routeVars, recvVars, loop, reading, bufVars, made, adding, subClosed,
                   rtcpVars, early>>

\* onCloseHandler: deleteReceiver takes the router's lock
deleteReceiver(g) ==
    /\ loop[g] = "tracks" /\ todo[g] = <<>> /\ routerLock = <<>>
    /\ At(g, "done")
    /\ registered' = FALSE /\ once' = "done"
    /\ UNCHANGED <<routerLock, published, ups, buffers, wclosed, downTracks, reading, todo,
                   bufVars, subVars, dtClosed, rtcpVars, early>>

-----------------------------------------------------------------------------
(* RTCP to the publisher, and its end                                      *)

\* handleRTCP of a DownTrack forwards a PLI or FIR
ForwardRTCP ==
    /\ \E i \in DOMAIN downTracks : ~subClosed[downTracks[i][1]]
    /\ Push
    /\ UNCHANGED <<routeVars, recvVars, loopVars, bufVars, subVars, dtClosed, sending,
                   pub, early>>

\* Mutant of sendRTCP: an error of writeRTCP ends it
sendRTCPEnds ==
    /\ sending /\ rtcpCh > 0 /\ rtcpCh' = rtcpCh - 1
    /\ sending' \in BOOLEAN
    /\ UNCHANGED <<routeVars, recvVars, loopVars, bufVars, subVars, dtClosed, pub, early>>

\* An error of writeRTCP is only logged
sendRTCP ==
    /\ sending /\ rtcpCh > 0 /\ rtcpCh' = rtcpCh - 1
    /\ UNCHANGED <<routeVars, recvVars, loopVars, bufVars, subVars, dtClosed, sending,
                   pub, early>>

\* Publisher.Close: ICE failed or closed
PublisherClose ==
    /\ pub = "open" /\ pub' = "stopping"
    /\ UNCHANGED <<routeVars, recvVars, loopVars, bufVars, subVars, dtClosed, rtcpCh,
                   sending, early>>

\* router.Stop hands sendRTCP its signal, and sendRTCP returns
Stop ==
    /\ pub = "stopping" /\ sending
    /\ sending' = FALSE /\ pub' = "closing"
    /\ UNCHANGED <<routeVars, recvVars, loopVars, bufVars, subVars, dtClosed, rtcpCh, early>>

\* pc.Close returns when it has closed every buffer
PublisherClosed ==
    /\ pub = "closing" /\ \A b \in 1 .. ups : bclosed[b]
    /\ pub' = "closed"
    /\ UNCHANGED <<routeVars, recvVars, loopVars, bufVars, subVars, dtClosed, rtcpCh,
                   sending, early>>

Loop(g) ==
    \/ ReadCall(g) \/ ReadPacket(g) \/ WriteRTP(g) \/ SendRTCP(g) \/ WriteDone(g)
    \/ ReadEOF(g) \/ CloseReceiver(g) \/ CloseTracks(g) \/ CloseDownTrack(g)

Adding(s) ==
    AddDownTrack(s) \/ AddDownTrackCheck(s) \/ storeDownTrack(s) \/ Negotiate(s)

Next ==
    \/ \E calc \in Calcs : AddReceiver(calc) \/ \E b \in Ups : CalcStart(b, calc)
    \/ Bind
    \/ \E s \in Subs : AddDownTracks(s) \/ Adding(s) \/ SubscriberClose(s)
    \/ \E b \in Ups : CalcEnd(b) \/ CloseBuffer(b)
    \/ \E g \in Ups : Loop(g) \/ deleteReceiver(g)
    \/ ForwardRTCP \/ sendRTCP
    \/ PublisherClose \/ Stop \/ PublisherClosed

(***************************************************************************)
(* Goroutines that can run are run; a Go mutex hands itself to a starving  *)
(* waiter (strong fairness for deleteReceiver and for CloseBuffer during   *)
(* pc.Close) and a channel serves blocked senders in order (strong         *)
(* fairness for what sends on rtcpCh); select does not prefer the channel  *)
(* to the stop signal.  Nobody has to publish, subscribe, write or close.  *)
(***************************************************************************)
Fairness ==
    /\ \A g \in Ups : WF_vars(Loop(g)) /\ SF_vars(SendRTCP(g)) /\ SF_vars(deleteReceiver(g))
    /\ \A s \in Subs : WF_vars(Adding(s))
    /\ \A b \in Ups : SF_vars(CalcEnd(b)) /\ SF_vars(pub = "closing" /\ CloseBuffer(b))
    /\ SF_vars(Bind) /\ WF_vars(sendRTCP) /\ SF_vars(Stop) /\ WF_vars(PublisherClosed)

Spec == Init /\ [][Next]_vars /\ Fairness

-----------------------------------------------------------------------------
(* Properties                                                              *)

\* However Session.Publish and Session.Subscribe meet, a subscriber has at most
\* one DownTrack of the track, and no DownTrack is on the receiver's list twice.
OneTrackPerSub ==
    /\ \A s \in Subs : Cardinality(tracks[s]) <= 1
    /\ \A i, j \in DOMAIN downTracks : downTracks[i] = downTracks[j] => i = j

\* Once the receiver is off the router, every DownTrack stored on it while it was
\* open is closed.  (For a track whose id is not published twice.)
ClosedBeforeGone == once = "done" => early \subseteq dtClosed

\* Nobody takes RTCP out of the channel any more and it is full
Jammed == ~sending /\ rtcpCh = Cap

\* When the track ends, the receiver leaves the router, unless RTCP is jammed.
TrackEndsCleanly == bclosed[1] ~> (~registered \/ Jammed)

\* Publisher.Close returns, unless RTCP is jammed.
CloseReturns == (pub = "stopping") ~> (pub = "closed" \/ Jammed)

-----------------------------------------------------------------------------
(* What the repository says and the code does not do                       *)

\* receiver.go:150, OnCloseHandler, "method to be called on remote tracked
\* removed": when the publisher's connection, and with it its track, is closed, the
\* handler, which unregisters the receiver, is called.
HandlerCalled == (pub = "closing" /\ registered) ~> once = "done"
=============================================================================
