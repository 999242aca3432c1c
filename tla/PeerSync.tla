------------------------------ MODULE PeerSync ------------------------------
(***************************************************************************)
(* The room of the websocket server (cmd/app/main.go, and its copy in      *)
(* internal/controller/http/v1/websocket.go): every client has one         *)
(* PeerConnection, every incoming track is fanned out to all the others,   *)
(* and signalPeerConnections renegotiates until each PeerConnection sends  *)
(* what trackLocals says it should.                                        *)
(*                                                                         *)
(* listLock protects peerConnections and trackLocals; it is held during a  *)
(* whole signalPeerConnections, attempts included.  Answers of clients,    *)
(* closing of connections and arrival of tracks do not take it, so they    *)
(* happen between the turns of its loop.                                   *)
(*                                                                         *)
(* pion is external: SetLocalDescription(offer) fails while the last offer *)
(* is unanswered, RemoveTrack empties a sender, Close makes the connection *)
(* state closed and then calls OnConnectionStateChange.                    *)
(***************************************************************************)
EXTENDS Naturals, FiniteSets, Sequences, SequencesExt

CONSTANTS Peers,          \* PeerConnections, one per visit of a client
          Casts           \* what the clients may do, and the limit of attempts (25)

\* Of each cast: the peers that publish a track and its id, those that may leave or
\* fail, those whose client never answers an offer
ASSUME PeerAssumption ==
    /\ IsFiniteSet(Peers)
    /\ \A k \in Casts : /\ k.publishers \subseteq Peers /\ k.leavers \subseteq Peers
                        /\ k.silent \subseteq Peers /\ DOMAIN k.trackOf = Peers
                        /\ k.attempts \in Nat \ {0}

VARIABLES
    cast,           \* the clients of this behaviour
    list,           \* peerConnections, in order of arrival
    trackLocals,    \* id -> the peer whose TrackLocal is registered under it
    conn,           \* per peer: "none", "open", "closed"
    ws,             \* per peer: is its websocket open
    sig,            \* per peer: "stable" or "have-local-offer"
    senders,        \* per peer: tracks it is sent, as [id, owner]
    receivers,      \* per peer: ids of the tracks it publishes
    offered,        \* per peer: tracks of the last offer written to the client
    negotiated,     \* per peer: tracks of the last offer the client answered
    answered,       \* per peer: has the client ever answered
    onTrack,        \* per peer: its OnTrack goroutine: "none", "arrived", "added", "done"
    calls,          \* calls of signalPeerConnections waiting for listLock that hold
                    \* up their caller: a handler's first, and addTrack's
    others,         \* number of other calls waiting: after a close, from removeTrack,
                    \* and retries, asleep for 3 seconds or waiting
    sync            \* the call that holds listLock: its caller, next position, attempt

vars == <<cast, list, trackLocals, conn, ws, sig, senders, receivers, offered, negotiated,
          answered, onTrack, calls, others, sync>>

Callers == [why : {"join", "add"}, peer : Peers]
Other == [why |-> "other"]

NoSync == [caller |-> <<>>, pos |-> 0, attempt |-> 0]
Locked == sync # NoSync
Caller(why, p) == [why |-> why, peer |-> p]
Calling(why, p) == Caller(why, p) \in calls \/ sync.caller = <<Caller(why, p)>>

Ids(tracks) == {t.id : t \in tracks}
Track(id) == [id |-> id, owner |-> trackLocals[id]]

Init ==
    /\ cast \in Casts
    /\ list = <<>> /\ trackLocals = <<>>
    /\ conn = [p \in Peers |-> "none"] /\ ws = [p \in Peers |-> FALSE]
    /\ sig = [p \in Peers |-> "stable"]
    /\ senders = [p \in Peers |-> {}] /\ receivers = [p \in Peers |-> {}]
    /\ offered = [p \in Peers |-> {}] /\ negotiated = [p \in Peers |-> {}]
    /\ answered = [p \in Peers |-> FALSE] /\ onTrack = [p \in Peers |-> "none"]
    /\ calls = {} /\ others = 0 /\ sync = NoSync

-----------------------------------------------------------------------------
(* The client and its websocketHandler                                     *)

\* Up to its call of signalPeerConnections
Join(p) ==
    /\ conn[p] = "none" /\ ~Locked
    /\ conn' = [conn EXCEPT ![p] = "open"] /\ ws' = [ws EXCEPT ![p] = TRUE]
    /\ list' = Append(list, p)
    /\ calls' = calls \cup {Caller("join", p)}
    /\ UNCHANGED <<cast, trackLocals, sig, senders, receivers, offered, negotiated, answered, onTrack,
                   others, sync>>

\* The read loop, which starts when that call is over: an answer arrives
Answer(p) ==
    /\ p \notin cast.silent
    /\ conn[p] = "open" /\ ws[p] /\ ~Calling("join", p)
    /\ sig[p] = "have-local-offer"
    /\ sig' = [sig EXCEPT ![p] = "stable"]
    /\ negotiated' = [negotiated EXCEPT ![p] = offered[p]]
    /\ answered' = [answered EXCEPT ![p] = TRUE]
    /\ UNCHANGED <<cast, list, trackLocals, conn, ws, senders, receivers, offered, onTrack,
                   calls, others, sync>>

\* The client goes away, or sends what the read loop cannot parse
Leave(p) ==
    /\ p \in cast.leavers /\ ws[p]
    /\ ws' = [ws EXCEPT ![p] = FALSE]
    /\ UNCHANGED <<cast, list, trackLocals, conn, sig, senders, receivers, offered, negotiated, answered,
                   onTrack, calls, others, sync>>

\* peerConnection.Close(), deferred by the handler (its websocket is gone, or a
\* candidate or answer was refused), or because the connection failed.
\* OnConnectionStateChange(closed) then calls signalPeerConnections.
ClosePeer(p) ==
    /\ p \in cast.leavers /\ conn[p] = "open" /\ ~Calling("join", p)
    /\ conn' = [conn EXCEPT ![p] = "closed"]
    /\ others' = others + 1
    /\ UNCHANGED <<cast, list, trackLocals, ws, sig, senders, receivers, offered, negotiated, answered,
                   onTrack, calls, sync>>

-----------------------------------------------------------------------------
(* A track of a client: OnTrack                                            *)

TrackArrives(p) ==
    /\ p \in cast.publishers /\ conn[p] = "open" /\ onTrack[p] = "none"
    /\ answered[p]
    /\ onTrack' = [onTrack EXCEPT ![p] = "arrived"]
    /\ receivers' = [receivers EXCEPT ![p] = {cast.trackOf[p]}]
    /\ UNCHANGED <<cast, list, trackLocals, conn, ws, sig, senders, offered, negotiated, answered,
                   calls, others, sync>>

addTrack(p) ==
    /\ onTrack[p] = "arrived" /\ ~Locked
    /\ onTrack' = [onTrack EXCEPT ![p] = "added"]
    /\ trackLocals' = [id \in DOMAIN trackLocals \cup {cast.trackOf[p]} |->
                          IF id = cast.trackOf[p] THEN p ELSE trackLocals[id]]
    /\ calls' = calls \cup {Caller("add", p)}
    /\ UNCHANGED <<cast, list, conn, ws, sig, senders, receivers, offered, negotiated, answered,
                   others, sync>>

\* Mutant of removeTrack: the other peers are not told
removeTrackQuietly(p) ==
    /\ onTrack[p] = "added" /\ conn[p] = "closed" /\ ~Calling("add", p) /\ ~Locked
    /\ onTrack' = [onTrack EXCEPT ![p] = "done"]
    /\ trackLocals' = [id \in DOMAIN trackLocals \ {cast.trackOf[p]} |-> trackLocals[id]]
    /\ UNCHANGED <<cast, list, conn, ws, sig, senders, receivers, offered, negotiated, answered,
                   calls, others, sync>>

\* Reading the track fails once its connection is closed
removeTrack(p) ==
    /\ onTrack[p] = "added" /\ conn[p] = "closed" /\ ~Calling("add", p) /\ ~Locked
    /\ onTrack' = [onTrack EXCEPT ![p] = "done"]
    /\ trackLocals' = [id \in DOMAIN trackLocals \ {cast.trackOf[p]} |-> trackLocals[id]]
    /\ others' = others + 1
    /\ UNCHANGED <<cast, list, conn, ws, sig, senders, receivers, offered, negotiated, answered,
                   calls, sync>>

-----------------------------------------------------------------------------
(* signalPeerConnections                                                   *)

SyncStart(c) ==
    /\ c \in calls /\ ~Locked
    /\ calls' = calls \ {c}
    /\ sync' = [caller |-> <<c>>, pos |-> 1, attempt |-> 0]
    /\ UNCHANGED <<cast, list, trackLocals, conn, ws, sig, senders, receivers, offered,
                   negotiated, answered, onTrack, others>>

SyncStartOther ==
    /\ others > 0 /\ ~Locked
    /\ others' = others - 1
    /\ sync' = [caller |-> <<Other>>, pos |-> 1, attempt |-> 0]
    /\ UNCHANGED <<cast, list, trackLocals, conn, ws, sig, senders, receivers, offered,
                   negotiated, answered, onTrack, calls>>

\* attemptSync returned true: once more from the start
Again == sync' = [sync EXCEPT !.pos = 1, !.attempt = @ + 1]

AtPeer == Locked /\ sync.attempt < cast.attempts /\ sync.pos <= Len(list)

\* A closed connection is taken off the list
SyncDrop ==
    /\ AtPeer /\ conn[list[sync.pos]] = "closed"
    /\ list' = RemoveAt(list, sync.pos)
    /\ Again
    /\ UNCHANGED <<cast, trackLocals, conn, ws, sig, senders, receivers, offered, negotiated, answered,
                   onTrack, calls, others>>

\* Mutant of Synced: forgets what is being sent already
SyncedAll(p) ==
    {t \in senders[p] : t.id \in DOMAIN trackLocals}
    \cup {Track(id) : id \in DOMAIN trackLocals \ receivers[p]}

\* Mutant of Synced: forgets the peer's own tracks
SyncedLoopback(p) ==
    {t \in senders[p] : t.id \in DOMAIN trackLocals}
    \cup {Track(id) : id \in DOMAIN trackLocals \ Ids(senders[p])}

\* Senders whose id is gone are removed, tracks neither sent nor received under
\* their id are added
Synced(p) ==
    {t \in senders[p] : t.id \in DOMAIN trackLocals}
    \cup {Track(id) : id \in DOMAIN trackLocals \ (Ids(senders[p]) \cup receivers[p])}

\* The senders are brought up to date, then an offer is made.  It fails after
\* that while the last one is unanswered, or when the websocket is gone.
SyncPeer ==
    /\ AtPeer /\ conn[list[sync.pos]] = "open"
    /\ LET p == list[sync.pos]
       IN /\ senders' = [senders EXCEPT ![p] = Synced(p)]
          /\ sig' = [sig EXCEPT ![p] = "have-local-offer"]
          /\ IF sig[p] = "stable" /\ ws[p]
             THEN /\ offered' = [offered EXCEPT ![p] = Synced(p)]
                  /\ sync' = [sync EXCEPT !.pos = @ + 1]
             ELSE Again /\ UNCHANGED offered
    /\ UNCHANGED <<cast, list, trackLocals, conn, ws, receivers, negotiated, answered, onTrack, calls, others>>

\* Mutant of SyncDone: a retry is scheduled after success too
SyncDoneRetries ==
    /\ Locked /\ sync.attempt < cast.attempts /\ sync.pos > Len(list)
    /\ sync' = NoSync
    /\ others' = others + 1
    /\ UNCHANGED <<cast, list, trackLocals, conn, ws, sig, senders, receivers, offered,
                   negotiated, answered, onTrack, calls>>

\* attemptSync came to the end of the list
SyncDone ==
    /\ Locked /\ sync.attempt < cast.attempts /\ sync.pos > Len(list)
    /\ sync' = NoSync
    /\ UNCHANGED <<cast, list, trackLocals, conn, ws, sig, senders, receivers, offered,
                   negotiated, answered, onTrack, calls, others>>

\* "Release the lock and attempt a sync in 3 seconds": a goroutine that sleeps, then
\* calls signalPeerConnections
SyncGiveUp ==
    /\ Locked /\ sync.attempt = cast.attempts
    /\ sync' = NoSync
    /\ others' = others + 1
    /\ UNCHANGED <<cast, list, trackLocals, conn, ws, sig, senders, receivers, offered,
                   negotiated, answered, onTrack, calls>>

Next ==
    \/ \E p \in Peers :
          \/ Join(p) \/ Answer(p) \/ Leave(p) \/ ClosePeer(p)
          \/ TrackArrives(p) \/ addTrack(p) \/ removeTrack(p)
    \/ \E c \in Callers : SyncStart(c)
    \/ SyncStartOther
    \/ SyncDrop \/ SyncPeer \/ SyncDone \/ SyncGiveUp

(***************************************************************************)
(* Goroutines run and locks are granted; a client that is not              *)
(* silent answers an offer it has; a handler whose websocket is gone       *)
(* returns.  Nobody has to join, publish or leave.  Lock requests are      *)
(* treated strongly fairly: a Go mutex hands itself to a starving waiter.  *)
(***************************************************************************)
Fairness ==
    /\ \A p \in Peers : WF_vars(Answer(p))
    /\ WF_vars(\E p \in Peers : ~ws[p] /\ ClosePeer(p))
    /\ SF_vars(\E p \in Peers : addTrack(p) \/ removeTrack(p))
    /\ SF_vars(\E c \in Callers : SyncStart(c))
    /\ SF_vars(SyncStartOther)
    /\ WF_vars(SyncDrop \/ SyncPeer \/ SyncDone \/ SyncGiveUp)

Spec == Init /\ [][Next]_vars /\ Fairness

-----------------------------------------------------------------------------
(* Properties                                                              *)

\* "Don't receive videos we are sending": no peer is sent its own track.
NoLoopback == \A p \in Peers : \A t \in senders[p] : t.owner # p

\* "so we don't double send": no peer is sent two tracks under one id.
NoDoubleSend == \A p \in Peers : \A t, u \in senders[p] : t.id = u.id => t = u

\* Nothing is left to do: no call, no retry, every offer answered
Quiet ==
    /\ calls = {} /\ others = 0 /\ ~Locked
    /\ \A p \in Peers : conn[p] = "open" => ws[p] /\ sig[p] = "stable"
    /\ \A p \in Peers : onTrack[p] # "arrived"
                        /\ (onTrack[p] = "added" => conn[p] = "open")

\* The tracks open peers publish, other than p's own
Wanted(p) ==
    {[id |-> cast.trackOf[q], owner |-> q] :
        q \in {r \in Peers \ {p} : onTrack[r] = "added" /\ conn[r] = "open"}}

AllSynced ==
    Quiet => \A p \in Peers :
        /\ conn[p] = "open" => negotiated[p] = Wanted(p)
        /\ conn[p] = "closed" => ~Contains(list, p)

\* When the room comes to rest, each PeerConnection has negotiated exactly the
\* tracks of the others, and closed ones are off the list (main.go:128), as long as
\* no two peers ever publish under one id.
QuietMeansSynced ==
    (\A p, q \in cast.publishers : p # q => cast.trackOf[p] # cast.trackOf[q]) => AllSynced

\* If clients answer, the room comes to rest.
ComesToRest == <>[]Quiet

-----------------------------------------------------------------------------
(* What the repository says and the code does not do                       *)

\* main.go:128, "updates each PeerConnection so that it is getting all the
\* expected media tracks", also when a client comes back with the same track: of
\* the peers that publish under one id, at most one is open.
RejoinSynced ==
    (\A p, q \in cast.publishers :
        p # q /\ conn[p] = "open" /\ conn[q] = "open" => cast.trackOf[p] # cast.trackOf[q])
    => AllSynced
=============================================================================
