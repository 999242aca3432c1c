----------------------------- MODULE Subscriber -----------------------------
(***************************************************************************)
(* A Subscriber (subscribe.go) and one stream of one publisher: the list   *)
(* of the stream's DownTracks, and the negotiation its changes call for.   *)
(*                                                                         *)
(* Calls of router.AddDownTracks hold the router's lock, one at a time.    *)
(* AddDownTrack looks for the track in the slice GetDownTracks returns,    *)
(* which is the Subscriber's own and not a copy, without the Subscriber's  *)
(* lock.  Receivers that end close their DownTracks without the router's   *)
(* lock, and RemoveDownTrack changes that slice in place.  (Only           *)
(* AddDownTracks appends, so a lookup never sees the array reallocated.)   *)
(*                                                                         *)
(* External: pion, whose sender list an offer describes; the debouncer,    *)
(* which calls back once after a pause; the application's callback, which  *)
(* makes an offer with CreateOffer.                                        *)
(***************************************************************************)
EXTENDS Naturals, Sequences, FiniteSets

CONSTANTS Tracks,       \* tracks of the stream, each with its receiver
          MaxCalls      \* bound: calls of AddDownTracks

ASSUME SubAssumption == IsFiniteSet(Tracks) /\ MaxCalls \in Nat

VARIABLES
    slots, size,    \* the array of DownTracks, and the length of the slice; 0: nil
    dtrackOf,       \* sequence of the DownTracks made: the track of each
    receiver,       \* per track: "live", "closing", "gone"
    stored,         \* DownTracks on a receiver's list; a closed one takes no more
    adding,         \* the AddDownTracks call that has the router's lock
    calls,          \* count, for the bound
    closer,         \* per DownTrack being closed: "remove", "negotiate"
    senders,        \* DownTracks the PeerConnection sends
    armed,          \* the debouncer's timer runs
    dirty,          \* senders changed since the last offer
    unanswered,     \* the last offer waits for its answer (pion: have-local-offer)
    pcState,        \* "open", "closed"
    \* history
    crashed,        \* a lookup met nil
    crossed,        \* RemoveDownTrack ran during a lookup
    unannounced,    \* AddDownTracks failed after it had added a DownTrack
    refused         \* CreateOffer failed since the last offer, the connection open

listVars == <<slots, size, dtrackOf>>
recvVars == <<receiver, stored>>
flags == <<crashed, crossed, unannounced, refused>>
subVars == <<listVars, recvVars, adding, calls, closer, senders, armed, dirty, unanswered,
             pcState, flags>>

Idle == [at |-> "idle", todo |-> {}, track |-> {}, pos |-> 0, len |-> 0, added |-> FALSE]
MaxObjs == MaxCalls * Cardinality(Tracks)
Listed == {slots[i] : i \in 1 .. size}

SubInit ==
    /\ slots = [i \in 1 .. MaxObjs |-> 0] /\ size = 0 /\ dtrackOf = <<>>
    /\ receiver = [r \in Tracks |-> "live"]
    /\ stored = {} /\ adding = Idle /\ calls = 0
    /\ closer = <<>> /\ senders = {} /\ armed = FALSE /\ dirty = FALSE
    /\ unanswered = FALSE /\ pcState = "open"
    /\ crashed = FALSE /\ crossed = FALSE /\ unannounced = FALSE /\ refused = FALSE

-----------------------------------------------------------------------------
(* router.AddDownTracks: for one receiver (Publish) or for all (Subscribe) *)

AddDownTracks(rs) ==
    /\ adding = Idle /\ calls < MaxCalls /\ ~crashed
    /\ rs # {} /\ \A r \in rs : receiver[r] # "gone"
    /\ Cardinality(rs) = 1 \/ rs = {r \in Tracks : receiver[r] # "gone"}
    /\ calls' = calls + 1
    /\ adding' = [Idle EXCEPT !.at = "next", !.todo = rs]
    /\ UNCHANGED <<listVars, recvVars, closer, senders, armed, dirty, unanswered,
                   pcState, flags>>

\* for _, dt := range sub.GetDownTracks(...)
Lookup(r) ==
    /\ adding.at = "next" /\ r \in adding.todo
    /\ adding' = [adding EXCEPT !.at = "lookup", !.todo = @ \ {r}, !.track = {r},
                                !.pos = 1, !.len = size]
    /\ UNCHANGED <<listVars, recvVars, calls, closer, senders, armed, dirty, unanswered,
                   pcState, flags>>

\* dt.ID() == recv.TrackID(), of the entry as it is now
LookupAt ==
    /\ adding.at = "lookup" /\ adding.pos <= adding.len
    /\ LET d == slots[adding.pos]
       IN IF d = 0 THEN crashed' = TRUE /\ adding' = Idle
          ELSE /\ UNCHANGED crashed
               /\ adding' = IF dtrackOf[d] \in adding.track THEN [adding EXCEPT !.at = "next"]
                            ELSE [adding EXCEPT !.pos = @ + 1]
    /\ UNCHANGED <<listVars, recvVars, calls, closer, senders, armed, dirty, unanswered,
                   pcState, crossed, unannounced, refused>>

\* A new DownTrack: a sender of the PeerConnection and an entry of the list
NewEntry ==
    /\ adding.at = "lookup" /\ adding.pos > adding.len /\ pcState = "open"
    /\ LET d == Len(dtrackOf) + 1
       IN /\ \E r \in adding.track : dtrackOf' = Append(dtrackOf, r)
          /\ senders' = senders \cup {d} /\ dirty' = TRUE
          /\ stored' = IF \E r \in adding.track : receiver[r] = "live"
                       THEN stored \cup {d} ELSE stored
          /\ slots' = [slots EXCEPT ![size + 1] = d]
    /\ size' = size + 1
    /\ adding' = [adding EXCEPT !.at = "next", !.added = TRUE]
    /\ UNCHANGED <<receiver, calls, closer, armed, unanswered, pcState, flags>>

\* RegisterCodec or AddTransceiverFromTrack fails: return err, no negotiation
NewEntryFails ==
    /\ adding.at = "lookup" /\ adding.pos > adding.len
    /\ adding' = Idle
    /\ unannounced' = (unannounced \/ adding.added)
    /\ UNCHANGED <<listVars, recvVars, calls, closer, senders, armed, dirty, unanswered,
                   pcState, crashed, crossed, refused>>

\* s.negotiate()
AddedAll ==
    /\ adding.at = "next" /\ adding.todo = {}
    /\ adding' = Idle /\ armed' = TRUE
    /\ UNCHANGED <<listVars, recvVars, calls, closer, senders, dirty, unanswered,
                   pcState, flags>>

-----------------------------------------------------------------------------
(* A track ends: its receiver closes its DownTracks, then leaves the router *)

EndTrack(r) ==
    /\ receiver[r] = "live" /\ receiver' = [receiver EXCEPT ![r] = "closing"]
    /\ UNCHANGED <<listVars, stored, adding, calls, closer, senders, armed, dirty,
                   unanswered, pcState, flags>>

StoredOf(r) == {d \in stored : dtrackOf[d] = r}

\* The DownTrack's OnCloseHandler: RemoveTrack, unless the connection is closed
CloseTrack(d) ==
    /\ d \in stored /\ d \notin DOMAIN closer
    /\ receiver[dtrackOf[d]] = "closing"
    /\ IF pcState = "open"
       THEN /\ senders' = senders \ {d} /\ dirty' = TRUE
            /\ closer' = [e \in DOMAIN closer \cup {d} |->
                             IF e = d THEN "remove" ELSE closer[e]]
       ELSE /\ closer' = [e \in DOMAIN closer \cup {d} |->
                             IF e = d THEN "done" ELSE closer[e]]
            /\ UNCHANGED <<senders, dirty>>
    /\ UNCHANGED <<listVars, recvVars, adding, calls, armed, unanswered, pcState,
                   flags>>

PlaceOf(d) == {i \in 1 .. size : slots[i] = d}

\* Mutant of RemoveDownTrack: the shorter slice is not stored
RemoveDownTrackKeeps(d) ==
    /\ d \in DOMAIN closer /\ closer[d] = "remove"
    /\ closer' = [closer EXCEPT ![d] = "negotiate"]
    /\ slots' = [i \in DOMAIN slots |->
                    CASE i = size /\ PlaceOf(d) # {} -> 0
                      [] i \in PlaceOf(d) /\ i # size -> slots[size]
                      [] OTHER -> slots[i]]
    /\ crossed' = (crossed \/ adding.at = "lookup")
    /\ UNCHANGED <<size, dtrackOf, recvVars, adding, calls, senders, armed, dirty,
                   unanswered, pcState, crashed, unannounced, refused>>

\* The last entry takes the place of d, its own slot is set to nil
RemoveDownTrack(d) ==
    /\ d \in DOMAIN closer /\ closer[d] = "remove"
    /\ closer' = [closer EXCEPT ![d] = "negotiate"]
    /\ slots' = [i \in DOMAIN slots |->
                    CASE i = size /\ PlaceOf(d) # {} -> 0
                      [] i \in PlaceOf(d) /\ i # size -> slots[size]
                      [] OTHER -> slots[i]]
    /\ size' = IF PlaceOf(d) # {} THEN size - 1 ELSE size
    /\ crossed' = (crossed \/ adding.at = "lookup")
    /\ UNCHANGED <<dtrackOf, recvVars, adding, calls, senders, armed, dirty, unanswered,
                   pcState, crashed, unannounced, refused>>

\* Mutant of RemoveNegotiates: nobody is told
RemoveNegotiatesNot(d) ==
    /\ d \in DOMAIN closer /\ closer[d] = "negotiate"
    /\ closer' = [closer EXCEPT ![d] = "done"]
    /\ UNCHANGED <<listVars, recvVars, adding, calls, senders, armed, dirty, unanswered,
                   pcState, flags>>

\* sub.negotiate()
RemoveNegotiates(d) ==
    /\ d \in DOMAIN closer /\ closer[d] = "negotiate"
    /\ closer' = [closer EXCEPT ![d] = "done"]
    /\ armed' = TRUE
    /\ UNCHANGED <<listVars, recvVars, adding, calls, senders, dirty, unanswered,
                   pcState, flags>>

\* router.deleteReceiver, with the router's lock
deleteTrack(r) ==
    /\ receiver[r] = "closing" /\ adding = Idle
    /\ \A d \in StoredOf(r) : d \in DOMAIN closer /\ closer[d] = "done"
    /\ receiver' = [receiver EXCEPT ![r] = "gone"]
    /\ UNCHANGED <<listVars, stored, adding, calls, closer, senders, armed, dirty,
                   unanswered, pcState, flags>>

-----------------------------------------------------------------------------
(* Negotiation and end                                                     *)

\* The debounced callback: CreateOffer.  An offer that pion takes as its local
\* description is sent, and takes back what went unannounced before
CreateOffer ==
    /\ armed /\ pcState = "open" /\ ~unanswered
    /\ armed' = FALSE /\ unanswered' = TRUE
    /\ dirty' = FALSE /\ unannounced' = FALSE /\ refused' = FALSE
    /\ UNCHANGED <<listVars, recvVars, adding, calls, closer, senders, pcState, crashed,
                   crossed>>

\* The callback meets an error: no offer can be made, or pion refuses it because the
\* last one is unanswered.  Nothing is sent, and nobody asks again
CreateOfferFails ==
    /\ armed /\ armed' = FALSE
    /\ refused' = (refused \/ pcState = "open")
    /\ UNCHANGED <<listVars, recvVars, adding, calls, closer, senders, dirty, unanswered,
                   pcState, crashed, crossed, unannounced>>

\* SetRemoteDescription: the client's answer
SubscriberAnswered ==
    /\ unanswered /\ pcState = "open" /\ unanswered' = FALSE
    /\ UNCHANGED <<listVars, recvVars, adding, calls, closer, senders, armed, dirty,
                   pcState, flags>>

\* The ICE connection fails or is closed
CloseSubscriber ==
    /\ pcState = "open" /\ pcState' = "closed"
    /\ UNCHANGED <<listVars, recvVars, adding, calls, closer, senders, armed, dirty,
                   unanswered, flags>>

Objs == 1 .. MaxObjs
AddSteps == LookupAt \/ NewEntry \/ NewEntryFails \/ AddedAll \/ \E r \in Tracks : Lookup(r)
CloseSteps ==
    \/ \E d \in Objs : CloseTrack(d) \/ RemoveDownTrack(d) \/ RemoveNegotiates(d)
    \/ \E r \in Tracks : deleteTrack(r)

SubNext ==
    \/ \E rs \in SUBSET Tracks : AddDownTracks(rs)
    \/ AddSteps
    \/ \E r \in Tracks : EndTrack(r)
    \/ CloseSteps
    \/ CreateOffer \/ CreateOfferFails \/ SubscriberAnswered
    \/ CloseSubscriber

\* Goroutines run and the timer fires; nobody has to publish, subscribe, answer or
\* leave.
SubFairness ==
    WF_subVars(AddSteps \/ CloseSteps \/ CreateOffer \/ CreateOfferFails)

-----------------------------------------------------------------------------
(* Properties                                                              *)

\* AddDownTrack finds the DownTrack a track already has, so that no track is on the
\* list twice, and never meets nil, unless a RemoveDownTrack of another track of the
\* stream ran during a lookup.  And the list is what the PeerConnection sends, up to
\* the removals under way.
LookupExact ==
    /\ ~crossed => /\ ~crashed
                   /\ \A i, j \in 1 .. size :
                         i # j => dtrackOf[slots[i]] # dtrackOf[slots[j]]
    /\ 0 \notin Listed
    /\ pcState = "open" =>
          Listed = senders \cup {d \in DOMAIN closer : closer[d] = "remove"}

\* Every change of what is sent ends up in an offer, unless the connection closes, an
\* AddDownTracks failed after its first track, or the last CreateOffer failed: one that
\* finds the offer before it unanswered is not repeated when the answer comes.
ChangesOffered ==
    <>[](pcState = "closed" \/ crashed \/ unannounced \/ refused \/ ~dirty)
=============================================================================
