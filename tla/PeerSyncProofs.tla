--------------------------- MODULE PeerSyncProofs ---------------------------
(***************************************************************************)
(* Proofs about the room (PeerSync), for any number of peers, any cast and *)
(* any limit of attempts: no peer is sent its own track or two tracks      *)
(* under one id, and when the room comes to rest every open peer has       *)
(* negotiated exactly the tracks of the others.                            *)
(***************************************************************************)
EXTENDS PeerSync, SequenceTheorems, TLAPS

-----------------------------------------------------------------------------
(* The inductive invariant                                                 *)

\* What is sent of the track of q
TrackFrom(q) == [id |-> cast.trackOf[q], owner |-> q]
Tracks == {TrackFrom(q) : q \in cast.publishers}

RoomTypeOK ==
    /\ cast \in Casts /\ list \in Seq(Peers)
    /\ conn \in [Peers -> {"none", "open", "closed"}]
    /\ sig \in [Peers -> {"stable", "have-local-offer"}]
    /\ senders \in [Peers -> SUBSET Tracks]
    /\ offered \in [Peers -> SUBSET Tracks] /\ negotiated \in [Peers -> SUBSET Tracks]
    /\ onTrack \in [Peers -> {"none", "arrived", "added", "done"}]
    /\ others \in Nat
    /\ sync \in [caller : {<<>>} \cup {<<c>> : c \in Callers \cup {Other}}, pos : Nat, attempt : Nat]
    /\ sync.pos = 0 <=> sync = NoSync

\* receivers says who publishes, and trackLocals has tracks of those who do
TableInv ==
    /\ receivers = [p \in Peers |-> IF onTrack[p] = "none" THEN {} ELSE {cast.trackOf[p]}]
    /\ \A p \in Peers : onTrack[p] # "none" => p \in cast.publishers
    /\ \A id \in DOMAIN trackLocals :
          /\ trackLocals[id] \in Peers /\ onTrack[trackLocals[id]] = "added"
          /\ cast.trackOf[trackLocals[id]] = id

\* No two peers publish under one id
Distinct == \A p, q \in cast.publishers : p # q => cast.trackOf[p] # cast.trackOf[q]

\* Then trackLocals has all of them
TableFull ==
    Distinct => \A p \in Peers :
        onTrack[p] = "added" =>
            cast.trackOf[p] \in DOMAIN trackLocals /\ trackLocals[cast.trackOf[p]] = p

\* What a peer is to be sent
Target(p) == {Track(id) : id \in DOMAIN trackLocals \ receivers[p]}

\* Somebody will go through the list once more
Pending == calls # {} \/ others > 0

\* The k-th peer of the list is as it should be
Good(k) ==
    /\ conn[list[k]] = "open"
    /\ senders[list[k]] = Target(list[k]) /\ offered[list[k]] = Target(list[k])

\* Each peer of the list is as it should be, or the loop has still to come to it
SyncInv ==
    /\ Distinct => \A k \in 1 .. Len(list) : Good(k) \/ Pending \/ (Locked /\ sync.pos <= k)
    /\ \A p \in Peers : conn[p] = "open" => \E k \in 1 .. Len(list) : list[k] = p
    /\ \A p \in Peers : sig[p] = "stable" => negotiated[p] = offered[p]

RoomIInv == RoomTypeOK /\ TableInv /\ TableFull /\ NoLoopback /\ NoDoubleSend /\ SyncInv

-----------------------------------------------------------------------------
(* What a pass of the loop sends                                           *)

\* The tracks of the table are tracks of publishers, one under each id.
LEMMA TableTracks ==
    ASSUME RoomTypeOK, TableInv
    PROVE  /\ \A id \in DOMAIN trackLocals : Track(id) \in Tracks
           /\ \A id \in DOMAIN trackLocals : Track(id).id = id /\ Track(id) = TrackFrom(trackLocals[id])
           /\ \A t \in Tracks : t.owner \in cast.publishers /\ t = TrackFrom(t.owner)
           /\ Distinct => \A t, u \in Tracks : t.id = u.id => t = u
<1>1. ASSUME NEW id \in DOMAIN trackLocals
      PROVE  Track(id).id = id /\ Track(id) = TrackFrom(trackLocals[id])
             /\ trackLocals[id] \in cast.publishers
  <2>1. trackLocals[id] \in Peers /\ onTrack[trackLocals[id]] = "added"
        /\ cast.trackOf[trackLocals[id]] = id
    BY DEF TableInv
  <2>2. trackLocals[id] \in cast.publishers
    BY <2>1 DEF TableInv
  <2> QED
    BY <2>1, <2>2 DEF Track, TrackFrom
<1>2. \A t \in Tracks : t.owner \in cast.publishers /\ t = TrackFrom(t.owner)
  BY DEF Tracks, TrackFrom
<1>3. ASSUME Distinct, NEW t \in Tracks, NEW u \in Tracks, t.id = u.id PROVE t = u
  <2>1. PICK q \in cast.publishers : t = TrackFrom(q)
    BY DEF Tracks
  <2>2. PICK r \in cast.publishers : u = TrackFrom(r)
    BY DEF Tracks
  <2>3. cast.trackOf[q] = cast.trackOf[r]
    BY <1>3, <2>1, <2>2 DEF TrackFrom
  <2> QED
    BY <1>3, <2>1, <2>2, <2>3 DEF Distinct
<1> QED
  BY <1>1, <1>2, <1>3 DEF Tracks

\* What a pass gives peer p: tracks of publishers, none its own, one under each id,
\* and, when ids are distinct, all that it is to be sent and no more.
LEMMA SyncedRight ==
    ASSUME RoomTypeOK, TableInv, NoLoopback, NoDoubleSend, NEW p \in Peers
    PROVE  /\ Synced(p) \subseteq Tracks
           /\ \A t \in Synced(p) : t.owner # p
           /\ \A t, u \in Synced(p) : t.id = u.id => t = u
           /\ Distinct => Synced(p) = Target(p)
<1>1. senders[p] \subseteq Tracks
  BY DEF RoomTypeOK
<1>2. \A t \in senders[p] : t.owner # p
  BY DEF NoLoopback
<1>3. \A t, u \in senders[p] : t.id = u.id => t = u
  BY DEF NoDoubleSend
<1> DEFINE old == {t \in senders[p] : t.id \in DOMAIN trackLocals}
           ids == DOMAIN trackLocals \ (Ids(senders[p]) \cup receivers[p])
           new == {Track(id) : id \in ids}
<1>4. Synced(p) = old \cup new
  BY DEF Synced
<1>5. ASSUME NEW id \in DOMAIN trackLocals, trackLocals[id] = p PROVE id \in receivers[p]
  BY <1>5 DEF TableInv
<1>6. ASSUME NEW t \in new
      PROVE  t \in Tracks /\ t.owner # p /\ t.id \in ids /\ t = Track(t.id)
  <2>1. PICK id \in ids : t = Track(id)
    OBVIOUS
  <2>2. t.id = id /\ t \in Tracks
    BY <2>1, TableTracks
  <2>3. t.owner = trackLocals[id]
    BY <2>1 DEF Track
  <2> QED
    BY <1>5, <2>1, <2>2, <2>3
<1>7. \A t \in old : t.id \in Ids(senders[p])
  BY DEF Ids
<1>8. ASSUME NEW t \in old \cup new, NEW u \in old \cup new, t.id = u.id PROVE t = u
  <2>1. CASE t \in old /\ u \in old
    BY <1>3, <1>8, <2>1
  <2>2. CASE t \in new /\ u \in new
    BY <1>6, <1>8, <2>2
  <2>3. CASE t \in old /\ u \in new
    BY <1>6, <1>7, <1>8, <2>3
  <2>4. CASE t \in new /\ u \in old
    BY <1>6, <1>7, <1>8, <2>4
  <2> QED
    BY <2>1, <2>2, <2>3, <2>4
<1>9. ASSUME Distinct PROVE old \cup new = Target(p)
  <2>1. ASSUME NEW t \in old PROVE t \in Target(p)
    <3>1. t \in Tracks /\ t.owner # p /\ t.id \in DOMAIN trackLocals
      BY <1>1, <1>2
    <3>2. t = Track(t.id)
      <4>1. Track(t.id) \in Tracks /\ Track(t.id).id = t.id
        BY <3>1, TableTracks
      <4> QED
        BY <1>9, <3>1, <4>1, TableTracks
    <3>3. t.id \notin receivers[p]
      <4> SUFFICES ASSUME t.id \in receivers[p] PROVE FALSE
        OBVIOUS
      <4>1. p \in cast.publishers /\ t.id = cast.trackOf[p]
        BY DEF TableInv
      <4>2. TrackFrom(p) \in Tracks /\ TrackFrom(p).id = t.id /\ TrackFrom(p).owner = p
        BY <4>1 DEF Tracks, TrackFrom
      <4>3. t = TrackFrom(p)
        BY <1>9, <3>1, <4>2, TableTracks
      <4> QED
        BY <3>1, <4>2, <4>3
    <3> QED
      BY <3>1, <3>2, <3>3 DEF Target
  <2>2. new \subseteq Target(p)
    BY DEF Target
  <2>3. ASSUME NEW id \in DOMAIN trackLocals \ receivers[p] PROVE Track(id) \in old \cup new
    <3>1. CASE id \in Ids(senders[p])
      <4>1. PICK t \in senders[p] : t.id = id
        BY <3>1 DEF Ids
      <4>2. t \in Tracks /\ Track(id) \in Tracks /\ Track(id).id = id
        BY <1>1, <4>1, TableTracks
      <4>3. t = Track(id)
        BY <1>9, <4>1, <4>2, TableTracks
      <4> QED
        BY <4>1, <4>3
    <3>2. CASE id \notin Ids(senders[p])
      BY <3>2
    <3> QED
      BY <3>1, <3>2
  <2> QED
    BY <2>1, <2>2, <2>3 DEF Target
<1> QED
  BY <1>1, <1>2, <1>4, <1>6, <1>8, <1>9

-----------------------------------------------------------------------------
(* The steps                                                               *)

\* An empty room.
LEMMA RoomStart == Init => RoomIInv
<1> SUFFICES ASSUME Init PROVE RoomIInv
  OBVIOUS
<1>1. cast \in Casts /\ list = <<>> /\ trackLocals = <<>> /\ calls = {} /\ others = 0
      /\ sync = NoSync /\ conn = [p \in Peers |-> "none"] /\ sig = [p \in Peers |-> "stable"]
      /\ senders = [p \in Peers |-> {}] /\ receivers = [p \in Peers |-> {}]
      /\ offered = [p \in Peers |-> {}] /\ negotiated = [p \in Peers |-> {}]
      /\ onTrack = [p \in Peers |-> "none"]
  BY DEF Init
<1>2. RoomTypeOK
  <2>1. <<>> \in Seq(Peers)
    OBVIOUS
  <2>2. sync \in [caller : {<<>>} \cup {<<c>> : c \in Callers \cup {Other}}, pos : Nat, attempt : Nat]
        /\ sync.pos = 0
    BY <1>1 DEF NoSync
  <2> QED
    BY <1>1, <2>1, <2>2 DEF RoomTypeOK
<1>3. DOMAIN trackLocals = {}
  BY <1>1
<1>4. TableInv /\ TableFull
  BY <1>1, <1>3 DEF TableInv, TableFull
<1>5. NoLoopback /\ NoDoubleSend
  BY <1>1 DEF NoLoopback, NoDoubleSend
<1>6. SyncInv
  BY <1>1 DEF SyncInv
<1> QED
  BY <1>2, <1>4, <1>5, <1>6 DEF RoomIInv

\* A step that adds no track, takes none away and sends nothing.
Quiescent ==
    UNCHANGED <<cast, trackLocals, senders, receivers, offered, onTrack>>

\* It leaves the table right, and the peers that were as they should be.
LEMMA NothingSent ==
    ASSUME RoomIInv, Quiescent
    PROVE  /\ TableInv' /\ TableFull' /\ NoLoopback' /\ NoDoubleSend'
           /\ Tracks' = Tracks /\ (Distinct' <=> Distinct)
           /\ \A k : list'[k] = list[k] /\ conn'[list[k]] = conn[list[k]] /\ Good(k) => Good(k)'
<1> USE DEF Quiescent
<1>1. TableInv' /\ TableFull'
  BY DEF RoomIInv, TableInv, TableFull, Distinct
<1>2. NoLoopback' /\ NoDoubleSend'
  BY DEF RoomIInv, NoLoopback, NoDoubleSend
<1>3. Tracks' = Tracks /\ (Distinct' <=> Distinct)
  BY DEF Tracks, TrackFrom, Distinct
<1>4. ASSUME NEW k, list'[k] = list[k], conn'[list[k]] = conn[list[k]], Good(k) PROVE Good(k)'
  <2>1. Target(list[k])' = Target(list[k])
    BY <1>4 DEF Target, Track
  <2> QED
    BY <1>4, <2>1 DEF Good
<1> QED
  BY <1>1, <1>2, <1>3, <1>4

\* websocketHandler puts the new peer on the list, then calls signalPeerConnections.
LEMMA JoinStep == ASSUME RoomIInv, NEW p \in Peers, Join(p) PROVE RoomIInv'
<1>1. Quiescent /\ UNCHANGED <<sig, negotiated, others, sync>>
      /\ conn' = [conn EXCEPT ![p] = "open"] /\ list' = Append(list, p)
      /\ calls' = calls \cup {Caller("join", p)}
  BY DEF Join, Quiescent
<1>2. list \in Seq(Peers) /\ list' \in Seq(Peers) /\ Len(list') = Len(list) + 1
      /\ Len(list) \in Nat /\ list'[Len(list) + 1] = p
      /\ \A k \in 1 .. Len(list) : list'[k] = list[k]
  BY <1>1 DEF RoomIInv, RoomTypeOK
<1>3. RoomTypeOK'
  BY <1>1, <1>2, NothingSent DEF RoomIInv, RoomTypeOK, Quiescent
<1>4. SyncInv'
  <2>1. Pending'
    BY <1>1 DEF Pending
  <2>2. ASSUME NEW q \in Peers, conn'[q] = "open" PROVE \E k \in 1 .. Len(list') : list'[k] = q
    <3>1. CASE q = p
      <4>1. Len(list) + 1 \in 1 .. Len(list')
        BY <1>2
      <4> QED
        BY <1>2, <3>1, <4>1
    <3>2. CASE q # p
      <4>1. conn[q] = "open"
        BY <1>1, <2>2, <3>2 DEF RoomIInv, RoomTypeOK
      <4>2. PICK k \in 1 .. Len(list) : list[k] = q
        BY <4>1 DEF RoomIInv, SyncInv
      <4>3. k \in 1 .. Len(list') /\ list'[k] = q
        BY <1>2, <4>2
      <4> QED
        BY <4>3
    <3> QED
      BY <3>1, <3>2
  <2>3. \A q \in Peers : sig'[q] = "stable" => negotiated'[q] = offered'[q]
    BY <1>1 DEF RoomIInv, SyncInv, Quiescent
  <2> QED
    BY <2>1, <2>2, <2>3 DEF SyncInv
<1> QED
  BY <1>1, <1>3, <1>4, NothingSent DEF RoomIInv

\* The client has what it answered.
LEMMA AnswerStep == ASSUME RoomIInv, NEW p \in Peers, Answer(p) PROVE RoomIInv'
<1>1. Quiescent /\ UNCHANGED <<list, conn, calls, others, sync>>
      /\ sig' = [sig EXCEPT ![p] = "stable"]
      /\ negotiated' = [negotiated EXCEPT ![p] = offered[p]]
  BY DEF Answer, Quiescent
<1>2. RoomTypeOK'
  BY <1>1, NothingSent DEF RoomIInv, RoomTypeOK, Quiescent
<1>3. SyncInv'
  <2>1. \A k \in 1 .. Len(list) : Good(k) => Good(k)'
    BY <1>1, NothingSent
  <2>2. Distinct' => Distinct
    BY <1>1, NothingSent
  <2>3. \A q \in Peers : sig'[q] = "stable" => negotiated'[q] = offered'[q]
    BY <1>1 DEF RoomIInv, RoomTypeOK, SyncInv, Quiescent
  <2>4. Distinct' => \A k \in 1 .. Len(list) : Good(k)' \/ Pending \/ (Locked /\ sync.pos <= k)
    BY <2>1, <2>2 DEF RoomIInv, SyncInv
  <2> QED
    BY <1>1, <2>3, <2>4 DEF RoomIInv, SyncInv, Pending, Locked
<1> QED
  BY <1>1, <1>2, <1>3, NothingSent DEF RoomIInv

\* Steps that touch neither list nor connections: Leave, the start of a pass, its
\* end, and a step of nobody.
LEMMA IdleStep ==
    ASSUME RoomIInv, Quiescent, UNCHANGED <<list, conn, sig, negotiated>>, RoomTypeOK',
           Distinct => \A k \in 1 .. Len(list) :
                          Good(k) \/ Pending' \/ (Locked' /\ sync'.pos <= k)
    PROVE  RoomIInv'
<1>1. \A k \in 1 .. Len(list) : Good(k) => Good(k)'
  BY NothingSent
<1>2. Distinct' => Distinct
  BY NothingSent
<1>3. SyncInv'
  BY <1>1, <1>2 DEF RoomIInv, SyncInv, Quiescent
<1> QED
  BY <1>3, NothingSent DEF RoomIInv

\* Close starts a pass.
LEMMA CloseStep == ASSUME RoomIInv, NEW p \in Peers, ClosePeer(p) PROVE RoomIInv'
<1>1. Quiescent /\ UNCHANGED <<list, sig, negotiated, calls, sync>>
      /\ conn' = [conn EXCEPT ![p] = "closed"] /\ others' = others + 1
  BY DEF ClosePeer, Quiescent
<1>2. RoomTypeOK'
  BY <1>1, NothingSent DEF RoomIInv, RoomTypeOK, Quiescent
<1>3. Pending'
  BY <1>1 DEF RoomIInv, RoomTypeOK, Pending
<1>4. \A q \in Peers : conn'[q] = "open" => conn[q] = "open"
  BY <1>1 DEF RoomIInv, RoomTypeOK
<1>5. SyncInv'
  BY <1>1, <1>3, <1>4 DEF RoomIInv, SyncInv, Quiescent
<1> QED
  BY <1>1, <1>2, <1>5, NothingSent DEF RoomIInv

\* The pass takes a closed peer off the list and starts over.
LEMMA DropStep == ASSUME RoomIInv, SyncDrop PROVE RoomIInv'
<1> DEFINE d == sync.pos
           n == Len(list)
<1>1. Quiescent /\ UNCHANGED <<conn, sig, negotiated, calls, others>>
      /\ conn[list[d]] = "closed" /\ d <= n /\ Locked
      /\ list' = SubSeq(list, 1, d - 1) \o SubSeq(list, d + 1, n)
      /\ sync' = [sync EXCEPT !.pos = 1, !.attempt = @ + 1]
  BY DEF SyncDrop, Quiescent, AtPeer, Again, RemoveAt
<1>2. list \in Seq(Peers) /\ n \in Nat /\ d \in 1 .. n
  BY <1>1, SMTT(40) DEF RoomIInv, RoomTypeOK, Locked
<1>3. /\ list' \in Seq(Peers) /\ Len(list') = n - 1
      /\ \A k \in 1 .. d - 1 : list'[k] = list[k]
      /\ \A k \in d .. n - 1 : list'[k] = list[k + 1]
  <2> HIDE DEF d
  <2> DEFINE a == SubSeq(list, 1, d - 1)
             b == SubSeq(list, d + 1, n)
  <2>1. a \in Seq(Peers) /\ Len(a) = d - 1 /\ \A k \in 1 .. d - 1 : a[k] = list[k]
    BY <1>2
  <2>2. b \in Seq(Peers) /\ Len(b) = n - d /\ \A k \in 1 .. n - d : b[k] = list[d + k]
    BY <1>2
  <2>3. list' = a \o b
    BY <1>1
  <2> HIDE DEF a, b
  <2>4. list' \in Seq(Peers) /\ Len(list') = n - 1
        /\ \A k \in 1 .. n - 1 : list'[k] = IF k <= d - 1 THEN a[k] ELSE b[k - (d - 1)]
    <3>1. /\ a \o b \in Seq(Peers) /\ Len(a \o b) = Len(a) + Len(b)
          /\ \A k \in 1 .. Len(a) + Len(b) :
                (a \o b)[k] = IF k <= Len(a) THEN a[k] ELSE b[k - Len(a)]
      BY <2>1, <2>2, ConcatProperties
    <3>2. Len(a) = d - 1 /\ Len(a) + Len(b) = n - 1
      BY <1>2, <2>1, <2>2
    <3> QED
      BY <2>3, <3>1, <3>2
  <2>5. ASSUME NEW k \in d .. n - 1 PROVE list'[k] = list[k + 1]
    <3>1. k - (d - 1) \in 1 .. n - d /\ d + (k - (d - 1)) = k + 1 /\ k \in 1 .. n - 1
          /\ ~(k <= d - 1)
      BY <1>2
    <3> QED
      BY <2>2, <2>4, <3>1
  <2>6. ASSUME NEW k \in 1 .. d - 1 PROVE list'[k] = list[k]
    <3>1. k \in 1 .. n - 1 /\ k <= d - 1
      BY <1>2
    <3> QED
      BY <2>1, <2>4, <3>1
  <2> QED
    BY <2>4, <2>5, <2>6, Zenon
<1>4. sync' = [caller |-> sync.caller, pos |-> 1, attempt |-> sync.attempt + 1]
      /\ sync'.pos = 1 /\ Locked'
  <2> DEFINE C == {<<>>} \cup {<<c>> : c \in Callers \cup {Other}}
  <2>1. sync \in [caller : C, pos : Nat, attempt : Nat]
    BY DEF RoomIInv, RoomTypeOK
  <2> HIDE DEF C
  <2>2. sync' = [caller |-> sync.caller, pos |-> 1, attempt |-> sync.attempt + 1]
    BY <1>1, <2>1
  <2> QED
    BY <2>2 DEF Locked, NoSync
<1>5. RoomTypeOK'
  BY <1>1, <1>3, <1>4, NothingSent, SMTT(40) DEF RoomIInv, RoomTypeOK, Quiescent, Locked
<1>6. SyncInv'
  <2>1. ASSUME NEW q \in Peers, conn'[q] = "open" PROVE \E k \in 1 .. Len(list') : list'[k] = q
    <3>1. PICK k \in 1 .. n : list[k] = q
      BY <1>1, <2>1 DEF RoomIInv, SyncInv
    <3>2. k # d
      BY <1>1, <2>1, <3>1
    <3>3. CASE k < d
      <4>1. k \in 1 .. Len(list') /\ list'[k] = q
        BY <1>2, <1>3, <3>1, <3>3
      <4> QED
        BY <4>1
    <3>4. CASE k > d
      <4>1. PICK j \in d .. n - 1 : j + 1 = k
        <5>1. k - 1 \in d .. n - 1 /\ (k - 1) + 1 = k
          BY <1>2, <3>4
        <5> QED
          BY <5>1
      <4>2. list'[j] = list[j + 1] /\ j \in 1 .. Len(list')
        BY <1>2, <1>3
      <4> QED
        BY <3>1, <4>1, <4>2
    <3> QED
      BY <1>2, <3>2, <3>3, <3>4
  <2>2. \A k \in 1 .. Len(list') : Locked' /\ sync'.pos <= k
    BY <1>4
  <2> QED
    BY <1>1, <2>1, <2>2 DEF RoomIInv, SyncInv, Quiescent
<1> QED
  BY <1>1, <1>5, <1>6, NothingSent DEF RoomIInv

\* A track arrives: the peer is a publisher from now on.
LEMMA ArriveStep == ASSUME RoomIInv, NEW p \in Peers, TrackArrives(p) PROVE RoomIInv'
<1>1. p \in cast.publishers /\ onTrack[p] = "none"
      /\ UNCHANGED <<cast, list, trackLocals, conn, sig, senders, offered, negotiated, calls,
                     others, sync>>
      /\ onTrack' = [onTrack EXCEPT ![p] = "arrived"]
      /\ receivers' = [receivers EXCEPT ![p] = {cast.trackOf[p]}]
  BY DEF TrackArrives
<1>2. onTrack \in [Peers -> {"none", "arrived", "added", "done"}] /\ TableInv
  BY DEF RoomIInv, RoomTypeOK
<1>3. onTrack'[p] = "arrived" /\ \A q \in Peers : q # p => onTrack'[q] = onTrack[q]
  BY <1>1, <1>2
<1>4. /\ \A q \in Peers : onTrack'[q] = "added" <=> onTrack[q] = "added"
      /\ \A q \in Peers : onTrack'[q] # "none" <=> onTrack[q] # "none" \/ q = p
  BY <1>1, <1>3
<1>5. receivers' = [q \in Peers |-> IF onTrack'[q] = "none" THEN {} ELSE {cast.trackOf[q]}]
  BY <1>1, <1>2, <1>3 DEF TableInv
<1>6. TableInv'
  BY <1>1, <1>2, <1>4, <1>5, ZenonT(60) DEF TableInv
<1>7. TableFull' /\ (Distinct' <=> Distinct)
  BY <1>1, <1>4 DEF RoomIInv, TableFull, Distinct
<1>8. RoomTypeOK'
  BY <1>1, <1>2 DEF RoomIInv, RoomTypeOK, Tracks, TrackFrom
<1>9. NoLoopback' /\ NoDoubleSend'
  BY <1>1 DEF RoomIInv, NoLoopback, NoDoubleSend
<1>10. ASSUME Distinct, NEW q \in Peers PROVE Target(q)' = Target(q)
  <2>1. CASE q = p
    <3>1. receivers[p] = {} /\ receivers'[p] = {cast.trackOf[p]}
      BY <1>1, <1>2, <1>3, <1>5 DEF TableInv
    <3>2. cast.trackOf[p] \notin DOMAIN trackLocals
      <4> SUFFICES ASSUME cast.trackOf[p] \in DOMAIN trackLocals PROVE FALSE
        OBVIOUS
      <4> DEFINE o == trackLocals[cast.trackOf[p]]
      <4>1. o \in Peers /\ onTrack[o] = "added" /\ cast.trackOf[o] = cast.trackOf[p]
        BY <1>2 DEF TableInv
      <4>2. o \in cast.publishers
        BY <1>2, <4>1 DEF TableInv
      <4> QED
        BY <1>1, <1>10, <4>1, <4>2 DEF Distinct
    <3>3. DOMAIN trackLocals \ receivers'[p] = DOMAIN trackLocals \ receivers[p]
      BY <3>1, <3>2
    <3> QED
      BY <1>1, <2>1, <3>3 DEF Target, Track
  <2>2. CASE q # p
    <3>1. receivers'[q] = receivers[q]
      BY <1>2, <1>3, <1>5, <2>2 DEF TableInv
    <3> QED
      BY <1>1, <3>1 DEF Target, Track
  <2> QED
    BY <2>1, <2>2
<1>11. SyncInv'
  <2>1. ASSUME Distinct', NEW k \in 1 .. Len(list)
        PROVE  Good(k)' \/ Pending' \/ (Locked' /\ sync'.pos <= k)
    <3>1. Good(k) \/ Pending \/ (Locked /\ sync.pos <= k)
      BY <1>7, <2>1 DEF RoomIInv, SyncInv
    <3>2. list[k] \in Peers
      BY DEF RoomIInv, RoomTypeOK
    <3>3. Target(list[k])' = Target(list[k])
      <4>1. PICK q \in Peers : q = list[k]
        BY <3>2
      <4>2. Target(q)' = Target(q)
        BY <1>7, <1>10, <2>1
      <4> QED
        BY <1>1, <4>1, <4>2 DEF Target, Track
    <3> QED
      BY <1>1, <3>1, <3>3 DEF Good, Pending, Locked
  <2> QED
    BY <1>1, <2>1 DEF RoomIInv, SyncInv
<1> QED
  BY <1>6, <1>7, <1>8, <1>9, <1>11 DEF RoomIInv

\* addTrack and removeTrack change the table and start a pass.
LEMMA TableStep ==
    ASSUME RoomIInv, RoomTypeOK', TableInv', TableFull', Pending',
           UNCHANGED <<list, conn, sig, senders, offered, negotiated>>
    PROVE  RoomIInv'
<1>1. NoLoopback' /\ NoDoubleSend'
  BY DEF RoomIInv, NoLoopback, NoDoubleSend
<1>2. SyncInv'
  BY DEF RoomIInv, SyncInv
<1> QED
  BY <1>1, <1>2 DEF RoomIInv

\* addTrack.
LEMMA AddStep == ASSUME RoomIInv, NEW p \in Peers, addTrack(p) PROVE RoomIInv'
<1> DEFINE id == cast.trackOf[p]
<1>1. onTrack[p] = "arrived"
      /\ UNCHANGED <<cast, list, conn, sig, senders, receivers, offered, negotiated, others, sync>>
      /\ onTrack' = [onTrack EXCEPT ![p] = "added"]
      /\ trackLocals' = [i \in DOMAIN trackLocals \cup {id} |->
                            IF i = id THEN p ELSE trackLocals[i]]
      /\ calls' = calls \cup {Caller("add", p)}
  BY DEF addTrack
<1>2. onTrack \in [Peers -> {"none", "arrived", "added", "done"}] /\ TableInv /\ TableFull
  BY DEF RoomIInv, RoomTypeOK
<1>3. onTrack'[p] = "added" /\ \A q \in Peers : q # p => onTrack'[q] = onTrack[q]
  BY <1>1, <1>2
<1>4. /\ DOMAIN trackLocals' = DOMAIN trackLocals \cup {id} /\ trackLocals'[id] = p
      /\ \A i \in DOMAIN trackLocals : i # id => trackLocals'[i] = trackLocals[i]
  BY <1>1
<1>5. RoomTypeOK'
  BY <1>1, <1>2 DEF RoomIInv, RoomTypeOK, Tracks, TrackFrom
<1>6. TableInv'
  <2>1. receivers' = [q \in Peers |-> IF onTrack'[q] = "none" THEN {} ELSE {cast.trackOf[q]}]
    BY <1>1, <1>2, <1>3 DEF TableInv
  <2>2. \A q \in Peers : onTrack'[q] # "none" => q \in cast.publishers
    BY <1>1, <1>2, <1>3 DEF TableInv
  <2>3. ASSUME NEW i \in DOMAIN trackLocals'
        PROVE  trackLocals'[i] \in Peers /\ onTrack'[trackLocals'[i]] = "added"
               /\ cast.trackOf[trackLocals'[i]] = i
    BY <1>2, <1>3, <1>4 DEF TableInv
  <2> QED
    BY <1>1, <2>1, <2>2, <2>3, ZenonT(60) DEF TableInv
<1>7. TableFull'
  <2> SUFFICES ASSUME Distinct', NEW q \in Peers, onTrack'[q] = "added"
               PROVE  cast.trackOf[q] \in DOMAIN trackLocals' /\ trackLocals'[cast.trackOf[q]] = q
    BY <1>1 DEF TableFull
  <2>1. Distinct
    BY <1>1 DEF Distinct
  <2>2. CASE q = p
    BY <1>4, <2>2
  <2>3. CASE q # p
    <3>1. onTrack[q] = "added" /\ q \in cast.publishers /\ p \in cast.publishers
      BY <1>1, <1>2, <1>3, <2>3 DEF TableInv
    <3>2. cast.trackOf[q] # id
      BY <2>1, <2>3, <3>1 DEF Distinct
    <3> QED
      BY <1>2, <1>4, <2>1, <3>1, <3>2 DEF TableFull
  <2> QED
    BY <2>2, <2>3
<1>8. Pending'
  BY <1>1 DEF Pending
<1> QED
  BY <1>1, <1>5, <1>6, <1>7, <1>8, TableStep

\* removeTrack.
LEMMA RemoveStep == ASSUME RoomIInv, NEW p \in Peers, removeTrack(p) PROVE RoomIInv'
<1> DEFINE id == cast.trackOf[p]
<1>1. onTrack[p] = "added"
      /\ UNCHANGED <<cast, list, conn, sig, senders, receivers, offered, negotiated, calls, sync>>
      /\ onTrack' = [onTrack EXCEPT ![p] = "done"]
      /\ trackLocals' = [i \in DOMAIN trackLocals \ {id} |-> trackLocals[i]]
      /\ others' = others + 1
  BY DEF removeTrack
<1>2. onTrack \in [Peers -> {"none", "arrived", "added", "done"}] /\ TableInv /\ TableFull
  BY DEF RoomIInv, RoomTypeOK
<1>3. onTrack'[p] = "done" /\ \A q \in Peers : q # p => onTrack'[q] = onTrack[q]
  BY <1>1, <1>2
<1>4. /\ DOMAIN trackLocals' = DOMAIN trackLocals \ {id}
      /\ \A i \in DOMAIN trackLocals : i # id => trackLocals'[i] = trackLocals[i]
  BY <1>1
<1>5. RoomTypeOK'
  BY <1>1, <1>2 DEF RoomIInv, RoomTypeOK, Tracks, TrackFrom
<1>6. TableInv'
  <2>1. receivers' = [q \in Peers |-> IF onTrack'[q] = "none" THEN {} ELSE {cast.trackOf[q]}]
    BY <1>1, <1>2, <1>3 DEF TableInv
  <2>2. \A q \in Peers : onTrack'[q] # "none" => q \in cast.publishers
    BY <1>1, <1>2, <1>3 DEF TableInv
  <2>3. ASSUME NEW i \in DOMAIN trackLocals'
        PROVE  trackLocals'[i] \in Peers /\ onTrack'[trackLocals'[i]] = "added"
               /\ cast.trackOf[trackLocals'[i]] = i
    <3>1. i \in DOMAIN trackLocals /\ i # id /\ trackLocals'[i] = trackLocals[i]
      BY <1>4
    <3>2. trackLocals[i] \in Peers /\ onTrack[trackLocals[i]] = "added"
          /\ cast.trackOf[trackLocals[i]] = i
      BY <1>2, <3>1 DEF TableInv
    <3>3. trackLocals[i] # p
      BY <3>1, <3>2
    <3> QED
      BY <1>3, <3>1, <3>2, <3>3
  <2> QED
    BY <1>1, <2>1, <2>2, <2>3 DEF TableInv
<1>7. TableFull'
  <2> SUFFICES ASSUME Distinct', NEW q \in Peers, onTrack'[q] = "added"
               PROVE  cast.trackOf[q] \in DOMAIN trackLocals' /\ trackLocals'[cast.trackOf[q]] = q
    BY <1>1 DEF TableFull
  <2>1. Distinct
    BY <1>1 DEF Distinct
  <2>2. q # p /\ onTrack[q] = "added"
    BY <1>3
  <2>3. q \in cast.publishers /\ p \in cast.publishers
    BY <1>1, <1>2, <2>2 DEF TableInv
  <2>4. cast.trackOf[q] # id
    BY <2>1, <2>2, <2>3 DEF Distinct
  <2> QED
    BY <1>2, <1>4, <2>1, <2>2, <2>4 DEF TableFull
<1>8. Pending'
  BY <1>1 DEF RoomIInv, RoomTypeOK, Pending
<1> QED
  BY <1>1, <1>5, <1>6, <1>7, <1>8, TableStep

\* The pass comes to an open peer.
LEMMA PeerStep == ASSUME RoomIInv, SyncPeer PROVE RoomIInv'
<1> DEFINE n == Len(list)
<1>1. PICK p \in Peers : p = list[sync.pos]
  BY DEF RoomIInv, RoomTypeOK, SyncPeer, AtPeer, Locked
<1>2. /\ conn[p] = "open" /\ sync.pos <= n /\ Locked
      /\ UNCHANGED <<cast, list, trackLocals, conn, receivers, negotiated, onTrack, calls, others>>
      /\ senders' = [senders EXCEPT ![p] = Synced(p)]
      /\ sig' = [sig EXCEPT ![p] = "have-local-offer"]
      /\ \/ /\ offered' = [offered EXCEPT ![p] = Synced(p)]
            /\ sync' = [sync EXCEPT !.pos = @ + 1]
         \/ Again /\ UNCHANGED offered
  BY <1>1 DEF SyncPeer, AtPeer
<1>3. /\ Synced(p) \subseteq Tracks
      /\ \A t \in Synced(p) : t.owner # p
      /\ \A t, u \in Synced(p) : t.id = u.id => t = u
      /\ Distinct => Synced(p) = Target(p)
  BY SyncedRight DEF RoomIInv
<1> DEFINE C == {<<>>} \cup {<<c>> : c \in Callers \cup {Other}}
<1>4. sync \in [caller : C, pos : Nat, attempt : Nat] /\ sync.pos # 0
  BY <1>2 DEF RoomIInv, RoomTypeOK, Locked
<1>5. sync' \in [caller : C, pos : Nat, attempt : Nat] /\ sync'.pos # 0
  <2> HIDE DEF C
  <2>1. CASE sync' = [sync EXCEPT !.pos = @ + 1]
    BY <1>4, <2>1
  <2>2. CASE Again
    <3>1. sync' = [caller |-> sync.caller, pos |-> 1, attempt |-> sync.attempt + 1]
      BY <1>4, <2>2 DEF Again
    <3>2. sync.caller \in C /\ sync.attempt + 1 \in Nat
      BY <1>4
    <3> QED
      BY <3>1, <3>2
  <2> QED
    BY <1>2, <2>1, <2>2
<1>6. Locked'
  BY <1>5 DEF Locked, NoSync
<1>7. \/ offered' = [offered EXCEPT ![p] = Synced(p)] /\ sync'.pos = sync.pos + 1
      \/ offered' = offered /\ sync'.pos = 1
  <2> HIDE DEF C
  <2> QED
    BY <1>2, <1>4 DEF Again
<1>8. senders \in [Peers -> SUBSET Tracks] /\ offered \in [Peers -> SUBSET Tracks]
  BY DEF RoomIInv, RoomTypeOK
<1>9. Tracks' = Tracks
  BY <1>2 DEF Tracks, TrackFrom
<1>10. RoomTypeOK'
  <2>1. senders' \in [Peers -> SUBSET Tracks] /\ offered' \in [Peers -> SUBSET Tracks]
    BY <1>3, <1>7, <1>8, <1>2
  <2>2. sig' \in [Peers -> {"stable", "have-local-offer"}]
    BY <1>2 DEF RoomIInv, RoomTypeOK
  <2>3. sync'.pos = 0 <=> sync' = NoSync
    BY <1>5, <1>6 DEF Locked
  <2> QED
    BY <1>2, <1>5, <1>9, <2>1, <2>2, <2>3 DEF RoomIInv, RoomTypeOK
<1>11. TableInv' /\ TableFull'
  BY <1>2 DEF RoomIInv, TableInv, TableFull, Distinct
<1>12. senders'[p] = Synced(p) /\ \A q \in Peers : q # p => senders'[q] = senders[q]
  BY <1>2, <1>8
<1>13. NoLoopback' /\ NoDoubleSend'
  BY <1>3, <1>12 DEF RoomIInv, NoLoopback, NoDoubleSend
<1>14. \A q \in Peers : sig'[q] = "stable" => negotiated'[q] = offered'[q]
  BY <1>2, <1>7, <1>8 DEF RoomIInv, RoomTypeOK, SyncInv
<1>15. Distinct' <=> Distinct
  BY <1>2 DEF Distinct
<1>16. ASSUME Distinct, NEW k \in 1 .. n
       PROVE  Good(k)' \/ Pending' \/ (Locked' /\ sync'.pos <= k)
  <2>1. CASE sync'.pos = 1
    BY <1>6, <2>1
  <2>2. CASE offered' = [offered EXCEPT ![p] = Synced(p)] /\ sync'.pos = sync.pos + 1
    <3>1. CASE sync.pos + 1 <= k
      BY <1>6, <2>2, <3>1
    <3>2. CASE list[k] = p
      <4>1. senders'[p] = Target(p) /\ offered'[p] = Target(p)
        BY <1>3, <1>8, <1>12, <1>16, <2>2
      <4>2. Target(p)' = Target(p)
        BY <1>2 DEF Target, Track
      <4> QED
        BY <1>2, <3>2, <4>1, <4>2 DEF Good, Target, Track
    <3>3. CASE list[k] # p /\ ~(sync.pos + 1 <= k)
      <4>1. k # sync.pos
        BY <1>1, <3>3
      <4>2. ~(sync.pos <= k)
        BY <1>4, <3>3, <4>1
      <4>3. Good(k) \/ Pending
        BY <1>16, <4>2 DEF RoomIInv, SyncInv
      <4>4. PICK q \in Peers : q = list[k]
        BY DEF RoomIInv, RoomTypeOK
      <4>5. senders'[q] = senders[q] /\ offered'[q] = offered[q]
        BY <1>8, <1>12, <2>2, <3>3, <4>4
      <4>6. Target(q)' = Target(q)
        BY <1>2 DEF Target, Track
      <4>7. Good(k) => Good(k)'
        BY <1>2, <4>4, <4>5, <4>6 DEF Good, Target, Track
      <4> QED
        BY <1>2, <4>3, <4>7 DEF Pending
    <3> QED
      BY <3>1, <3>2, <3>3
  <2> QED
    BY <1>7, <2>1, <2>2
<1>17. SyncInv'
  BY <1>2, <1>14, <1>15, <1>16 DEF RoomIInv, SyncInv
<1> QED
  BY <1>10, <1>11, <1>13, <1>17 DEF RoomIInv

\* signalPeerConnections gets the lock, or lets it go.
LEMMA CallStep ==
    ASSUME RoomIInv, \/ \E c \in Callers : SyncStart(c)
                     \/ SyncStartOther \/ SyncDone \/ SyncGiveUp
    PROVE  RoomIInv'
<1>1. Quiescent /\ UNCHANGED <<list, conn, sig, negotiated>>
  BY DEF SyncStart, SyncStartOther, SyncDone, SyncGiveUp, Quiescent
<1>2. Tracks' = Tracks
  BY <1>1, NothingSent
<1>3. others \in Nat /\ \A k \in 1 .. Len(list) : k \in Nat /\ k >= 1
  BY DEF RoomIInv, RoomTypeOK
<1>4. ASSUME sync'.pos = 1, sync'.attempt = 0, others' \in Nat,
             \E c \in Callers \cup {Other} : sync' = [caller |-> <<c>>, pos |-> 1, attempt |-> 0]
      PROVE  RoomIInv'
  <2>1. sync' # NoSync
    BY <1>4 DEF NoSync
  <2>2. sync' \in [caller : {<<>>} \cup {<<c>> : c \in Callers \cup {Other}}, pos : Nat, attempt : Nat]
    BY <1>4
  <2>3. RoomTypeOK'
    BY <1>1, <1>2, <1>4, <2>1, <2>2 DEF RoomIInv, RoomTypeOK, Quiescent
  <2> QED
    BY <1>1, <1>3, <1>4, <2>1, <2>3, IdleStep DEF Locked
<1>5. ASSUME NEW c \in Callers, SyncStart(c) PROVE RoomIInv'
  <2>1. sync' = [caller |-> <<c>>, pos |-> 1, attempt |-> 0] /\ others' = others
    BY <1>5 DEF SyncStart
  <2> QED
    BY <1>3, <1>4, <2>1
<1>6. CASE SyncStartOther
  <2>1. sync' = [caller |-> <<Other>>, pos |-> 1, attempt |-> 0] /\ others' = others - 1 /\ others > 0
    BY <1>6 DEF SyncStartOther
  <2>2. others' \in Nat /\ Other \in Callers \cup {Other}
    BY <1>3, <2>1
  <2> QED
    BY <1>4, <2>1, <2>2
<1>7. ASSUME sync' = NoSync, others' \in Nat PROVE RoomTypeOK'
  <2>1. sync'.pos = 0 /\ sync' \in [caller : {<<>>} \cup {<<c>> : c \in Callers \cup {Other}},
                                    pos : Nat, attempt : Nat]
    BY <1>7 DEF NoSync
  <2> QED
    BY <1>1, <1>2, <1>7, <2>1 DEF RoomIInv, RoomTypeOK, Quiescent
<1>8. CASE SyncDone
  <2>1. sync' = NoSync /\ others' = others /\ calls' = calls /\ sync.pos > Len(list)
    BY <1>8 DEF SyncDone
  <2>2. RoomTypeOK' /\ (Pending' <=> Pending)
    BY <1>3, <1>7, <2>1 DEF Pending
  <2>3. \A k \in 1 .. Len(list) : ~(sync.pos <= k)
    BY <2>1 DEF RoomIInv, RoomTypeOK
  <2>4. Distinct => \A k \in 1 .. Len(list) : Good(k) \/ Pending'
    BY <2>2, <2>3 DEF RoomIInv, SyncInv
  <2> QED
    BY <1>1, <2>2, <2>4, IdleStep
<1>9. CASE SyncGiveUp
  <2>1. sync' = NoSync /\ others' = others + 1
    BY <1>9 DEF SyncGiveUp
  <2>2. RoomTypeOK' /\ Pending'
    BY <1>3, <1>7, <2>1 DEF Pending
  <2> QED
    BY <1>1, <2>2, IdleStep
<1> QED
  BY <1>5, <1>6, <1>8, <1>9

\* A client leaves, or nothing happens.
LEMMA StillStep ==
    ASSUME RoomIInv, (\E p \in Peers : Leave(p)) \/ UNCHANGED vars PROVE RoomIInv'
<1>1. Quiescent /\ UNCHANGED <<list, conn, sig, negotiated, calls, others, sync>>
  BY DEF Leave, vars, Quiescent
<1>2. Tracks' = Tracks
  BY <1>1, NothingSent
<1>3. RoomTypeOK'
  BY <1>1, <1>2 DEF RoomIInv, RoomTypeOK, Quiescent
<1>4. Distinct => \A k \in 1 .. Len(list) : Good(k) \/ Pending' \/ (Locked' /\ sync'.pos <= k)
  BY <1>1 DEF RoomIInv, SyncInv, Pending, Locked
<1> QED
  BY <1>1, <1>3, <1>4, IdleStep

\* Every step keeps the invariant.
LEMMA RoomStep == RoomIInv /\ [Next]_vars => RoomIInv'
<1> SUFFICES ASSUME RoomIInv, [Next]_vars PROVE RoomIInv'
  OBVIOUS
<1>1. CASE \E p \in Peers : Join(p) \/ Answer(p) \/ Leave(p) \/ ClosePeer(p)
  BY <1>1, JoinStep, AnswerStep, StillStep, CloseStep
<1>2. CASE \E p \in Peers : TrackArrives(p) \/ addTrack(p) \/ removeTrack(p)
  BY <1>2, ArriveStep, AddStep, RemoveStep
<1>3. CASE (\E c \in Callers : SyncStart(c)) \/ SyncStartOther \/ SyncDone \/ SyncGiveUp
  BY <1>3, CallStep
<1>4. CASE SyncDrop \/ SyncPeer
  BY <1>4, DropStep, PeerStep
<1>5. CASE UNCHANGED vars
  BY <1>5, StillStep
<1> QED
  BY <1>1, <1>2, <1>3, <1>4, <1>5 DEF Next

-----------------------------------------------------------------------------
(* The theorems                                                            *)

\* The inductive invariant of the room.
THEOREM RoomInvariant == Spec => []RoomIInv
BY RoomStart, RoomStep, PTL DEF Spec

\* "Don't receive videos we are sending": whatever joins, closes and ids are shared,
\* no peer is sent its own track.
THEOREM NeverLoopsBack == Spec => []NoLoopback
<1>1. RoomIInv => NoLoopback
  BY DEF RoomIInv
<1> QED
  BY <1>1, RoomInvariant, PTL

\* No peer is sent two tracks under one id.
THEOREM NeverSendsTwice == Spec => []NoDoubleSend
<1>1. RoomIInv => NoDoubleSend
  BY DEF RoomIInv
<1> QED
  BY <1>1, RoomInvariant, PTL

\* When no call of signalPeerConnections is left and every offer is answered, each
\* open peer has negotiated exactly the tracks of the others and closed peers are
\* off the list, if no two peers publish under one id.
THEOREM RestIsSynced == Spec => []QuietMeansSynced
<1>1. RoomIInv => QuietMeansSynced
  <2> SUFFICES ASSUME RoomIInv, Distinct, Quiet, NEW p \in Peers
               PROVE  /\ conn[p] = "open" => negotiated[p] = Wanted(p)
                      /\ conn[p] = "closed" => ~Contains(list, p)
    BY DEF QuietMeansSynced, AllSynced, Distinct
  <2>1. ~Pending /\ ~Locked
    BY DEF Quiet, Pending, RoomIInv, RoomTypeOK
  <2>2. \A k \in 1 .. Len(list) : Good(k)
    BY <2>1 DEF RoomIInv, SyncInv
  <2>3. conn[p] = "closed" => ~Contains(list, p)
    BY <2>2 DEF Good, Contains
  <2>4. ASSUME conn[p] = "open" PROVE negotiated[p] = Wanted(p)
    <3>1. PICK k \in 1 .. Len(list) : list[k] = p
      BY <2>4 DEF RoomIInv, SyncInv
    <3>2. negotiated[p] = Target(p)
      BY <2>2, <2>4, <3>1 DEF Quiet, Good, RoomIInv, SyncInv
    <3>3. ASSUME NEW id \in DOMAIN trackLocals \ receivers[p] PROVE Track(id) \in Wanted(p)
      <4> DEFINE q == trackLocals[id]
      <4>1. q \in Peers /\ onTrack[q] = "added" /\ cast.trackOf[q] = id
        BY DEF RoomIInv, TableInv
      <4>2. conn[q] = "open" /\ q # p
        BY <4>1 DEF Quiet, RoomIInv, TableInv
      <4> QED
        BY <4>1, <4>2 DEF Wanted, Track
    <3>4. ASSUME NEW q \in Peers \ {p}, onTrack[q] = "added"
          PROVE  [id |-> cast.trackOf[q], owner |-> q] \in Target(p)
      <4>1. cast.trackOf[q] \in DOMAIN trackLocals /\ trackLocals[cast.trackOf[q]] = q
        BY <3>4 DEF RoomIInv, TableFull
      <4>2. cast.trackOf[q] \notin receivers[p]
        BY <3>4 DEF RoomIInv, TableInv, Distinct
      <4> QED
        BY <4>1, <4>2 DEF Target, Track
    <3> QED
      BY <3>2, <3>3, <3>4 DEF Target, Wanted
  <2> QED
    BY <2>3, <2>4
<1> QED
  BY <1>1, RoomInvariant, PTL

=============================================================================
