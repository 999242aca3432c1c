---------------------------- MODULE RouterProofs ----------------------------
(***************************************************************************)
(* Proofs about the router (Router), for any number of subscribers,        *)
(* DownTracks and packets and any capacity of rtcpCh: a subscriber never   *)
(* has two DownTracks of a track (OneTrackPerSub), and a receiver that has *)
(* left the router has closed the DownTracks stored on it while it was     *)
(* open (ClosedBeforeGone).                                                *)
(***************************************************************************)
EXTENDS Router, SequenceTheorems, FiniteSetTheorems, TLAPS

-----------------------------------------------------------------------------
(* The inductive invariants                                                *)

\* A DownTrack: whose it is and which of its owner's
Made == Subs \X Nat

\* A DownTrack is made, then stored: until then it is not on the receiver's list,
\* and no older one has its number
ListInv ==
    /\ made \in [Subs -> Nat]
    /\ adding \in [Subs -> {"idle", "make", "check", "store", "negotiate"}]
    /\ tracks \in [Subs -> SUBSET Nat]
    /\ \A s \in Subs : \A m, n \in tracks[s] : m = n
    /\ downTracks \in Seq(Made)
    /\ \A i \in 1 .. Len(downTracks) :
          LET d == downTracks[i]
          IN /\ d[2] <= made[d[1]]
             /\ adding[d[1]] \in {"check", "store"} => d[2] < made[d[1]]
    /\ \A i, j \in 1 .. Len(downTracks) : downTracks[i] = downTracks[j] => i = j

\* The one goroutine closes what was stored before it set closed; before the
\* receiver is known nobody has a DownTrack of it
CloseInv ==
    /\ ups \in {0, 1} /\ loop \in [Ups -> {"none", "call", "read", "write", "pli", "close",
                                           "load", "tracks", "done"}]
    /\ todo \in [Ups -> Seq(Made)]
    /\ ups = 0 => downTracks = <<>> /\ early = {} /\ ~registered /\ ~published
                  /\ routerLock = <<>>
                  /\ \A s \in Subs : adding[s] = "idle"
    /\ early \subseteq ToSet(downTracks)
    /\ loop[1] = "close" => once = "running"
    /\ loop[1] \in {"load", "tracks"} => once = "running" /\ wclosed = TRUE
    /\ loop[1] = "tracks" => early \subseteq dtClosed \cup ToSet(todo[1])
    /\ once = "done" => wclosed = TRUE /\ early \subseteq dtClosed

-----------------------------------------------------------------------------
(* The lists                                                               *)

\* The first packet of a list, and the rest, are the list.
LEMMA HeadAndRest ==
    ASSUME NEW S, NEW q \in Seq(S), q # <<>>
    PROVE  Tail(q) \in Seq(S) /\ Head(q) \in S /\ ToSet(q) = {Head(q)} \cup ToSet(Tail(q))
<1> DEFINE n == Len(q)
<1>1. n \in Nat /\ n >= 1 /\ DOMAIN q = 1 .. n /\ q[1] \in S
  BY EmptySeq, LenProperties
<1>2. Tail(q) \in Seq(S) /\ Len(Tail(q)) = n - 1 /\ Head(q) = q[1]
      /\ \A k \in 1 .. n - 1 : Tail(q)[k] = q[k + 1]
  BY <1>1
<1>3. DOMAIN Tail(q) = 1 .. n - 1
  BY <1>1, <1>2
<1>4. ASSUME NEW i \in 1 .. n PROVE q[i] \in {Head(q)} \cup ToSet(Tail(q))
  <2>1. CASE i = 1
    BY <1>2, <2>1
  <2>2. CASE i # 1
    <3>1. i - 1 \in 1 .. n - 1 /\ (i - 1) + 1 = i
      BY <1>1, <2>2
    <3>2. Tail(q)[i - 1] = q[i]
      BY <1>2, <3>1
    <3> QED
      BY <1>3, <3>1, <3>2 DEF ToSet
  <2> QED
    BY <2>1, <2>2
<1>5. ASSUME NEW k \in 1 .. n - 1 PROVE Tail(q)[k] \in ToSet(q)
  <2>1. k + 1 \in 1 .. n
    BY <1>1
  <2> QED
    BY <1>1, <1>2, <2>1 DEF ToSet
<1>6. Head(q) \in ToSet(q)
  BY <1>1, <1>2 DEF ToSet
<1> QED
  BY <1>1, <1>2, <1>3, <1>4, <1>5, <1>6 DEF ToSet

\* One more at the end.
LEMMA OneMore ==
    ASSUME NEW S, NEW q \in Seq(S), NEW x \in S
    PROVE  Append(q, x) \in Seq(S) /\ ToSet(Append(q, x)) = ToSet(q) \cup {x}
           /\ Len(Append(q, x)) = Len(q) + 1 /\ Append(q, x)[Len(q) + 1] = x
           /\ \A i \in 1 .. Len(q) : Append(q, x)[i] = q[i]
<1>1. Append(q, x) \in Seq(S) /\ Len(Append(q, x)) = Len(q) + 1
      /\ Append(q, x)[Len(q) + 1] = x /\ Len(q) \in Nat
      /\ \A i \in 1 .. Len(q) : Append(q, x)[i] = q[i]
  BY AppendProperties, LenProperties
<1>2. DOMAIN q = 1 .. Len(q) /\ DOMAIN Append(q, x) = 1 .. Len(q) + 1
  BY <1>1
<1>3. 1 .. Len(q) + 1 = (1 .. Len(q)) \cup {Len(q) + 1}
  BY <1>1
<1> QED
  BY <1>1, <1>2, <1>3 DEF ToSet

-----------------------------------------------------------------------------
(* One DownTrack for each subscriber                                       *)

\* Nothing stored, nothing made.
LEMMA ListInit == Init => ListInv
<1> SUFFICES ASSUME Init PROVE ListInv
  OBVIOUS
<1>1. <<>> \in Seq(Made)
  OBVIOUS
<1> QED
  BY <1>1 DEF Init, ListInv

\* Steps that make no DownTrack and store none; AddUpTrack may empty the list.
LEMMA ListStays ==
    ASSUME ListInv, UNCHANGED <<made, tracks>>, downTracks' \in {downTracks, <<>>},
           adding' \in [Subs -> {"idle", "make", "check", "store", "negotiate"}],
           \A s \in Subs : adding'[s] \in {"check", "store"} => adding[s] \in {"check", "store"}
    PROVE  ListInv'
<1>1. downTracks' \in Seq(Made)
  <2>1. <<>> \in Seq(Made)
    OBVIOUS
  <2> QED
    BY <2>1 DEF ListInv
<1>2. ASSUME NEW i \in 1 .. Len(downTracks')
      PROVE  /\ downTracks'[i][2] <= made[downTracks'[i][1]]
             /\ adding'[downTracks'[i][1]] \in {"check", "store"}
                   => downTracks'[i][2] < made[downTracks'[i][1]]
  <2>1. downTracks' = downTracks
    OBVIOUS
  <2>2. downTracks[i] \in Made
    BY <2>1 DEF ListInv
  <2>3. downTracks[i][1] \in Subs
    BY <2>2 DEF Made
  <2> QED
    BY <2>1, <2>3 DEF ListInv
<1>3. \A i, j \in 1 .. Len(downTracks') : downTracks'[i] = downTracks'[j] => i = j
  BY DEF ListInv
<1> QED
  BY <1>1, <1>2, <1>3 DEF ListInv

\* AddDownTrack makes a DownTrack only for a subscriber that has none.
LEMMA MakeStep == ASSUME ListInv, NEW s \in Subs, AddDownTrack(s) PROVE ListInv'
<1>1. downTracks' = downTracks /\ adding[s] = "make"
  BY DEF AddDownTrack, recvVars
<1>2. PICK pc \in {"idle", "check", "negotiate"} : adding' = [adding EXCEPT ![s] = pc]
  BY DEF AddDownTrack, Unlocks
<1>3. adding' \in [Subs -> {"idle", "make", "check", "store", "negotiate"}]
  BY <1>2 DEF ListInv
<1>4. CASE UNCHANGED <<made, tracks>> /\ adding' # [adding EXCEPT ![s] = "check"]
  <2>1. pc # "check"
    BY <1>2, <1>4
  <2>2. \A q \in Subs : adding'[q] \in {"check", "store"} => adding[q] \in {"check", "store"}
    BY <1>2, <2>1 DEF ListInv
  <2> QED
    BY <1>1, <1>3, <1>4, <2>2, ListStays
<1>5. CASE tracks[s] = {} /\ NewDownTrack(s) /\ adding' = [adding EXCEPT ![s] = "check"]
  <2>1. /\ made' \in [Subs -> Nat] /\ made'[s] = made[s] + 1
        /\ \A q \in Subs : q # s => made'[q] = made[q] /\ adding'[q] = adding[q]
    BY <1>5 DEF ListInv, NewDownTrack
  <2>2. tracks' \in [Subs -> SUBSET Nat] /\ tracks'[s] = {made[s] + 1}
        /\ \A q \in Subs : q # s => tracks'[q] = tracks[q]
    BY <1>5 DEF ListInv, NewDownTrack
  <2>3. \A q \in Subs : \A m, n \in tracks'[q] : m = n
    BY <2>2, SMTT(40) DEF ListInv
  <2>4. ASSUME NEW i \in 1 .. Len(downTracks)
        PROVE  /\ downTracks[i][2] <= made'[downTracks[i][1]]
               /\ adding'[downTracks[i][1]] \in {"check", "store"}
                     => downTracks[i][2] < made'[downTracks[i][1]]
    <3>1. downTracks[i] \in Made
      BY DEF ListInv
    <3>2. PICK q \in Subs, m \in Nat : downTracks[i] = <<q, m>>
      BY <3>1 DEF Made
    <3>3. m <= made[q] /\ (adding[q] \in {"check", "store"} => m < made[q]) /\ made[q] \in Nat
      BY <3>2 DEF ListInv
    <3>4. CASE q = s
      <4>1. m < made'[q] /\ m <= made'[q]
        BY <2>1, <3>3, <3>4
      <4> QED
        BY <3>2, <4>1
    <3>5. CASE q # s
      BY <2>1, <3>2, <3>3, <3>5
    <3> QED
      BY <3>4, <3>5
  <2>5. downTracks \in Seq(Made) /\ \A i, j \in 1 .. Len(downTracks) : downTracks[i] = downTracks[j] => i = j
    BY DEF ListInv
  <2> QED
    BY <1>1, <1>3, <2>1, <2>2, <2>3, <2>4, <2>5 DEF ListInv
<1>6. \/ UNCHANGED <<made, tracks>> /\ Unlocks(s, "negotiate")
      \/ UNCHANGED <<made, tracks>> /\ Unlocks(s, "idle")
      \/ tracks[s] = {} /\ NewDownTrack(s) /\ Unlocks(s, "check")
  BY DEF AddDownTrack
<1>7. [adding EXCEPT ![s] = "negotiate"] # [adding EXCEPT ![s] = "check"]
      /\ [adding EXCEPT ![s] = "idle"] # [adding EXCEPT ![s] = "check"]
  <2>1. adding \in [Subs -> {"idle", "make", "check", "store", "negotiate"}]
    BY DEF ListInv
  <2>2. /\ [adding EXCEPT ![s] = "negotiate"][s] = "negotiate"
        /\ [adding EXCEPT ![s] = "check"][s] = "check"
        /\ [adding EXCEPT ![s] = "idle"][s] = "idle"
    BY <2>1
  <2> QED
    BY <2>2
<1> QED
  BY <1>4, <1>5, <1>6, <1>7 DEF Unlocks

\* storeDownTrack puts it on the list.
LEMMA StoreStep == ASSUME ListInv, NEW s \in Subs, storeDownTrack(s) PROVE ListInv'
<1> DEFINE d == <<s, made[s]>>
           n == Len(downTracks)
<1>1. UNCHANGED <<made, tracks>> /\ adding[s] = "store"
      /\ adding' = [adding EXCEPT ![s] = "negotiate"]
      /\ downTracks' = Append(downTracks, d)
  BY DEF storeDownTrack, Unlocks
<1>2. /\ adding' \in [Subs -> {"idle", "make", "check", "store", "negotiate"}]
      /\ adding'[s] = "negotiate" /\ \A q \in Subs : q # s => adding'[q] = adding[q]
  BY <1>1 DEF ListInv
<1>3. downTracks \in Seq(Made) /\ n \in Nat /\ d \in Made /\ made[s] \in Nat
  BY DEF ListInv, Made
<1>4. /\ downTracks' \in Seq(Made) /\ Len(downTracks') = n + 1 /\ downTracks'[n + 1] = d
      /\ \A i \in 1 .. n : downTracks'[i] = downTracks[i]
  BY <1>1, <1>3, OneMore
<1>5. \A i \in 1 .. n : /\ downTracks[i][1] \in Subs /\ downTracks[i][2] \in Nat
                        /\ downTracks[i][2] <= made[downTracks[i][1]]
                        /\ adding[downTracks[i][1]] \in {"check", "store"}
                              => downTracks[i][2] < made[downTracks[i][1]]
  <2> TAKE i \in 1 .. n
  <2>1. downTracks[i] \in Made
    BY <1>3
  <2>2. downTracks[i][1] \in Subs /\ downTracks[i][2] \in Nat
    BY <2>1 DEF Made
  <2> QED
    BY <2>2 DEF ListInv
<1>6. \A i \in 1 .. n : downTracks[i] # d
  <2> TAKE i \in 1 .. n
  <2> SUFFICES ASSUME downTracks[i] = d PROVE FALSE
    OBVIOUS
  <2>1. downTracks[i][1] = s /\ downTracks[i][2] = made[s]
    OBVIOUS
  <2> QED
    BY <1>1, <1>3, <1>5, <2>1
<1>7. ASSUME NEW i \in 1 .. n + 1
      PROVE  /\ downTracks'[i][2] <= made[downTracks'[i][1]]
             /\ adding'[downTracks'[i][1]] \in {"check", "store"}
                   => downTracks'[i][2] < made[downTracks'[i][1]]
  <2>1. CASE i = n + 1
    <3>1. downTracks'[i][1] = s /\ downTracks'[i][2] = made[s]
      BY <1>4, <2>1
    <3> QED
      BY <1>2, <1>3, <3>1
  <2>2. CASE i # n + 1
    <3>1. i \in 1 .. n /\ downTracks'[i] = downTracks[i]
      BY <1>3, <1>4, <2>2
    <3> QED
      BY <1>2, <1>5, <3>1
  <2> QED
    BY <2>1, <2>2
<1>8. ASSUME NEW i \in 1 .. n + 1, NEW j \in 1 .. n + 1, downTracks'[i] = downTracks'[j]
      PROVE  i = j
  <2>1. CASE i = n + 1 \/ j = n + 1
    BY <1>3, <1>4, <1>6, <1>8, <2>1
  <2>2. CASE i # n + 1 /\ j # n + 1
    <3>1. i \in 1 .. n /\ j \in 1 .. n
      BY <1>3, <2>2
    <3>2. \A x, y \in 1 .. n : downTracks[x] = downTracks[y] => x = y
      BY DEF ListInv
    <3> QED
      BY <1>4, <1>8, <3>1, <3>2
  <2> QED
    BY <2>1, <2>2
<1> QED
  BY <1>1, <1>2, <1>4, <1>7, <1>8 DEF ListInv

\* The receiver closes a DownTrack: the subscriber forgets it.
LEMMA CloseKeepsList == ASSUME ListInv, NEW g, CloseDownTrack(g) PROVE ListInv'
<1>1. UNCHANGED <<made, adding, downTracks>>
      /\ \/ tracks' = tracks
         \/ \E q, m : tracks' = [tracks EXCEPT ![q] = @ \ {m}]
  BY DEF CloseDownTrack, recvVars
<1>2. tracks' \in [Subs -> SUBSET Nat] /\ \A q \in Subs : tracks'[q] \subseteq tracks[q]
  <2>0. tracks \in [Subs -> SUBSET Nat]
    BY DEF ListInv
  <2>1. CASE tracks' = tracks
    BY <2>0, <2>1
  <2>2. ASSUME NEW q, NEW m, tracks' = [tracks EXCEPT ![q] = @ \ {m}]
        PROVE  tracks' \in [Subs -> SUBSET Nat] /\ \A r \in Subs : tracks'[r] \subseteq tracks[r]
    <3>1. tracks' = [r \in Subs |-> IF r = q THEN tracks[q] \ {m} ELSE tracks[r]]
      BY <2>0, <2>2
    <3>2. \A r \in Subs : tracks'[r] \subseteq tracks[r] /\ tracks[r] \subseteq Nat
      BY <2>0, <3>1
    <3>3. \A r \in Subs : (IF r = q THEN tracks[q] \ {m} ELSE tracks[r]) \in SUBSET Nat
      BY <2>0
    <3> QED
      BY <3>1, <3>2, <3>3
  <2> QED
    BY <1>1, <2>1, <2>2
<1>3. \A q \in Subs : \A m, n \in tracks'[q] : m = n
  BY <1>2 DEF ListInv
<1>4. /\ downTracks' \in Seq(Made)
      /\ \A i \in 1 .. Len(downTracks') :
            LET d == downTracks'[i]
            IN /\ d[2] <= made'[d[1]]
               /\ adding'[d[1]] \in {"check", "store"} => d[2] < made'[d[1]]
      /\ \A i, j \in 1 .. Len(downTracks') : downTracks'[i] = downTracks'[j] => i = j
  BY <1>1 DEF ListInv
<1> QED
  BY <1>1, <1>2, <1>3, <1>4 DEF ListInv

\* Every step keeps the lists.
LEMMA ListStep == ListInv /\ [Next]_vars => ListInv'
<1> SUFFICES ASSUME ListInv, [Next]_vars PROVE ListInv'
  OBVIOUS
<1>1. ASSUME NEW s \in Subs, AddDownTracks(s) \/ Adding(s) \/ SubscriberClose(s) PROVE ListInv'
  <2>1. CASE AddDownTracks(s)
    <3>1. adding' = [adding EXCEPT ![s] = "make"] /\ UNCHANGED <<made, tracks, downTracks>>
      BY <2>1 DEF AddDownTracks, recvVars
    <3>2. /\ adding' \in [Subs -> {"idle", "make", "check", "store", "negotiate"}]
          /\ \A q \in Subs : adding'[q] \in {"check", "store"} => adding[q] \in {"check", "store"}
      BY <3>1 DEF ListInv
    <3> QED
      BY <3>1, <3>2, ListStays
  <2>2. CASE AddDownTrackCheck(s) \/ Negotiate(s)
    <3>1. /\ adding' = [adding EXCEPT ![s] = "idle"] \/ adding[s] = "check"
          /\ \E pc \in {"idle", "negotiate", "store"} : adding' = [adding EXCEPT ![s] = pc]
          /\ UNCHANGED <<made, tracks, downTracks>>
      BY <2>2 DEF AddDownTrackCheck, Negotiate, Unlocks, recvVars
    <3>2. /\ adding' \in [Subs -> {"idle", "make", "check", "store", "negotiate"}]
          /\ \A q \in Subs : adding'[q] \in {"check", "store"} => adding[q] \in {"check", "store"}
      BY <3>1 DEF ListInv
    <3> QED
      BY <3>1, <3>2, ListStays
  <2>3. CASE SubscriberClose(s)
    <3>1. UNCHANGED <<made, tracks, adding, downTracks>>
      BY <2>3 DEF SubscriberClose, recvVars
    <3> QED
      BY <3>1, ListStays DEF ListInv
  <2> QED
    BY <1>1, <2>1, <2>2, <2>3, MakeStep, StoreStep DEF Adding
<1>2. ASSUME UNCHANGED subVars, downTracks' \in {downTracks, <<>>} PROVE ListInv'
  BY <1>2, ListStays DEF ListInv, subVars
<1>3. ASSUME NEW calc \in Calcs, AddReceiver(calc) \/ \E b \in Ups : CalcStart(b, calc)
      PROVE  ListInv'
  BY <1>2, <1>3 DEF AddReceiver, CalcStart, recvVars
<1>4. CASE Bind
  BY <1>2, <1>4 DEF Bind, recvVars
<1>5. ASSUME NEW b \in Ups, CalcEnd(b) \/ CloseBuffer(b) PROVE ListInv'
  BY <1>2, <1>5 DEF CalcEnd, CloseBuffer, recvVars
<1>6. ASSUME NEW g \in Ups, Loop(g) \/ deleteReceiver(g) PROVE ListInv'
  <2>1. CASE CloseDownTrack(g)
    BY <2>1, CloseKeepsList
  <2>2. CASE ReadCall(g) \/ ReadPacket(g) \/ WriteRTP(g) \/ SendRTCP(g) \/ WriteDone(g)
    BY <1>2, <2>2 DEF ReadCall, ReadPacket, WriteRTP, SendRTCP, WriteDone, recvVars
  <2>3. CASE ReadEOF(g) \/ CloseReceiver(g) \/ CloseTracks(g) \/ deleteReceiver(g)
    BY <1>2, <2>3 DEF ReadEOF, CloseReceiver, CloseTracks, deleteReceiver, recvVars
  <2> QED
    BY <1>6, <2>1, <2>2, <2>3 DEF Loop
<1>7. CASE ForwardRTCP \/ sendRTCP \/ PublisherClose \/ Stop \/ PublisherClosed
  BY <1>2, <1>7 DEF ForwardRTCP, sendRTCP, PublisherClose, Stop, PublisherClosed, recvVars
<1>8. CASE UNCHANGED vars
  BY <1>2, <1>8 DEF vars, recvVars
<1> QED
  BY <1>1, <1>3, <1>4, <1>5, <1>6, <1>7, <1>8 DEF Next

\* However calls of Session.Publish and Session.Subscribe meet, and however often the
\* id is published, a subscriber has at most one DownTrack of the track and none is
\* on the receiver's list twice.
THEOREM OneDownTrack == Spec => []OneTrackPerSub
<1>1. ListInv => OneTrackPerSub
  <2> SUFFICES ASSUME ListInv PROVE OneTrackPerSub
    OBVIOUS
  <2>1. ASSUME NEW s \in Subs PROVE Cardinality(tracks[s]) <= 1
    <3>1. CASE tracks[s] = {}
      <4>1. Cardinality(tracks[s]) = 0
        BY <3>1, FS_EmptySet
      <4> QED
        BY <4>1
    <3>2. CASE tracks[s] # {}
      <4>1. PICK x : x \in tracks[s]
        BY <3>2
      <4>2. tracks[s] = {x}
        BY <4>1 DEF ListInv
      <4>3. Cardinality(tracks[s]) = 1
        BY <4>2, FS_Singleton
      <4> QED
        BY <4>3
    <3> QED
      BY <3>1, <3>2
  <2>2. DOMAIN downTracks = 1 .. Len(downTracks)
    BY DEF ListInv
  <2> QED
    BY <2>1, <2>2 DEF ListInv, OneTrackPerSub
<1> QED
  BY <1>1, ListInit, ListStep, PTL DEF Spec

-----------------------------------------------------------------------------
(* Closing before going                                                    *)

\* Nothing stored yet.
LEMMA CloseInit == ASSUME MaxUps = 1, Init PROVE CloseInv
<1>1. Ups = {1}
  BY DEF Ups
<1>2. <<>> \in Seq(Made)
  OBVIOUS
<1> QED
  BY <1>1, <1>2 DEF Init, CloseInv

\* AddReceiver, for a track whose id is not published twice.
LEMMA UpStep == ASSUME MaxUps = 1, CloseInv, NEW calc, AddReceiver(calc) PROVE CloseInv'
<1>1. Ups = {1}
  BY DEF Ups
<1>2. ups = 0 /\ ups' = 1 /\ early' = early /\ todo' = todo /\ once' = once /\ wclosed' = wclosed
      /\ dtClosed' = dtClosed /\ registered' = TRUE
  BY DEF AddReceiver, CloseInv
<1>3. downTracks = <<>> /\ early = {} /\ downTracks' = <<>>
  BY <1>2 DEF CloseInv, AddReceiver
<1>4. \/ loop' = loop
      \/ loop' = [loop EXCEPT ![1] = "call"]
  BY <1>2 DEF AddReceiver
<1>5. loop' \in [Ups -> {"none", "call", "read", "write", "pli", "close", "load", "tracks", "done"}]
      /\ (loop'[1] = loop[1] \/ loop'[1] = "call")
  BY <1>1, <1>4 DEF CloseInv
<1> QED
  BY <1>2, <1>3, <1>5 DEF CloseInv

\* Steps of others than the receiver that store nothing.
LEMMA OtherClose ==
    ASSUME CloseInv,
           UNCHANGED <<ups, recvVars, loop, todo, early, dtClosed>>,
           ups = 0 => UNCHANGED <<routerLock, registered, published, adding>>
    PROVE  CloseInv'
BY DEF CloseInv, recvVars

\* storeDownTrack counts only while the receiver is open.
LEMMA StoreClose ==
    ASSUME CloseInv, ListInv, NEW s \in Subs, storeDownTrack(s)
    PROVE  CloseInv'
<1> DEFINE d == <<s, made[s]>>
<1>1. UNCHANGED <<registered, published, ups, wclosed, once, loop, todo, dtClosed>>
      /\ downTracks' = Append(downTracks, d) /\ adding[s] = "store"
      /\ early' = IF wclosed THEN early ELSE early \cup {d}
  BY DEF storeDownTrack, loopVars
<1>2. ups # 0
  BY <1>1 DEF CloseInv
<1>3. downTracks \in Seq(Made) /\ d \in Made
  BY DEF ListInv, Made
<1>4. ToSet(downTracks') = ToSet(downTracks) \cup {d}
  BY <1>1, <1>3, OneMore
<1>5. early' \subseteq ToSet(downTracks')
  BY <1>1, <1>4 DEF CloseInv
<1>6. wclosed = TRUE => early' = early
  BY <1>1
<1> QED
  BY <1>1, <1>2, <1>5, <1>6 DEF CloseInv

\* The goroutine: the list is loaded after closed is set, and worked through.
LEMMA LoopClose ==
    ASSUME MaxUps = 1, CloseInv, ListInv, NEW g \in Ups, Loop(g) \/ deleteReceiver(g)
    PROVE  CloseInv'
<1> DEFINE PCs == {"none", "call", "read", "write", "pli", "close", "load", "tracks", "done"}
<1>1. Ups = {1} /\ g = 1
  BY DEF Ups
<1>2. loop \in [Ups -> PCs] /\ todo \in [Ups -> Seq(Made)] /\ downTracks \in Seq(Made)
  BY DEF CloseInv, ListInv
<1>3. UNCHANGED <<routerLock, ups, published, adding, downTracks, early>> /\ (registered' => registered)
  BY DEF Loop, ReadCall, ReadPacket, WriteRTP, SendRTCP, WriteDone, ReadEOF, CloseReceiver,
         CloseTracks, CloseDownTrack, deleteReceiver, routeVars, recvVars, subVars
<1>4. ASSUME NEW pc \in PCs, At(1, pc) PROVE loop' \in [Ups -> PCs] /\ loop'[1] = pc
  BY <1>1, <1>2, <1>4 DEF At
<1>5. CASE ReadCall(g) \/ ReadPacket(g) \/ WriteRTP(g) \/ SendRTCP(g) \/ WriteDone(g)
  <2>1. UNCHANGED <<wclosed, once, dtClosed>>
        /\ (At(1, "read") \/ At(1, "write") \/ At(1, "pli") \/ At(1, "call"))
    BY <1>1, <1>5 DEF ReadCall, ReadPacket, WriteRTP, SendRTCP, WriteDone, recvVars
  <2>2. todo' \in [Ups -> Seq(Made)]
    <3>1. CASE todo' = todo
      BY <1>2, <3>1
    <3>2. CASE todo' = [todo EXCEPT ![1] = downTracks]
      BY <1>2, <3>2
    <3>3. CASE todo[1] # <<>> /\ todo' = [todo EXCEPT ![1] = Tail(todo[1])]
      <4>1. Tail(todo[1]) \in Seq(Made)
        BY <1>1, <1>2, <3>3, HeadAndRest
      <4> QED
        BY <1>2, <3>3, <4>1
    <3> QED
      BY <1>1, <1>5, <3>1, <3>2, <3>3 DEF ReadCall, ReadPacket, WriteRTP, SendRTCP, WriteDone
  <2>3. loop' \in [Ups -> PCs] /\ loop'[1] \in {"read", "write", "pli", "call"}
    BY <1>4, <2>1
  <2> QED
    BY <1>3, <2>1, <2>2, <2>3 DEF CloseInv
<1>6. CASE ReadEOF(g)
  <2>1. UNCHANGED <<wclosed, dtClosed, todo>>
        /\ \/ once = "new" /\ once' = "running" /\ At(1, "close")
           \/ once = "done" /\ At(1, "done") /\ once' = once
    BY <1>1, <1>6 DEF ReadEOF
  <2>2. loop' \in [Ups -> PCs]
        /\ \/ once' = "running" /\ loop'[1] = "close"
           \/ once' = once /\ loop'[1] = "done"
    BY <1>4, <2>1
  <2> QED
    BY <1>3, <2>1, <2>2 DEF CloseInv
<1>7. CASE CloseReceiver(g)
  <2>1. UNCHANGED <<once, dtClosed, todo>> /\ wclosed' = TRUE /\ At(1, "load") /\ loop[1] = "close"
    BY <1>1, <1>7 DEF CloseReceiver
  <2>2. loop' \in [Ups -> PCs] /\ loop'[1] = "load"
    BY <1>4, <2>1
  <2> QED
    BY <1>3, <2>1, <2>2 DEF CloseInv
<1>8. CASE CloseTracks(g)
  <2>1. UNCHANGED <<wclosed, once, dtClosed>> /\ At(1, "tracks") /\ loop[1] = "load"
        /\ todo' = [todo EXCEPT ![1] = downTracks]
    BY <1>1, <1>8 DEF CloseTracks, recvVars
  <2>2. loop' \in [Ups -> PCs] /\ loop'[1] = "tracks"
    BY <1>4, <2>1
  <2>3. todo' \in [Ups -> Seq(Made)] /\ todo'[1] = downTracks
    BY <1>1, <1>2, <2>1
  <2>4. early \subseteq dtClosed \cup ToSet(todo'[1])
    BY <2>3 DEF CloseInv
  <2> QED
    BY <1>3, <2>1, <2>2, <2>3, <2>4 DEF CloseInv
<1>9. CASE CloseDownTrack(g)
  <2>1. UNCHANGED <<wclosed, once, loop>> /\ loop[1] = "tracks" /\ todo[1] # <<>>
        /\ dtClosed' = dtClosed \cup {Head(todo[1])}
        /\ todo' = [todo EXCEPT ![1] = Tail(todo[1])]
    BY <1>1, <1>9 DEF CloseDownTrack, recvVars
  <2>2. Tail(todo[1]) \in Seq(Made)
        /\ ToSet(todo[1]) = {Head(todo[1])} \cup ToSet(Tail(todo[1]))
    BY <1>1, <1>2, <2>1, HeadAndRest
  <2>3. todo' \in [Ups -> Seq(Made)] /\ todo'[1] = Tail(todo[1])
    BY <1>1, <1>2, <2>1, <2>2
  <2>4. early \subseteq dtClosed' \cup ToSet(todo'[1])
    BY <2>1, <2>2, <2>3 DEF CloseInv
  <2> QED
    BY <1>3, <2>1, <2>3, <2>4 DEF CloseInv
<1>10. CASE deleteReceiver(g)
  <2>1. UNCHANGED <<wclosed, todo, dtClosed>> /\ loop[1] = "tracks" /\ todo[1] = <<>>
        /\ At(1, "done") /\ once' = "done"
    BY <1>1, <1>10 DEF deleteReceiver
  <2>2. loop' \in [Ups -> PCs] /\ loop'[1] = "done"
    BY <1>4, <2>1
  <2>3. ToSet(todo[1]) = {}
    BY <2>1 DEF ToSet
  <2> QED
    BY <1>3, <2>1, <2>2, <2>3 DEF CloseInv
<1> QED
  BY <1>5, <1>6, <1>7, <1>8, <1>9, <1>10 DEF Loop

\* Every step.
LEMMA CloseStep ==
    MaxUps = 1 /\ CloseInv /\ ListInv /\ [Next]_vars => CloseInv'
<1> SUFFICES ASSUME MaxUps = 1, CloseInv, ListInv, [Next]_vars PROVE CloseInv'
  OBVIOUS
<1>1. ASSUME NEW s \in Subs, AddDownTracks(s) \/ Adding(s) \/ SubscriberClose(s) PROVE CloseInv'
  <2>1. CASE storeDownTrack(s)
    BY <2>1, StoreClose
  <2>2. CASE AddDownTracks(s)
    <3>1. published \/ registered
      BY <2>2 DEF AddDownTracks
    <3>2. ups # 0
      BY <3>1 DEF CloseInv
    <3> QED
      BY <2>2, <3>2, OtherClose DEF AddDownTracks, loopVars
  <2>3. CASE AddDownTrack(s) \/ AddDownTrackCheck(s) \/ Negotiate(s)
    <3>1. adding[s] # "idle"
      BY <2>3 DEF AddDownTrack, AddDownTrackCheck, Negotiate
    <3>2. ups # 0
      BY <3>1 DEF CloseInv
    <3> QED
      BY <2>3, <3>2, OtherClose DEF AddDownTrack, AddDownTrackCheck, Negotiate, loopVars
  <2>4. CASE SubscriberClose(s)
    BY <2>4, OtherClose DEF SubscriberClose, routeVars, loopVars
  <2> QED
    BY <1>1, <2>1, <2>2, <2>3, <2>4 DEF Adding
<1>2. ASSUME NEW calc \in Calcs, AddReceiver(calc) \/ \E b \in Ups : CalcStart(b, calc)
      PROVE  CloseInv'
  BY <1>2, UpStep, OtherClose DEF CalcStart, routeVars, loopVars, subVars
<1>3. CASE Bind
  <2>1. ups # 0
    BY <1>3 DEF Bind, CloseInv
  <2> QED
    BY <1>3, <2>1, OtherClose DEF Bind, loopVars
<1>4. ASSUME NEW b \in Ups, CalcEnd(b) \/ CloseBuffer(b) PROVE CloseInv'
  BY <1>4, OtherClose DEF CalcEnd, CloseBuffer, routeVars, loopVars, subVars
<1>5. ASSUME NEW g \in Ups, Loop(g) \/ deleteReceiver(g) PROVE CloseInv'
  BY <1>5, LoopClose
<1>6. CASE ForwardRTCP \/ sendRTCP \/ PublisherClose \/ Stop \/ PublisherClosed
  BY <1>6, OtherClose
     DEF ForwardRTCP, sendRTCP, PublisherClose, Stop, PublisherClosed, routeVars, loopVars, subVars
<1>7. CASE UNCHANGED vars
  BY <1>7, OtherClose DEF vars, routeVars, loopVars, subVars
<1> QED
  BY <1>1, <1>2, <1>3, <1>4, <1>5, <1>6, <1>7 DEF Next

\* A receiver that has left the router has closed every DownTrack stored on it while
\* it was open, if its track's id is not published twice.
THEOREM GoneMeansClosed == ASSUME MaxUps = 1 PROVE Spec => []ClosedBeforeGone
<1>1. CloseInv => ClosedBeforeGone
  BY DEF CloseInv, ClosedBeforeGone
<1>2. Init => CloseInv
  BY CloseInit
<1>3. CloseInv /\ ListInv /\ [Next]_vars => CloseInv'
  BY CloseStep
<1> QED
  BY <1>1, <1>2, <1>3, ListInit, ListStep, PTL DEF Spec
=============================================================================
