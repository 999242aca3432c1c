----------------------------- MODULE MCPeerSync -----------------------------
(***************************************************************************)
(* TLC instances of PeerSync: every client publishes a track of its own,   *)
(* or all publish under one id, as one client that comes back does.        *)
(***************************************************************************)
EXTENDS PeerSync

CONSTANTS a, b, c

OwnTracks == [p \in Peers |-> p]
SameTrack == [p \in Peers |-> "cam"]
Cast(publishers, leavers, silent, trackOf, attempts) ==
    [publishers |-> publishers, leavers |-> leavers, silent |-> silent,
     trackOf |-> trackOf, attempts |-> attempts]

\* One publishes and may leave, so may one of those who watch
LeaverCast == {Cast({a}, {a, b}, {}, OwnTracks, 2)}
\* Two publish under one id, one watches and never answers
SharedCast == {Cast({a, c}, {a}, {b}, SameTrack, 1)}
RoomCasts == LeaverCast \cup SharedCast
\* Two that publish, one may leave
LiveCasts == {Cast({a, b}, {a}, {}, OwnTracks, 2)}
\* A client that comes back as another peer with the same track
RejoinCasts == {Cast({a, c}, {a}, {}, SameTrack, 2)}
=============================================================================
