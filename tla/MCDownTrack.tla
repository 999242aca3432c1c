---------------------------- MODULE MCDownTrack -----------------------------
(***************************************************************************)
(* TLC instance of DownTrack: tracks that are muted and bound again for    *)
(* longer than a lap of the numbers, of both kinds, and a video with       *)
(* retransmissions.                                                        *)
(***************************************************************************)
EXTENDS DownTrack

MutePlan(kind, n, b) ==
    [kind |-> kind, origin |-> 5, packets |-> n, mutes |-> 2, nacks |-> 0,
     binds |-> b, clock |-> 0]
\* One NACK after mutes and a new table, or before a lap of the numbers; three NACKs
\* with time passing
RtxPlan(n, m) ==
    [kind |-> "video", origin |-> 4, packets |-> n, mutes |-> m, nacks |-> 1,
     binds |-> 1, clock |-> 0]
ThrottlePlan ==
    [kind |-> "video", origin |-> 4, packets |-> 3, mutes |-> 0, nacks |-> 3,
     binds |-> 1, clock |-> 3]

TestPlans ==
    {MutePlan("video", 5, 1), MutePlan("video", 4, 2), MutePlan("audio", 5, 1),
     RtxPlan(4, 2), RtxPlan(5, 0), ThrottlePlan}
=============================================================================
