----------------------------- MODULE Candidates -----------------------------
(***************************************************************************)
(* Trickle ICE of a Publisher or a Subscriber (publisher.go, subscribe.go; *)
(* the two have the same code).  Candidates of the client that arrive      *)
(* before its description wait in a slice; SetRemoteDescription (Answer,   *)
(* in a Publisher) hands them on and empties the slice.                    *)
(*                                                                         *)
(* No lock protects the slice.  Each candidate, and each description, is a *)
(* call of its own, and calls may overlap: append is a load and a store,   *)
(* and the loop of SetRemoteDescription ranges over the slice it loaded.   *)
(***************************************************************************)
EXTENDS Naturals, Sequences, FiniteSets

CONSTANTS Cands,            \* candidates of the client
          MaxDescriptions   \* bound: descriptions it sends

VARIABLES
    described,      \* pc.RemoteDescription() # nil
    candidates,     \* the slice
    adder,        \* per candidate: its AddICECandidate call
    setCall,        \* the SetRemoteDescription call: "idle", "range", "add"
    drained, todo,  \* the slice its loop ranges over, and what is left of it
    given,          \* how often each candidate was given to the PeerConnection
    descriptions,   \* count, for the bound
    \* history
    overwritten,    \* a store of the slice undid another
    late            \* a candidate was appended after the description was there

candVars == <<described, candidates, adder, setCall, drained, todo, given,
              descriptions, overwritten, late>>

CandInit ==
    /\ described = FALSE /\ candidates = <<>>
    /\ adder = [c \in Cands |-> [at |-> "new", loaded |-> <<>>]]
    /\ setCall = "idle" /\ drained = <<>> /\ todo = <<>>
    /\ given = [c \in Cands |-> 0] /\ descriptions = 0
    /\ overwritten = FALSE /\ late = FALSE

\* pc.AddICECandidate; what the PeerConnection makes of it changes nothing here
Give(c) == given' = [given EXCEPT ![c] = @ + 1]

\* Is there a description?
AddICECandidate(c) ==
    /\ adder[c].at = "new"
    /\ IF described
       THEN adder' = [adder EXCEPT ![c].at = "done"] /\ Give(c)
       ELSE adder' = [adder EXCEPT ![c].at = "load"] /\ UNCHANGED given
    /\ UNCHANGED <<described, candidates, setCall, drained, todo, descriptions,
                   overwritten, late>>

AppendLoad(c) ==
    /\ adder[c].at = "load"
    /\ adder' = [adder EXCEPT ![c] = [at |-> "store", loaded |-> candidates]]
    /\ UNCHANGED <<described, candidates, setCall, drained, todo, given, descriptions,
                   overwritten, late>>

AppendStore(c) ==
    /\ adder[c].at = "store"
    /\ adder' = [adder EXCEPT ![c] = [at |-> "done", loaded |-> <<>>]]
    /\ candidates' = Append(adder[c].loaded, c)
    /\ overwritten' = (overwritten \/ candidates # adder[c].loaded)
    /\ late' = (late \/ described)
    /\ UNCHANGED <<described, setCall, drained, todo, given, descriptions>>

\* The PeerConnection takes the description, or refuses it and the call returns
SetRemoteDescription ==
    /\ setCall = "idle" /\ descriptions < MaxDescriptions
    /\ descriptions' = descriptions + 1
    /\ \/ described' = TRUE /\ setCall' = "range"
       \/ UNCHANGED <<described, setCall>>
    /\ UNCHANGED <<candidates, adder, drained, todo, given, overwritten, late>>

RangeCandidates ==
    /\ setCall = "range" /\ setCall' = "add"
    /\ drained' = candidates /\ todo' = candidates
    /\ UNCHANGED <<described, candidates, adder, given, descriptions, overwritten, late>>

AddWaiting ==
    /\ setCall = "add" /\ todo # <<>>
    /\ Give(Head(todo)) /\ todo' = Tail(todo)
    /\ UNCHANGED <<described, candidates, adder, setCall, drained, descriptions,
                   overwritten, late>>

\* Mutant of Drained: the slice is not emptied
DrainedKeeps ==
    /\ setCall = "add" /\ todo = <<>>
    /\ setCall' = "idle" /\ drained' = <<>>
    /\ UNCHANGED <<described, candidates, adder, todo, given, descriptions,
                   overwritten, late>>

\* candidates = nil.  (A Publisher goes on to create its answer.)
Drained ==
    /\ setCall = "add" /\ todo = <<>>
    /\ setCall' = "idle" /\ drained' = <<>>
    /\ candidates' = <<>>
    /\ overwritten' = (overwritten \/ candidates # drained)
    /\ UNCHANGED <<described, adder, todo, given, descriptions, late>>

CandNext ==
    \/ \E c \in Cands : AddICECandidate(c) \/ AppendLoad(c) \/ AppendStore(c)
    \/ SetRemoteDescription \/ RangeCandidates \/ AddWaiting \/ Drained

-----------------------------------------------------------------------------
(* Properties                                                              *)

Elems(s) == {s[i] : i \in DOMAIN s}

\* Candidates that a loop under way, or the next one, will hand on
Waiting == Elems(todo) \cup (Elems(candidates) \ Elems(drained))

\* However candidates and descriptions arrive, each candidate is given to the
\* PeerConnection exactly once or waits to be, and once there is a description none
\* is left waiting, unless an append and another call's store of the slice (or an
\* append and the description) crossed.
CandidatesExact ==
    /\ ~overwritten => \A c \in Cands : adder[c].at = "done" =>
                          given[c] + (IF c \in Waiting THEN 1 ELSE 0) = 1
    /\ described /\ setCall = "idle" /\ ~late => candidates = <<>>
=============================================================================
