---------------------------- MODULE AudioObserver ---------------------------
(***************************************************************************)
(* Who is speaking (audioobserver.go).  Each audio track's buffer reports  *)
(* the level of its packets with observe; Calc, called at an interval,     *)
(* ranks the streams and returns the list, or nil if it has not changed.   *)
(*                                                                         *)
(* observe changes sum and total under a read lock only, so two tracks of  *)
(* one stream may lose each other's updates; it is split at its loads and  *)
(* stores.  Adding, removing and Calc hold the write lock.                 *)
(***************************************************************************)
EXTENDS Integers, Sequences, FiniteSets, SequencesExt

CONSTANTS AudioTracks,      \* audio tracks of the publishers
          StreamOf,         \* the stream each belongs to
          Levels,           \* dBov of packets: 0 is loudest, 127 silence
          Threshold,        \* louder than this counts
          ExpectedTotal,    \* packets that make a speaker: interval * filter / 2000
          MaxObserved,      \* bound: packets
          MaxCalcs          \* bound: calls of Calc

ASSUME AudioAssumption ==
    /\ IsFiniteSet(AudioTracks)
    /\ Levels \subseteq Nat
    /\ ExpectedTotal \in Int

VARIABLES
    streams,        \* sequence of [id, sum, total]
    previous,       \* what Calc returned last
    track,          \* per track: "new", "live", "closed"
    observing,      \* per track: its observe call
    observed, calcs,    \* counts, for the bounds
    \* history, per stream since the last Calc
    shown,          \* what the callers of Calc know: the last list that was not nil
    heard, loud,    \* loud enough packets, and the sum of their levels
    doubled         \* streams that had two entries

audioVars == <<streams, previous, track, observing, observed, calcs, shown, heard, loud,
               doubled>>

StreamIds == {StreamOf[t] : t \in AudioTracks}
NotObserving == [at |-> "idle", entry |-> 0, level |-> 0, loaded |-> 0]
Zero == [s \in StreamIds |-> 0]

AudioInit ==
    /\ streams = <<>> /\ previous = <<>> /\ shown = <<>>
    /\ track = [t \in AudioTracks |-> "new"]
    /\ observing = [t \in AudioTracks |-> NotObserving]
    /\ observed = 0 /\ calcs = 0
    /\ heard = Zero /\ loud = Zero /\ doubled = {}

Unread == \A t \in AudioTracks : observing[t] = NotObserving
EntriesOf(s) == {i \in DOMAIN streams : streams[i].id = s}
FirstOf(s) == CHOOSE i \in EntriesOf(s) : \A j \in EntriesOf(s) : i <= j

\* By AddReceiver
addStream(t) ==
    /\ track[t] = "new" /\ Unread
    /\ track' = [track EXCEPT ![t] = "live"]
    /\ streams' = Append(streams, [id |-> StreamOf[t], sum |-> 0, total |-> 0])
    /\ doubled' = IF EntriesOf(StreamOf[t]) # {} THEN doubled \cup {StreamOf[t]} ELSE doubled
    /\ UNCHANGED <<previous, observing, observed, calcs, shown, heard, loud>>

\* The last entry takes the place of the one removed
Without(s) ==
    LET n == Len(streams)
    IN SubSeq([streams EXCEPT ![FirstOf(s)] = streams[n]], 1, n - 1)

\* By the receiver's close handler
removeStream(t) ==
    LET s == StreamOf[t]
    IN /\ track[t] = "live" /\ observing[t] = NotObserving /\ Unread
       /\ track' = [track EXCEPT ![t] = "closed"]
       /\ streams' = IF EntriesOf(s) = {} THEN streams ELSE Without(s)
       /\ heard' = [heard EXCEPT ![s] = IF s \in doubled THEN @ ELSE 0]
       /\ loud' = [loud EXCEPT ![s] = IF s \in doubled THEN @ ELSE 0]
       /\ UNCHANGED <<previous, observing, observed, calcs, shown, doubled>>

\* Finds the first entry of the stream and loads its sum
observe(t, level) ==
    LET s == StreamOf[t]
    IN /\ track[t] = "live" /\ observing[t] = NotObserving /\ observed < MaxObserved
       /\ observed' = observed + 1
       /\ IF EntriesOf(s) # {} /\ level <= Threshold
          THEN /\ observing' = [observing EXCEPT ![t] =
                     [at |-> "sum", entry |-> FirstOf(s), level |-> level,
                      loaded |-> streams[FirstOf(s)].sum]]
               /\ heard' = [heard EXCEPT ![s] = @ + 1]
               /\ loud' = [loud EXCEPT ![s] = @ + level]
          ELSE UNCHANGED <<observing, heard, loud>>
       /\ UNCHANGED <<streams, previous, track, calcs, shown, doubled>>

\* Stores the sum, loads the total
observeSum(t) ==
    LET o == observing[t]
    IN /\ o.at = "sum"
       /\ streams' = [streams EXCEPT ![o.entry].sum = o.loaded + o.level]
       /\ observing' = [observing EXCEPT ![t].at = "total",
                                         ![t].loaded = streams[o.entry].total]
       /\ UNCHANGED <<previous, track, observed, calcs, shown, heard, loud, doubled>>

observeTotal(t) ==
    LET o == observing[t]
    IN /\ o.at = "total"
       /\ streams' = [streams EXCEPT ![o.entry].total = o.loaded + 1]
       /\ observing' = [observing EXCEPT ![t] = NotObserving]
       /\ UNCHANGED <<previous, track, observed, calcs, shown, heard, loud, doubled>>

\* Mutant of Before: quieter first
BeforeQuiet(x, y) == x.total > y.total \/ (x.total = y.total /\ x.sum > y.sum)

\* More packets first, then louder ones
Before(x, y) == x.total > y.total \/ (x.total = y.total /\ x.sum < y.sum)

\* sort.Slice may leave equal entries in any order
Sorted ==
    LET Places == DOMAIN streams
        Orders == {f \in [Places -> Places] :
                      /\ \A i, j \in Places : i # j => f[i] # f[j]
                      /\ \A i, j \in Places : i < j => ~Before(streams[f[j]], streams[f[i]])}
    IN {[i \in Places |-> streams[f[i]]] : f \in Orders}

\* The streams heard often enough, in that order
Speakers(sorted) ==
    LET ids[k \in 0 .. Len(sorted)] ==
            IF k = 0 THEN <<>>
            ELSE IF sorted[k].total >= ExpectedTotal THEN Append(ids[k - 1], sorted[k].id)
            ELSE ids[k - 1]
    IN ids[Len(sorted)]

\* Unchanged lists are not returned (nil); others are kept and returned
Calc ==
    /\ Unread /\ calcs < MaxCalcs /\ calcs' = calcs + 1
    /\ \E sorted \in Sorted :
          /\ streams' = [i \in DOMAIN sorted |-> [sorted[i] EXCEPT !.sum = 0, !.total = 0]]
          /\ previous' = Speakers(sorted)
          /\ shown' = IF Speakers(sorted) = previous THEN shown ELSE Speakers(sorted)
    /\ heard' = Zero /\ loud' = Zero
    /\ doubled' = {s \in StreamIds : Cardinality(EntriesOf(s)) > 1}
    /\ UNCHANGED <<track, observing, observed>>

AudioNext ==
    \/ \E t \in AudioTracks :
          \/ addStream(t) \/ removeStream(t) \/ observeSum(t) \/ observeTotal(t)
          \/ \E level \in Levels : observe(t, level)
    \/ Calc

-----------------------------------------------------------------------------
(* Properties                                                              *)

\* What the last list says of the interval
Truthful ==
    LET single == StreamIds \ doubled
        ids == shown'
    IN /\ \A i \in DOMAIN ids : heard[ids[i]] >= ExpectedTotal
       /\ \A s \in single : EntriesOf(s) # {} /\ heard[s] >= ExpectedTotal => Contains(ids, s)
       /\ \A i, j \in DOMAIN ids :
            i < j /\ ids[i] \in single /\ ids[j] \in single =>
               /\ ids[i] # ids[j]
               /\ \/ heard[ids[i]] > heard[ids[j]]
                  \/ heard[ids[i]] = heard[ids[j]] /\ loud[ids[i]] <= loud[ids[j]]

\* What a caller of Calc knows after each call is the truth about the interval: only
\* streams heard often enough, and of the streams with one audio track all of them,
\* once each, the busiest first and the louder first among equally busy ones.
SpeakersShown == [][calcs' # calcs => Truthful]_audioVars
=============================================================================
