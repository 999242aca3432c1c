------------------------------- MODULE Factory ------------------------------
(***************************************************************************)
(* The buffer factory (factory.go, rtcpreader.go): one table of receive    *)
(* buffers and one of RTCP readers, by SSRC, shared by all peers.          *)
(*                                                                         *)
(* pion is external.  It opens a stream of an SSRC by asking the factory   *)
(* for its buffer and its reader, and closes each once; a session opens    *)
(* one stream of an SSRC at a time, but two sessions (a client that comes  *)
(* back) may overlap.  For a stream that is received, AddReceiver looks    *)
(* both up later, in a goroutine of its own; for one that is sent,         *)
(* DownTrack.Bind asks for the reader too.                                 *)
(*                                                                         *)
(* Close marks the object closed and then deletes the table's entry, by    *)
(* SSRC: in between, GetOrNew returns the closed object.                   *)
(***************************************************************************)
EXTENDS Naturals, FiniteSets

CONSTANTS Visits,       \* streams pion opens
          VisitSets,    \* bounds: sets of streams opened in one behaviour
          SsrcOf,       \* the SSRC of each
          Sent          \* those that are sent by a DownTrack, and have only a reader;
                        \* their SSRCs are the SFU's own, used once

ASSUME FactoryAssumption ==
    /\ VisitSets \subseteq SUBSET Visits
    /\ \A v \in Sent, w \in Visits : SsrcOf[w] = SsrcOf[v] => w = v

VARIABLES
    visiting,       \* the streams of this behaviour
    table,          \* table[kind][ssrc]: rtpBuffers and rtcpReaders; 0: no entry
    closedObjs,     \* objects marked closed
    made,           \* number of objects made
    stream,         \* stream[kind][visit]: "none", "open", "closing", "closed"
    holds,          \* holds[kind][visit]: the object pion has
    found,          \* found[kind][visit]: what AddReceiver or Bind got; 0: nil
    asked,          \* visits whose AddReceiver or Bind has been
    \* history
    shared,         \* visits whose SSRC another had open at the same time
    overdue         \* visits that were closed before AddReceiver or Bind asked

factoryVars == <<visiting, table, closedObjs, made, stream, holds, found, asked, shared, overdue>>

Kinds == {"rtp", "rtcp"}
Ssrcs == {SsrcOf[v] : v \in Visits}
KindsOf(v) == IF v \in Sent THEN {"rtcp"} ELSE Kinds
PerVisit(x) == [k \in Kinds |-> [v \in Visits |-> x]]

FactoryInit ==
    /\ visiting \in VisitSets
    /\ table = [k \in Kinds |-> [s \in Ssrcs |-> 0]]
    /\ closedObjs = {} /\ made = 0
    /\ stream = PerVisit("none") /\ holds = PerVisit(0) /\ found = PerVisit(0)
    /\ asked = {} /\ shared = {} /\ overdue = {}

\* The caller gets what is in the table then
GetOrNew(k, s) ==
    IF table[k][s] # 0 THEN UNCHANGED <<made, table>>
    ELSE made' = made + 1 /\ table' = [table EXCEPT ![k][s] = made + 1]

\* Visits with the same SSRC that pion has not done with
Busy(v) ==
    {w \in Visits \ {v} : SsrcOf[w] = SsrcOf[v]
                          /\ \E k \in KindsOf(w) : stream[k][w] \in {"open", "closing"}}

OpenStream(v, k) ==
    /\ k \in KindsOf(v) /\ stream[k][v] = "none"
    /\ GetOrNew(k, SsrcOf[v])
    /\ stream' = [stream EXCEPT ![k][v] = "open"]
    /\ holds' = [holds EXCEPT ![k][v] = table'[k][SsrcOf[v]]]
    /\ shared' = shared \cup Busy(v) \cup (IF Busy(v) # {} THEN {v} ELSE {})
    /\ UNCHANGED <<visiting, closedObjs, found, asked, overdue>>

\* GetBufferPair, in AddReceiver, once both streams are open (or closed again)
AddReceiver(v) ==
    /\ v \notin Sent /\ v \notin asked
    /\ \A k \in Kinds : stream[k][v] # "none"
    /\ asked' = asked \cup {v}
    /\ found' = [k \in Kinds |-> [found[k] EXCEPT ![v] = table[k][SsrcOf[v]]]]
    /\ overdue' = IF \E k \in Kinds : stream[k][v] # "open" THEN overdue \cup {v} ELSE overdue
    /\ UNCHANGED <<visiting, table, closedObjs, made, stream, holds, shared>>

\* GetOrNew, in DownTrack.Bind, before or after pion opens the stream
BindReader(v) ==
    /\ v \in Sent /\ v \notin asked
    /\ asked' = asked \cup {v}
    /\ GetOrNew("rtcp", SsrcOf[v])
    /\ found' = [found EXCEPT !["rtcp"][v] = table'["rtcp"][SsrcOf[v]]]
    /\ overdue' = IF stream["rtcp"][v] \in {"closing", "closed"} THEN overdue \cup {v}
                  ELSE overdue
    /\ UNCHANGED <<visiting, closedObjs, stream, holds, shared>>

\* closed.set(true).  A buffer closes once; a reader goes on to delete each time.
CloseObject(v, k) ==
    /\ stream[k][v] = "open"
    /\ closedObjs' = closedObjs \cup {holds[k][v]}
    /\ stream' = [stream EXCEPT ![k][v] =
                     IF k = "rtp" /\ holds[k][v] \in closedObjs THEN "closed" ELSE "closing"]
    /\ UNCHANGED <<visiting, table, made, holds, found, asked, shared, overdue>>

\* Mutant of DeleteEntry: the entry stays
DeleteEntryNever(v, k) ==
    /\ stream[k][v] = "closing"
    /\ stream' = [stream EXCEPT ![k][v] = "closed"]
    /\ UNCHANGED <<visiting, table, closedObjs, made, holds, found, asked, shared, overdue>>

\* onClose: delete the SSRC's entry, whatever it is
DeleteEntry(v, k) ==
    /\ stream[k][v] = "closing"
    /\ stream' = [stream EXCEPT ![k][v] = "closed"]
    /\ table' = [table EXCEPT ![k][SsrcOf[v]] = 0]
    /\ UNCHANGED <<visiting, closedObjs, made, holds, found, asked, shared, overdue>>

FactoryNext ==
    \E v \in visiting :
        \/ AddReceiver(v) \/ BindReader(v)
        \/ \E k \in Kinds : OpenStream(v, k) \/ CloseObject(v, k) \/ DeleteEntry(v, k)

-----------------------------------------------------------------------------
(* Properties                                                              *)

\* AddReceiver and Bind work with the very objects pion writes to, and those are
\* open: also when the SSRC was used before, and in whatever order Bind and pion
\* ask.  (Unless two streams of one SSRC overlap, or the stream ended first.)
PairFound ==
    \A v \in asked \ (shared \cup overdue), k \in Kinds :
        k \in KindsOf(v) /\ stream[k][v] # "none" =>
            /\ found[k][v] = holds[k][v]
            /\ stream[k][v] = "open" => found[k][v] \notin closedObjs
=============================================================================
