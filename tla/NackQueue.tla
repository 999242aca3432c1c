----------------------------- MODULE NackQueue ------------------------------
(***************************************************************************)
(* The queue of missing packets (buffer/nack.go): a sequence of entries    *)
(* [sn, nacked], sn an extended (uint32) sequence number, sorted by sn.    *)
(***************************************************************************)
EXTENDS SeqNum, SequencesExt

CONSTANTS MaxNackTimes,   \* maxNackTimes = 3
          MaxNackCache,   \* maxNackCache = 100
          BlpBits         \* bits of a NackPair's LostPackets mask: 16

ASSUME NackAssumption ==
    /\ MaxNackTimes \in Nat \ {0}
    /\ MaxNackCache \in Nat \ {0}
    /\ BlpBits \in 1 .. Half - 1

\* sort.Search on a queue sorted by sn: the first entry not below e
Search(q, e) == Cardinality({i \in DOMAIN q : q[i].sn < e}) + 1

Holds(q, e) == Search(q, e) <= Len(q) /\ q[Search(q, e)].sn = e

\* Mutant of NackRemove: the tail is moved down but the queue is not shortened
NackRemoveNoTruncate(q, e) ==
    IF Holds(q, e) THEN Append(RemoveAt(q, Search(q, e)), Last(q)) ELSE q

NackRemove(q, e) == IF Holds(q, e) THEN RemoveAt(q, Search(q, e)) ELSE q

\* At the limit the code copies the queue one place down over itself without
\* shortening it: the oldest entry goes and the newest is there twice.
ShiftDown(q) ==
    IF Len(q) >= MaxNackCache THEN Append(Tail(q), Last(q)) ELSE q

\* Mutant of NackPush: appends instead of inserting in order
NackPushAtEnd(q, e) ==
    IF Holds(q, e) THEN q ELSE ShiftDown(Append(q, [sn |-> e, nacked |-> 0]))

NackPush(q, e) ==
    IF Holds(q, e) THEN q
    ELSE ShiftDown(InsertAt(q, Search(q, e), [sn |-> e, nacked |-> 0]))

\* The loop of calc that pushes a run of missing packets
PushAll(q, es) ==
    LET after[k \in 0 .. Len(es)] == IF k = 0 THEN q ELSE NackPush(after[k - 1], es[k])
    IN after[Len(es)]

\* What pairs(head) does with each entry, in the order of the code's tests
GivenUp(n) == n.nacked >= MaxNackTimes
TooFresh(n, head) == n.sn >= Sub32(head, 2)
Eligible(n, head) == ~GivenUp(n) /\ ~TooFresh(n, head)

\* Mutant of Renacked: an abandoned entry stays
RenackedForever(q, head) ==
    [i \in DOMAIN q |->
          IF TooFresh(q[i], head) THEN q[i] ELSE [q[i] EXCEPT !.nacked = @ + 1]]

\* The queue left by pairs(head)
Renacked(q, head) ==
    LET kept[k \in 0 .. Len(q)] ==
          IF k = 0 THEN <<>>
          ELSE IF GivenUp(q[k]) THEN kept[k - 1]
          ELSE Append(kept[k - 1], IF TooFresh(q[k], head) THEN q[k]
                                   ELSE [q[k] EXCEPT !.nacked = @ + 1])
    IN kept[Len(q)]

\* Mutant of NextKfSN: the lowest abandoned sn
NextKfSNLowest(q, kf) ==
    LET up == {q[i].sn : i \in {j \in DOMAIN q : GivenUp(q[j])}}
    IN IF up = {} THEN kf ELSE Max({Min(up), kf})

\* kfSN left by pairs: the highest abandoned sn.  A key frame is asked for
\* exactly when it moves (askKF).
NextKfSN(q, kf) ==
    LET up == {q[i].sn : i \in {j \in DOMAIN q : GivenUp(q[j])}}
    IN Max(up \cup {kf})

\* Mutant of AddToPair: bit k stands for PacketID + k
AddToPairShifted(acc, sn) ==
    IF acc.np.PacketID = 0 \/ sn > Plus(acc.np.PacketID, BlpBits)
    THEN [nps |-> IF acc.np.PacketID = 0 THEN acc.nps ELSE Append(acc.nps, acc.np),
          np  |-> [PacketID |-> sn, LostPackets |-> {}]]
    ELSE [acc EXCEPT !.np.LostPackets =
             @ \cup ({Minus(sn, acc.np.PacketID)} \cap 0 .. BlpBits - 1)]

\* One turn of the loop that packs sequence numbers into NackPairs; PacketID 0
\* means "no pair open", and a shift beyond the mask sets no bit.
AddToPair(acc, sn) ==
    IF acc.np.PacketID = 0 \/ sn > Plus(acc.np.PacketID, BlpBits)
    THEN [nps |-> IF acc.np.PacketID = 0 THEN acc.nps ELSE Append(acc.nps, acc.np),
          np  |-> [PacketID |-> sn, LostPackets |-> {}]]
    ELSE [acc EXCEPT !.np.LostPackets =
             @ \cup ({Minus(Minus(sn, acc.np.PacketID), 1)} \cap 0 .. BlpBits - 1)]

\* The NackPairs pairs(head) returns
NackPairs(q, head) ==
    LET acc[k \in 0 .. Len(q)] ==
          IF k = 0 THEN [nps |-> <<>>, np |-> [PacketID |-> 0, LostPackets |-> {}]]
          ELSE IF Eligible(q[k], head) THEN AddToPair(acc[k - 1], Low16(q[k].sn))
          ELSE acc[k - 1]
        end == acc[Len(q)]
    IN IF end.np.PacketID = 0 THEN end.nps ELSE Append(end.nps, end.np)

\* What the publisher reads in the pairs: PacketID, and PacketID + 1 + k for bit k
Requested(nps) ==
    UNION {{nps[i].PacketID} \cup
           {Plus(nps[i].PacketID, 1 + k) : k \in nps[i].LostPackets} :
             i \in DOMAIN nps}
=============================================================================
