---------------------------- MODULE PartsProofs -----------------------------
(***************************************************************************)
(* Proofs about six parts that share no state: the candidates of a client  *)
(* (Candidates), the buffer factory (Factory), the list of DownTracks of a *)
(* Subscriber (Subscriber), the remote calls over RabbitMQ (Rpc), the      *)
(* audio observer (AudioObserver), and the pure functions (Helpers).       *)
(***************************************************************************)
EXTENDS Candidates, Factory, Subscriber, Rpc, AudioObserver, Helpers,
        SequenceTheorems, FiniteSetTheorems, NaturalsInduction, WellFoundedInduction, TLAPS

-----------------------------------------------------------------------------
(* Sequences without repetition                                            *)

Distinct(s) == \A i, j \in 1 .. Len(s) : i # j => s[i] # s[j]

\* The empty sequence has no elements.
LEMMA EmptyElems == Elems(<<>>) = {} /\ Distinct(<<>>)
<1>1. DOMAIN <<>> = {} /\ Len(<<>>) = 0 /\ 1 .. 0 = {}
  OBVIOUS
<1> QED
  BY <1>1 DEF Elems, Distinct

\* The elements of a sequence are those at its positions.
LEMMA ElemsAre ==
    ASSUME NEW S, NEW s \in Seq(S)
    PROVE  /\ \A x : x \in Elems(s) <=> \E i \in 1 .. Len(s) : s[i] = x
           /\ Elems(s) \subseteq S
<1>1. DOMAIN s = 1 .. Len(s) /\ \A i \in 1 .. Len(s) : s[i] \in S
  OBVIOUS
<1> QED
  BY <1>1 DEF Elems

\* Append adds one element, and keeps a sequence distinct if it is new.
LEMMA AppendElems ==
    ASSUME NEW S, NEW s \in Seq(S), NEW x \in S
    PROVE  /\ Elems(Append(s, x)) = Elems(s) \cup {x}
           /\ Distinct(s) /\ x \notin Elems(s) => Distinct(Append(s, x))
<1>0. Append(s, x) \in Seq(S)
  BY AppendProperties
<1>1. PICK t \in Seq(S) : t = Append(s, x)
  BY <1>0
<1>2. PICK n \in Nat : n = Len(s)
  OBVIOUS
<1>3. /\ Len(t) = n + 1 /\ t[n + 1] = x /\ \A i \in 1 .. n : t[i] = s[i]
      /\ \A i \in 1 .. n + 1 : i = n + 1 \/ i \in 1 .. n
      /\ n + 1 \in 1 .. n + 1 /\ \A i \in 1 .. n : i \in 1 .. n + 1
  BY <1>1, <1>2
<1>4. /\ \A y : y \in Elems(t) <=> \E i \in 1 .. n + 1 : t[i] = y
      /\ \A y : y \in Elems(s) <=> \E i \in 1 .. n : s[i] = y
  BY <1>2, <1>3, ElemsAre
<1>5. Elems(t) = Elems(s) \cup {x}
  BY <1>3, <1>4, Zenon
<1>6. ASSUME Distinct(s), x \notin Elems(s)
      PROVE  Distinct(t)
  <2>1. \A i, j \in 1 .. n : i # j => s[i] # s[j]
    BY <1>2, <1>6 DEF Distinct
  <2>2. \A i \in 1 .. n : s[i] # x
    BY <1>4, <1>6
  <2>3. \A i, j \in 1 .. n + 1 : i # j => t[i] # t[j]
    BY <1>3, <2>1, <2>2, Zenon
  <2> QED
    BY <1>3, <2>3 DEF Distinct
<1> QED
  BY <1>1, <1>5, <1>6

\* Taking the head of a distinct sequence takes one element away.
LEMMA TailElems ==
    ASSUME NEW S, NEW s \in Seq(S), s # <<>>, Distinct(s)
    PROVE  /\ Tail(s) \in Seq(S) /\ Head(s) \in S /\ Head(s) \in Elems(s)
           /\ Elems(Tail(s)) = Elems(s) \ {Head(s)} /\ Distinct(Tail(s))
<1>0. Tail(s) \in Seq(S) /\ Head(s) \in S
  BY HeadTailProperties
<1>1. PICK t \in Seq(S) : t = Tail(s)
  BY <1>0
<1>2. PICK n \in Nat : n + 1 = Len(s)
  <2>1. Len(s) \in Nat /\ Len(s) # 0
    BY EmptySeq
  <2>2. Len(s) - 1 \in Nat /\ (Len(s) - 1) + 1 = Len(s)
    BY <2>1
  <2> QED
    BY <2>2
<1>3. Len(t) = n /\ Head(s) = s[1] /\ \A i \in 1 .. n : t[i] = s[i + 1]
  BY <1>1, <1>2
<1>4. /\ \A y : y \in Elems(t) <=> \E i \in 1 .. n : t[i] = y
      /\ \A y : y \in Elems(s) <=> \E i \in 1 .. n + 1 : s[i] = y
  <2>1. \A y : y \in Elems(t) <=> \E i \in 1 .. Len(t) : t[i] = y
    BY ElemsAre, Zenon
  <2>2. \A y : y \in Elems(s) <=> \E i \in 1 .. Len(s) : s[i] = y
    BY ElemsAre, Zenon
  <2> QED
    BY <1>2, <1>3, <2>1, <2>2
<1>5. \A i, j \in 1 .. n + 1 : i # j => s[i] # s[j]
  BY <1>2 DEF Distinct
<1>6. 1 \in 1 .. n + 1
  OBVIOUS
<1>7. ASSUME NEW y PROVE y \in Elems(t) <=> y \in Elems(s) /\ y # s[1]
  <2>1. ASSUME NEW i \in 1 .. n
        PROVE  i + 1 \in 1 .. n + 1 /\ i + 1 # 1 /\ s[i + 1] # s[1]
    BY <1>5, <1>6
  <2>2. ASSUME NEW i \in 1 .. n + 1, i # 1
        PROVE  i - 1 \in 1 .. n /\ t[i - 1] = s[i]
    <3>1. i - 1 \in 1 .. n /\ (i - 1) + 1 = i
      BY <2>2
    <3> QED
      BY <1>3, <3>1
  <2>3. y \in Elems(t) => y \in Elems(s) /\ y # s[1]
    BY <1>3, <1>4, <2>1
  <2>4. y \in Elems(s) /\ y # s[1] => y \in Elems(t)
    BY <1>4, <2>2
  <2> QED
    BY <2>3, <2>4
<1>8. Distinct(t)
  <2>1. ASSUME NEW i \in 1 .. n, NEW j \in 1 .. n, i # j
        PROVE  t[i] # t[j]
    <3>1. i + 1 \in 1 .. n + 1 /\ j + 1 \in 1 .. n + 1 /\ i + 1 # j + 1
      BY <2>1
    <3> QED
      BY <1>3, <1>5, <3>1, ZenonT(60)
  <2> QED
    BY <1>3, <2>1 DEF Distinct
<1>9. Elems(t) = Elems(s) \ {s[1]}
  BY <1>7
<1>10. s[1] \in Elems(s)
  BY <1>4, <1>6
<1> QED
  BY <1>0, <1>1, <1>3, <1>8, <1>9, <1>10

-----------------------------------------------------------------------------
(* Candidates                                                              *)

CandTypeOK ==
    /\ described \in BOOLEAN /\ overwritten \in BOOLEAN /\ late \in BOOLEAN
    /\ candidates \in Seq(Cands) /\ drained \in Seq(Cands) /\ todo \in Seq(Cands)
    /\ adder \in [Cands -> [at : {"new", "load", "store", "done"}, loaded : Seq(Cands)]]
    /\ given \in [Cands -> Nat]

\* Unless a store has undone another, a candidate is on the slice once, and nowhere
\* until its call has stored it; a loop works on what was on the slice when it began
CandListed ==
    /\ Distinct(candidates) /\ Distinct(todo)
    /\ Elems(todo) \subseteq Elems(drained) /\ Elems(drained) \subseteq Elems(candidates)
    /\ setCall # "add" => todo = <<>> /\ drained = <<>>
    /\ \A c \in Cands : adder[c].at # "done" => given[c] = 0 /\ c \notin Elems(candidates)

CandIInv == CandTypeOK /\ CandidatesExact /\ (~overwritten => CandListed)

\* Every step keeps the invariant.
LEMMA CandStep == CandIInv /\ [CandNext]_candVars => CandIInv'
<1> SUFFICES ASSUME CandIInv, [CandNext]_candVars
             PROVE  CandIInv'
  OBVIOUS
<1>0. /\ candidates \in Seq(Cands) /\ drained \in Seq(Cands) /\ todo \in Seq(Cands)
      /\ adder \in [Cands -> [at : {"new", "load", "store", "done"}, loaded : Seq(Cands)]]
      /\ given \in [Cands -> Nat] /\ described \in BOOLEAN /\ overwritten \in BOOLEAN
      /\ late \in BOOLEAN
  BY DEF CandIInv, CandTypeOK
<1>1. /\ ~overwritten => CandListed
      /\ ~overwritten => \A c \in Cands : adder[c].at = "done" =>
                          given[c] + (IF c \in Waiting THEN 1 ELSE 0) = 1
      /\ described /\ setCall = "idle" /\ ~late => candidates = <<>>
  BY DEF CandIInv, CandidatesExact
<1>2. <<>> \in Seq(Cands)
  OBVIOUS
<1>3. ASSUME NEW c \in Cands, AddICECandidate(c)
      PROVE  CandIInv'
  <2>1. /\ adder[c].at = "new" /\ UNCHANGED <<described, candidates, setCall, drained, todo,
                                              overwritten, late>>
    BY <1>3 DEF AddICECandidate
  <2>2. PICK to \in {"load", "done"} :
          /\ adder' = [adder EXCEPT ![c].at = to]
          /\ to = "done" => given' = [given EXCEPT ![c] = @ + 1]
          /\ to = "load" => given' = given
    BY <1>3 DEF AddICECandidate, Give
  <2>3. /\ adder' \in [Cands -> [at : {"new", "load", "store", "done"}, loaded : Seq(Cands)]]
        /\ adder'[c].at = to /\ \A b \in Cands : b # c => adder'[b] = adder[b]
    BY <1>0, <2>2
  <2>4. /\ given' \in [Cands -> Nat] /\ \A b \in Cands : b # c => given'[b] = given[b]
        /\ to = "done" => given'[c] = given[c] + 1
        /\ to = "load" => given'[c] = given[c]
    <3>1. CASE to = "done"
      BY <1>0, <2>2, <3>1
    <3>2. CASE to = "load"
      BY <1>0, <2>2, <3>2
    <3> QED
      BY <3>1, <3>2
  <2>5. Waiting' = Waiting
    BY <2>1 DEF Waiting
  <2>6. ~overwritten => c \notin Waiting /\ given[c] = 0
    BY <1>1, <2>1 DEF Waiting, CandListed
  <2>7. CandTypeOK'
    BY <1>0, <2>1, <2>3, <2>4 DEF CandTypeOK
  <2>8. CandidatesExact'
    <3>1. ASSUME ~overwritten, NEW b \in Cands, adder'[b].at = "done"
          PROVE  given'[b] + (IF b \in Waiting' THEN 1 ELSE 0) = 1
      <4>1. CASE b = c
        BY <2>3, <2>4, <2>5, <2>6, <3>1, <4>1
      <4>2. CASE b # c
        BY <1>1, <2>3, <2>4, <2>5, <3>1, <4>2
      <4> QED
        BY <4>1, <4>2
    <3> QED
      BY <1>1, <2>1, <3>1 DEF CandidatesExact
  <2>9. ~overwritten' => CandListed'
    BY <1>1, <2>1, <2>3, <2>4 DEF CandListed
  <2> QED
    BY <2>7, <2>8, <2>9 DEF CandIInv
<1>4. ASSUME NEW c \in Cands, AppendLoad(c)
      PROVE  CandIInv'
  <2>1. /\ adder[c].at = "load"
        /\ adder' = [adder EXCEPT ![c] = [at |-> "store", loaded |-> candidates]]
        /\ UNCHANGED <<described, candidates, setCall, drained, todo, given, overwritten, late>>
    BY <1>4 DEF AppendLoad
  <2>2. /\ adder' \in [Cands -> [at : {"new", "load", "store", "done"}, loaded : Seq(Cands)]]
        /\ adder'[c].at = "store" /\ \A b \in Cands : b # c => adder'[b] = adder[b]
    BY <1>0, <2>1
  <2>3. Waiting' = Waiting
    BY <2>1 DEF Waiting
  <2>4. CandTypeOK'
    BY <1>0, <2>1, <2>2 DEF CandTypeOK
  <2>5. CandidatesExact'
    BY <1>1, <2>1, <2>2, <2>3 DEF CandidatesExact
  <2>6. ~overwritten' => CandListed'
    BY <1>1, <2>1, <2>2 DEF CandListed
  <2> QED
    BY <2>4, <2>5, <2>6 DEF CandIInv
<1>5. ASSUME NEW c \in Cands, AppendStore(c)
      PROVE  CandIInv'
  <2>1. /\ adder[c].at = "store"
        /\ adder' = [adder EXCEPT ![c] = [at |-> "done", loaded |-> <<>>]]
        /\ candidates' = Append(adder[c].loaded, c)
        /\ overwritten' = (overwritten \/ candidates # adder[c].loaded)
        /\ late' = (late \/ described)
        /\ UNCHANGED <<described, setCall, drained, todo, given>>
    BY <1>5 DEF AppendStore
  <2>2. /\ adder' \in [Cands -> [at : {"new", "load", "store", "done"}, loaded : Seq(Cands)]]
        /\ adder'[c].at = "done" /\ \A b \in Cands : b # c => adder'[b] = adder[b]
    BY <1>0, <1>2, <2>1
  <2>3. CandTypeOK'
    <3>1. adder[c].loaded \in Seq(Cands)
      BY <1>0
    <3>2. candidates' \in Seq(Cands)
      BY <2>1, <3>1, AppendProperties
    <3>3. overwritten' \in BOOLEAN /\ late' \in BOOLEAN
      BY <2>1, Zenon
    <3> QED
      BY <1>0, <2>1, <2>2, <3>2, <3>3 DEF CandTypeOK
  <2>4. ASSUME ~overwritten'
        PROVE  /\ CandListed'
               /\ \A b \in Cands : adder'[b].at = "done" =>
                     given'[b] + (IF b \in Waiting' THEN 1 ELSE 0) = 1
    <3>1. ~overwritten /\ candidates' = Append(candidates, c)
      BY <2>1, <2>4, Zenon
    <3>2. CandListed /\ c \notin Elems(candidates) /\ given[c] = 0 /\ c \notin Elems(drained)
      BY <1>1, <2>1, <3>1 DEF CandListed
    <3>3. Elems(candidates') = Elems(candidates) \cup {c} /\ Distinct(candidates')
      BY <1>0, <3>1, <3>2, AppendElems DEF CandListed
    <3>4. Waiting' = Waiting \cup {c}
      BY <2>1, <3>2, <3>3 DEF Waiting
    <3>5. CandListed'
      BY <2>1, <2>2, <3>2, <3>3 DEF CandListed
    <3>6. \A b \in Cands : adder'[b].at = "done" =>
              given'[b] + (IF b \in Waiting' THEN 1 ELSE 0) = 1
      BY <1>0, <1>1, <2>1, <2>2, <3>1, <3>2, <3>4
    <3> QED
      BY <3>5, <3>6
  <2>5. described' /\ setCall' = "idle" /\ ~late' => candidates' = <<>>
    BY <2>1, Zenon
  <2> QED
    BY <2>3, <2>4, <2>5 DEF CandIInv, CandidatesExact
<1>6. CASE SetRemoteDescription
  <2>1. /\ setCall = "idle" /\ UNCHANGED <<candidates, adder, drained, todo, given, overwritten, late>>
        /\ (described' = TRUE /\ setCall' = "range") \/ UNCHANGED <<described, setCall>>
    BY <1>6 DEF SetRemoteDescription
  <2>2. Waiting' = Waiting
    BY <2>1 DEF Waiting
  <2>3. CandTypeOK'
    <3>1. described' \in BOOLEAN
      BY <1>0, <2>1, Zenon
    <3> QED
      BY <1>0, <2>1, <3>1 DEF CandTypeOK
  <2>4. ~overwritten' => CandListed'
    BY <1>1, <2>1 DEF CandListed
  <2>5. CandidatesExact'
    BY <1>1, <2>1, <2>2 DEF CandidatesExact
  <2> QED
    BY <2>3, <2>4, <2>5 DEF CandIInv
<1>7. CASE RangeCandidates
  <2>1. /\ setCall = "range" /\ setCall' = "add" /\ drained' = candidates /\ todo' = candidates
        /\ UNCHANGED <<described, candidates, adder, given, overwritten, late>>
    BY <1>7 DEF RangeCandidates
  <2>2. ~overwritten => Waiting' = Waiting
    BY <1>1, <2>1, EmptyElems DEF Waiting, CandListed
  <2>3. CandTypeOK'
    BY <1>0, <2>1 DEF CandTypeOK
  <2>4. ~overwritten' => CandListed'
    BY <1>1, <2>1 DEF CandListed
  <2>5. CandidatesExact'
    BY <1>1, <2>1, <2>2 DEF CandidatesExact
  <2> QED
    BY <2>3, <2>4, <2>5 DEF CandIInv
<1>8. CASE AddWaiting
  <2>1. /\ setCall = "add" /\ todo # <<>> /\ todo' = Tail(todo)
        /\ given' = [given EXCEPT ![Head(todo)] = @ + 1]
        /\ UNCHANGED <<described, candidates, adder, setCall, drained, overwritten, late>>
    BY <1>8 DEF AddWaiting, Give
  <2>0. Head(todo) \in Cands /\ Tail(todo) \in Seq(Cands)
    BY <1>0, <2>1, HeadTailProperties
  <2>2. PICK h \in Cands : h = Head(todo)
    BY <2>0
  <2>3. /\ given' \in [Cands -> Nat] /\ given'[h] = given[h] + 1
        /\ \A b \in Cands : b # h => given'[b] = given[b]
    BY <1>0, <2>1, <2>2
  <2>4. CandTypeOK'
    BY <1>0, <2>0, <2>1, <2>3 DEF CandTypeOK
  <2>5. ASSUME ~overwritten'
        PROVE  /\ CandListed'
               /\ \A b \in Cands : adder'[b].at = "done" =>
                     given'[b] + (IF b \in Waiting' THEN 1 ELSE 0) = 1
    <3>1. ~overwritten /\ CandListed
      BY <1>1, <2>1, <2>5
    <3>2. Elems(todo') = Elems(todo) \ {h} /\ h \in Elems(todo) /\ Distinct(todo')
      BY <1>0, <2>1, <2>2, <3>1, TailElems DEF CandListed
    <3>3. h \in Waiting /\ h \in Elems(drained) /\ h \in Elems(candidates)
      BY <3>1, <3>2 DEF CandListed, Waiting
    <3>4. adder[h].at = "done"
      BY <3>1, <3>3 DEF CandListed
    <3>5. given[h] = 0
      BY <1>0, <1>1, <3>1, <3>3, <3>4
    <3>6. Waiting' = Waiting \ {h}
      BY <2>1, <3>2, <3>3 DEF Waiting
    <3>7. CandListed'
      BY <2>1, <2>3, <3>1, <3>2, <3>4 DEF CandListed
    <3>8. \A b \in Cands : adder'[b].at = "done" =>
              given'[b] + (IF b \in Waiting' THEN 1 ELSE 0) = 1
      BY <1>0, <1>1, <2>1, <2>3, <3>1, <3>5, <3>6
    <3> QED
      BY <3>7, <3>8
  <2>6. described' /\ setCall' = "idle" /\ ~late' => candidates' = <<>>
    BY <1>1, <2>1
  <2> QED
    BY <2>4, <2>5, <2>6 DEF CandIInv, CandidatesExact
<1>9. CASE Drained
  <2>1. /\ setCall = "add" /\ todo = <<>> /\ setCall' = "idle" /\ drained' = <<>>
        /\ candidates' = <<>> /\ overwritten' = (overwritten \/ candidates # drained)
        /\ UNCHANGED <<described, adder, todo, given, late>>
    BY <1>9 DEF Drained
  <2>2. CandTypeOK'
    <3>1. overwritten' \in BOOLEAN
      BY <2>1, Zenon
    <3> QED
      BY <1>0, <1>2, <2>1, <3>1 DEF CandTypeOK
  <2>3. ASSUME ~overwritten'
        PROVE  /\ CandListed'
               /\ \A b \in Cands : adder'[b].at = "done" =>
                     given'[b] + (IF b \in Waiting' THEN 1 ELSE 0) = 1
    <3>1. ~overwritten /\ candidates = drained
      BY <2>1, <2>3, Zenon
    <3>2. Waiting' = Waiting
      BY <2>1, <3>1, EmptyElems DEF Waiting
    <3>3. CandListed'
      BY <1>1, <2>1, <3>1, EmptyElems DEF CandListed
    <3> QED
      BY <1>1, <2>1, <3>1, <3>2, <3>3
  <2>4. described' /\ setCall' = "idle" /\ ~late' => candidates' = <<>>
    BY <2>1
  <2> QED
    BY <2>2, <2>3, <2>4 DEF CandIInv, CandidatesExact
<1>10. CASE UNCHANGED candVars
  BY <1>10 DEF candVars, CandIInv, CandTypeOK, CandidatesExact, CandListed, Waiting
<1> QED
  BY <1>3, <1>4, <1>5, <1>6, <1>7, <1>8, <1>9, <1>10 DEF CandNext

\* Each candidate is given to the PeerConnection exactly once or waits to be, and
\* none waits once there is a description, for any number of candidates and of
\* descriptions, unless calls cross in the two ways that the unlocked slice allows.
THEOREM EachCandidateOnce == CandInit /\ [][CandNext]_candVars => []CandidatesExact
<1>1. CandInit => CandIInv
  <2>1. SUFFICES ASSUME CandInit PROVE CandIInv
    OBVIOUS
  <2>2. <<>> \in Seq(Cands)
    OBVIOUS
  <2>3. /\ adder \in [Cands -> [at : {"new", "load", "store", "done"}, loaded : Seq(Cands)]]
        /\ \A c \in Cands : adder[c].at = "new"
    BY <2>1, <2>2 DEF CandInit
  <2>4. CandTypeOK
    BY <2>1, <2>2, <2>3 DEF CandInit, CandTypeOK
  <2>5. CandListed /\ CandidatesExact
    BY <2>1, <2>3, EmptyElems DEF CandInit, CandListed, CandidatesExact
  <2> QED
    BY <2>4, <2>5 DEF CandIInv
<1>2. CandIInv => CandidatesExact
  BY DEF CandIInv
<1> QED
  BY <1>1, <1>2, CandStep, PTL

-----------------------------------------------------------------------------
(* The buffer factory                                                      *)

States == {"none", "open", "closing", "closed"}
Active == {"open", "closing"}

FactoryTypeOK ==
    /\ visiting \subseteq Visits /\ asked \subseteq Visits
    /\ made \in Nat /\ closedObjs \subseteq 1 .. made
    /\ table \in [Kinds -> [Ssrcs -> Nat]] /\ stream \in [Kinds -> [Visits -> States]]
    /\ holds \in [Kinds -> [Visits -> Nat]] /\ found \in [Kinds -> [Visits -> Nat]]
    /\ \A k \in Kinds, s \in Ssrcs : table[k][s] <= made
    /\ \A k \in Kinds, v \in Visits : holds[k][v] <= made
    /\ \A k \in Kinds, v \in Visits :
          stream[k][v] # "none" => k \in KindsOf(v) /\ holds[k][v] # 0

\* An object belongs to one kind and one SSRC: in the table, and in what pion has
Owned ==
    /\ \A j, k \in Kinds, s, t \in Ssrcs :
          table[j][s] = table[k][t] /\ table[j][s] # 0 => j = k /\ s = t
    /\ \A j, k \in Kinds, s \in Ssrcs, v \in Visits :
          table[j][s] = holds[k][v] /\ table[j][s] # 0 => j = k /\ s = SsrcOf[v]
    /\ \A j, k \in Kinds, v, w \in Visits :
          holds[j][v] = holds[k][w] /\ holds[j][v] # 0 => j = k /\ SsrcOf[v] = SsrcOf[w]

\* `shared` has every visit that overlaps another of its SSRC
Overlap ==
    \A j, k \in Kinds, v, w \in Visits :
        /\ v # w /\ SsrcOf[v] = SsrcOf[w]
        /\ stream[j][v] \in Active /\ stream[k][w] \in Active
        => v \in shared

\* A stream that overlaps no other has the table's entry, and it is open
Alone(k, v) ==
    v \notin shared /\ stream[k][v] = "open" =>
        table[k][SsrcOf[v]] = holds[k][v] /\ holds[k][v] \notin closedObjs

\* A closed object that is still in the table is about to be deleted
Leaving(k, s) ==
    table[k][s] \in closedObjs =>
        \E v \in Visits : SsrcOf[v] = s /\ stream[k][v] = "closing"

\* AddReceiver asks after pion; the reader that Bind made first is there for pion
AskedInTime(v) ==
    v \in asked => IF v \in Sent
                   THEN stream["rtcp"][v] = "none" =>
                          /\ found["rtcp"][v] = table["rtcp"][SsrcOf[v]]
                          /\ found["rtcp"][v] # 0
                   ELSE \A k \in Kinds : stream[k][v] # "none"

FactoryIInv ==
    /\ FactoryTypeOK /\ Owned /\ Overlap /\ PairFound
    /\ \A k \in Kinds, v \in Visits : Alone(k, v)
    /\ \A k \in Kinds, s \in Ssrcs : Leaving(k, s)
    /\ \A v \in Visits : AskedInTime(v)

\* An update of a table of tables changes one entry.
LEMMA UpdateEntry ==
    ASSUME NEW K, NEW V, NEW T, NEW f \in [K -> [V -> T]], NEW k \in K, NEW v \in V, NEW x \in T,
           NEW g, g = [f EXCEPT ![k][v] = x]
    PROVE  /\ g \in [K -> [V -> T]] /\ g[k][v] = x
           /\ \A j \in K, w \in V : j # k \/ w # v => g[j][w] = f[j][w]
OBVIOUS

\* GetOrNew returns the entry, or a new object that becomes the entry.
LEMMA GetOrNewIs ==
    ASSUME FactoryTypeOK, NEW k \in Kinds, NEW s \in Ssrcs, GetOrNew(k, s)
    PROVE  /\ table' \in [Kinds -> [Ssrcs -> Nat]] /\ made' \in Nat
           /\ made <= made' /\ table'[k][s] \in 1 .. made'
           /\ \A j \in Kinds, t \in Ssrcs : j # k \/ t # s => table'[j][t] = table[j][t]
           /\ \/ table[k][s] # 0 /\ table' = table /\ made' = made
              \/ table[k][s] = 0 /\ made' = made + 1 /\ table'[k][s] = made + 1
<1>1. table \in [Kinds -> [Ssrcs -> Nat]] /\ made \in Nat /\ table[k][s] <= made
      /\ table[k][s] \in Nat
  BY DEF FactoryTypeOK
<1>2. CASE table[k][s] # 0
  <2>1. table' = table /\ made' = made
    BY <1>2 DEF GetOrNew
  <2> QED
    BY <1>1, <1>2, <2>1
<1>3. CASE table[k][s] = 0
  <2>1. table' = [table EXCEPT ![k][s] = made + 1] /\ made' = made + 1 /\ made + 1 \in Nat
    BY <1>1, <1>3 DEF GetOrNew
  <2>2. /\ table' \in [Kinds -> [Ssrcs -> Nat]] /\ table'[k][s] = made + 1
        /\ \A j \in Kinds, t \in Ssrcs : j # k \/ t # s => table'[j][t] = table[j][t]
    BY <1>1, <2>1, UpdateEntry
  <2> QED
    BY <1>1, <1>3, <2>1, <2>2
<1> QED
  BY <1>2, <1>3

\* The object that GetOrNew returns is of this kind and SSRC only.
LEMMA GetOrNewOwned ==
    ASSUME FactoryTypeOK, Owned, NEW k \in Kinds, NEW s \in Ssrcs, GetOrNew(k, s),
           NEW o, o = table'[k][s]
    PROVE  /\ \A j \in Kinds, t \in Ssrcs : table'[j][t] = o => j = k /\ t = s
           /\ \A j \in Kinds, w \in Visits : holds[j][w] = o => j = k /\ SsrcOf[w] = s
           /\ \A i, j \in Kinds, t, u \in Ssrcs :
                 table'[i][t] = table'[j][u] /\ table'[i][t] # 0 => i = j /\ t = u
           /\ \A i, j \in Kinds, t \in Ssrcs, w \in Visits :
                 table'[i][t] = holds[j][w] /\ table'[i][t] # 0 => i = j /\ t = SsrcOf[w]
<1>o. /\ \A i, j \in Kinds, t, u \in Ssrcs :
            table[i][t] = table[j][u] => table[i][t] = 0 \/ (i = j /\ t = u)
      /\ \A i, j \in Kinds, t \in Ssrcs, w \in Visits :
            table[i][t] = holds[j][w] => table[i][t] = 0 \/ (i = j /\ t = SsrcOf[w])
  BY DEF Owned
<1>g. /\ made' \in Nat /\ made <= made' /\ o \in 1 .. made'
      /\ \A j \in Kinds, t \in Ssrcs : j # k \/ t # s => table'[j][t] = table[j][t]
      /\ \/ table[k][s] # 0 /\ table' = table /\ made' = made
         \/ table[k][s] = 0 /\ made' = made + 1 /\ o = made + 1
  BY GetOrNewIs
<1>t. /\ made \in Nat /\ o # 0 /\ o \in Nat
      /\ \A j \in Kinds, t \in Ssrcs : table[j][t] \in Nat /\ table[j][t] <= made
      /\ \A j \in Kinds, w \in Visits : holds[j][w] \in Nat /\ holds[j][w] <= made
  BY <1>g DEF FactoryTypeOK
<1>1. ASSUME NEW j \in Kinds, NEW t \in Ssrcs, table'[j][t] = o
      PROVE  j = k /\ t = s
  <2>1. SUFFICES ASSUME j # k \/ t # s PROVE FALSE
    OBVIOUS
  <2>2. table[j][t] = o /\ o <= made
    BY <1>g, <1>t, <1>1, <2>1
  <2>3. table[k][s] = o
    BY <1>g, <1>t, <2>2
  <2>4. table[j][t] = table[k][s] /\ table[j][t] # 0
    BY <1>t, <2>2, <2>3
  <2>5. j = k /\ t = s
    BY <1>o, <2>4
  <2> QED
    BY <2>1, <2>5
<1>2. ASSUME NEW j \in Kinds, NEW w \in Visits, holds[j][w] = o
      PROVE  j = k /\ SsrcOf[w] = s
  <2>1. o <= made
    BY <1>t, <1>2
  <2>2. table[k][s] = o
    BY <1>g, <1>t, <2>1
  <2> QED
    BY <1>o, <1>t, <1>2, <2>2
<1>3. ASSUME NEW i \in Kinds, NEW t \in Ssrcs, table'[i][t] # o
      PROVE  table'[i][t] = table[i][t]
  BY <1>g, <1>3
<1>4. ASSUME NEW i \in Kinds, NEW j \in Kinds, NEW t \in Ssrcs, NEW u \in Ssrcs,
             table'[i][t] = table'[j][u], table'[i][t] # 0
      PROVE  i = j /\ t = u
  <2>1. CASE table'[i][t] = o
    <3>1. table'[j][u] = o
      BY <1>4, <2>1
    <3> QED
      BY <1>1, <2>1, <3>1, Zenon
  <2>2. CASE table'[i][t] # o
    <3>1. table[i][t] = table[j][u] /\ table[i][t] # 0
      BY <1>3, <1>4, <2>2
    <3> QED
      BY <1>o, <3>1
  <2> QED
    BY <2>1, <2>2
<1>5. ASSUME NEW i \in Kinds, NEW j \in Kinds, NEW t \in Ssrcs, NEW w \in Visits,
             table'[i][t] = holds[j][w], table'[i][t] # 0
      PROVE  i = j /\ t = SsrcOf[w]
  <2>1. CASE table'[i][t] = o
    BY <1>1, <1>2, <1>5, <2>1
  <2>2. CASE table'[i][t] # o
    <3>1. table[i][t] = holds[j][w] /\ table[i][t] # 0
      BY <1>3, <1>5, <2>2
    <3> QED
      BY <1>o, <3>1
  <2> QED
    BY <2>1, <2>2
<1> QED
  BY <1>1, <1>2, <1>4, <1>5

\* pion opens a stream.
LEMMA OpenStep ==
    ASSUME FactoryIInv, NEW v \in Visits, NEW k \in Kinds, OpenStream(v, k)
    PROVE  FactoryIInv'
<1>s. SsrcOf[v] \in Ssrcs /\ \A w \in Visits : SsrcOf[w] \in Ssrcs
  BY DEF Ssrcs
<1>t. /\ FactoryTypeOK /\ Owned /\ Overlap /\ PairFound
      /\ table \in [Kinds -> [Ssrcs -> Nat]] /\ stream \in [Kinds -> [Visits -> States]]
      /\ holds \in [Kinds -> [Visits -> Nat]] /\ found \in [Kinds -> [Visits -> Nat]]
  BY DEF FactoryIInv, FactoryTypeOK
<1>o. \A i, j \in Kinds, w, x \in Visits :
            holds[i][w] = holds[j][x] => holds[i][w] = 0 \/ (i = j /\ SsrcOf[w] = SsrcOf[x])
  BY <1>t DEF Owned
<1>0. /\ k \in KindsOf(v) /\ stream[k][v] = "none" /\ GetOrNew(k, SsrcOf[v])
      /\ shared' = shared \cup Busy(v) \cup (IF Busy(v) # {} THEN {v} ELSE {})
      /\ UNCHANGED <<visiting, closedObjs, found, asked, overdue>>
  BY DEF OpenStream
<1>g. /\ table' \in [Kinds -> [Ssrcs -> Nat]] /\ made' \in Nat
      /\ made <= made' /\ table'[k][SsrcOf[v]] \in 1 .. made'
      /\ \A j \in Kinds, t \in Ssrcs : j # k \/ t # SsrcOf[v] => table'[j][t] = table[j][t]
      /\ \/ table[k][SsrcOf[v]] # 0 /\ table' = table /\ made' = made
         \/ table[k][SsrcOf[v]] = 0 /\ made' = made + 1 /\ table'[k][SsrcOf[v]] = made + 1
  BY <1>0, <1>s, <1>t, GetOrNewIs
<1>1. PICK o \in Nat : o = table'[k][SsrcOf[v]]
  BY <1>g, <1>s
<1>2. /\ stream' \in [Kinds -> [Visits -> States]] /\ stream'[k][v] = "open"
      /\ \A j \in Kinds, w \in Visits : j # k \/ w # v => stream'[j][w] = stream[j][w]
  <2>1. stream' = [stream EXCEPT ![k][v] = "open"] /\ "open" \in States
    BY DEF OpenStream, States
  <2> QED
    BY <1>t, <2>1, UpdateEntry
<1>3. /\ holds' \in [Kinds -> [Visits -> Nat]] /\ holds'[k][v] = o
      /\ \A j \in Kinds, w \in Visits : j # k \/ w # v => holds'[j][w] = holds[j][w]
  <2>1. holds' = [holds EXCEPT ![k][v] = o]
    BY <1>1 DEF OpenStream
  <2> QED
    BY <1>t, <2>1, UpdateEntry
<1>b. \A w \in Visits : w # v /\ SsrcOf[w] = SsrcOf[v]
                        /\ (\E j \in Kinds : stream[j][w] \in Active)
                        => w \in shared' /\ v \in shared'
  BY <1>0, <1>t DEF Busy, Active, FactoryTypeOK
<1>4. FactoryTypeOK'
  <2>1. ASSUME NEW j \in Kinds, NEW s \in Ssrcs
        PROVE  table'[j][s] <= made'
    <3>1. table[j][s] \in Nat /\ table[j][s] <= made /\ made \in Nat /\ made' \in Nat
      BY <1>g, <1>t DEF FactoryTypeOK
    <3>2. CASE j = k /\ s = SsrcOf[v]
      BY <1>g, <3>2
    <3>3. CASE j # k \/ s # SsrcOf[v]
      <4>1. table'[j][s] = table[j][s]
        BY <1>g, <3>3
      <4> QED
        BY <1>g, <3>1, <4>1
    <3> QED
      BY <3>2, <3>3
  <2>2. ASSUME NEW j \in Kinds, NEW w \in Visits
        PROVE  /\ holds'[j][w] <= made'
               /\ stream'[j][w] # "none" => j \in KindsOf(w) /\ holds'[j][w] # 0
    <3>1. /\ holds[j][w] \in Nat /\ holds[j][w] <= made /\ made \in Nat /\ made' \in Nat
          /\ stream[j][w] # "none" => j \in KindsOf(w) /\ holds[j][w] # 0
      BY <1>g, <1>t DEF FactoryTypeOK
    <3>2. CASE j = k /\ w = v
      BY <1>0, <1>g, <1>1, <1>3, <3>2
    <3>3. CASE j # k \/ w # v
      <4>1. holds'[j][w] = holds[j][w] /\ stream'[j][w] = stream[j][w]
        BY <1>2, <1>3, <3>3
      <4> QED
        BY <1>g, <3>1, <4>1
    <3> QED
      BY <3>2, <3>3
  <2>4. closedObjs' \subseteq 1 .. made'
    BY <1>0, <1>g, <1>t DEF FactoryTypeOK
  <2> QED
    BY <1>0, <1>g, <1>t, <1>2, <1>3, <2>1, <2>2, <2>4 DEF FactoryTypeOK
<1>5. Owned'
  <2>0. /\ o # 0 /\ o = table'[k][SsrcOf[v]] /\ o = holds'[k][v]
        /\ \A j \in Kinds, w \in Visits : holds'[j][w] # o => holds'[j][w] = holds[j][w]
    BY <1>g, <1>1, <1>3
  <2>1. /\ \A j \in Kinds, s \in Ssrcs : table'[j][s] = o => j = k /\ s = SsrcOf[v]
        /\ \A j \in Kinds, w \in Visits : holds[j][w] = o => j = k /\ SsrcOf[w] = SsrcOf[v]
        /\ \A i, j \in Kinds, s, t \in Ssrcs :
              table'[i][s] = table'[j][t] /\ table'[i][s] # 0 => i = j /\ s = t
        /\ \A i, j \in Kinds, s \in Ssrcs, w \in Visits :
              table'[i][s] = holds[j][w] /\ table'[i][s] # 0 => i = j /\ s = SsrcOf[w]
    BY <1>0, <1>1, <1>s, <1>t, GetOrNewOwned, SMTT(40)
  <2>2. \A j \in Kinds, w \in Visits : holds'[j][w] = o => j = k /\ SsrcOf[w] = SsrcOf[v]
    BY <1>3, <2>1
  <2>4. ASSUME NEW i \in Kinds, NEW j \in Kinds, NEW s \in Ssrcs, NEW w \in Visits,
               table'[i][s] = holds'[j][w], table'[i][s] # 0
        PROVE  i = j /\ s = SsrcOf[w]
    <3>1. CASE table'[i][s] = o
      BY <2>1, <2>2, <2>4, <3>1, ZenonT(60)
    <3>2. CASE table'[i][s] # o
      BY <2>0, <2>1, <2>4, <3>2
    <3> QED
      BY <3>1, <3>2
  <2>5. ASSUME NEW i \in Kinds, NEW j \in Kinds, NEW w \in Visits, NEW x \in Visits,
               holds'[i][w] = holds'[j][x], holds'[i][w] # 0
        PROVE  i = j /\ SsrcOf[w] = SsrcOf[x]
    <3>1. CASE holds'[i][w] = o
      BY <2>2, <2>5, <3>1
    <3>2. CASE holds'[i][w] # o
      <4>1. holds[i][w] = holds[j][x] /\ holds[i][w] # 0
        BY <2>0, <2>5, <3>2
      <4> QED
        BY <1>o, <4>1
    <3> QED
      BY <3>1, <3>2
  <2> QED
    BY <2>1, <2>4, <2>5 DEF Owned
<1>6. Overlap'
  <2> SUFFICES ASSUME NEW i \in Kinds, NEW j \in Kinds, NEW w \in Visits, NEW x \in Visits,
                      w # x, SsrcOf[w] = SsrcOf[x],
                      stream'[i][w] \in Active, stream'[j][x] \in Active
               PROVE  w \in shared'
    BY DEF Overlap
  <2>1. CASE w = v
    BY <1>2, <1>b, <2>1
  <2>2. CASE x = v
    BY <1>2, <1>b, <2>2
  <2>3. CASE w # v /\ x # v
    BY <1>0, <1>2, <1>t, <2>3 DEF Overlap
  <2> QED
    BY <2>1, <2>2, <2>3
<1>7. \A j \in Kinds, w \in Visits : Alone(j, w)'
  <2> SUFFICES ASSUME NEW j \in Kinds, NEW w \in Visits, w \notin shared', stream'[j][w] = "open"
               PROVE  table'[j][SsrcOf[w]] = holds'[j][w] /\ holds'[j][w] \notin closedObjs
    BY <1>0 DEF Alone
  <2>1. CASE j = k /\ w = v
    <3>1. o \notin closedObjs
      <4>1. CASE table[k][SsrcOf[v]] = 0
        BY <1>g, <1>t, <1>1, <4>1 DEF FactoryTypeOK
      <4>2. CASE table[k][SsrcOf[v]] # 0
        <5>1. SUFFICES ASSUME table[k][SsrcOf[v]] \in closedObjs PROVE FALSE
          BY <1>g, <1>1, <4>2
        <5>2. PICK x \in Visits : SsrcOf[x] = SsrcOf[v] /\ stream[k][x] = "closing"
          BY <1>s, <5>1 DEF FactoryIInv, Leaving
        <5> QED
          BY <1>0, <1>b, <2>1, <5>2 DEF Active
      <4> QED
        BY <4>1, <4>2
    <3> QED
      BY <1>1, <1>3, <2>1, <3>1
  <2>2. CASE j # k \/ w # v
    <3>1. stream[j][w] = "open" /\ holds'[j][w] = holds[j][w]
      BY <1>2, <1>3, <2>2
    <3>2. w \notin shared /\ table[j][SsrcOf[w]] = holds[j][w] /\ holds[j][w] \notin closedObjs
      BY <1>0, <3>1 DEF FactoryIInv, Alone
    <3>3. j # k \/ SsrcOf[w] # SsrcOf[v]
      BY <1>b, <2>2, <3>1 DEF Active
    <3> QED
      BY <1>g, <1>s, <3>1, <3>2, <3>3
  <2> QED
    BY <2>1, <2>2
<1>8. \A j \in Kinds, s \in Ssrcs : Leaving(j, s)'
  <2> SUFFICES ASSUME NEW j \in Kinds, NEW s \in Ssrcs, table'[j][s] \in closedObjs
               PROVE  \E x \in Visits : SsrcOf[x] = s /\ stream'[j][x] = "closing"
    BY <1>0 DEF Leaving
  <2>1. table'[j][s] = table[j][s]
    BY <1>g, <1>t DEF FactoryTypeOK
  <2>2. PICK x \in Visits : SsrcOf[x] = s /\ stream[j][x] = "closing"
    BY <2>1 DEF FactoryIInv, Leaving
  <2>3. stream'[j][x] = "closing"
    BY <1>0, <1>2, <2>2
  <2> QED
    BY <2>2, <2>3
<1>9. \A w \in Visits : AskedInTime(w)'
  <2> SUFFICES ASSUME NEW w \in Visits, w \in asked
               PROVE  AskedInTime(w)'
    BY <1>0 DEF AskedInTime
  <2>0. AskedInTime(w) /\ "rtcp" \in Kinds
    BY DEF FactoryIInv, Kinds
  <2>1. CASE w \in Sent
    <3>1. SUFFICES ASSUME stream'["rtcp"][w] = "none"
                   PROVE  /\ found["rtcp"][w] = table'["rtcp"][SsrcOf[w]]
                          /\ found["rtcp"][w] # 0
      BY <1>0, <2>1 DEF AskedInTime
    <3>2. stream["rtcp"][w] = "none" /\ ~(k = "rtcp" /\ w = v)
      BY <1>2, <2>0, <3>1
    <3>3. /\ found["rtcp"][w] = table["rtcp"][SsrcOf[w]] /\ found["rtcp"][w] # 0
      BY <2>0, <2>1, <3>2 DEF AskedInTime
    <3>4. k # "rtcp" \/ SsrcOf[w] # SsrcOf[v]
      BY <2>1, <3>2, FactoryAssumption
    <3> QED
      BY <1>g, <1>s, <2>0, <3>3, <3>4
  <2>2. CASE w \notin Sent
    <3>1. \A j \in Kinds : stream[j][w] # "none"
      BY <2>0, <2>2 DEF AskedInTime
    <3>2. \A j \in Kinds : stream'[j][w] # "none"
      BY <1>2, <3>1
    <3> QED
      BY <2>2, <3>2 DEF AskedInTime
  <2> QED
    BY <2>1, <2>2
<1>10. PairFound'
  <2> SUFFICES ASSUME NEW w \in asked', w \notin shared' \cup overdue', NEW j \in Kinds,
                      j \in KindsOf(w), stream'[j][w] # "none"
               PROVE  /\ found'[j][w] = holds'[j][w]
                      /\ stream'[j][w] = "open" => found'[j][w] \notin closedObjs'
    BY DEF PairFound
  <2>0. w \in Visits /\ w \in asked /\ w \notin shared \cup overdue
    BY <1>0, <1>t DEF FactoryTypeOK
  <2>1. found'[j][w] = holds'[j][w]
    <3>1. CASE j = k /\ w = v
      <4>1. w \in Sent
        BY <1>0, <2>0, <3>1 DEF FactoryIInv, AskedInTime
      <4>2. k = "rtcp"
        BY <1>0, <3>1, <4>1 DEF KindsOf
      <4>3. found[k][v] = table[k][SsrcOf[v]] /\ found[k][v] # 0
        BY <1>0, <2>0, <3>1, <4>1, <4>2 DEF FactoryIInv, AskedInTime
      <4> QED
        BY <1>0, <1>g, <1>1, <1>3, <3>1, <4>3
    <3>2. CASE j # k \/ w # v
      <4>1. stream[j][w] # "none" /\ holds'[j][w] = holds[j][w]
        BY <1>2, <1>3, <2>0, <3>2
      <4> QED
        BY <1>0, <1>t, <2>0, <4>1 DEF PairFound
    <3> QED
      BY <3>1, <3>2
  <2>2. stream'[j][w] = "open" => holds'[j][w] \notin closedObjs'
    BY <1>7, <2>0 DEF Alone
  <2> QED
    BY <2>1, <2>2
<1> QED
  BY <1>4, <1>5, <1>6, <1>7, <1>8, <1>9, <1>10 DEF FactoryIInv

\* Bind asks for the reader of a stream that is sent.
LEMMA BindStep ==
    ASSUME FactoryIInv, NEW v \in Visits, BindReader(v)
    PROVE  FactoryIInv'
<1>s. SsrcOf[v] \in Ssrcs /\ "rtcp" \in Kinds /\ \A w \in Visits : SsrcOf[w] \in Ssrcs
  BY DEF Ssrcs, Kinds
<1>t. /\ FactoryTypeOK /\ Owned /\ Overlap /\ PairFound
      /\ table \in [Kinds -> [Ssrcs -> Nat]] /\ found \in [Kinds -> [Visits -> Nat]]
  BY DEF FactoryIInv, FactoryTypeOK
<1>0. /\ v \in Sent /\ v \notin asked /\ asked' = asked \cup {v} /\ GetOrNew("rtcp", SsrcOf[v])
      /\ overdue' = IF stream["rtcp"][v] \in {"closing", "closed"} THEN overdue \cup {v}
                    ELSE overdue
      /\ UNCHANGED <<visiting, closedObjs, stream, holds, shared>>
  BY DEF BindReader
<1>g. /\ table' \in [Kinds -> [Ssrcs -> Nat]] /\ made' \in Nat
      /\ made <= made' /\ table'["rtcp"][SsrcOf[v]] \in 1 .. made'
      /\ \A j \in Kinds, t \in Ssrcs : j # "rtcp" \/ t # SsrcOf[v] => table'[j][t] = table[j][t]
      /\ \/ table["rtcp"][SsrcOf[v]] # 0 /\ table' = table /\ made' = made
         \/ table["rtcp"][SsrcOf[v]] = 0 /\ made' = made + 1
            /\ table'["rtcp"][SsrcOf[v]] = made + 1
  BY <1>0, <1>s, <1>t, GetOrNewIs
<1>1. PICK o \in Nat : o = table'["rtcp"][SsrcOf[v]]
  BY <1>g, <1>s
<1>2. /\ found' \in [Kinds -> [Visits -> Nat]] /\ found'["rtcp"][v] = o
      /\ \A j \in Kinds, w \in Visits : j # "rtcp" \/ w # v => found'[j][w] = found[j][w]
  <2>1. found' = [found EXCEPT !["rtcp"][v] = o]
    BY <1>1 DEF BindReader
  <2> QED
    BY <1>s, <1>t, <2>1, UpdateEntry
<1>3. FactoryTypeOK'
  <2>1. ASSUME NEW j \in Kinds, NEW s \in Ssrcs
        PROVE  table'[j][s] <= made'
    <3>1. table[j][s] \in Nat /\ table[j][s] <= made /\ made \in Nat /\ made' \in Nat
      BY <1>g, <1>t DEF FactoryTypeOK
    <3>2. CASE j = "rtcp" /\ s = SsrcOf[v]
      BY <1>g, <3>2
    <3>3. CASE j # "rtcp" \/ s # SsrcOf[v]
      <4>1. table'[j][s] = table[j][s]
        BY <1>g, <3>3
      <4> QED
        BY <1>g, <3>1, <4>1
    <3> QED
      BY <3>2, <3>3
  <2>2. ASSUME NEW j \in Kinds, NEW w \in Visits
        PROVE  holds'[j][w] <= made'
    <3>1. /\ holds[j][w] \in Nat /\ holds[j][w] <= made /\ made \in Nat /\ made' \in Nat
      BY <1>g, <1>t DEF FactoryTypeOK
    <3> QED
      BY <1>0, <1>g, <3>1
  <2>3. closedObjs' \subseteq 1 .. made'
    BY <1>0, <1>g, <1>t DEF FactoryTypeOK
  <2> QED
    BY <1>0, <1>g, <1>t, <1>2, <2>1, <2>2, <2>3 DEF FactoryTypeOK
<1>4. Owned'
  <2>1. /\ \A i, j \in Kinds, s, t \in Ssrcs :
              table'[i][s] = table'[j][t] /\ table'[i][s] # 0 => i = j /\ s = t
        /\ \A i, j \in Kinds, s \in Ssrcs, w \in Visits :
              table'[i][s] = holds[j][w] /\ table'[i][s] # 0 => i = j /\ s = SsrcOf[w]
    BY <1>0, <1>1, <1>s, <1>t, GetOrNewOwned
  <2> QED
    BY <1>0, <1>t, <2>1 DEF Owned
<1>5. Overlap'
  BY <1>0, <1>t DEF Overlap
<1>6. \A j \in Kinds, w \in Visits : Alone(j, w)'
  <2> SUFFICES ASSUME NEW j \in Kinds, NEW w \in Visits, w \notin shared, stream[j][w] = "open"
               PROVE  table'[j][SsrcOf[w]] = holds[j][w] /\ holds[j][w] \notin closedObjs
    BY <1>0 DEF Alone
  <2>1. table[j][SsrcOf[w]] = holds[j][w] /\ holds[j][w] \notin closedObjs
    BY DEF FactoryIInv, Alone
  <2>2. holds[j][w] # 0
    BY <1>t DEF FactoryTypeOK
  <2> QED
    BY <1>g, <1>s, <2>1, <2>2
<1>7. \A j \in Kinds, s \in Ssrcs : Leaving(j, s)'
  <2> SUFFICES ASSUME NEW j \in Kinds, NEW s \in Ssrcs, table'[j][s] \in closedObjs
               PROVE  \E x \in Visits : SsrcOf[x] = s /\ stream[j][x] = "closing"
    BY <1>0 DEF Leaving
  <2>1. table'[j][s] = table[j][s]
    BY <1>g, <1>t DEF FactoryTypeOK
  <2> QED
    BY <2>1 DEF FactoryIInv, Leaving
<1>8. \A w \in Visits : AskedInTime(w)'
  <2> SUFFICES ASSUME NEW w \in Visits, w \in asked'
               PROVE  AskedInTime(w)'
    BY DEF AskedInTime
  <2>1. CASE w = v
    BY <1>0, <1>g, <1>1, <1>2, <2>1 DEF AskedInTime
  <2>2. CASE w # v
    <3>1. AskedInTime(w) /\ w \in asked /\ SsrcOf[w] # SsrcOf[v]
      BY <1>0, <2>2, FactoryAssumption DEF FactoryIInv
    <3>2. found'["rtcp"][w] = found["rtcp"][w]
          /\ table'["rtcp"][SsrcOf[w]] = table["rtcp"][SsrcOf[w]]
      BY <1>g, <1>s, <1>2, <2>2, <3>1
    <3> QED
      BY <1>0, <3>1, <3>2 DEF AskedInTime
  <2> QED
    BY <2>1, <2>2
<1>9. PairFound'
  <2> SUFFICES ASSUME NEW w \in asked', w \notin shared \cup overdue', NEW j \in Kinds,
                      j \in KindsOf(w), stream[j][w] # "none"
               PROVE  /\ found'[j][w] = holds[j][w]
                      /\ stream[j][w] = "open" => found'[j][w] \notin closedObjs
    BY <1>0 DEF PairFound
  <2>0. w \in Visits
    BY <1>3 DEF FactoryTypeOK
  <2>1. CASE w = v
    <3>1. j = "rtcp" /\ stream[j][w] = "open"
      BY <1>0, <1>t, <2>1 DEF KindsOf, FactoryTypeOK, States
    <3>2. table'[j][SsrcOf[w]] = holds[j][w] /\ holds[j][w] \notin closedObjs
      BY <1>0, <1>6, <2>0, <3>1 DEF Alone
    <3> QED
      BY <1>1, <1>2, <2>1, <3>1, <3>2
  <2>2. CASE w # v
    <3>1. w \in asked /\ w \notin shared \cup overdue /\ found'[j][w] = found[j][w]
      BY <1>0, <1>2, <2>0, <2>2
    <3> QED
      BY <1>t, <3>1 DEF PairFound
  <2> QED
    BY <2>1, <2>2
<1> QED
  BY <1>3, <1>4, <1>5, <1>6, <1>7, <1>8, <1>9 DEF FactoryIInv

\* AddReceiver looks up both objects.
LEMMA ReceiverStep ==
    ASSUME FactoryIInv, NEW v \in Visits, AddReceiver(v)
    PROVE  FactoryIInv'
<1>s. SsrcOf[v] \in Ssrcs
  BY DEF Ssrcs
<1>t. FactoryTypeOK /\ PairFound
  BY DEF FactoryIInv
<1>0. /\ v \notin Sent /\ v \notin asked /\ asked' = asked \cup {v}
      /\ \A k \in Kinds : stream[k][v] # "none"
      /\ found' = [k \in Kinds |-> [found[k] EXCEPT ![v] = table[k][SsrcOf[v]]]]
      /\ overdue' = IF \E k \in Kinds : stream[k][v] # "open" THEN overdue \cup {v} ELSE overdue
      /\ UNCHANGED <<visiting, table, closedObjs, made, stream, holds, shared>>
  BY DEF AddReceiver
<1>1. /\ found' \in [Kinds -> [Visits -> Nat]]
      /\ \A k \in Kinds : found'[k][v] = table[k][SsrcOf[v]]
      /\ \A k \in Kinds, w \in Visits : w # v => found'[k][w] = found[k][w]
  BY <1>0, <1>s, <1>t DEF FactoryTypeOK
<1>2. FactoryTypeOK'
  BY <1>0, <1>1, <1>t DEF FactoryTypeOK
<1>3. Owned' /\ Overlap'
  BY <1>0 DEF FactoryIInv, Owned, Overlap
<1>4. \A j \in Kinds, w \in Visits : Alone(j, w)'
  BY <1>0 DEF FactoryIInv, Alone
<1>5. \A j \in Kinds, s \in Ssrcs : Leaving(j, s)'
  BY <1>0 DEF FactoryIInv, Leaving
<1>6. \A w \in Visits : AskedInTime(w)'
  <2> SUFFICES ASSUME NEW w \in Visits, w \in asked'
               PROVE  AskedInTime(w)'
    BY DEF AskedInTime
  <2>0. "rtcp" \in Kinds
    BY DEF Kinds
  <2>1. CASE w = v
    BY <1>0, <2>1 DEF AskedInTime
  <2>2. CASE w # v
    BY <1>0, <1>1, <2>0, <2>2 DEF FactoryIInv, AskedInTime
  <2> QED
    BY <2>1, <2>2
<1>7. PairFound'
  <2> SUFFICES ASSUME NEW w \in asked', w \notin shared \cup overdue', NEW j \in Kinds,
                      j \in KindsOf(w), stream[j][w] # "none"
               PROVE  /\ found'[j][w] = holds[j][w]
                      /\ stream[j][w] = "open" => found'[j][w] \notin closedObjs
    BY <1>0 DEF PairFound
  <2>0. w \in Visits
    BY <1>2 DEF FactoryTypeOK
  <2>1. CASE w = v
    BY <1>0, <1>1, <2>0, <2>1 DEF FactoryIInv, Alone
  <2>2. CASE w # v
    <3>1. w \in asked /\ w \notin shared \cup overdue /\ found'[j][w] = found[j][w]
      BY <1>0, <1>1, <2>0, <2>2
    <3> QED
      BY <1>t, <3>1 DEF PairFound
  <2> QED
    BY <2>1, <2>2
<1> QED
  BY <1>2, <1>3, <1>4, <1>5, <1>6, <1>7 DEF FactoryIInv

\* pion closes an object: no stream that is alone on its SSRC has it.
LEMMA CloseObjectStep ==
    ASSUME FactoryIInv, NEW v \in Visits, NEW k \in Kinds, CloseObject(v, k)
    PROVE  FactoryIInv'
<1>s. \A w \in Visits : SsrcOf[w] \in Ssrcs
  BY DEF Ssrcs
<1>t. /\ FactoryTypeOK /\ Owned /\ Overlap /\ PairFound
      /\ stream \in [Kinds -> [Visits -> States]]
  BY DEF FactoryIInv, FactoryTypeOK
<1>0. /\ stream[k][v] = "open" /\ closedObjs' = closedObjs \cup {holds[k][v]}
      /\ UNCHANGED <<visiting, table, made, holds, found, asked, shared, overdue>>
  BY DEF CloseObject
<1>1. PICK to \in {"closing", "closed"} :
        /\ stream' = [stream EXCEPT ![k][v] = to]
        /\ to = "closed" => holds[k][v] \in closedObjs
  BY DEF CloseObject
<1>2. /\ stream' \in [Kinds -> [Visits -> States]] /\ stream'[k][v] = to
      /\ \A j \in Kinds, w \in Visits : j # k \/ w # v => stream'[j][w] = stream[j][w]
  <2>1. to \in States
    BY DEF States
  <2> QED
    BY <1>1, <1>t, <2>1, UpdateEntry
<1>3. /\ holds[k][v] # 0 /\ holds[k][v] \in 1 .. made /\ k \in KindsOf(v)
      /\ \A j \in Kinds, w \in Visits : stream'[j][w] # "none" => stream[j][w] # "none"
  BY <1>0, <1>1, <1>2, <1>t DEF FactoryTypeOK
<1>4. FactoryTypeOK'
  BY <1>0, <1>2, <1>3, <1>t DEF FactoryTypeOK
<1>5. Owned'
  BY <1>0, <1>t DEF Owned
<1>6. Overlap'
  <2>1. \A j \in Kinds, w \in Visits : stream'[j][w] \in Active => stream[j][w] \in Active
    BY <1>0, <1>2 DEF Active
  <2> QED
    BY <1>0, <1>t, <2>1 DEF Overlap
<1>7. \A j \in Kinds, w \in Visits : Alone(j, w)'
  <2> SUFFICES ASSUME NEW j \in Kinds, NEW w \in Visits, w \notin shared, stream'[j][w] = "open"
               PROVE  /\ table[j][SsrcOf[w]] = holds[j][w]
                      /\ holds[j][w] \notin closedObjs \cup {holds[k][v]}
    BY <1>0 DEF Alone
  <2>1. (j # k \/ w # v) /\ stream[j][w] = "open"
    BY <1>2
  <2>2. table[j][SsrcOf[w]] = holds[j][w] /\ holds[j][w] \notin closedObjs
    BY <2>1 DEF FactoryIInv, Alone
  <2>3. ASSUME holds[j][w] = holds[k][v]
        PROVE  FALSE
    <3>1. j = k /\ SsrcOf[w] = SsrcOf[v]
      BY <1>3, <1>t, <2>3 DEF Owned
    <3>2. w # v
      BY <2>1, <3>1
    <3> QED
      BY <1>0, <1>t, <2>1, <3>1, <3>2 DEF Overlap, Active
  <2> QED
    BY <2>2, <2>3
<1>8. \A j \in Kinds, s \in Ssrcs : Leaving(j, s)'
  <2> SUFFICES ASSUME NEW j \in Kinds, NEW s \in Ssrcs, table[j][s] \in closedObjs'
               PROVE  \E x \in Visits : SsrcOf[x] = s /\ stream'[j][x] = "closing"
    BY <1>0 DEF Leaving
  <2>1. CASE table[j][s] \in closedObjs
    <3>1. PICK x \in Visits : SsrcOf[x] = s /\ stream[j][x] = "closing"
      BY <2>1 DEF FactoryIInv, Leaving
    <3>2. stream'[j][x] = "closing"
      BY <1>0, <1>2, <3>1
    <3> QED
      BY <3>1, <3>2
  <2>2. CASE table[j][s] \notin closedObjs
    <3>1. table[j][s] = holds[k][v]
      BY <1>0, <2>2
    <3>2. j = k /\ s = SsrcOf[v]
      BY <1>3, <1>t, <3>1 DEF Owned
    <3>3. to = "closing"
      BY <1>1, <2>2, <3>1
    <3> QED
      BY <1>2, <3>2, <3>3
  <2> QED
    BY <2>1, <2>2
<1>9. \A w \in Visits : AskedInTime(w)'
  <2>1. /\ "rtcp" \in Kinds
        /\ \A j \in Kinds, w \in Visits : stream'[j][w] = "none" <=> stream[j][w] = "none"
    BY <1>0, <1>2 DEF Kinds
  <2> QED
    BY <1>0, <2>1 DEF FactoryIInv, AskedInTime
<1>10. PairFound'
  <2> SUFFICES ASSUME NEW w \in asked, w \notin shared \cup overdue, NEW j \in Kinds,
                      j \in KindsOf(w), stream'[j][w] # "none"
               PROVE  /\ found[j][w] = holds[j][w]
                      /\ stream'[j][w] = "open" => found[j][w] \notin closedObjs'
    BY <1>0 DEF PairFound
  <2>1. w \in Visits
    BY <1>t DEF FactoryTypeOK
  <2>2. found[j][w] = holds[j][w]
    BY <1>3, <1>t, <2>1 DEF PairFound
  <2>3. stream'[j][w] = "open" => holds[j][w] \notin closedObjs'
    BY <1>0, <1>7, <2>1 DEF Alone
  <2> QED
    BY <2>2, <2>3
<1> QED
  BY <1>4, <1>5, <1>6, <1>7, <1>8, <1>9, <1>10 DEF FactoryIInv

\* onClose deletes the entry of the SSRC: it is no entry of a stream that is alone.
LEMMA DeleteStep ==
    ASSUME FactoryIInv, NEW v \in Visits, NEW k \in Kinds, DeleteEntry(v, k)
    PROVE  FactoryIInv'
<1>s. \A w \in Visits : SsrcOf[w] \in Ssrcs
  BY DEF Ssrcs
<1>t. /\ FactoryTypeOK /\ Owned /\ Overlap /\ PairFound
      /\ stream \in [Kinds -> [Visits -> States]] /\ table \in [Kinds -> [Ssrcs -> Nat]]
      /\ made \in Nat /\ 0 \notin closedObjs
  BY DEF FactoryIInv, FactoryTypeOK
<1>0. /\ stream[k][v] = "closing"
      /\ UNCHANGED <<visiting, closedObjs, made, holds, found, asked, shared, overdue>>
  BY DEF DeleteEntry
<1>1. /\ stream' \in [Kinds -> [Visits -> States]] /\ stream'[k][v] = "closed"
      /\ \A j \in Kinds, w \in Visits : j # k \/ w # v => stream'[j][w] = stream[j][w]
  <2>1. stream' = [stream EXCEPT ![k][v] = "closed"] /\ "closed" \in States
    BY DEF DeleteEntry, States
  <2> QED
    BY <1>t, <2>1, UpdateEntry
<1>2. /\ table' \in [Kinds -> [Ssrcs -> Nat]] /\ table'[k][SsrcOf[v]] = 0
      /\ \A j \in Kinds, s \in Ssrcs : j # k \/ s # SsrcOf[v] => table'[j][s] = table[j][s]
  <2>1. table' = [table EXCEPT ![k][SsrcOf[v]] = 0] /\ 0 \in Nat
    BY DEF DeleteEntry
  <2> QED
    BY <1>s, <1>t, <2>1, UpdateEntry
<1>3. \A j \in Kinds, w \in Visits : stream'[j][w] = "none" <=> stream[j][w] = "none"
  BY <1>0, <1>1
<1>4. FactoryTypeOK'
  <2>1. \A j \in Kinds, s \in Ssrcs : table'[j][s] <= made
    BY <1>2, <1>t, SMTT(40) DEF FactoryTypeOK
  <2> QED
    BY <1>0, <1>1, <1>2, <1>3, <1>t, <2>1 DEF FactoryTypeOK
<1>5. Owned'
  <2>1. \A j \in Kinds, s \in Ssrcs : table'[j][s] # 0 => table'[j][s] = table[j][s]
    BY <1>2
  <2> QED
    BY <1>0, <1>t, <2>1 DEF Owned
<1>6. Overlap'
  <2>1. \A j \in Kinds, w \in Visits : stream'[j][w] \in Active => stream[j][w] \in Active
    BY <1>0, <1>1 DEF Active
  <2> QED
    BY <1>0, <1>t, <2>1 DEF Overlap
<1>7. \A j \in Kinds, w \in Visits : Alone(j, w)'
  <2> SUFFICES ASSUME NEW j \in Kinds, NEW w \in Visits, w \notin shared, stream'[j][w] = "open"
               PROVE  table'[j][SsrcOf[w]] = holds[j][w] /\ holds[j][w] \notin closedObjs
    BY <1>0 DEF Alone
  <2>1. (j # k \/ w # v) /\ stream[j][w] = "open"
    BY <1>1
  <2>2. table[j][SsrcOf[w]] = holds[j][w] /\ holds[j][w] \notin closedObjs
    BY <2>1 DEF FactoryIInv, Alone
  <2>3. j # k \/ SsrcOf[w] # SsrcOf[v]
    BY <1>0, <1>t, <2>1 DEF Overlap, Active
  <2> QED
    BY <1>2, <1>s, <2>2, <2>3
<1>8. \A j \in Kinds, s \in Ssrcs : Leaving(j, s)'
  <2> SUFFICES ASSUME NEW j \in Kinds, NEW s \in Ssrcs, table'[j][s] \in closedObjs
               PROVE  \E x \in Visits : SsrcOf[x] = s /\ stream'[j][x] = "closing"
    BY <1>0 DEF Leaving
  <2>1. (j # k \/ s # SsrcOf[v]) /\ table'[j][s] = table[j][s]
    BY <1>2, <1>t
  <2>2. PICK x \in Visits : SsrcOf[x] = s /\ stream[j][x] = "closing"
    BY <2>1 DEF FactoryIInv, Leaving
  <2>3. stream'[j][x] = "closing"
    BY <1>1, <2>1, <2>2
  <2> QED
    BY <2>2, <2>3
<1>9. \A w \in Visits : AskedInTime(w)'
  <2> SUFFICES ASSUME NEW w \in Visits, w \in asked
               PROVE  AskedInTime(w)'
    BY <1>0 DEF AskedInTime
  <2>0. AskedInTime(w) /\ "rtcp" \in Kinds
    BY DEF FactoryIInv, Kinds
  <2>1. CASE w \in Sent
    <3>1. CASE stream["rtcp"][w] = "none"
      <4>1. k # "rtcp" \/ SsrcOf[w] # SsrcOf[v]
        BY <1>0, <2>1, <3>1, FactoryAssumption
      <4> QED
        BY <1>0, <1>2, <1>3, <1>s, <2>0, <2>1, <4>1 DEF AskedInTime
    <3>2. CASE stream["rtcp"][w] # "none"
      BY <1>3, <2>0, <2>1, <3>2 DEF AskedInTime
    <3> QED
      BY <3>1, <3>2
  <2>2. CASE w \notin Sent
    BY <1>3, <2>0, <2>2 DEF AskedInTime
  <2> QED
    BY <2>1, <2>2
<1>10. PairFound'
  <2> SUFFICES ASSUME NEW w \in asked, w \notin shared \cup overdue, NEW j \in Kinds,
                      j \in KindsOf(w), stream'[j][w] # "none"
               PROVE  /\ found[j][w] = holds[j][w]
                      /\ stream'[j][w] = "open" => found[j][w] \notin closedObjs
    BY <1>0 DEF PairFound
  <2>1. w \in Visits
    BY <1>t DEF FactoryTypeOK
  <2>2. stream[j][w] # "none" /\ (stream'[j][w] = "open" => stream[j][w] = "open")
    BY <1>1, <1>3, <2>1
  <2> QED
    BY <1>t, <2>2 DEF PairFound
<1> QED
  BY <1>4, <1>5, <1>6, <1>7, <1>8, <1>9, <1>10 DEF FactoryIInv

\* AddReceiver and Bind work with the very objects that pion writes to, and those are
\* open, for any number of streams and SSRCs, in whatever order streams are opened,
\* asked for, closed and opened again.  (Unless two streams of one SSRC overlap, or
\* the stream ended first.)
THEOREM FindsThePair == FactoryInit /\ [][FactoryNext]_factoryVars => []PairFound
<1>1. FactoryInit => FactoryIInv
  <2>1. SUFFICES ASSUME FactoryInit PROVE FactoryIInv
    OBVIOUS
  <2>2. /\ visiting \subseteq Visits /\ table = [k \in Kinds |-> [s \in Ssrcs |-> 0]]
        /\ closedObjs = {} /\ made = 0 /\ asked = {} /\ shared = {} /\ overdue = {}
        /\ stream = [k \in Kinds |-> [v \in Visits |-> "none"]]
        /\ holds = [k \in Kinds |-> [v \in Visits |-> 0]]
        /\ found = [k \in Kinds |-> [v \in Visits |-> 0]]
    BY <2>1, FactoryAssumption DEF FactoryInit, PerVisit
  <2>3. /\ \A k \in Kinds, s \in Ssrcs : table[k][s] = 0
        /\ \A k \in Kinds, v \in Visits : stream[k][v] = "none" /\ holds[k][v] = 0
    BY <2>2
  <2>4. FactoryTypeOK
    BY <2>2, <2>3 DEF FactoryTypeOK, States
  <2>5. Owned /\ Overlap /\ PairFound
    BY <2>2, <2>3 DEF Owned, Overlap, PairFound, Active
  <2> QED
    BY <2>2, <2>3, <2>4, <2>5 DEF FactoryIInv, Alone, Leaving, AskedInTime
<1>2. FactoryIInv /\ [FactoryNext]_factoryVars => FactoryIInv'
  <2> SUFFICES ASSUME FactoryIInv, [FactoryNext]_factoryVars
               PROVE  FactoryIInv'
    OBVIOUS
  <2>1. CASE FactoryNext
    <3>1. visiting \subseteq Visits
      BY DEF FactoryIInv, FactoryTypeOK
    <3> QED
      BY <2>1, <3>1, OpenStep, BindStep, ReceiverStep, CloseObjectStep, DeleteStep DEF FactoryNext
  <2>2. CASE UNCHANGED factoryVars
    BY <2>2 DEF factoryVars, FactoryIInv, FactoryTypeOK, Owned, Overlap, PairFound, Alone, Leaving,
                AskedInTime
  <2> QED
    BY <2>1, <2>2
<1>3. FactoryIInv => PairFound
  BY DEF FactoryIInv
<1> QED
  BY <1>1, <1>2, <1>3, PTL

-----------------------------------------------------------------------------
(* The list of DownTracks of a Subscriber                                  *)

AddingCalls == [at : {"idle", "next", "lookup"}, todo : SUBSET Tracks, track : SUBSET Tracks,
                pos : Nat, len : Nat, added : BOOLEAN]

SubTypeOK ==
    /\ slots \in [1 .. MaxObjs -> Nat] /\ size \in Nat /\ dtrackOf \in Seq(Tracks)
    /\ adding \in AddingCalls /\ calls \in 0 .. MaxCalls /\ crossed \in BOOLEAN
    /\ stored \subseteq 1 .. Len(dtrackOf) /\ senders \subseteq 1 .. Len(dtrackOf)
    /\ DOMAIN closer \subseteq 1 .. Len(dtrackOf)

\* The array has room: each track of each call makes one DownTrack at most
Room ==
    /\ size <= Len(dtrackOf)
    /\ Len(dtrackOf) + Cardinality(adding.todo) + (IF adding.at = "lookup" THEN 1 ELSE 0)
          <= calls * Cardinality(Tracks)

\* A DownTrack has one place on the list
Placed ==
    /\ \A i \in 1 .. size : slots[i] \in 1 .. Len(dtrackOf)
    /\ \A i, j \in 1 .. size : i # j => slots[i] # slots[j]

\* A DownTrack of a receiver is sent until it is closed, and is not once it is removed
Sending ==
    /\ \A d \in stored : d \notin DOMAIN closer => d \in senders
    /\ \A d \in DOMAIN closer : closer[d] = "remove" => d \notin senders

\* A lookup during which nothing was removed sees the whole list, and has not met
\* its track at the places it has passed
Looking ==
    adding.at = "lookup" =>
        /\ \E r \in Tracks : adding.track = {r}
        /\ ~crossed => /\ adding.len = size /\ adding.pos \in 1 .. size + 1
                       /\ \A i \in 1 .. adding.pos - 1 : dtrackOf[slots[i]] \notin adding.track

SubIInv == SubTypeOK /\ Room /\ Placed /\ Sending /\ Looking /\ LookupExact

\* The array has a slot for one more DownTrack while a track is looked up.
LEMMA RoomForOne ==
    ASSUME SubTypeOK, Room
    PROVE  /\ Len(dtrackOf) \in Nat /\ MaxObjs \in Nat /\ size <= MaxObjs
           /\ adding.at = "lookup" => size + 1 <= MaxObjs
<1>1. PICK c \in Nat : c = Cardinality(Tracks)
  BY SubAssumption, FS_CardinalityType
<1>2. adding.todo \subseteq Tracks /\ calls \in Nat /\ calls <= MaxCalls /\ MaxCalls \in Nat
  BY SubAssumption DEF SubTypeOK, AddingCalls
<1>3. PICK t \in Nat : t = Cardinality(adding.todo)
  BY <1>2, SubAssumption, FS_Subset, FS_CardinalityType
<1>4. calls * c <= MaxCalls * c /\ calls * c \in Nat /\ MaxCalls * c \in Nat
  BY <1>1, <1>2
<1>5. PICK n \in Nat : n = Len(dtrackOf)
  BY DEF SubTypeOK
<1>6. PICK have \in Nat, max \in Nat : have = calls * c /\ max = MaxCalls * c /\ have <= max
  BY <1>4
<1>7. /\ MaxObjs = max /\ size <= n /\ size \in Nat
      /\ n + t + (IF adding.at = "lookup" THEN 1 ELSE 0) <= have
  BY <1>1, <1>3, <1>5, <1>6 DEF Room, MaxObjs, SubTypeOK
<1> QED
  BY <1>5, <1>6, <1>7

\* What a step of AddDownTracks that changes no list leaves to show.
LEMMA AddingMoves ==
    ASSUME SubIInv, adding' \in AddingCalls, calls' \in 0 .. MaxCalls,
           UNCHANGED <<listVars, stored, closer, senders, pcState, crossed>>,
           ~crossed /\ ~crashed => ~crashed',
           Room', Looking'
    PROVE  SubIInv'
<1>1. SubTypeOK'
  BY DEF SubIInv, SubTypeOK, listVars
<1>2. Placed' /\ Sending'
  BY DEF SubIInv, Placed, Sending, listVars
<1>3. Listed' = Listed
  BY DEF Listed, listVars
<1>4. LookupExact'
  BY <1>3 DEF SubIInv, LookupExact, listVars
<1> QED
  BY <1>1, <1>2, <1>4 DEF SubIInv

\* The steps of AddDownTracks up to the new entry keep the invariant.
LEMMA AddingStep ==
    ASSUME SubIInv,
           \/ \E rs \in SUBSET Tracks : AddDownTracks(rs)
           \/ \E r \in Tracks : Lookup(r)
           \/ LookupAt \/ NewEntryFails \/ AddedAll
    PROVE  SubIInv'
<1>c. PICK c \in Nat : c = Cardinality(Tracks)
  BY SubAssumption, FS_CardinalityType
<1>f. \A T \in SUBSET Tracks : IsFiniteSet(T) /\ Cardinality(T) \in Nat /\ Cardinality(T) <= c
  BY <1>c, SubAssumption, FS_Subset, FS_CardinalityType
<1>0. /\ adding \in AddingCalls /\ calls \in Nat /\ size \in Nat /\ dtrackOf \in Seq(Tracks)
      /\ adding.todo \in SUBSET Tracks /\ adding.track \in SUBSET Tracks
      /\ Room /\ Looking /\ LookupExact
  BY DEF SubIInv, SubTypeOK, AddingCalls
<1>n. PICK n \in Nat, have \in Nat : n = Len(dtrackOf) /\ have = calls * c
  BY <1>0
<1>r. /\ size <= n
      /\ n + Cardinality(adding.todo) + (IF adding.at = "lookup" THEN 1 ELSE 0) <= have
  BY <1>0, <1>c, <1>n DEF Room
<1>i. /\ Idle \in AddingCalls /\ Idle.at = "idle" /\ Idle.todo = {}
  BY DEF Idle, AddingCalls
<1>z. Cardinality({}) = 0
  BY FS_EmptySet
<1>1. ASSUME NEW rs \in SUBSET Tracks, AddDownTracks(rs)
      PROVE  SubIInv'
  <2>1. /\ calls < MaxCalls /\ calls' = calls + 1 /\ crashed' = crashed
        /\ adding' = [Idle EXCEPT !.at = "next", !.todo = rs]
        /\ UNCHANGED <<listVars, stored, closer, senders, pcState, crossed>>
    BY <1>1 DEF AddDownTracks, recvVars, flags
  <2>2. adding' \in AddingCalls /\ adding'.at = "next" /\ adding'.todo = rs
    BY <1>i, <2>1 DEF AddingCalls
  <2>3. PICK t \in Nat : t = Cardinality(rs) /\ t <= c
    BY <1>f
  <2>4. calls' * c = have + c
    BY <1>0, <1>n, <2>1
  <2>5. n <= have
    BY <1>0, <1>f, <1>n, <1>r
  <2>6. Room'
    BY <1>c, <1>n, <1>r, <2>1, <2>2, <2>3, <2>4, <2>5 DEF Room, listVars
  <2>7. Looking'
    BY <2>2 DEF Looking
  <2>8. calls' \in 0 .. MaxCalls
    BY <1>0, <2>1, SubAssumption
  <2> QED
    BY <2>1, <2>2, <2>6, <2>7, <2>8, AddingMoves
<1>2. ASSUME NEW r \in Tracks, Lookup(r)
      PROVE  SubIInv'
  <2>1. /\ adding.at = "next" /\ r \in adding.todo
        /\ adding' = [adding EXCEPT !.at = "lookup", !.todo = @ \ {r}, !.track = {r},
                                    !.pos = 1, !.len = size]
        /\ UNCHANGED <<listVars, stored, closer, senders, pcState, crossed, crashed, calls>>
    BY <1>2 DEF Lookup, recvVars, flags
  <2>2. /\ adding' \in AddingCalls /\ adding'.at = "lookup" /\ adding'.todo = adding.todo \ {r}
        /\ adding'.track = {r} /\ adding'.pos = 1 /\ adding'.len = size
    BY <1>0, <2>1 DEF AddingCalls
  <2>3. Cardinality(adding.todo \ {r}) = Cardinality(adding.todo) - 1
    BY <1>0, <1>f, <2>1, FS_RemoveElement
  <2>4. PICK t \in Nat : t = Cardinality(adding.todo)
    BY <1>0, <1>f
  <2>5. Room'
    BY <1>c, <1>n, <1>r, <2>1, <2>2, <2>3, <2>4 DEF Room, listVars
  <2>6. Looking'
    BY <1>0, <2>1, <2>2 DEF Looking, listVars
  <2>7. calls' \in 0 .. MaxCalls
    BY <2>1 DEF SubIInv, SubTypeOK
  <2> QED
    BY <2>1, <2>2, <2>5, <2>6, <2>7, AddingMoves
<1>3. ASSUME adding' = Idle, UNCHANGED <<listVars, stored, closer, senders, pcState, crossed, calls>>,
             ~crossed /\ ~crashed => ~crashed'
      PROVE  SubIInv'
  <2>1. PICK t \in Nat : t = Cardinality(adding.todo)
    BY <1>0, <1>f
  <2>2. n <= have
    BY <1>n, <1>r, <2>1
  <2>3. Room'
    <3>1. Cardinality(adding'.todo) = 0 /\ adding'.at # "lookup"
      BY <1>i, <1>z, <1>3
    <3>2. size' <= Len(dtrackOf') /\ calls' * Cardinality(Tracks) = have /\ Len(dtrackOf') = n
      BY <1>c, <1>n, <1>r, <1>3 DEF listVars
    <3> QED
      BY <2>2, <3>1, <3>2 DEF Room
  <2>4. Looking'
    BY <1>i, <1>3 DEF Looking
  <2>5. calls' \in 0 .. MaxCalls
    BY <1>3 DEF SubIInv, SubTypeOK
  <2> QED
    BY <1>i, <1>3, <2>3, <2>4, <2>5, AddingMoves
<1>4. CASE NewEntryFails \/ AddedAll
  BY <1>3, <1>4 DEF NewEntryFails, AddedAll, recvVars, flags
<1>5. CASE LookupAt
  <2>0. /\ adding.at = "lookup" /\ adding.pos <= adding.len
        /\ UNCHANGED <<listVars, stored, closer, senders, pcState, crossed, calls>>
    BY <1>5 DEF LookupAt, recvVars
  <2>1. ~crossed => /\ adding.len = size /\ adding.pos \in 1 .. size
                    /\ slots[adding.pos] # 0
    BY <1>0, <2>0 DEF Looking, LookupExact, Listed
  <2>2. CASE slots[adding.pos] = 0
    BY <1>3, <1>5, <2>0, <2>1, <2>2 DEF LookupAt
  <2>3. CASE slots[adding.pos] # 0
    <3>1. /\ crashed' = crashed
          /\ adding' = IF dtrackOf[slots[adding.pos]] \in adding.track
                       THEN [adding EXCEPT !.at = "next"]
                       ELSE [adding EXCEPT !.pos = @ + 1]
      BY <1>5, <2>3 DEF LookupAt
    <3>2. calls' \in 0 .. MaxCalls
      BY <2>0 DEF SubIInv, SubTypeOK
    <3>3. PICK t \in Nat : t = Cardinality(adding.todo)
      BY <1>0, <1>f
    <3>4. CASE dtrackOf[slots[adding.pos]] \in adding.track
      <4>1. adding' \in AddingCalls /\ adding'.at = "next" /\ adding'.todo = adding.todo
        BY <1>0, <3>1, <3>4 DEF AddingCalls
      <4>2. Room'
        BY <1>c, <1>n, <1>r, <2>0, <3>3, <4>1 DEF Room, listVars
      <4>3. Looking'
        BY <4>1 DEF Looking
      <4> QED
        BY <2>0, <3>1, <3>2, <4>1, <4>2, <4>3, AddingMoves
    <3>5. CASE dtrackOf[slots[adding.pos]] \notin adding.track
      <4>1. /\ adding' \in AddingCalls /\ adding'.at = "lookup" /\ adding'.todo = adding.todo
            /\ adding'.track = adding.track /\ adding'.pos = adding.pos + 1
            /\ adding'.len = adding.len /\ adding.pos \in Nat
        BY <1>0, <2>0, <3>1, <3>5, SMTT(40) DEF AddingCalls
      <4>2. Room'
        BY <1>c, <1>n, <1>r, <2>0, <3>3, <4>1 DEF Room, listVars
      <4>3. Looking'
        <5>1. \E r \in Tracks : adding'.track = {r}
          BY <1>0, <2>0, <4>1 DEF Looking
        <5>2. ASSUME ~crossed
              PROVE  /\ adding'.len = size /\ adding'.pos \in 1 .. size + 1
                     /\ \A i \in 1 .. adding'.pos - 1 : dtrackOf[slots[i]] \notin adding.track
          <6>1. /\ adding.len = size /\ adding.pos \in 1 .. size
                /\ \A i \in 1 .. adding.pos - 1 : dtrackOf[slots[i]] \notin adding.track
            BY <1>0, <2>0, <2>1, <5>2 DEF Looking
          <6>2. PICK p \in Nat : p = adding.pos
            BY <4>1
          <6>3. \A i \in 1 .. p : i = p \/ i \in 1 .. p - 1
            BY <6>2
          <6> QED
            BY <1>0, <3>5, <4>1, <6>1, <6>2, <6>3, SMTT(30)
        <5> QED
          BY <2>0, <4>1, <5>1, <5>2 DEF Looking, listVars
      <4> QED
        BY <2>0, <3>1, <3>2, <4>1, <4>2, <4>3, AddingMoves
    <3> QED
      BY <3>4, <3>5
  <2> QED
    BY <2>2, <2>3
<1> QED
  BY <1>1, <1>2, <1>4, <1>5

\* A new DownTrack gets the next slot, and the track had none.
LEMMA NewEntryStep ==
    ASSUME SubIInv, NewEntry
    PROVE  SubIInv'
<1>c. PICK c \in Nat : c = Cardinality(Tracks)
  BY SubAssumption, FS_CardinalityType
<1>0. /\ adding \in AddingCalls /\ calls \in Nat /\ size \in Nat /\ dtrackOf \in Seq(Tracks)
      /\ adding.todo \in SUBSET Tracks /\ slots \in [1 .. MaxObjs -> Nat]
      /\ stored \subseteq 1 .. Len(dtrackOf) /\ senders \subseteq 1 .. Len(dtrackOf)
      /\ DOMAIN closer \subseteq 1 .. Len(dtrackOf)
      /\ SubTypeOK /\ Room /\ Placed /\ Sending /\ Looking /\ LookupExact
  BY DEF SubIInv, SubTypeOK, AddingCalls
<1>1. PICK n \in Nat, d \in Nat : n = Len(dtrackOf) /\ d = n + 1
  BY <1>0
<1>2. /\ adding.at = "lookup" /\ adding.pos > adding.len /\ pcState = "open"
      /\ \E r \in adding.track : dtrackOf' = Append(dtrackOf, r)
      /\ senders' = senders \cup {d} /\ stored' \in {stored, stored \cup {d}}
      /\ slots' = [slots EXCEPT ![size + 1] = d] /\ size' = size + 1
      /\ adding' = [adding EXCEPT !.at = "next", !.added = TRUE]
      /\ UNCHANGED <<calls, closer, pcState, crashed, crossed>>
  BY <1>1 DEF NewEntry, flags
<1>3. PICK r \in Tracks : adding.track = {r} /\ dtrackOf' = Append(dtrackOf, r)
  BY <1>0, <1>2 DEF Looking
<1>4. /\ dtrackOf' \in Seq(Tracks) /\ Len(dtrackOf') = d /\ dtrackOf'[d] = r
      /\ \A i \in 1 .. n : dtrackOf'[i] = dtrackOf[i]
  BY <1>0, <1>1, <1>3, AppendProperties
<1>5. size + 1 \in 1 .. MaxObjs /\ MaxObjs \in Nat
  BY <1>0, <1>2, RoomForOne
<1>6. /\ slots' \in [1 .. MaxObjs -> Nat] /\ slots'[size + 1] = d
      /\ \A i \in 1 .. size : i \in 1 .. MaxObjs /\ slots'[i] = slots[i]
      /\ \A i \in 1 .. size + 1 : i = size + 1 \/ i \in 1 .. size
  BY <1>0, <1>2, <1>5
<1>7. adding' \in AddingCalls /\ adding'.at = "next" /\ adding'.todo = adding.todo
  BY <1>0, <1>2 DEF AddingCalls
<1>8. SubTypeOK'
  <2>1. 1 .. n \subseteq 1 .. d /\ d \in 1 .. d
    BY <1>1
  <2>2. /\ stored' \subseteq 1 .. d /\ senders' \subseteq 1 .. d /\ DOMAIN closer' \subseteq 1 .. d
    BY <1>0, <1>1, <1>2, <2>1
  <2> QED
    BY <1>0, <1>2, <1>4, <1>6, <1>7, <2>2 DEF SubTypeOK
<1>9. Room'
  <2>1. PICK t \in Nat : t = Cardinality(adding.todo)
    BY <1>0, SubAssumption, FS_Subset, FS_CardinalityType
  <2>2. PICK have \in Nat : have = calls * c
    BY <1>0
  <2>3. size <= n /\ n + t + 1 <= have
    BY <1>0, <1>c, <1>1, <1>2, <2>1, <2>2 DEF Room
  <2> QED
    BY <1>0, <1>c, <1>1, <1>2, <1>4, <1>7, <2>1, <2>2, <2>3 DEF Room
<1>10. Placed'
  <2>1. \A i \in 1 .. size : slots[i] \in 1 .. n /\ slots[i] # d
    BY <1>0, <1>1 DEF Placed
  <2>2. \A i \in 1 .. size' : slots'[i] \in 1 .. Len(dtrackOf')
    BY <1>1, <1>2, <1>4, <1>6, <2>1
  <2>3. ASSUME NEW i \in 1 .. size', NEW j \in 1 .. size', i # j
        PROVE  slots'[i] # slots'[j]
    BY <1>0, <1>2, <1>6, <2>1, <2>3 DEF Placed
  <2> QED
    BY <2>2, <2>3 DEF Placed
<1>11. Sending'
  <2>1. d \notin DOMAIN closer
    BY <1>0, <1>1
  <2> QED
    BY <1>0, <1>2, <2>1 DEF Sending
<1>12. Looking'
  BY <1>7 DEF Looking
<1>13. LookupExact'
  <2>1. Listed' = Listed \cup {d}
    <3>1. ASSUME NEW x
          PROVE  x \in Listed' <=> x \in Listed \cup {d}
      BY <1>0, <1>2, <1>6 DEF Listed
    <3> QED
      BY <3>1
  <2>2. 0 \notin Listed'
    BY <1>0, <1>1, <2>1 DEF LookupExact
  <2>3. Listed' = senders' \cup {e \in DOMAIN closer' : closer'[e] = "remove"}
    BY <1>0, <1>2, <2>1 DEF LookupExact
  <2>4. ASSUME ~crossed
        PROVE  /\ ~crashed
               /\ \A i, j \in 1 .. size' : i # j => dtrackOf'[slots'[i]] # dtrackOf'[slots'[j]]
    <3>1. ~crashed /\ \A i, j \in 1 .. size : i # j => dtrackOf[slots[i]] # dtrackOf[slots[j]]
      BY <1>0, <2>4 DEF LookupExact
    <3>2. \A i \in 1 .. size : dtrackOf[slots[i]] # r
      BY <1>0, <1>2, <1>3, <2>4 DEF Looking, AddingCalls
    <3>3. \A i \in 1 .. size : dtrackOf'[slots'[i]] = dtrackOf[slots[i]]
      BY <1>0, <1>1, <1>4, <1>6 DEF Placed
    <3>4. dtrackOf'[slots'[size + 1]] = r
      BY <1>4, <1>6
    <3>5. ASSUME NEW i \in 1 .. size', NEW j \in 1 .. size', i # j
          PROVE  dtrackOf'[slots'[i]] # dtrackOf'[slots'[j]]
      <4>1. (i = size + 1 \/ i \in 1 .. size) /\ (j = size + 1 \/ j \in 1 .. size)
        BY <1>2, <1>6
      <4> QED
        BY <3>1, <3>2, <3>3, <3>4, <3>5, <4>1
    <3> QED
      BY <3>1, <3>5
  <2> QED
    BY <1>2, <2>2, <2>3, <2>4 DEF LookupExact
<1> QED
  BY <1>8, <1>9, <1>10, <1>11, <1>12, <1>13 DEF SubIInv

\* What a step that changes neither the list nor a call of AddDownTracks leaves to show.
LEMMA ClosingMoves ==
    ASSUME SubIInv, UNCHANGED <<listVars, stored, adding, calls, crashed, crossed>>,
           senders' \subseteq senders, DOMAIN closer' \subseteq 1 .. Len(dtrackOf), Sending',
           pcState' = "open" =>
              senders' \cup {d \in DOMAIN closer' : closer'[d] = "remove"} = Listed
    PROVE  SubIInv'
<1>1. SubTypeOK'
  BY DEF SubIInv, SubTypeOK, listVars
<1>2. Room' /\ Placed' /\ Looking'
  BY DEF SubIInv, Room, Placed, Looking, listVars
<1>3. Listed' = Listed
  BY DEF Listed, listVars
<1>4. LookupExact'
  BY <1>3 DEF SubIInv, LookupExact, listVars
<1> QED
  BY <1>1, <1>2, <1>4 DEF SubIInv

\* A receiver that ends closes its DownTracks; the rest of the negotiation.
LEMMA ClosingStep ==
    ASSUME SubIInv,
           \/ \E d \in Objs : CloseTrack(d) \/ RemoveNegotiates(d)
           \/ \E r \in Tracks : EndTrack(r) \/ deleteTrack(r)
           \/ CreateOffer \/ CreateOfferFails \/ SubscriberAnswered
           \/ CloseSubscriber \/ UNCHANGED subVars
    PROVE  SubIInv'
<1>0. /\ Sending /\ DOMAIN closer \subseteq 1 .. Len(dtrackOf)
      /\ stored \subseteq 1 .. Len(dtrackOf)
      /\ pcState = "open" => senders \cup {d \in DOMAIN closer : closer[d] = "remove"} = Listed
  BY DEF SubIInv, SubTypeOK, LookupExact
<1>1. ASSUME UNCHANGED <<listVars, stored, adding, calls, crashed, crossed, senders, closer>>,
             pcState' = "open" => pcState = "open"
      PROVE  SubIInv'
  <2>1. Sending'
    BY <1>0, <1>1 DEF Sending
  <2> QED
    BY <1>0, <1>1, <2>1, ClosingMoves
<1>2. CASE \/ \E r \in Tracks : EndTrack(r) \/ deleteTrack(r)
           \/ CreateOffer \/ CreateOfferFails \/ SubscriberAnswered
           \/ CloseSubscriber \/ UNCHANGED subVars
  BY <1>1, <1>2 DEF EndTrack, deleteTrack, CreateOffer, CreateOfferFails,
                       SubscriberAnswered, CloseSubscriber, subVars, recvVars, flags
<1>3. ASSUME NEW d \in Objs, RemoveNegotiates(d)
      PROVE  SubIInv'
  <2>1. /\ d \in DOMAIN closer /\ closer[d] = "negotiate"
        /\ closer' = [closer EXCEPT ![d] = "done"]
        /\ UNCHANGED <<listVars, stored, adding, calls, crashed, crossed, senders, pcState>>
    BY <1>3 DEF RemoveNegotiates, recvVars, flags
  <2>2. /\ DOMAIN closer' = DOMAIN closer
        /\ \A e \in DOMAIN closer : closer'[e] = "remove" <=> closer[e] = "remove"
    BY <2>1
  <2>3. Sending'
    BY <1>0, <2>1, <2>2 DEF Sending
  <2>4. {e \in DOMAIN closer' : closer'[e] = "remove"} = {e \in DOMAIN closer : closer[e] = "remove"}
    BY <2>2
  <2> QED
    BY <1>0, <2>1, <2>2, <2>3, <2>4, ClosingMoves
<1>4. ASSUME NEW d \in Objs, CloseTrack(d)
      PROVE  SubIInv'
  <2>0. /\ d \in stored /\ d \notin DOMAIN closer /\ d \in senders
        /\ UNCHANGED <<listVars, stored, adding, calls, crashed, crossed, pcState>>
    BY <1>0, <1>4 DEF CloseTrack, recvVars, flags, Sending
  <2>1. CASE pcState = "open"
    <3>1. /\ senders' = senders \ {d}
          /\ closer' = [e \in DOMAIN closer \cup {d} |-> IF e = d THEN "remove" ELSE closer[e]]
      BY <1>4, <2>1 DEF CloseTrack
    <3>2. /\ DOMAIN closer' = DOMAIN closer \cup {d} /\ closer'[d] = "remove"
          /\ \A e \in DOMAIN closer : closer'[e] = closer[e]
      BY <2>0, <3>1
    <3>3. Sending'
      BY <1>0, <2>0, <3>1, <3>2 DEF Sending
    <3>4. senders' \cup {e \in DOMAIN closer' : closer'[e] = "remove"} = Listed
      BY <1>0, <2>0, <2>1, <3>1, <3>2
    <3> QED
      BY <1>0, <2>0, <3>1, <3>2, <3>3, <3>4, ClosingMoves
  <2>2. CASE pcState # "open"
    <3>1. /\ senders' = senders
          /\ closer' = [e \in DOMAIN closer \cup {d} |-> IF e = d THEN "done" ELSE closer[e]]
      BY <1>4, <2>2 DEF CloseTrack
    <3>2. /\ DOMAIN closer' = DOMAIN closer \cup {d} /\ closer'[d] = "done"
          /\ \A e \in DOMAIN closer : closer'[e] = closer[e]
      BY <2>0, <3>1
    <3>3. Sending'
      BY <1>0, <2>0, <3>1, <3>2 DEF Sending
    <3> QED
      BY <1>0, <2>0, <2>2, <3>1, <3>2, <3>3, ClosingMoves
  <2> QED
    BY <2>1, <2>2
<1> QED
  BY <1>2, <1>3, <1>4

\* The last entry takes the place of the one that is removed.
LEMMA RemoveStep ==
    ASSUME SubIInv, NEW d \in Objs, RemoveDownTrack(d)
    PROVE  SubIInv'
<1>0. /\ adding \in AddingCalls /\ size \in Nat /\ dtrackOf \in Seq(Tracks)
      /\ slots \in [1 .. MaxObjs -> Nat] /\ crossed \in BOOLEAN
      /\ SubTypeOK /\ Room /\ Placed /\ Sending /\ Looking /\ LookupExact
      /\ MaxObjs \in Nat /\ size <= MaxObjs
  BY RoomForOne DEF SubIInv, SubTypeOK
<1>1. /\ d \in DOMAIN closer /\ closer[d] = "remove"
      /\ closer' = [closer EXCEPT ![d] = "negotiate"]
      /\ crossed' = (crossed \/ adding.at = "lookup")
      /\ UNCHANGED <<dtrackOf, stored, adding, calls, senders, pcState, crashed>>
      /\ slots' = [i \in DOMAIN slots |->
                      CASE i = size /\ PlaceOf(d) # {} -> 0
                        [] i \in PlaceOf(d) /\ i # size -> slots[size]
                        [] OTHER -> slots[i]]
      /\ size' = IF PlaceOf(d) # {} THEN size - 1 ELSE size
  BY DEF RemoveDownTrack, recvVars
<1>2. /\ DOMAIN closer' = DOMAIN closer /\ closer'[d] = "negotiate" /\ d \notin senders
      /\ \A e \in DOMAIN closer : e # d => closer'[e] = closer[e]
      /\ crossed' \in BOOLEAN /\ (~crossed' => ~crossed /\ adding.at # "lookup")
  <2>1. crossed' \in BOOLEAN /\ (~crossed' => ~crossed /\ adding.at # "lookup")
    BY <1>1, Zenon
  <2> QED
    BY <1>0, <1>1, <2>1 DEF Sending
\* From: where an entry of the new list was in the old one
<1>3. /\ slots' \in [1 .. MaxObjs -> Nat] /\ size' \in Nat /\ size' <= size
      /\ \E from \in [1 .. size' -> 1 .. size] :
            /\ \A i \in 1 .. size' : slots'[i] = slots[from[i]] /\ slots[from[i]] # d
            /\ \A i, j \in 1 .. size' : i # j => from[i] # from[j]
            /\ \A j \in 1 .. size : slots[j] # d => \E i \in 1 .. size' : from[i] = j
  <2>1. CASE PlaceOf(d) = {}
    <3>1. size' = size /\ slots' = slots
      BY <1>0, <1>1, <2>1
    <3>2. \A i \in 1 .. size : slots[i] # d
      BY <2>1 DEF PlaceOf
    <3>3. PICK from \in [1 .. size' -> 1 .. size] : \A i \in 1 .. size' : from[i] = i
      <4>1. [i \in 1 .. size' |-> i] \in [1 .. size' -> 1 .. size]
        BY <3>1
      <4> QED
        BY <4>1
    <3>4. \A i \in 1 .. size' : slots'[i] = slots[from[i]] /\ slots[from[i]] # d
      BY <3>1, <3>2, <3>3
    <3>5. /\ \A i, j \in 1 .. size' : i # j => from[i] # from[j]
          /\ \A j \in 1 .. size : slots[j] # d => \E i \in 1 .. size' : from[i] = j
      BY <3>1, <3>3
    <3>6. slots' \in [1 .. MaxObjs -> Nat] /\ size' \in Nat /\ size' <= size
      BY <1>0, <3>1
    <3> QED
      BY <3>4, <3>5, <3>6, Zenon
  <2>2. CASE PlaceOf(d) # {}
    <3>1. PICK p \in 1 .. size : slots[p] = d
      BY <2>2 DEF PlaceOf
    <3>2. \A i \in 1 .. size : i \in PlaceOf(d) <=> i = p
      BY <1>0, <3>1 DEF PlaceOf, Placed
    <3>3. PICK last \in Nat : last + 1 = size
      <4>1. size - 1 \in Nat /\ (size - 1) + 1 = size
        BY <1>0, <3>1
      <4> QED
        BY <4>1
    <3>4. size' = last
      BY <1>1, <2>2, <3>3
    <3>5. /\ \A i \in 1 .. last : i \in 1 .. size /\ i \in 1 .. MaxObjs /\ i # size
          /\ size \in 1 .. size /\ size \in 1 .. MaxObjs
          /\ \A i \in 1 .. size : i = size \/ i \in 1 .. last
      BY <1>0, <3>3
    <3>6. \A i \in 1 .. last : slots'[i] = IF i = p THEN slots[size] ELSE slots[i]
      BY <1>0, <1>1, <3>2, <3>5
    <3>7. slots' \in [1 .. MaxObjs -> Nat]
      <4>1. slots[size] \in Nat
        BY <1>0, <3>5
      <4> QED
        BY <1>0, <1>1, <4>1
    <3>8. PICK from \in [1 .. last -> 1 .. size] :
            \A i \in 1 .. last : from[i] = IF i = p THEN size ELSE i
      <4>1. [i \in 1 .. last |-> IF i = p THEN size ELSE i] \in [1 .. last -> 1 .. size]
        BY <3>5
      <4> QED
        BY <4>1
    <3>9. \A j \in 1 .. size : j # p => slots[j] # d
      BY <1>0, <3>1 DEF Placed
    <3>10. \A i \in 1 .. last : slots'[i] = slots[from[i]] /\ slots[from[i]] # d
      BY <3>5, <3>6, <3>8, <3>9
    <3>11. \A i, j \in 1 .. last : i # j => from[i] # from[j]
      BY <3>5, <3>8
    <3>12. ASSUME NEW j \in 1 .. size, slots[j] # d
           PROVE  \E i \in 1 .. last : from[i] = j
      <4>1. j # p
        BY <3>1, <3>12
      <4>2. CASE j = size
        <5>1. p \in 1 .. last /\ from[p] = size
          BY <3>5, <3>8, <4>1, <4>2
        <5> QED
          BY <4>2, <5>1
      <4>3. CASE j # size
        BY <3>5, <3>8, <4>1, <4>3
      <4> QED
        BY <4>2, <4>3
    <3>13. size' \in Nat /\ size' <= size
      BY <3>3, <3>4
    <3> QED
      BY <3>4, <3>7, <3>10, <3>11, <3>12, <3>13, SMTT(40)
  <2> QED
    BY <2>1, <2>2
<1>4. PICK from \in [1 .. size' -> 1 .. size] :
        /\ \A i \in 1 .. size' : slots'[i] = slots[from[i]] /\ slots[from[i]] # d
        /\ \A i, j \in 1 .. size' : i # j => from[i] # from[j]
        /\ \A j \in 1 .. size : slots[j] # d => \E i \in 1 .. size' : from[i] = j
  BY <1>3
<1>5. \A i \in 1 .. size' : from[i] \in 1 .. size
  BY <1>4
<1>6. SubTypeOK'
  BY <1>0, <1>1, <1>2, <1>3 DEF SubTypeOK
<1>7. Room'
  <2>1. PICK n \in Nat : n = Len(dtrackOf)
    BY <1>0
  <2>2. size' <= n
    BY <1>0, <1>3, <2>1 DEF Room
  <2> QED
    BY <1>0, <1>1, <2>1, <2>2 DEF Room
<1>8. Placed'
  <2>1. \A i \in 1 .. size' : slots'[i] \in 1 .. Len(dtrackOf')
    BY <1>0, <1>1, <1>4, <1>5 DEF Placed
  <2>2. ASSUME NEW i \in 1 .. size', NEW j \in 1 .. size', i # j
        PROVE  slots'[i] # slots'[j]
    <3>1. from[i] \in 1 .. size /\ from[j] \in 1 .. size /\ from[i] # from[j]
      BY <1>4, <1>5, <2>2
    <3>2. slots[from[i]] # slots[from[j]]
      BY <1>0, <3>1 DEF Placed
    <3> QED
      BY <1>4, <3>2
  <2> QED
    BY <2>1, <2>2 DEF Placed
<1>9. Sending'
  BY <1>0, <1>1, <1>2 DEF Sending
<1>10. Looking'
  BY <1>0, <1>1, <1>2 DEF Looking
<1>11. LookupExact'
  <2>1. Listed' = Listed \ {d}
    <3>1. ASSUME NEW x \in Listed' PROVE x \in Listed \ {d}
      BY <1>4, <1>5, <3>1 DEF Listed
    <3>2. ASSUME NEW x \in Listed \ {d} PROVE x \in Listed'
      <4>1. PICK j \in 1 .. size : slots[j] = x
        BY <3>2 DEF Listed
      <4>2. PICK i \in 1 .. size' : from[i] = j
        BY <1>4, <3>2, <4>1
      <4>3. slots'[i] = x
        BY <1>4, <4>1, <4>2
      <4> QED
        BY <4>3 DEF Listed
    <3> QED
      BY <3>1, <3>2
  <2>2. 0 \notin Listed'
    BY <1>0, <2>1 DEF LookupExact
  <2>3. pcState = "open" =>
           Listed' = senders \cup {e \in DOMAIN closer' : closer'[e] = "remove"}
    BY <1>0, <1>2, <2>1 DEF LookupExact
  <2>4. ASSUME ~crossed'
        PROVE  /\ ~crashed
               /\ \A i, j \in 1 .. size' : i # j => dtrackOf[slots'[i]] # dtrackOf[slots'[j]]
    <3>1. ~crashed /\ \A i, j \in 1 .. size : i # j => dtrackOf[slots[i]] # dtrackOf[slots[j]]
      BY <1>0, <1>2, <2>4 DEF LookupExact
    <3> QED
      BY <1>4, <1>5, <3>1
  <2>5. /\ pcState' = pcState /\ senders' = senders /\ dtrackOf' = dtrackOf
        /\ crashed' = crashed
    BY <1>1
  <2>6. ~crossed' => /\ ~crashed'
                     /\ \A i, j \in 1 .. size' :
                           i # j => dtrackOf'[slots'[i]] # dtrackOf'[slots'[j]]
    BY <2>4, <2>5
  <2>7. pcState' = "open" =>
           Listed' = senders' \cup {e \in DOMAIN closer' : closer'[e] = "remove"}
    BY <2>3, <2>5
  <2> QED
    BY <2>2, <2>6, <2>7, Zenon DEF LookupExact
<1> QED
  BY <1>6, <1>7, <1>8, <1>9, <1>10, <1>11 DEF SubIInv

\* AddDownTrack finds the DownTrack a track already has and never meets nil, unless a
\* removal crossed a lookup, and the list is what the PeerConnection sends, for any
\* number of tracks and of calls.
THEOREM ListIsExact == SubInit /\ [][SubNext]_subVars => []LookupExact
<1>1. SubInit => SubIInv
  <2>1. SUFFICES ASSUME SubInit PROVE SubIInv
    OBVIOUS
  <2>2. /\ slots = [i \in 1 .. MaxObjs |-> 0] /\ size = 0 /\ dtrackOf = <<>> /\ stored = {}
        /\ adding = Idle /\ calls = 0 /\ closer = <<>> /\ senders = {}
        /\ crashed = FALSE /\ crossed = FALSE
    BY <2>1 DEF SubInit
  <2>3. /\ <<>> \in Seq(Tracks) /\ Len(<<>>) = 0 /\ DOMAIN <<>> = {} /\ 1 .. 0 = {}
    OBVIOUS
  <2>4. Idle \in AddingCalls /\ Idle.at = "idle" /\ Idle.todo = {}
    BY DEF Idle, AddingCalls
  <2>5. SubTypeOK
    <3>1. slots \in [1 .. MaxObjs -> Nat]
      BY <2>2
    <3>2. calls \in 0 .. MaxCalls
      BY <2>2, SubAssumption
    <3>3. crossed \in BOOLEAN
      BY <2>2
    <3>4. /\ DOMAIN closer \subseteq 1 .. Len(dtrackOf)
          /\ stored \subseteq 1 .. Len(dtrackOf) /\ senders \subseteq 1 .. Len(dtrackOf)
      BY <2>2, <2>3
    <3> QED
      BY <2>2, <2>3, <2>4, <3>1, <3>2, <3>3, <3>4 DEF SubTypeOK
  <2>6. Room
    <3>1. PICK c \in Nat : c = Cardinality(Tracks)
      BY SubAssumption, FS_CardinalityType
    <3>2. Cardinality({}) = 0 /\ 0 * c = 0
      BY FS_EmptySet
    <3> QED
      BY <2>2, <2>3, <2>4, <3>1, <3>2 DEF Room
  <2>7. Placed /\ Sending /\ Looking
    BY <2>2, <2>3, <2>4 DEF Placed, Sending, Looking
  <2>8. LookupExact
    BY <2>2, <2>3 DEF LookupExact, Listed
  <2> QED
    BY <2>5, <2>6, <2>7, <2>8 DEF SubIInv
<1>2. SubIInv /\ [SubNext]_subVars => SubIInv'
  BY AddingStep, NewEntryStep, ClosingStep, RemoveStep DEF SubNext, AddSteps, CloseSteps
<1>3. SubIInv => LookupExact
  BY DEF SubIInv
<1> QED
  BY <1>1, <1>2, <1>3, PTL

-----------------------------------------------------------------------------
(* Rpc, for any set of calls, any number of connection attempts and any    *)
(* scenario, i.e. any number of lost connections and of messages delivered *)
(* twice                                                                   *)

Places == {"new", "sleep", "publish", "add", "wait", "delete", "returned"}
Results == {"none", "closed", "publishError", "timeout", "nil", "unmarshalError",
            "ErrBadHandler", "ErrInternalServer"}

RpcTypeOK ==
    /\ call \in [Calls -> [at : Places, result : Results]]
    /\ pending \subseteq Calls /\ done \subseteq Calls /\ requests \subseteq Calls
    /\ status \in [Calls -> Statuses \cup {NoStatus}]
    /\ got \in [Calls -> SUBSET Statuses]
    /\ \A a \in answers : a.call \in Calls /\ a.status \in Statuses
    /\ finding \subseteq [call : Calls, status : Statuses, at : {"set", "close"}]
    /\ delivery \in [Sides -> {"nil", "open", "closed"}]
    /\ stop \in [Sides -> BOOLEAN]
    /\ loop \in [Sides -> {"select", "connect", "report", "gone"}]
    /\ shutdown \in [Sides -> {"no", "sleep", "returned"}]

\* The status a closed done lets a caller read, and those getCall is about to store,
\* were found for this call
StatusInv ==
    /\ \A i \in done : status[i] \in got[i]
    /\ \A f \in finding : /\ f.status \in got[f.call]
                          /\ f.at = "close" => status[f.call] = f.status

\* While the broker repeats nothing, a call has one message: none before it is
\* published, then the request, the answer, the answer that getCall handles, and
\* done, each only once and never two of them
Early(i) == call[i].at \in {"new", "sleep", "publish"}
OneMessage ==
    /\ \A i \in requests : ~Early(i) /\ i \notin done
    /\ \A a \in answers : ~Early(a.call) /\ a.call \notin requests \cup done
    /\ \A f \in finding : ~Early(f.call) /\ f.call \notin requests \cup done
    /\ \A a, b \in answers : a.call = b.call => a = b
    /\ \A a \in answers, f \in finding : a.call # f.call
    /\ \A i \in done : ~Early(i)

\* The channel stop is closed by the loss of a connection, until the consumer has
\* connected again, or by Shutdown
StopInv ==
    \A e \in Sides :
        /\ stop[e] /\ loop[e] = "select" => shutdown[e] # "no"
        /\ stop[e] /\ shutdown[e] = "no" => delivery[e] # "nil"

RpcIInv ==
    /\ RpcTypeOK /\ StatusInv /\ StopInv /\ AnswersFit /\ PanicsExplained
    /\ repeated = {} => OneMessage

-----------------------------------------------------------------------------
\* The invariant holds of a client and a server that have connected.
LEMMA RpcStarts == RpcInit => RpcIInv
<1> SUFFICES ASSUME RpcInit PROVE RpcIInv
  OBVIOUS
<1>1. RpcTypeOK
  <2>1. /\ call = [i \in Calls |-> [at |-> "new", result |-> "none"]]
        /\ delivery = [e \in Sides |-> IF wired THEN "open" ELSE "nil"]
        /\ stop = [e \in Sides |-> FALSE] /\ loop = [e \in Sides |-> "select"]
        /\ shutdown = [e \in Sides |-> "no"]
        /\ pending = {} /\ done = {} /\ requests = {} /\ answers = {} /\ finding = {}
        /\ status = [i \in Calls |-> NoStatus] /\ got = [i \in Calls |-> {}]
    BY DEF RpcInit, EndsInit
  <2>2. call \in [Calls -> [at : Places, result : Results]]
    BY <2>1 DEF Places, Results
  <2>3. stop \in [Sides -> BOOLEAN] /\ delivery \in [Sides -> {"nil", "open", "closed"}]
    BY <2>1
  <2>4. /\ loop \in [Sides -> {"select", "connect", "report", "gone"}]
        /\ shutdown \in [Sides -> {"no", "sleep", "returned"}]
    BY <2>1
  <2>5. status \in [Calls -> Statuses \cup {NoStatus}] /\ got \in [Calls -> SUBSET Statuses]
    BY <2>1
  <2> QED
    BY <2>1, <2>2, <2>3, <2>4, <2>5 DEF RpcTypeOK
<1>2. StatusInv /\ StopInv /\ OneMessage
  BY DEF RpcInit, EndsInit, StatusInv, StopInv, OneMessage
<1>3. AnswersFit
  BY DEF RpcInit, AnswersFit, ErrorOf
<1>4. PanicsExplained
  BY DEF RpcInit, PanicsExplained
<1> QED
  BY <1>1, <1>2, <1>3, <1>4 DEF RpcIInv

-----------------------------------------------------------------------------
(* The steps of a call                                                     *)

\* What a step of the call i to `at`, with the result r, leaves to show.
LEMMA CallMoves ==
    ASSUME RpcIInv, NEW i \in Calls, NEW at \in Places, NEW r \in Results,
           call' = [call EXCEPT ![i] = [at |-> at, result |-> r]],
           \A said \in ErrorOf : r = said[2] => said[1] \in got[i],
           pending' \subseteq pending \cup {i},
           i \in pending' => at \in {"wait", "delete"},
           requests' = requests
             \/ (call[i].at = "publish" /\ at = "add" /\ requests' = requests \cup {i}),
           Early(i) \/ at \notin {"new", "sleep", "publish"},
           UNCHANGED <<endVars, done, status, finding, got, answers, repeated, panic>>
    PROVE  RpcIInv'
<1>1. /\ call'[i] = [at |-> at, result |-> r] /\ call'[i].at = at /\ call'[i].result = r
      /\ \A j \in Calls : j # i => call'[j] = call[j]
      /\ call' \in [Calls -> [at : Places, result : Results]]
  BY DEF RpcIInv, RpcTypeOK
<1>2. RpcTypeOK'
  BY <1>1 DEF RpcIInv, RpcTypeOK, endVars
<1>3. StatusInv' /\ StopInv' /\ PanicsExplained'
  BY DEF RpcIInv, StatusInv, StopInv, PanicsExplained, endVars
<1>4. AnswersFit'
  BY <1>1 DEF RpcIInv, AnswersFit
<1>5. ASSUME repeated' = {}
      PROVE  OneMessage'
  <2>1. OneMessage
    BY <1>5 DEF RpcIInv
  <2>2. \A j \in Calls : ~Early(j) => ~Early(j)'
    BY <1>1 DEF Early
  <2>3. \A j \in requests' : ~Early(j)'
    BY <1>1, <2>1, <2>2 DEF OneMessage, Early, RpcIInv, RpcTypeOK
  <2>4. /\ requests' \subseteq requests \cup {i}
        /\ i \in requests' /\ i \notin requests => Early(i)
    BY DEF Early
  <2>5. finding \subseteq [call : Calls, status : Statuses, at : {"set", "close"}]
        /\ done \subseteq Calls /\ \A a \in answers : a.call \in Calls
    BY DEF RpcIInv, RpcTypeOK
  <2>6. /\ \A a \in answers : ~Early(a.call)' /\ a.call \notin requests' \cup done
        /\ \A f \in finding : ~Early(f.call)' /\ f.call \notin requests' \cup done
        /\ \A j \in done : ~Early(j)' /\ j \notin requests'
    BY <2>1, <2>2, <2>4, <2>5 DEF OneMessage
  <2> QED
    BY <2>1, <2>3, <2>6 DEF OneMessage
<1> QED
  BY <1>2, <1>3, <1>4, <1>5 DEF RpcIInv

\* RemoteCall and its steps keep the invariant.
LEMMA CallStep ==
    ASSUME RpcIInv, NEW i \in Calls, RemoteCall(i) \/ CallSteps(i)
    PROVE  RpcIInv'
<1>0. /\ call \in [Calls -> [at : Places, result : Results]]
      /\ call[i].at \in Places /\ call[i].result \in Results
      /\ \A said \in ErrorOf : call[i].result = said[2] => said[1] \in got[i]
      /\ i \in pending => call[i].at \in {"wait", "delete"}
  BY DEF RpcIInv, RpcTypeOK, AnswersFit
<1>1. ASSUME NEW at
      PROVE  [call EXCEPT ![i].at = at]
                = [call EXCEPT ![i] = [at |-> at, result |-> call[i].result]]
  <2>1. call[i] \in [at : Places, result : Results]
    BY <1>0
  <2>2. [call[i] EXCEPT !.at = at] = [at |-> at, result |-> call[i].result]
    BY <2>1
  <2>3. [call EXCEPT ![i].at = at] = [call EXCEPT ![i] = [call[i] EXCEPT !.at = at]]
    BY <1>0
  <2> QED
    BY <2>2, <2>3
<1>2. /\ "closed" \in Results /\ "publishError" \in Results /\ "timeout" \in Results
      /\ \A said \in ErrorOf : said[2] \notin {"closed", "publishError", "timeout"}
  BY DEF ErrorOf, Results
<1>3. UNCHANGED <<endVars, done, status, finding, got, answers, repeated, panic>>
  BY DEF RemoteCall, CallSteps, TestAgain, publish, addCall, TimedOut, Answered, deleteCall,
         brokerVars
<1>4. CASE RemoteCall(i) \/ (TestAgain(i) /\ ~stop["client"])
  <2>1. PICK at \in {"sleep", "publish"} : call' = [call EXCEPT ![i].at = at]
    BY <1>4 DEF RemoteCall, TestAgain, At
  <2>2. /\ call' = [call EXCEPT ![i] = [at |-> at, result |-> call[i].result]]
        /\ Early(i) /\ i \notin pending /\ pending' = pending /\ requests' = requests
    BY <1>0, <1>1, <1>4, <2>1 DEF RemoteCall, TestAgain, Early, brokerVars
  <2> QED
    BY <1>0, <1>3, <2>2, CallMoves DEF Places
<1>5. CASE TestAgain(i) /\ stop["client"]
  <2>1. /\ call' = [call EXCEPT ![i] = [at |-> "returned", result |-> "closed"]]
        /\ call[i].at = "sleep" /\ pending' = pending /\ requests' = requests
    BY <1>5 DEF TestAgain, Result, brokerVars
  <2>2. i \notin pending
    BY <1>0, <2>1
  <2>3. \A said \in ErrorOf : "closed" = said[2] => said[1] \in got[i]
    BY <1>2
  <2> QED
    BY <1>2, <1>3, <2>1, <2>2, <2>3, CallMoves DEF Places
<1>6. CASE publish(i)
  <2>1. call[i].at = "publish" /\ pending' = pending /\ i \notin pending
    BY <1>0, <1>6 DEF publish
  <2>2. CASE At(i, "add") /\ requests' = requests \cup {i}
    <3>1. call' = [call EXCEPT ![i] = [at |-> "add", result |-> call[i].result]]
      BY <1>1, <2>2 DEF At
    <3> QED
      BY <1>0, <1>3, <2>1, <2>2, <3>1, CallMoves DEF Places
  <2>3. CASE Result(i, "returned", "publishError") /\ requests' = requests
    <3>1. call' = [call EXCEPT ![i] = [at |-> "returned", result |-> "publishError"]]
      BY <2>3 DEF Result
    <3>2. \A said \in ErrorOf : "publishError" = said[2] => said[1] \in got[i]
      BY <1>2
    <3> QED
      BY <1>2, <1>3, <2>1, <2>3, <3>1, <3>2, CallMoves DEF Places
  <2> QED
    BY <1>6, <2>2, <2>3 DEF publish
<1>7. CASE addCall(i)
  <2>1. /\ call' = [call EXCEPT ![i] = [at |-> "wait", result |-> call[i].result]]
        /\ pending' = pending \cup {i} /\ requests' = requests
    BY <1>1, <1>7 DEF addCall, At, brokerVars
  <2> QED
    BY <1>0, <1>3, <2>1, CallMoves DEF Places
<1>8. CASE TimedOut(i)
  <2>1. /\ call' = [call EXCEPT ![i] = [at |-> "delete", result |-> "timeout"]]
        /\ pending' = pending /\ requests' = requests
    BY <1>8 DEF TimedOut, Result, brokerVars
  <2>2. \A said \in ErrorOf : "timeout" = said[2] => said[1] \in got[i]
    BY <1>2
  <2> QED
    BY <1>0, <1>2, <1>3, <2>1, <2>2, CallMoves, ZenonT(60) DEF Places
<1>9. CASE Answered(i)
  <2>1. PICK s \in Statuses : s = status[i] /\ s \in got[i]
    BY <1>9 DEF Answered, RpcIInv, RpcTypeOK, StatusInv
  <2>a. /\ Outcome(s) \in Results
        /\ \A said \in ErrorOf : Outcome(s) = said[2] => said[1] = s
    BY DEF Outcome, Statuses, ErrorOf, Results
  <2>2. PICK r \in Results : r = Outcome(s) /\ \A said \in ErrorOf : r = said[2] => said[1] = s
    BY <2>a, Zenon
  <2>3. /\ call' = [call EXCEPT ![i] = [at |-> "delete", result |-> r]]
        /\ pending' = pending /\ requests' = requests
    BY <1>9, <2>1, <2>2 DEF Answered, Result, brokerVars
  <2>4. \A said \in ErrorOf : r = said[2] => said[1] \in got[i]
    BY <2>1, <2>2
  <2> QED
    BY <1>0, <1>3, <2>3, <2>4, CallMoves DEF Places
<1>10. CASE deleteCall(i)
  <2>1. /\ call' = [call EXCEPT ![i] = [at |-> "returned", result |-> call[i].result]]
        /\ pending' = pending \ {i} /\ requests' = requests
    BY <1>1, <1>10 DEF deleteCall, At, brokerVars
  <2> QED
    BY <1>0, <1>3, <2>1, CallMoves DEF Places
<1> QED
  BY <1>4, <1>5, <1>6, <1>7, <1>8, <1>9, <1>10 DEF CallSteps

-----------------------------------------------------------------------------
(* The messages                                                            *)

\* The client handles an answer: the lookup, the status and the close of done.
LEMMA AnswerStep ==
    ASSUME RpcIInv, NEW a \in answers, NEW again \in BOOLEAN, getCall(a, again)
    PROVE  RpcIInv'
<1>0. /\ finding = {} /\ a.call \in Calls /\ a.status \in Statuses
      /\ answers' \subseteq answers /\ (~again => answers' = answers \ {a})
      /\ repeated' = IF again THEN repeated \cup {a.call} ELSE repeated
      /\ UNCHANGED <<setup, endVars, call, pending, done, status, requests, panic>>
  BY DEF getCall, Reads, Repeat, RpcIInv, RpcTypeOK
<1>1. PICK f : f = [call |-> a.call, status |-> a.status, at |-> "set"]
  OBVIOUS
<1>2. /\ f \in [call : Calls, status : Statuses, at : {"set", "close"}]
      /\ f.call = a.call /\ f.status = a.status /\ f.at = "set"
  BY <1>0, <1>1
<1>3. /\ finding' = IF a.call \in pending THEN {f} ELSE {}
      /\ got' = IF a.call \in pending THEN [got EXCEPT ![a.call] = @ \cup {a.status}] ELSE got
  BY <1>1 DEF getCall
<1>4. /\ got' \in [Calls -> SUBSET Statuses]
      /\ \A i \in Calls : got[i] \subseteq got'[i]
      /\ a.call \in pending => a.status \in got'[a.call]
  BY <1>0, <1>3 DEF RpcIInv, RpcTypeOK
<1>5. RpcTypeOK'
  BY <1>0, <1>2, <1>3, <1>4 DEF RpcIInv, RpcTypeOK, endVars
<1>6. StatusInv'
  BY <1>0, <1>2, <1>3, <1>4 DEF RpcIInv, RpcTypeOK, StatusInv
<1>7. StopInv'
  BY <1>0 DEF RpcIInv, StopInv, endVars
<1>8. PanicsExplained'
  BY <1>0 DEF RpcIInv, PanicsExplained, endVars
<1>9. AnswersFit'
  BY <1>0, <1>4 DEF RpcIInv, AnswersFit
<1>10. ASSUME repeated' = {}
       PROVE  OneMessage'
  <2>1. ~again /\ repeated = {} /\ answers' = answers \ {a}
    BY <1>0, <1>10
  <2>2. OneMessage
    BY <2>1 DEF RpcIInv
  <2>3. \A j : Early(j)' <=> Early(j)
    BY <1>0 DEF Early
  <2>4. finding' \subseteq {f} /\ done' = done /\ requests' = requests
    BY <1>0, <1>3
  <2> QED
    BY <1>2, <2>1, <2>2, <2>3, <2>4 DEF OneMessage
<1> QED
  BY <1>5, <1>6, <1>7, <1>8, <1>9, <1>10 DEF RpcIInv

\* getCall stores the status.
LEMMA SetStep ==
    ASSUME RpcIInv, SetAnswer
    PROVE  RpcIInv'
<1>0. PICK f \in finding :
        /\ f.at = "set" /\ finding' = {[f EXCEPT !.at = "close"]}
        /\ status' = [status EXCEPT ![f.call] = f.status]
        /\ UNCHANGED <<setup, endVars, call, pending, done, got, brokerVars, panic>>
  BY DEF SetAnswer
<1>1. /\ f \in [call : Calls, status : Statuses, at : {"set", "close"}]
      /\ f.status \in got[f.call] /\ f.status \in Statuses /\ f.call \in Calls
  BY DEF RpcIInv, RpcTypeOK, StatusInv
<1>2. PICK g : g = [f EXCEPT !.at = "close"]
  OBVIOUS
<1>3. /\ g \in [call : Calls, status : Statuses, at : {"set", "close"}]
      /\ g.call = f.call /\ g.status = f.status /\ finding' = {g}
  BY <1>0, <1>1, <1>2
<1>4. /\ status' \in [Calls -> Statuses \cup {NoStatus}] /\ status'[f.call] = f.status
      /\ \A i \in Calls : i # f.call => status'[i] = status[i]
  BY <1>0, <1>1 DEF RpcIInv, RpcTypeOK
<1>5. RpcTypeOK'
  BY <1>0, <1>3, <1>4 DEF RpcIInv, RpcTypeOK, endVars, brokerVars
<1>6. StatusInv'
  BY <1>0, <1>1, <1>3, <1>4 DEF RpcIInv, RpcTypeOK, StatusInv
<1>7. StopInv' /\ PanicsExplained' /\ AnswersFit'
  BY <1>0 DEF RpcIInv, StopInv, PanicsExplained, AnswersFit, endVars, brokerVars
<1>8. ASSUME repeated' = {}
      PROVE  OneMessage'
  <2>1. OneMessage
    BY <1>0, <1>8 DEF RpcIInv, brokerVars
  <2>2. \A j : Early(j)' <=> Early(j)
    BY <1>0 DEF Early
  <2> QED
    BY <1>0, <1>3, <2>1, <2>2 DEF OneMessage, brokerVars
<1> QED
  BY <1>5, <1>6, <1>7, <1>8 DEF RpcIInv

\* getCall closes done: twice only if the broker has repeated a message.
LEMMA CloseStep ==
    ASSUME RpcIInv, panic = "no", CloseDone
    PROVE  RpcIInv'
<1>0. PICK f \in finding :
        /\ f.at = "close" /\ finding' = {} /\ done' = done \cup {f.call}
        /\ panic' = IF f.call \in done THEN "done" ELSE panic
        /\ UNCHANGED <<setup, endVars, call, pending, status, got, brokerVars>>
  BY DEF CloseDone
<1>1. /\ f.call \in Calls /\ status[f.call] \in got[f.call]
  BY <1>0 DEF RpcIInv, RpcTypeOK, StatusInv
<1>2. RpcTypeOK'
  BY <1>0, <1>1 DEF RpcIInv, RpcTypeOK, endVars, brokerVars
<1>3. StatusInv' /\ StopInv'
  BY <1>0, <1>1 DEF RpcIInv, StatusInv, StopInv, endVars
<1>4. AnswersFit'
  BY <1>0, <1>1 DEF RpcIInv, AnswersFit
<1>5. repeated = {} => f.call \notin done
  BY DEF RpcIInv, OneMessage
<1>6. PanicsExplained'
  BY <1>0, <1>5 DEF PanicsExplained, brokerVars
<1>7. ASSUME repeated' = {}
      PROVE  OneMessage'
  <2>1. OneMessage
    BY <1>0, <1>7 DEF RpcIInv, brokerVars
  <2>2. \A j : Early(j)' <=> Early(j)
    BY <1>0 DEF Early
  <2> QED
    BY <1>0, <2>1, <2>2 DEF OneMessage, brokerVars
<1> QED
  BY <1>2, <1>3, <1>4, <1>6, <1>7 DEF RpcIInv

\* The server answers a request.
LEMMA ServeStep ==
    ASSUME RpcIInv, NEW i \in requests, NEW again \in BOOLEAN, serveCall(i, again)
    PROVE  RpcIInv'
<1>0. /\ i \in Calls /\ requests' \subseteq requests /\ (~again => requests' = requests \ {i})
      /\ repeated' = IF again THEN repeated \cup {i} ELSE repeated
      /\ UNCHANGED <<setup, endVars, callVars, panic>>
  BY DEF serveCall, Repeat, RpcIInv, RpcTypeOK
<1>1. \/ answers' = answers
      \/ \E s \in Statuses : answers' = answers \cup {[call |-> i, status |-> s, n |-> repeats]}
  BY DEF serveCall, Publishes, Statuses
<1>2. CASE answers' = answers
  <2>1. RpcTypeOK' /\ StatusInv' /\ StopInv' /\ PanicsExplained' /\ AnswersFit'
    BY <1>0, <1>2 DEF RpcIInv, RpcTypeOK, StatusInv, StopInv, PanicsExplained, AnswersFit,
                      endVars, callVars
  <2>2. ASSUME repeated' = {}
        PROVE  OneMessage'
    <3>1. OneMessage
      BY <1>0, <2>2 DEF RpcIInv
    <3>2. \A j : Early(j)' <=> Early(j)
      BY <1>0 DEF Early, callVars
    <3> QED
      BY <1>0, <1>2, <3>1, <3>2 DEF OneMessage, callVars
  <2> QED
    BY <2>1, <2>2 DEF RpcIInv
<1>3. CASE answers' # answers
  <2>0. PICK s \in Statuses : answers' = answers \cup {[call |-> i, status |-> s, n |-> repeats]}
    BY <1>1, <1>3
  <2>1. PICK a : a = [call |-> i, status |-> s, n |-> repeats]
    OBVIOUS
  <2>2. answers' = answers \cup {a} /\ a.call = i /\ a.status = s
    BY <2>0, <2>1
  <2>3. RpcTypeOK'
    BY <1>0, <2>2 DEF RpcIInv, RpcTypeOK, endVars, callVars
  <2>4. StatusInv' /\ StopInv' /\ PanicsExplained' /\ AnswersFit'
    BY <1>0 DEF RpcIInv, StatusInv, StopInv, PanicsExplained, AnswersFit, endVars, callVars
  <2>5. ASSUME repeated' = {}
        PROVE  OneMessage'
    <3>1. OneMessage /\ requests' = requests \ {i}
      BY <1>0, <2>5 DEF RpcIInv
    <3>2. \A j : Early(j)' <=> Early(j)
      BY <1>0 DEF Early, callVars
    <3>3. done' = done /\ finding' = finding
      BY <1>0 DEF callVars
    <3> QED
      BY <2>2, <3>1, <3>2, <3>3 DEF OneMessage
  <2> QED
    BY <2>3, <2>4, <2>5 DEF RpcIInv
<1> QED
  BY <1>2, <1>3

-----------------------------------------------------------------------------
(* The life of a connection                                                *)

\* A loss, a reconnection or a Shutdown: what it leaves to show is what it does to
\* the channel stop.
LEMMA EndMoves ==
    ASSUME RpcIInv, UNCHANGED <<setup, callVars, brokerVars>>,
           delivery' \in [Sides -> {"nil", "open", "closed"}],
           stop' \in [Sides -> BOOLEAN],
           loop' \in [Sides -> {"select", "connect", "report", "gone"}],
           shutdown' \in [Sides -> {"no", "sleep", "returned"}],
           StopInv', PanicsExplained'
    PROVE  RpcIInv'
<1>1. RpcTypeOK' /\ StatusInv' /\ AnswersFit'
  BY DEF RpcIInv, RpcTypeOK, StatusInv, AnswersFit, callVars, brokerVars
<1>2. OneMessage => OneMessage'
  BY DEF OneMessage, Early, callVars, brokerVars
<1> QED
  BY <1>1, <1>2 DEF RpcIInv, brokerVars

\* The steps of a connection keep the invariant.
LEMMA EndStep ==
    ASSUME RpcIInv, panic = "no", NEW e \in Sides,
           LoopSteps(e) \/ LoseConnection(e) \/ Notify(e) \/ Shutdown(e) \/ Disconnect(e)
    PROVE  RpcIInv'
<1>0. /\ delivery \in [Sides -> {"nil", "open", "closed"}]
      /\ stop \in [Sides -> BOOLEAN]
      /\ loop \in [Sides -> {"select", "connect", "report", "gone"}]
      /\ shutdown \in [Sides -> {"no", "sleep", "returned"}]
      /\ StopInv
  BY DEF RpcIInv, RpcTypeOK
<1>1. UNCHANGED <<setup, callVars, brokerVars>>
  BY DEF LoopSteps, ConsumerStops, reconnect, Connected, ConnectFails, LoseConnection, Notify,
         Shutdown, Disconnect
<1>2. ASSUME panic' = panic
      PROVE  PanicsExplained'
  BY <1>2 DEF PanicsExplained
<1>3. CASE ConsumerStops(e)
  <2>1. /\ loop' = [loop EXCEPT ![e] = "gone"] /\ panic' = panic
        /\ UNCHANGED <<delivery, stop, shutdown>>
    BY <1>3 DEF ConsumerStops
  <2>2. StopInv'
    BY <1>0, <2>1 DEF StopInv
  <2> QED
    BY <1>0, <1>1, <1>2, <2>1, <2>2, EndMoves
<1>4. CASE reconnect(e)
  <2>1. /\ loop[e] = "select" /\ delivery[e] = "closed" /\ UNCHANGED <<delivery, shutdown>>
        /\ loop' = [loop EXCEPT ![e] = "connect"] /\ stop' = [stop EXCEPT ![e] = TRUE]
        /\ panic' = IF stop[e] THEN "stop" ELSE panic
    BY <1>4 DEF reconnect
  <2>2. StopInv'
    BY <1>0, <2>1 DEF StopInv
  <2>3. PanicsExplained'
    BY <1>0, <2>1 DEF StopInv, PanicsExplained
  <2>4. stop' \in [Sides -> BOOLEAN]
    BY <1>0, <2>1
  <2> QED
    BY <1>0, <1>1, <2>1, <2>2, <2>3, <2>4, EndMoves
<1>5. CASE Connected(e)
  <2>1. /\ loop' = [loop EXCEPT ![e] = "select"] /\ stop' = [stop EXCEPT ![e] = FALSE]
        /\ delivery' = [delivery EXCEPT ![e] = "open"] /\ UNCHANGED <<shutdown, panic>>
    BY <1>5 DEF Connected
  <2>2. StopInv'
    BY <1>0, <2>1 DEF StopInv
  <2>4. stop' \in [Sides -> BOOLEAN]
    BY <1>0, <2>1
  <2> QED
    BY <1>0, <1>1, <1>2, <2>1, <2>2, <2>4, EndMoves
<1>6. CASE ConnectFails(e)
  <2>1. /\ loop' = [loop EXCEPT ![e] = "report"] \/ loop' = loop
        /\ UNCHANGED <<delivery, stop, shutdown, panic>>
    BY <1>6 DEF ConnectFails
  <2>2. StopInv'
    BY <1>0, <2>1 DEF StopInv
  <2>3. loop' \in [Sides -> {"select", "connect", "report", "gone"}]
    BY <1>0, <2>1
  <2> QED
    BY <1>0, <1>1, <1>2, <2>1, <2>2, <2>3, EndMoves
<1>7. CASE LoseConnection(e)
  <2>1. /\ delivery' = [delivery EXCEPT ![e] = "closed"]
        /\ UNCHANGED <<stop, loop, shutdown, panic>>
    BY <1>7 DEF LoseConnection
  <2>2. StopInv'
    BY <1>0, <2>1 DEF StopInv
  <2> QED
    BY <1>0, <1>1, <1>2, <2>1, <2>2, EndMoves
<1>8. CASE Notify(e)
  <2>1. /\ loop' = [loop EXCEPT ![e] = "gone"] /\ UNCHANGED <<delivery, stop, shutdown, panic>>
    BY <1>8 DEF Notify, Reported
  <2>2. StopInv'
    BY <1>0, <2>1 DEF StopInv
  <2> QED
    BY <1>0, <1>1, <1>2, <2>1, <2>2, EndMoves
<1>9. CASE Shutdown(e)
  <2>1. shutdown[e] = "no" /\ delivery' = delivery
    BY <1>9 DEF Shutdown
  <2>2. CASE /\ loop' \in {loop, [loop EXCEPT ![e] = "gone"]} /\ UNCHANGED <<stop, panic>>
             /\ shutdown' = [shutdown EXCEPT ![e] = "returned"]
    <3>1. StopInv'
      BY <1>0, <2>1, <2>2 DEF StopInv
    <3>2. loop' \in [Sides -> {"select", "connect", "report", "gone"}]
      BY <1>0, <2>2
    <3> QED
      BY <1>0, <1>1, <1>2, <2>1, <2>2, <3>1, <3>2, EndMoves
  <2>3. CASE /\ loop' = loop /\ shutdown' = [shutdown EXCEPT ![e] = "sleep"]
             /\ stop' = [stop EXCEPT ![e] = TRUE]
             /\ panic' = IF stop[e] THEN "stop" ELSE panic
    <3>1. StopInv'
      BY <1>0, <2>1, <2>3 DEF StopInv
    <3>2. PanicsExplained'
      BY <1>0, <2>1, <2>3 DEF StopInv, PanicsExplained
    <3>3. stop' \in [Sides -> BOOLEAN]
      BY <1>0, <2>3
    <3> QED
      BY <1>0, <1>1, <2>1, <2>3, <3>1, <3>2, <3>3, EndMoves
  <2> QED
    BY <1>9, <2>2, <2>3 DEF Shutdown, Reported
<1>10. CASE Disconnect(e)
  <2>1. /\ shutdown[e] = "sleep" /\ shutdown' = [shutdown EXCEPT ![e] = "returned"]
        /\ UNCHANGED <<stop, loop, panic>>
        /\ \/ delivery' = delivery
           \/ \E d \in {"closed", "nil"} : delivery' = [delivery EXCEPT ![e] = d]
    BY <1>10 DEF Disconnect
  <2>2. delivery' \in [Sides -> {"nil", "open", "closed"}]
    BY <1>0, <2>1
  <2>3. StopInv'
    BY <1>0, <2>1 DEF StopInv
  <2> QED
    BY <1>0, <1>1, <1>2, <2>1, <2>2, <2>3, EndMoves
<1> QED
  BY <1>3, <1>4, <1>5, <1>6, <1>7, <1>8, <1>9, <1>10 DEF LoopSteps

-----------------------------------------------------------------------------
\* Every step keeps the invariant.
LEMMA RpcStep == RpcIInv /\ [RpcNext]_rpcVars => RpcIInv'
<1> SUFFICES ASSUME RpcIInv, [RpcNext]_rpcVars
             PROVE  RpcIInv'
  OBVIOUS
<1>1. CASE UNCHANGED rpcVars
  <2>1. /\ UNCHANGED <<setup, callVars, brokerVars>>
        /\ UNCHANGED <<delivery, stop, loop, shutdown, panic>>
    BY <1>1 DEF rpcVars, endVars
  <2>2. StopInv' /\ PanicsExplained'
    BY <2>1 DEF RpcIInv, StopInv, PanicsExplained, brokerVars
  <2>3. /\ delivery' \in [Sides -> {"nil", "open", "closed"}]
        /\ stop' \in [Sides -> BOOLEAN]
        /\ loop' \in [Sides -> {"select", "connect", "report", "gone"}]
        /\ shutdown' \in [Sides -> {"no", "sleep", "returned"}]
    BY <2>1 DEF RpcIInv, RpcTypeOK
  <2> QED
    BY <2>1, <2>2, <2>3, EndMoves
<1>2. CASE RpcNext
  BY <1>2, CallStep, AnswerStep, SetStep, CloseStep, ServeStep, EndStep DEF RpcNext
<1> QED
  BY <1>1, <1>2

\* A caller gets what the server said of its call and nothing else, the table of
\* pending calls holds no call that has returned, and an answer that comes too early
\* or too late changes nothing: for any number of calls, whatever the broker loses,
\* reorders or repeats.
THEOREM CallerGetsItsAnswer == RpcInit /\ [][RpcNext]_rpcVars => []AnswersFit
<1>1. RpcIInv => AnswersFit
  BY DEF RpcIInv
<1> QED
  BY <1>1, RpcStarts, RpcStep, PTL

\* The only ways to close a channel twice are a message that the broker delivered
\* twice and a Shutdown around a lost connection.
THEOREM ClosedOnce == RpcInit /\ [][RpcNext]_rpcVars => []PanicsExplained
<1>1. RpcIInv => PanicsExplained
  BY DEF RpcIInv
<1> QED
  BY <1>1, RpcStarts, RpcStep, PTL

-----------------------------------------------------------------------------
(* The audio observer: what its callers know                               *)

\* A set of natural numbers that is not empty has a least element.
LEMMA Least ==
    ASSUME NEW T \in SUBSET Nat, T # {}
    PROVE  \E n \in T : \A m \in T : n <= m
<1>1. IsWellFoundedOn(OpToRel(<, Nat), Nat)
  BY NatLessThanWellFounded, Zenon
<1>2. PICK x \in T : \A y \in T : ~(<<y, x>> \in OpToRel(<, Nat))
  BY <1>1, WFMin, Zenon
<1>3. \A y \in T : <<y, x>> \in OpToRel(<, Nat) <=> y < x
  BY DEF OpToRel
<1>4. \A y \in T : ~(y < x)
  BY <1>2, <1>3, Zenon
<1> QED
  BY <1>4

Stream == [id : StreamIds, sum : Nat, total : Nat]
Observe == [at : {"idle", "sum", "total"}, entry : Nat, level : Nat, loaded : Nat]

AudioTypes ==
    /\ streams \in Seq(Stream)
    /\ track \in [AudioTracks -> {"new", "live", "closed"}]
    /\ observing \in [AudioTracks -> Observe]
    /\ heard \in [StreamIds -> Nat] /\ loud \in [StreamIds -> Nat]
    /\ doubled \subseteq StreamIds
    /\ shown = previous

\* Tracks of stream s in the middle of observe
Pending(s) == {t \in AudioTracks : StreamOf[t] = s /\ observing[t].at # "idle"}

\* An observe call holds an entry of its own stream
Held ==
    \A t \in AudioTracks :
        \/ observing[t] = NotObserving
        \/ /\ observing[t].at # "idle" /\ track[t] = "live"
           /\ observing[t].entry \in EntriesOf(StreamOf[t])

\* Each live track has an entry of its own among those of its stream
LiveTracks == {t \in AudioTracks : track[t] = "live"}
IsPlacing(place, live, list) ==
    /\ place \in [live -> DOMAIN list]
    /\ \A t \in live : list[place[t]].id = StreamOf[t]
    /\ \A t, u \in live : place[t] = place[u] => t = u
Matched == \E place : IsPlacing(place, LiveTracks, streams)

\* A stream that is not doubled has one entry at most
Single == \A s \in StreamIds \ doubled : \A i, j \in EntriesOf(s) : i = j

\* No entry counts more than was heard, whatever updates were lost
Bounded ==
    /\ \A i \in DOMAIN streams :
          streams[i].total + Cardinality(Pending(streams[i].id)) <= heard[streams[i].id]
    /\ \A t \in AudioTracks :
          observing[t].at = "total" =>
              observing[t].loaded + Cardinality(Pending(StreamOf[t])) <= heard[StreamOf[t]]

\* What an entry has counted, and the observe call under way has loaded
Settled(e) == heard[e.id] = e.total /\ loud[e.id] = e.sum
InSum(e, o) ==
    o.loaded = e.sum /\ heard[e.id] = e.total + 1 /\ loud[e.id] = e.sum + o.level
InTotal(e, o) ==
    o.loaded = e.total /\ heard[e.id] = e.total + 1 /\ loud[e.id] = e.sum
Counted(e) ==
    /\ Pending(e.id) = {} => Settled(e)
    /\ \A t \in Pending(e.id) :
          \/ observing[t].at = "sum" /\ InSum(e, observing[t])
          \/ observing[t].at = "total" /\ InTotal(e, observing[t])
Exact ==
    /\ \A i \in DOMAIN streams : streams[i].id \notin doubled => Counted(streams[i])
    /\ \A s \in StreamIds \ doubled : EntriesOf(s) = {} => heard[s] = 0 /\ loud[s] = 0

\* Of the audio observer
AudioIInv == AudioTypes /\ Held /\ Matched /\ Single /\ Bounded /\ Exact

-----------------------------------------------------------------------------
(* The list that Calc makes                                                *)

\* A turn of the loop
Ranked(r, e) == IF e.total >= ExpectedTotal THEN Append(r, e.id) ELSE r

\* f is the table of the loop over the first n entries of q
IsRanking(f, q, n) ==
    f = [k \in 0 .. n |-> IF k = 0 THEN <<>> ELSE Ranked(f[k - 1], q[k])]

\* The list r names the entries of q up to n that were heard often enough: its places
\* are theirs, in their order.
RanksAt(q, r, n, g) ==
    /\ r \in Seq(StreamIds)
    /\ g \in [1 .. Len(r) -> 1 .. n]
    /\ \A i \in 1 .. Len(r) : r[i] = q[g[i]].id /\ q[g[i]].total >= ExpectedTotal
    /\ \A i, j \in 1 .. Len(r) : i < j => g[i] < g[j]
    /\ \A k \in 1 .. n : q[k].total >= ExpectedTotal => \E i \in 1 .. Len(r) : g[i] = k
Ranks(q, r, n) == \E g : RanksAt(q, r, n, g)

\* The loop has a table.
LEMMA RankingExists ==
    ASSUME NEW q, NEW n \in Nat
    PROVE  \E f : IsRanking(f, q, n)
<1> DEFINE T == {m \in Nat : ~\E f : IsRanking(f, q, m)}
<1>1. SUFFICES ASSUME T # {} PROVE FALSE
  OBVIOUS
<1>2. PICK m \in T : \A j \in T : m <= j
  BY <1>1, Least
<1>3. CASE m = 0
  <2>1. IsRanking([k \in 0 .. 0 |-> <<>>], q, 0)
    BY DEF IsRanking
  <2> QED
    BY <1>3, <2>1
<1>4. CASE m # 0
  <2>1. PICK f : IsRanking(f, q, m - 1)
    BY <1>2, <1>4
  <2> DEFINE g == [k \in 0 .. m |-> IF k = m THEN Ranked(f[m - 1], q[m]) ELSE f[k]]
  <2>2. IsRanking(g, q, m)
    BY <1>4, <2>1 DEF IsRanking
  <2> QED
    BY <2>2
<1> QED
  BY <1>3, <1>4

\* A turn adds the next entry, or passes over it.
LEMMA RankedNext ==
    ASSUME NEW q \in Seq(Stream), NEW n \in 1 .. Len(q), NEW r, Ranks(q, r, n - 1)
    PROVE  Ranks(q, Ranked(r, q[n]), n)
<1>1. PICK g : RanksAt(q, r, n - 1, g)
  BY DEF Ranks
<1>2. n \in Nat /\ n # 0 /\ \A k \in 1 .. n : k = n \/ k \in 1 .. n - 1
  OBVIOUS
<1>3. q[n].id \in StreamIds
  <2>1. q[n] \in Stream
    BY ElementOfSeq
  <2> QED
    BY <2>1 DEF Stream
<1>4. PICK m \in Nat : m = Len(r)
  BY <1>1 DEF RanksAt
<1>5. CASE q[n].total >= ExpectedTotal
  <2> DEFINE h == [i \in 1 .. m + 1 |-> IF i = m + 1 THEN n ELSE g[i]]
             s == Append(r, q[n].id)
  <2>1. s \in Seq(StreamIds) /\ Len(s) = m + 1 /\ s[m + 1] = q[n].id
        /\ \A i \in 1 .. m : s[i] = r[i]
    BY <1>1, <1>3, <1>4, AppendProperties DEF RanksAt
  <2> HIDE DEF s
  <2>2. \A i \in 1 .. m + 1 : i = m + 1 \/ i \in 1 .. m
    OBVIOUS
  <2>3. /\ g \in [1 .. m -> 1 .. n - 1]
        /\ \A i \in 1 .. m : r[i] = q[g[i]].id /\ q[g[i]].total >= ExpectedTotal
        /\ \A i, j \in 1 .. m : i < j => g[i] < g[j]
        /\ \A k \in 1 .. n - 1 : q[k].total >= ExpectedTotal => \E i \in 1 .. m : g[i] = k
    BY <1>1, <1>4 DEF RanksAt
  <2>4. h \in [1 .. m + 1 -> 1 .. n] /\ h[m + 1] = n /\ \A i \in 1 .. m : h[i] = g[i]
    BY <1>2, <2>3
  <2> HIDE DEF h
  <2>5. \A i \in 1 .. m + 1 : s[i] = q[h[i]].id /\ q[h[i]].total >= ExpectedTotal
    BY <1>5, <2>1, <2>2, <2>3, <2>4
  <2>6. ASSUME NEW i \in 1 .. m + 1, NEW j \in 1 .. m + 1, i < j
        PROVE  h[i] < h[j]
    <3>1. i \in 1 .. m /\ h[i] = g[i] /\ g[i] \in 1 .. n - 1
      BY <2>3, <2>4, <2>6
    <3>2. CASE j = m + 1
      BY <2>4, <3>1, <3>2
    <3>3. CASE j \in 1 .. m
      BY <2>3, <2>4, <2>6, <3>1, <3>3
    <3> QED
      BY <2>2, <3>2, <3>3
  <2>7. ASSUME NEW k \in 1 .. n, q[k].total >= ExpectedTotal
        PROVE  \E i \in 1 .. m + 1 : h[i] = k
    <3>1. CASE k = n
      BY <2>4, <3>1
    <3>2. CASE k \in 1 .. n - 1
      <4>1. PICK i \in 1 .. m : g[i] = k
        BY <2>3, <2>7, <3>2
      <4> QED
        BY <2>4, <4>1
    <3> QED
      BY <1>2, <3>1, <3>2
  <2>8. RanksAt(q, s, n, h)
    BY <2>1, <2>4, <2>5, <2>6, <2>7 DEF RanksAt
  <2>9. Ranked(r, q[n]) = s
    BY <1>5, Zenon DEF Ranked, s
  <2> QED
    BY <2>8, <2>9, Zenon DEF Ranks
<1>6. CASE ~(q[n].total >= ExpectedTotal)
  <2>1. g \in [1 .. Len(r) -> 1 .. n]
    BY <1>1, <1>2, <1>4 DEF RanksAt
  <2>2. RanksAt(q, r, n, g)
    BY <1>1, <1>2, <1>6, <2>1 DEF RanksAt
  <2>3. Ranked(r, q[n]) = r
    BY <1>6, Zenon DEF Ranked
  <2> QED
    BY <2>2, <2>3, Zenon DEF Ranks
<1> QED
  BY <1>5, <1>6

\* The list names the entries heard often enough, in their order.
LEMMA SpeakersRank ==
    ASSUME NEW q \in Seq(Stream)
    PROVE  Ranks(q, Speakers(q), Len(q))
<1> DEFINE n == Len(q)
           f == CHOOSE g : IsRanking(g, q, n)
<1>1. n \in Nat
  BY LenProperties
<1>2. IsRanking(f, q, n)
  BY <1>1, RankingExists, Zenon
<1>3. Speakers(q) = f[n]
  BY Zenon DEF Speakers, IsRanking, Ranked
<1> HIDE DEF f
<1>4. f[0] = <<>>
  BY <1>1, <1>2 DEF IsRanking
<1>5. ASSUME NEW k \in 1 .. n
      PROVE  f[k] = Ranked(f[k - 1], q[k])
  <2>1. k \in 0 .. n /\ k # 0
    BY <1>1
  <2> QED
    BY <1>2, <2>1 DEF IsRanking
<1> DEFINE T == {k \in Nat : k <= n /\ ~Ranks(q, f[k], k)}
<1>6. SUFFICES ASSUME T # {} PROVE FALSE
  BY <1>1, <1>3
<1>7. PICK k \in T : \A j \in T : k <= j
  BY <1>6, Least
<1>8. CASE k = 0
  <2>1. RanksAt(q, <<>>, 0, <<>>)
    <3>1. 1 .. 0 = {} /\ Len(<<>>) = 0 /\ <<>> \in Seq(StreamIds)
      OBVIOUS
    <3>2. <<>> \in [{} -> {}]
      OBVIOUS
    <3> QED
      BY <3>1, <3>2 DEF RanksAt
  <2> QED
    BY <1>4, <1>7, <1>8, <2>1 DEF Ranks
<1>9. CASE k # 0
  <2>1. k \in 1 .. n /\ k - 1 \in Nat /\ k - 1 <= n /\ ~(k <= k - 1)
    BY <1>1, <1>7, <1>9
  <2>2. k - 1 \notin T
    BY <1>7, <2>1
  <2>3. Ranks(q, f[k - 1], k - 1)
    BY <2>1, <2>2
  <2>4. Ranks(q, f[k], k)
    <3>1. f[k] = Ranked(f[k - 1], q[k])
      BY <1>5, <2>1
    <3> QED
      BY <2>1, <2>3, <3>1, RankedNext
  <2> QED
    BY <1>7, <2>4
<1> QED
  BY <1>8, <1>9

-----------------------------------------------------------------------------
(* The entries and who holds them                                          *)

\* What the types say of the list of streams.
LEMMA ListFacts ==
    ASSUME AudioTypes
    PROVE  /\ Len(streams) \in Nat /\ DOMAIN streams = 1 .. Len(streams)
           /\ \A i \in 1 .. Len(streams) :
                 /\ streams[i] \in Stream /\ streams[i].id \in StreamIds
                 /\ streams[i].sum \in Nat /\ streams[i].total \in Nat
           /\ \A t \in AudioTracks : StreamOf[t] \in StreamIds
<1>1. streams \in Seq(Stream)
  BY DEF AudioTypes
<1>2. Len(streams) \in Nat /\ DOMAIN streams = 1 .. Len(streams)
  BY <1>1, LenProperties
<1>3. ASSUME NEW i \in 1 .. Len(streams) PROVE streams[i] \in Stream
  BY <1>1, ElementOfSeq
<1> QED
  BY <1>2, <1>3 DEF Stream, StreamIds

\* A stream with an entry has a first one.
LEMMA FirstIs ==
    ASSUME AudioTypes, NEW s, EntriesOf(s) # {}
    PROVE  FirstOf(s) \in EntriesOf(s) /\ \A i \in EntriesOf(s) : FirstOf(s) <= i
<1>1. EntriesOf(s) \in SUBSET Nat
  BY ListFacts DEF EntriesOf
<1>2. \E i \in EntriesOf(s) : \A j \in EntriesOf(s) : i <= j
  BY <1>1, Least
<1> QED
  BY <1>2 DEF FirstOf

\* A stream that is not doubled has one live track at most.
LEMMA LoneTrack ==
    ASSUME Matched, Single, NEW t \in LiveTracks, NEW u \in LiveTracks,
           StreamOf[t] = StreamOf[u], StreamOf[t] \in StreamIds \ doubled
    PROVE  t = u
<1>1. PICK place : IsPlacing(place, LiveTracks, streams)
  BY DEF Matched
<1>2. place[t] \in EntriesOf(StreamOf[t]) /\ place[u] \in EntriesOf(StreamOf[t])
  BY <1>1 DEF IsPlacing, EntriesOf
<1>3. place[t] = place[u]
  BY <1>2 DEF Single
<1> QED
  BY <1>1, <1>3 DEF IsPlacing

\* A live track has an entry.
LEMMA LiveHasEntry ==
    ASSUME Matched, NEW t \in LiveTracks
    PROVE  EntriesOf(StreamOf[t]) # {}
<1>1. PICK place : IsPlacing(place, LiveTracks, streams)
  BY DEF Matched
<1> QED
  BY <1>1 DEF IsPlacing, EntriesOf

\* Finitely many tracks are in observe; none of them if nobody is.
LEMMA PendingFacts ==
    ASSUME NEW s
    PROVE  /\ IsFiniteSet(Pending(s)) /\ Cardinality(Pending(s)) \in Nat
           /\ Unread => Pending(s) = {} /\ Cardinality(Pending(s)) = 0
<1>1. Pending(s) \in SUBSET AudioTracks
  BY DEF Pending
<1>2. IsFiniteSet(Pending(s))
  BY <1>1, FS_Subset, AudioAssumption
<1>3. Cardinality(Pending(s)) \in Nat
  BY <1>2, FS_CardinalityType
<1>4. Unread => Pending(s) = {}
  BY DEF Unread, Pending, NotObserving
<1> QED
  BY <1>2, <1>3, <1>4, FS_EmptySet

\* Who is in observe is live, and holds an entry.
LEMMA PendingLive ==
    ASSUME AudioTypes, Held, NEW s, NEW t \in Pending(s)
    PROVE  /\ t \in AudioTracks /\ StreamOf[t] = s /\ t \in LiveTracks
           /\ observing[t].entry \in EntriesOf(s)
BY DEF Held, Pending, LiveTracks, NotObserving

-----------------------------------------------------------------------------
(* Steps that keep the invariant                                           *)

\* It holds at first.
LEMMA AudioStarts ==
    ASSUME AudioInit
    PROVE  AudioIInv
<1>1. streams = <<>> /\ Len(streams) = 0 /\ DOMAIN streams = {}
  BY DEF AudioInit
<1>2. AudioTypes
  BY <1>1 DEF AudioInit, AudioTypes, NotObserving, Zero, Observe
<1>3. \A s : EntriesOf(s) = {}
  BY <1>1 DEF EntriesOf
<1>4. Held /\ Single
  BY <1>3 DEF AudioInit, Held, Single
<1>5. Matched
  <2>1. LiveTracks = {}
    BY DEF AudioInit, LiveTracks
  <2>2. IsPlacing([t \in {} |-> 0], {}, streams)
    BY DEF IsPlacing
  <2> QED
    BY <2>1, <2>2 DEF Matched
<1>6. Bounded
  BY <1>1 DEF AudioInit, Bounded, NotObserving
<1>7. Exact
  BY <1>1 DEF AudioInit, Exact, Zero
<1> QED
  BY <1>2, <1>4, <1>5, <1>6, <1>7 DEF AudioIInv

\* A track is added: its entry is the last one, and counts nothing.
LEMMA AddKeeps ==
    ASSUME AudioIInv, NEW t \in AudioTracks, addStream(t)
    PROVE  AudioIInv'
<1> DEFINE n == Len(streams)
           x == StreamOf[t]
           e == [id |-> x, sum |-> 0, total |-> 0]
<1>1. AudioTypes /\ Held /\ Matched /\ Single /\ Bounded /\ Exact
  BY DEF AudioIInv
<1>2. /\ track[t] = "new" /\ Unread /\ UNCHANGED <<observing, heard, loud, shown, previous>>
      /\ track' = [track EXCEPT ![t] = "live"] /\ streams' = Append(streams, e)
      /\ doubled' = IF EntriesOf(x) # {} THEN doubled \cup {x} ELSE doubled
  BY DEF addStream
<1>3. n \in Nat /\ DOMAIN streams = 1 .. n /\ x \in StreamIds /\ e \in Stream
  BY <1>1, ListFacts DEF Stream
<1>4. /\ streams' \in Seq(Stream) /\ DOMAIN streams' = 1 .. n + 1
      /\ streams'[n + 1] = e /\ \A i \in 1 .. n : streams'[i] = streams[i]
  BY <1>1, <1>2, <1>3, AppendProperties, LenProperties DEF AudioTypes
<1> HIDE DEF n, x
<1>5. AudioTypes'
  BY <1>1, <1>2, <1>3, <1>4 DEF AudioTypes
<1>6. \A s : Pending(s)' = {} /\ Cardinality(Pending(s)') = 0
  <2>1. ASSUME NEW s PROVE Pending(s)' = Pending(s)
    BY <1>2 DEF Pending
  <2> QED
    BY <1>2, <2>1, PendingFacts, Zenon
<1>7. Held'
  BY <1>2 DEF Unread, Held
<1>8. \A i \in 1 .. n + 1 : i = n + 1 \/ i \in 1 .. n
  BY <1>3
<1>9. ASSUME NEW s
      PROVE  EntriesOf(s)' = EntriesOf(s) \cup (IF s = x THEN {n + 1} ELSE {})
  <2>1. EntriesOf(s)' = {i \in 1 .. n + 1 : streams'[i].id = s}
    BY <1>4 DEF EntriesOf
  <2>2. EntriesOf(s) = {i \in 1 .. n : streams[i].id = s}
    BY <1>3 DEF EntriesOf
  <2>3. n + 1 \in 1 .. n + 1 /\ 1 .. n \subseteq 1 .. n + 1 /\ streams'[n + 1].id = x
    BY <1>3, <1>4
  <2> QED
    BY <1>4, <1>8, <2>1, <2>2, <2>3
<1>10. Single'
  <2>1. SUFFICES ASSUME NEW s \in StreamIds, s \notin doubled',
                        NEW i \in EntriesOf(s)', NEW j \in EntriesOf(s)'
                 PROVE  i = j
    BY DEF Single, StreamIds
  <2>2. s \notin doubled /\ (s = x => EntriesOf(s) = {})
    BY <1>2, <2>1
  <2> QED
    BY <1>1, <1>9, <2>1, <2>2 DEF Single
<1>11. Matched'
  <2>1. PICK place : IsPlacing(place, LiveTracks, streams)
    BY <1>1 DEF Matched
  <2>2. LiveTracks' = LiveTracks \cup {t} /\ t \notin LiveTracks
    BY <1>1, <1>2 DEF LiveTracks, AudioTypes
  <2> DEFINE next == [u \in LiveTracks \cup {t} |-> IF u = t THEN n + 1 ELSE place[u]]
  <2>3. /\ place \in [LiveTracks -> 1 .. n]
        /\ \A u \in LiveTracks : streams[place[u]].id = StreamOf[u]
        /\ \A u, v \in LiveTracks : place[u] = place[v] => u = v
    BY <1>3, <2>1 DEF IsPlacing
  <2>4. /\ next \in [LiveTracks \cup {t} -> 1 .. n + 1] /\ next[t] = n + 1
        /\ \A u \in LiveTracks : next[u] = place[u] /\ next[u] \in 1 .. n /\ next[u] # n + 1
    BY <1>3, <2>2, <2>3
  <2> HIDE DEF next
  <2>5. IsPlacing(next, LiveTracks \cup {t}, streams')
    <3>1. \A u \in LiveTracks \cup {t} : streams'[next[u]].id = StreamOf[u]
      BY <1>4, <2>3, <2>4 DEF x
    <3>2. \A u, v \in LiveTracks \cup {t} : next[u] = next[v] => u = v
      BY <2>3, <2>4
    <3> QED
      BY <1>4, <2>4, <3>1, <3>2 DEF IsPlacing
  <2> QED
    BY <2>2, <2>5 DEF Matched
<1>12. Bounded'
  <2>1. ASSUME NEW i \in 1 .. n + 1
        PROVE  (streams[i].total + Cardinality(Pending(streams[i].id)) <= heard[streams[i].id])'
    <3>1. CASE i = n + 1
      <4>1. streams'[i].total = 0 /\ streams'[i].id = x
        BY <1>4, <3>1
      <4>2. heard'[x] \in Nat /\ Cardinality(Pending(x)') = 0
        BY <1>1, <1>2, <1>3, <1>6 DEF AudioTypes
      <4> QED
        BY <4>1, <4>2
    <3>2. CASE i \in 1 .. n
      <4>1. streams[i].total + Cardinality(Pending(streams[i].id)) <= heard[streams[i].id]
        BY <1>1, <1>3, <3>2 DEF Bounded
      <4>2. Cardinality(Pending(streams[i].id)) = 0
        BY <1>2, PendingFacts
      <4> QED
        BY <1>2, <1>4, <1>6, <3>2, <4>1, <4>2
    <3> QED
      BY <1>8, <3>1, <3>2
  <2>2. \A u \in AudioTracks : observing'[u].at # "total"
    BY <1>2 DEF Unread, NotObserving
  <2> QED
    BY <1>4, <2>1, <2>2 DEF Bounded
<1>13. Exact'
  <2>1. ASSUME NEW i \in 1 .. n + 1, streams'[i].id \notin doubled'
        PROVE  Counted(streams[i])'
    <3>1. CASE i = n + 1
      <4>1. x \notin doubled /\ EntriesOf(x) = {}
        BY <1>2, <1>4, <2>1, <3>1
      <4>2. heard[x] = 0 /\ loud[x] = 0
        BY <1>1, <1>3, <4>1 DEF Exact
      <4> QED
        BY <1>2, <1>4, <1>6, <3>1, <4>2 DEF Counted, Settled
    <3>2. CASE i \in 1 .. n
      <4>1. streams[i].id \notin doubled
        BY <1>2, <1>4, <2>1, <3>2
      <4>2. Counted(streams[i])
        BY <1>1, <1>3, <3>2, <4>1 DEF Exact
      <4>3. Settled(streams[i])
        BY <1>2, <4>2, PendingFacts DEF Counted
      <4> QED
        BY <1>2, <1>4, <1>6, <3>2, <4>3 DEF Counted, Settled
    <3> QED
      BY <1>8, <3>1, <3>2
  <2>2. ASSUME NEW s \in StreamIds, s \notin doubled', EntriesOf(s)' = {}
        PROVE  heard'[s] = 0 /\ loud'[s] = 0
    <3>1. EntriesOf(s) = {} /\ s \notin doubled
      BY <1>2, <1>9, <2>2
    <3> QED
      BY <1>1, <1>2, <3>1 DEF Exact
  <2> QED
    BY <1>4, <2>1, <2>2 DEF Exact, StreamIds
<1> QED
  BY <1>5, <1>7, <1>10, <1>11, <1>12, <1>13 DEF AudioIInv

\* What is left after the removal: every entry but the first of s, the last one in its
\* place.
LEMMA WithoutIs ==
    ASSUME AudioTypes, NEW s, EntriesOf(s) # {}
    PROVE  /\ Without(s) \in Seq(Stream) /\ Len(Without(s)) = Len(streams) - 1
           /\ \A i \in 1 .. Len(streams) - 1 :
                 Without(s)[i] = streams[IF i = FirstOf(s) THEN Len(streams) ELSE i]
<1>1. PICK n \in Nat : n = Len(streams)
  BY ListFacts
<1>2. PICK k \in 1 .. n : k = FirstOf(s)
  BY <1>1, FirstIs, ListFacts DEF EntriesOf
<1>3. streams \in Seq(Stream) /\ streams \in [1 .. n -> Stream]
  BY <1>1, ListFacts DEF AudioTypes
<1> DEFINE q == [streams EXCEPT ![k] = streams[n]]
<1>4. /\ q \in [1 .. n -> Stream]
      /\ \A i \in 1 .. n : q[i] = streams[IF i = k THEN n ELSE i]
  BY <1>2, <1>3
<1>5. q \in Seq(Stream) /\ Len(q) = n
  <2>1. streams[n] \in Stream
    BY <1>2, <1>3
  <2> QED
    BY <1>1, <1>2, <1>3, <2>1, ExceptSeq
<1>6. Without(s) = SubSeq(q, 1, n - 1)
  BY <1>1, <1>2, Zenon DEF Without
<1> HIDE DEF q
<1>7. /\ SubSeq(q, 1, n - 1) \in Seq(Stream) /\ Len(SubSeq(q, 1, n - 1)) = n - 1
      /\ \A i \in 1 .. n - 1 : SubSeq(q, 1, n - 1)[i] = q[i]
  BY <1>2, <1>5
<1> QED
  BY <1>1, <1>2, <1>4, <1>6, <1>7

\* A track is removed with the first entry of its stream; a live track that had this
\* entry takes the removed track's.
LEMMA RemoveKeeps ==
    ASSUME AudioIInv, NEW t \in AudioTracks, removeStream(t)
    PROVE  AudioIInv'
<1> DEFINE n == Len(streams)
           x == StreamOf[t]
           k == FirstOf(x)
<1>1. AudioTypes /\ Held /\ Matched /\ Single /\ Bounded /\ Exact
  BY DEF AudioIInv
<1>2. /\ track[t] = "live" /\ Unread /\ UNCHANGED <<observing, shown, previous, doubled>>
      /\ track' = [track EXCEPT ![t] = "closed"]
      /\ heard' = [heard EXCEPT ![x] = IF x \in doubled THEN @ ELSE 0]
      /\ loud' = [loud EXCEPT ![x] = IF x \in doubled THEN @ ELSE 0]
  BY DEF removeStream
<1>3. t \in LiveTracks /\ EntriesOf(x) # {}
  BY <1>1, <1>2, LiveHasEntry DEF LiveTracks
<1>4. streams' = Without(x)
  BY <1>3 DEF removeStream
<1>5. n \in Nat /\ DOMAIN streams = 1 .. n /\ x \in StreamIds
  BY <1>1, ListFacts
<1>6. k \in 1 .. n /\ streams[k].id = x
  BY <1>1, <1>3, <1>5, FirstIs DEF EntriesOf
<1>7. /\ streams' \in Seq(Stream) /\ DOMAIN streams' = 1 .. n - 1
      /\ \A i \in 1 .. n - 1 : streams'[i] = streams[IF i = k THEN n ELSE i]
  <2>1. PICK q : q = Without(x)
    OBVIOUS
  <2>2. /\ q \in Seq(Stream) /\ Len(q) = n - 1
        /\ \A i \in 1 .. n - 1 : q[i] = streams[IF i = k THEN n ELSE i]
    BY <1>1, <1>3, <2>1, WithoutIs, Zenon
  <2> HIDE DEF n, x, k
  <2>3. DOMAIN q = 1 .. n - 1
    BY <2>2, LenProperties
  <2> QED
    BY <1>4, <2>1, <2>2, <2>3, Zenon
<1>8. heard \in [StreamIds -> Nat] /\ loud \in [StreamIds -> Nat]
  BY <1>1 DEF AudioTypes
<1> HIDE DEF n, x, k
<1>9. AudioTypes'
  BY <1>1, <1>2, <1>5, <1>7, <1>8 DEF AudioTypes
<1>10. \A s : /\ Pending(s)' = {} /\ Cardinality(Pending(s)') = 0
              /\ Pending(s) = {} /\ Cardinality(Pending(s)) = 0
  <2>1. ASSUME NEW s PROVE Pending(s)' = Pending(s)
    BY <1>2 DEF Pending
  <2> QED
    BY <1>2, <2>1, PendingFacts, Zenon
<1>11. Held'
  BY <1>2 DEF Unread, Held
\* Where an entry comes from
<1> DEFINE From(i) == IF i = k THEN n ELSE i
<1>12. ASSUME NEW i \in 1 .. n - 1
       PROVE  From(i) \in 1 .. n /\ From(i) # k /\ streams'[i] = streams[From(i)]
  BY <1>5, <1>6, <1>7
<1>13. \A i, j \in 1 .. n - 1 : From(i) = From(j) => i = j
  BY <1>5, <1>6
<1>14. ASSUME NEW j \in 1 .. n, j # k
       PROVE  \E i \in 1 .. n - 1 : From(i) = j
  <2>1. CASE j = n
    <3>1. k \in 1 .. n - 1 /\ From(k) = n
      BY <1>5, <1>6, <1>14, <2>1
    <3> QED
      BY <2>1, <3>1
  <2>2. CASE j # n
    <3>1. j \in 1 .. n - 1 /\ From(j) = j
      BY <1>5, <1>14, <2>2
    <3> QED
      BY <3>1
  <2> QED
    BY <2>1, <2>2
<1> HIDE DEF From
<1>15. ASSUME NEW s, NEW i \in EntriesOf(s)'
       PROVE  i \in 1 .. n - 1 /\ From(i) \in EntriesOf(s)
  BY <1>5, <1>7, <1>12, <1>15 DEF EntriesOf
<1>16. Single'
  <2>1. SUFFICES ASSUME NEW s \in StreamIds, s \notin doubled,
                        NEW i \in EntriesOf(s)', NEW j \in EntriesOf(s)'
                 PROVE  i = j
    BY <1>2 DEF Single, StreamIds
  <2> QED
    BY <1>1, <1>13, <1>15, <2>1 DEF Single
<1>17. Matched'
  <2>1. PICK place : IsPlacing(place, LiveTracks, streams)
    BY <1>1 DEF Matched
  <2>2. LiveTracks' = LiveTracks \ {t}
    BY <1>1, <1>2 DEF LiveTracks, AudioTypes
  <2>3. /\ place \in [LiveTracks -> 1 .. n]
        /\ \A u \in LiveTracks : streams[place[u]].id = StreamOf[u]
        /\ \A u, v \in LiveTracks : place[u] = place[v] => u = v
    BY <1>5, <2>1 DEF IsPlacing
  <2> DEFINE moved == [u \in LiveTracks \ {t} |-> IF place[u] = k THEN place[t] ELSE place[u]]
  <2>4. ASSUME NEW u \in LiveTracks \ {t}
        PROVE  moved[u] \in 1 .. n /\ moved[u] # k /\ streams[moved[u]].id = StreamOf[u]
    <3>1. place[u] # place[t]
      BY <1>3, <2>3, <2>4
    <3>2. CASE place[u] = k
      BY <1>3, <1>6, <2>3, <3>1, <3>2 DEF x
    <3>3. CASE place[u] # k
      BY <2>3, <3>3
    <3> QED
      BY <3>2, <3>3
  <2>5. \A u, v \in LiveTracks \ {t} : moved[u] = moved[v] => u = v
    BY <1>3, <2>3
  <2> HIDE DEF moved
  <2> DEFINE next == [u \in LiveTracks \ {t} |->
                         CHOOSE i \in 1 .. n - 1 : From(i) = moved[u]]
  <2>6. ASSUME NEW u \in LiveTracks \ {t}
        PROVE  next[u] \in 1 .. n - 1 /\ From(next[u]) = moved[u]
    <3>1. \E i \in 1 .. n - 1 : From(i) = moved[u]
      BY <1>14, <2>4
    <3> QED
      BY <3>1
  <2>7. next \in [LiveTracks \ {t} -> 1 .. n - 1]
    BY <2>6
  <2> HIDE DEF next
  <2>8. \A u \in LiveTracks \ {t} : streams'[next[u]].id = StreamOf[u]
    BY <1>12, <2>4, <2>6
  <2>9. \A u, v \in LiveTracks \ {t} : next[u] = next[v] => u = v
    BY <2>5, <2>6
  <2>10. IsPlacing(next, LiveTracks \ {t}, streams')
    BY <1>7, <2>7, <2>8, <2>9 DEF IsPlacing
  <2> QED
    BY <2>2, <2>10 DEF Matched
\* An entry that is left belongs to another stream, or to one that is doubled
<1>18. ASSUME NEW i \in 1 .. n - 1
       PROVE  streams'[i].id = x => x \in doubled
  <2>1. SUFFICES ASSUME streams'[i].id = x, x \notin doubled PROVE FALSE
    OBVIOUS
  <2>2. From(i) \in EntriesOf(x) /\ k \in EntriesOf(x) /\ From(i) # k
    BY <1>5, <1>6, <1>12, <2>1 DEF EntriesOf
  <2> QED
    BY <1>1, <1>5, <2>1, <2>2 DEF Single
<1>19. ASSUME NEW i \in 1 .. n - 1
       PROVE  /\ heard'[streams'[i].id] = heard[streams'[i].id]
              /\ loud'[streams'[i].id] = loud[streams'[i].id]
  <2>1. streams'[i].id \in StreamIds
    BY <1>1, <1>5, <1>12, ListFacts
  <2> QED
    BY <1>2, <1>8, <1>18, <2>1
<1>20. Bounded'
  <2>1. ASSUME NEW i \in 1 .. n - 1
        PROVE  (streams[i].total + Cardinality(Pending(streams[i].id)) <= heard[streams[i].id])'
    <3>1. streams'[i] = streams[From(i)] /\ From(i) \in 1 .. n
      BY <1>12
    <3>2. /\ streams[From(i)].total + Cardinality(Pending(streams[From(i)].id))
                 <= heard[streams[From(i)].id]
      BY <1>1, <1>5, <3>1 DEF Bounded
    <3>3. streams[From(i)].total + 0 <= heard[streams[From(i)].id]
      BY <1>10, <3>2
    <3>4. (Cardinality(Pending(streams[i].id)))' = 0
      BY <1>10
    <3> QED
      BY <1>19, <3>1, <3>3, <3>4
  <2>2. \A u \in AudioTracks : observing'[u].at # "total"
    BY <1>2 DEF Unread, NotObserving
  <2> QED
    BY <1>7, <2>1, <2>2 DEF Bounded
<1>21. Exact'
  <2>1. ASSUME NEW i \in 1 .. n - 1, streams'[i].id \notin doubled
        PROVE  Counted(streams[i])'
    <3>1. streams'[i] = streams[From(i)] /\ From(i) \in 1 .. n
      BY <1>12
    <3>2. Counted(streams[From(i)])
      BY <1>1, <1>5, <2>1, <3>1 DEF Exact
    <3>3. Settled(streams[From(i)])
      BY <1>10, <3>2 DEF Counted
    <3>4. Settled(streams[i])'
      BY <1>19, <3>1, <3>3 DEF Settled
    <3> QED
      BY <1>10, <3>4 DEF Counted
  <2>2. ASSUME NEW s \in StreamIds, s \notin doubled, EntriesOf(s)' = {}
        PROVE  heard'[s] = 0 /\ loud'[s] = 0
    <3>1. CASE s = x
      BY <1>2, <1>8, <2>2, <3>1
    <3>2. CASE s # x
      <4>1. ASSUME NEW j \in EntriesOf(s) PROVE FALSE
        <5>1. j \in 1 .. n /\ streams[j].id = s /\ j # k
          BY <1>5, <1>6, <3>2, <4>1 DEF EntriesOf
        <5>2. PICK i \in 1 .. n - 1 : From(i) = j
          BY <1>14, <5>1
        <5>3. i \in EntriesOf(s)'
          BY <1>7, <1>12, <5>1, <5>2 DEF EntriesOf
        <5> QED
          BY <2>2, <5>3
      <4> QED
        BY <1>1, <1>2, <1>8, <2>2, <3>2, <4>1 DEF Exact
    <3> QED
      BY <3>1, <3>2
  <2> QED
    BY <1>2, <1>7, <2>1, <2>2 DEF Exact, StreamIds
<1> QED
  BY <1>9, <1>11, <1>16, <1>17, <1>20, <1>21 DEF AudioIInv

\* Where no entry and no track comes or goes, the entries are matched as before.
LEMMA SameEntries ==
    ASSUME AudioIInv, UNCHANGED <<track, doubled>>, DOMAIN streams' = DOMAIN streams,
           \A i \in DOMAIN streams : streams'[i].id = streams[i].id
    PROVE  (\A s : EntriesOf(s)' = EntriesOf(s)) /\ Single' /\ Matched'
<1>1. ASSUME NEW s PROVE EntriesOf(s)' = EntriesOf(s)
  BY DEF EntriesOf
<1>2. Single'
  <2>1. Single
    BY DEF AudioIInv
  <2> QED
    BY <1>1, <2>1 DEF Single, StreamIds
<1>3. Matched'
  <2>1. PICK place : IsPlacing(place, LiveTracks, streams)
    BY DEF AudioIInv, Matched
  <2>2. LiveTracks' = LiveTracks
    BY DEF LiveTracks
  <2>3. IsPlacing(place, LiveTracks, streams')
    BY <2>1 DEF IsPlacing
  <2> QED
    BY <2>2, <2>3 DEF Matched
<1> QED
  BY <1>1, <1>2, <1>3

\* Who is in observe for a stream that is not doubled is there alone, with its only
\* entry.
LEMMA OnlyObserver ==
    ASSUME AudioIInv, NEW t \in LiveTracks, StreamOf[t] \in StreamIds \ doubled
    PROVE  /\ \A u \in Pending(StreamOf[t]) : u = t
           /\ \A i, j \in EntriesOf(StreamOf[t]) : i = j
<1>1. AudioTypes /\ Held /\ Matched /\ Single
  BY DEF AudioIInv
<1>2. ASSUME NEW u \in Pending(StreamOf[t]) PROVE u = t
  <2>1. u \in LiveTracks /\ StreamOf[u] = StreamOf[t]
    BY <1>1, <1>2, PendingLive
  <2> QED
    BY <1>1, <2>1, LoneTrack
<1>3. \A i, j \in EntriesOf(StreamOf[t]) : i = j
  BY <1>1 DEF Single
<1> QED
  BY <1>2, <1>3

\* An entry that no step touches, of a stream that no step touches, counts what it did.
LEMMA CountedOn ==
    ASSUME NEW i, Counted(streams[i]), streams'[i] = streams[i],
           heard'[streams[i].id] = heard[streams[i].id],
           loud'[streams[i].id] = loud[streams[i].id],
           NEW s, s = streams[i].id, Pending(s)' = Pending(s),
           \A u \in Pending(s) : observing'[u] = observing[u]
    PROVE  Counted(streams[i])'
<1>1. Pending(streams[i].id)' = Pending(s)
  BY Zenon
<1>2. Settled(streams[i])' <=> Settled(streams[i])
  BY DEF Settled
<1>3. ASSUME NEW u \in Pending(s)
      PROVE  /\ InSum(streams[i], observing[u])' <=> InSum(streams[i], observing[u])
             /\ InTotal(streams[i], observing[u])' <=> InTotal(streams[i], observing[u])
  BY <1>3 DEF InSum, InTotal
<1> QED
  BY <1>1, <1>2, <1>3 DEF Counted

\* A packet is heard: it is pending until both of its updates are stored.
LEMMA ObserveKeeps ==
    ASSUME AudioIInv, NEW t \in AudioTracks, NEW level \in Levels, observe(t, level),
           EntriesOf(StreamOf[t]) # {}, level <= Threshold
    PROVE  AudioIInv'
<1> DEFINE n == Len(streams)
           x == StreamOf[t]
           k == FirstOf(x)
           o == [at |-> "sum", entry |-> k, level |-> level, loaded |-> streams[k].sum]
<1>1. AudioTypes /\ Held /\ Matched /\ Single /\ Bounded /\ Exact
  BY DEF AudioIInv
<1>2. /\ track[t] = "live" /\ observing[t] = NotObserving
      /\ observing' = [observing EXCEPT ![t] = o]
      /\ heard' = [heard EXCEPT ![x] = @ + 1] /\ loud' = [loud EXCEPT ![x] = @ + level]
      /\ UNCHANGED <<streams, previous, track, shown, doubled>>
  BY DEF observe
<1>3. n \in Nat /\ DOMAIN streams = 1 .. n /\ x \in StreamIds /\ level \in Nat
  BY <1>1, ListFacts, AudioAssumption
<1>4. k \in EntriesOf(x) /\ k \in 1 .. n /\ streams[k].id = x
  BY <1>1, <1>3, FirstIs DEF EntriesOf
<1>5. /\ heard \in [StreamIds -> Nat] /\ loud \in [StreamIds -> Nat]
      /\ observing \in [AudioTracks -> Observe]
  BY <1>1 DEF AudioTypes
<1>6. \A i \in 1 .. n : /\ streams[i].id \in StreamIds /\ streams[i].sum \in Nat
                        /\ streams[i].total \in Nat
  BY <1>1, ListFacts
<1>7. (\A s : EntriesOf(s)' = EntriesOf(s)) /\ Single' /\ Matched'
  <2>1. DOMAIN streams' = DOMAIN streams /\ \A i \in DOMAIN streams : streams'[i].id = streams[i].id
    BY <1>2
  <2> QED
    BY <1>2, <2>1, SameEntries
<1>8. t \in LiveTracks
  BY <1>2 DEF LiveTracks
<1> HIDE DEF n, x, k
<1>9. observing'[t] = o /\ \A u \in AudioTracks : u # t => observing'[u] = observing[u]
  BY <1>2, <1>5
<1>10. AudioTypes'
  <2>1. o \in Observe
    BY <1>3, <1>4, <1>6 DEF Observe
  <2>2. observing' \in [AudioTracks -> Observe]
    BY <1>2, <1>5, <2>1
  <2>3. heard' \in [StreamIds -> Nat] /\ loud' \in [StreamIds -> Nat]
    BY <1>2, <1>3, <1>5
  <2> QED
    BY <1>1, <1>2, <2>2, <2>3 DEF AudioTypes
<1>11. Held'
  BY <1>1, <1>2, <1>4, <1>7, <1>9 DEF Held, x
<1>12. /\ Pending(x)' = Pending(x) \cup {t} /\ t \notin Pending(x)
       /\ \A s : s # x => Pending(s)' = Pending(s)
  BY <1>2, <1>9 DEF Pending, NotObserving, x
<1>13. Cardinality(Pending(x)') = Cardinality(Pending(x)) + 1
  BY <1>12, PendingFacts, FS_AddElement
<1>14. \A s : Cardinality(Pending(s)) \in Nat
  BY PendingFacts
<1>15. /\ heard'[x] = heard[x] + 1 /\ loud'[x] = loud[x] + level
       /\ \A s \in StreamIds : s # x => heard'[s] = heard[s] /\ loud'[s] = loud[s]
  BY <1>2, <1>3, <1>5
\* A bound on what was heard of a stream holds on
<1>16. ASSUME NEW s \in StreamIds, NEW b \in Nat, b + Cardinality(Pending(s)) <= heard[s]
       PROVE  b + Cardinality(Pending(s)') <= heard'[s]
  <2>1. CASE s = x
    BY <1>5, <1>13, <1>14, <1>15, <1>16, <2>1
  <2>2. CASE s # x
    BY <1>12, <1>15, <1>16, <2>2
  <2> QED
    BY <2>1, <2>2
<1>17. Bounded'
  <2>1. ASSUME NEW i \in 1 .. n
        PROVE  (streams[i].total + Cardinality(Pending(streams[i].id)) <= heard[streams[i].id])'
    <3>1. streams[i].total + Cardinality(Pending(streams[i].id)) <= heard[streams[i].id]
      BY <1>1, <1>3 DEF Bounded
    <3> QED
      BY <1>2, <1>6, <1>16, <3>1
  <2>2. ASSUME NEW u \in AudioTracks, observing'[u].at = "total"
        PROVE  observing'[u].loaded + Cardinality(Pending(StreamOf[u])') <= heard'[StreamOf[u]]
    <3>1. u # t /\ observing'[u] = observing[u]
      BY <1>9, <2>2
    <3>2. observing[u].loaded + Cardinality(Pending(StreamOf[u])) <= heard[StreamOf[u]]
      BY <1>1, <2>2, <3>1 DEF Bounded
    <3>3. observing[u].loaded \in Nat /\ StreamOf[u] \in StreamIds
      BY <1>1, <1>5, ListFacts DEF Observe
    <3> QED
      BY <1>16, <3>1, <3>2, <3>3
  <2> QED
    BY <1>2, <1>3, <2>1, <2>2 DEF Bounded
<1>18. Exact'
  <2>1. ASSUME NEW i \in 1 .. n, streams[i].id \notin doubled
        PROVE  Counted(streams[i])'
    <3>1. Counted(streams[i])
      BY <1>1, <1>3, <2>1 DEF Exact
    <3>2. CASE streams[i].id = x
      <4>1. Pending(x) = {}
        BY <1>3, <1>8, <1>12, <2>1, <3>2, OnlyObserver DEF x
      <4>2. i = k
        BY <1>3, <1>4, <1>8, <2>1, <3>2, OnlyObserver DEF x, EntriesOf
      <4>3. Settled(streams[k])
        BY <3>1, <3>2, <4>1, <4>2 DEF Counted
      <4>4. heard[x] = streams[k].total /\ loud[x] = streams[k].sum
        BY <1>4, <4>3 DEF Settled
      <4>5. Pending(x)' = {t}
        BY <1>12, <4>1
      <4>6. heard'[x] = streams[k].total + 1 /\ loud'[x] = streams[k].sum + level
        BY <1>15, <4>4
      <4>7. (InSum(streams[i], observing[t]))'
        BY <1>2, <1>4, <1>9, <4>2, <4>6 DEF InSum
      <4>8. (Pending(streams[i].id))' = {t} /\ observing'[t].at = "sum"
        BY <1>2, <1>9, <3>2, <4>5
      <4> QED
        BY <4>7, <4>8 DEF Counted
    <3>3. CASE streams[i].id # x
      <4>1. PICK s : s = streams[i].id
        OBVIOUS
      <4>2. Pending(s)' = Pending(s)
        BY <1>12, <3>3, <4>1
      <4>3. \A u \in Pending(s) : observing'[u] = observing[u]
        BY <1>9, <3>3, <4>1 DEF Pending, x
      <4>4. heard'[streams[i].id] = heard[streams[i].id] /\ loud'[streams[i].id] = loud[streams[i].id]
        BY <1>2, <1>6, <1>15, <3>3
      <4> QED
        BY <1>2, <3>1, <4>1, <4>2, <4>3, <4>4, CountedOn
    <3> QED
      BY <3>2, <3>3
  <2>2. ASSUME NEW s \in StreamIds, s \notin doubled, EntriesOf(s) = {}
        PROVE  heard'[s] = 0 /\ loud'[s] = 0
    BY <1>1, <1>4, <1>15, <2>2 DEF Exact
  <2> QED
    BY <1>2, <1>3, <1>7, <2>1, <2>2 DEF Exact, StreamIds
<1> QED
  BY <1>7, <1>10, <1>11, <1>17, <1>18 DEF AudioIInv

\* The sum is stored and the total loaded.
LEMMA SumKeeps ==
    ASSUME AudioIInv, NEW t \in AudioTracks, observeSum(t)
    PROVE  AudioIInv'
<1> DEFINE n == Len(streams)
           x == StreamOf[t]
           k == observing[t].entry
           b == observing[t].loaded + observing[t].level
<1>1. AudioTypes /\ Held /\ Matched /\ Single /\ Bounded /\ Exact
  BY DEF AudioIInv
<1>2. /\ observing[t].at = "sum" /\ streams' = [streams EXCEPT ![k].sum = b]
      /\ observing' = [observing EXCEPT ![t].at = "total", ![t].loaded = streams[k].total]
      /\ UNCHANGED <<previous, track, shown, heard, loud, doubled>>
  BY DEF observeSum
<1>3. n \in Nat /\ DOMAIN streams = 1 .. n /\ x \in StreamIds
  BY <1>1, ListFacts
<1>4. observing \in [AudioTracks -> Observe]
  BY <1>1 DEF AudioTypes
<1>5. t \in Pending(x) /\ t \in LiveTracks /\ k \in EntriesOf(x)
  BY <1>1, <1>2, PendingLive DEF Pending
<1>6. k \in 1 .. n /\ streams[k].id = x
  BY <1>3, <1>5 DEF EntriesOf
<1>7. b \in Nat
  BY <1>4 DEF Observe
<1>8. \A i \in 1 .. n : /\ streams[i] \in Stream /\ streams[i].id \in StreamIds
                        /\ streams[i].sum \in Nat /\ streams[i].total \in Nat
  BY <1>1, ListFacts
<1>9. /\ streams' \in Seq(Stream) /\ DOMAIN streams' = 1 .. n
      /\ streams'[k] = [streams[k] EXCEPT !.sum = b]
      /\ \A i \in 1 .. n : i # k => streams'[i] = streams[i]
  <2>1. [streams[k] EXCEPT !.sum = b] \in Stream
    BY <1>6, <1>7, <1>8 DEF Stream
  <2>2. streams \in Seq(Stream)
    BY <1>1 DEF AudioTypes
  <2> HIDE DEF k, b
  <2>3. streams' = [streams EXCEPT ![k] = [streams[k] EXCEPT !.sum = b]]
    BY <1>2, Zenon
  <2>4. streams' \in Seq(Stream)
    BY <1>6, <2>1, <2>2, <2>3, ExceptSeq
  <2> QED
    BY <1>3, <1>6, <2>3, <2>4
<1> HIDE DEF n, x, k, b
<1>10. /\ observing'[t].at = "total" /\ observing'[t].loaded = streams[k].total
       /\ observing'[t].entry = k /\ observing' \in [AudioTracks -> Observe]
       /\ \A u \in AudioTracks : u # t => observing'[u] = observing[u]
  BY <1>2, <1>4, <1>6, <1>8 DEF Observe, k
<1>11. \A i \in 1 .. n : streams'[i].id = streams[i].id /\ streams'[i].total = streams[i].total
  BY <1>6, <1>8, <1>9 DEF Stream
<1>12. streams'[k].sum = b
  BY <1>6, <1>8, <1>9 DEF Stream
<1>13. (\A s : EntriesOf(s)' = EntriesOf(s)) /\ Single' /\ Matched'
  <2>1. DOMAIN streams' = DOMAIN streams /\ \A i \in DOMAIN streams : streams'[i].id = streams[i].id
    BY <1>3, <1>9, <1>11
  <2> QED
    BY <1>2, <2>1, SameEntries
<1>14. AudioTypes'
  BY <1>1, <1>2, <1>9, <1>10 DEF AudioTypes
<1>15. Held'
  <2>1. ASSUME NEW u \in AudioTracks, observing'[u] # NotObserving
        PROVE  /\ observing'[u].at # "idle" /\ track[u] = "live"
               /\ observing'[u].entry \in EntriesOf(StreamOf[u])
    <3>1. CASE u = t
      BY <1>5, <1>10, <3>1 DEF LiveTracks, x
    <3>2. CASE u # t
      BY <1>1, <1>10, <2>1, <3>2 DEF Held
    <3> QED
      BY <3>1, <3>2
  <2> QED
    BY <1>2, <1>13, <2>1 DEF Held
<1>16. ASSUME NEW s PROVE Pending(s)' = Pending(s)
  BY <1>2, <1>10 DEF Pending
<1>17. Bounded'
  <2>1. ASSUME NEW i \in 1 .. n
        PROVE  (streams[i].total + Cardinality(Pending(streams[i].id)) <= heard[streams[i].id])'
    <3>1. streams[i].total + Cardinality(Pending(streams[i].id)) <= heard[streams[i].id]
      BY <1>1, <1>3 DEF Bounded
    <3>2. (Cardinality(Pending(streams[i].id)))' = Cardinality(Pending(streams[i].id))
      BY <1>11, <1>16
    <3> QED
      BY <1>2, <1>11, <3>1, <3>2
  <2>2. ASSUME NEW u \in AudioTracks, observing'[u].at = "total"
        PROVE  observing'[u].loaded + Cardinality(Pending(StreamOf[u])') <= heard[StreamOf[u]]
    <3>1. CASE u = t
      <4>1. streams[k].total + Cardinality(Pending(x)) <= heard[x]
        BY <1>1, <1>3, <1>6 DEF Bounded
      <4> QED
        BY <1>10, <1>16, <3>1, <4>1 DEF x
    <3>2. CASE u # t
      BY <1>1, <1>10, <1>16, <2>2, <3>2 DEF Bounded
    <3> QED
      BY <3>1, <3>2
  <2> QED
    BY <1>2, <1>9, <2>1, <2>2 DEF Bounded
<1>18. Exact'
  <2>1. ASSUME NEW i \in 1 .. n, streams[i].id \notin doubled
        PROVE  Counted(streams[i])'
    <3>1. Counted(streams[i])
      BY <1>1, <1>3, <2>1 DEF Exact
    <3>2. CASE streams[i].id = x
      <4>1. i = k /\ \A u \in Pending(x) : u = t
        BY <1>3, <1>5, <2>1, <3>2, OnlyObserver DEF x, EntriesOf
      <4>2. InSum(streams[k], observing[t])
        BY <1>2, <1>5, <1>6, <3>1, <4>1 DEF Counted
      <4>3. heard[x] = streams[k].total + 1 /\ loud[x] = b
        BY <1>6, <4>2 DEF InSum, b
      <4>4. (InTotal(streams[i], observing[t]))'
        BY <1>2, <1>6, <1>10, <1>11, <1>12, <4>1, <4>3 DEF InTotal
      <4>5. (Pending(streams[i].id))' = Pending(x) /\ Pending(x) # {}
        BY <1>5, <1>11, <1>16, <3>2
      <4> QED
        BY <1>10, <4>1, <4>4, <4>5 DEF Counted
    <3>3. CASE streams[i].id # x
      <4>1. PICK s : s = streams[i].id
        OBVIOUS
      <4>2. Pending(s)' = Pending(s)
        BY <1>16, <3>3, <4>1
      <4>3. \A u \in Pending(s) : observing'[u] = observing[u]
        BY <1>10, <3>3, <4>1 DEF Pending, x
      <4>4. streams'[i] = streams[i]
        BY <1>6, <1>9, <3>3
      <4> QED
        BY <1>2, <3>1, <4>1, <4>2, <4>3, <4>4, CountedOn
    <3> QED
      BY <3>2, <3>3
  <2> QED
    BY <1>1, <1>2, <1>9, <1>11, <1>13, <2>1 DEF Exact, StreamIds
<1> QED
  BY <1>13, <1>14, <1>15, <1>17, <1>18 DEF AudioIInv

\* The total is stored: the packet is counted.
LEMMA TotalKeeps ==
    ASSUME AudioIInv, NEW t \in AudioTracks, observeTotal(t)
    PROVE  AudioIInv'
<1> DEFINE n == Len(streams)
           x == StreamOf[t]
           k == observing[t].entry
           b == observing[t].loaded + 1
<1>1. AudioTypes /\ Held /\ Matched /\ Single /\ Bounded /\ Exact
  BY DEF AudioIInv
<1>2. /\ observing[t].at = "total" /\ streams' = [streams EXCEPT ![k].total = b]
      /\ observing' = [observing EXCEPT ![t] = NotObserving]
      /\ UNCHANGED <<previous, track, shown, heard, loud, doubled>>
  BY DEF observeTotal
<1>3. n \in Nat /\ DOMAIN streams = 1 .. n /\ x \in StreamIds
  BY <1>1, ListFacts
<1>4. observing \in [AudioTracks -> Observe]
  BY <1>1 DEF AudioTypes
<1>5. t \in Pending(x) /\ t \in LiveTracks /\ k \in EntriesOf(x)
  BY <1>1, <1>2, PendingLive DEF Pending
<1>6. k \in 1 .. n /\ streams[k].id = x
  BY <1>3, <1>5 DEF EntriesOf
<1>7. b \in Nat
  BY <1>4 DEF Observe
<1>8. \A i \in 1 .. n : /\ streams[i] \in Stream /\ streams[i].id \in StreamIds
                        /\ streams[i].sum \in Nat /\ streams[i].total \in Nat
  BY <1>1, ListFacts
<1>9. /\ streams' \in Seq(Stream) /\ DOMAIN streams' = 1 .. n
      /\ streams'[k] = [streams[k] EXCEPT !.total = b]
      /\ \A i \in 1 .. n : i # k => streams'[i] = streams[i]
  <2>1. [streams[k] EXCEPT !.total = b] \in Stream
    BY <1>6, <1>7, <1>8 DEF Stream
  <2>2. streams \in Seq(Stream)
    BY <1>1 DEF AudioTypes
  <2> HIDE DEF k, b
  <2>3. streams' = [streams EXCEPT ![k] = [streams[k] EXCEPT !.total = b]]
    BY <1>2, Zenon
  <2>4. streams' \in Seq(Stream)
    BY <1>6, <2>1, <2>2, <2>3, ExceptSeq
  <2> QED
    BY <1>3, <1>6, <2>3, <2>4
<1>10. b = observing[t].loaded + 1
  OBVIOUS
<1> HIDE DEF n, x, k, b
<1>11. /\ observing'[t] = NotObserving /\ observing' \in [AudioTracks -> Observe]
       /\ \A u \in AudioTracks : u # t => observing'[u] = observing[u]
  BY <1>2, <1>4 DEF Observe, NotObserving
<1>12. /\ \A i \in 1 .. n : streams'[i].id = streams[i].id /\ streams'[i].sum = streams[i].sum
       /\ streams'[k].total = b
  BY <1>6, <1>8, <1>9 DEF Stream
<1>13. (\A s : EntriesOf(s)' = EntriesOf(s)) /\ Single' /\ Matched'
  <2>1. DOMAIN streams' = DOMAIN streams /\ \A i \in DOMAIN streams : streams'[i].id = streams[i].id
    BY <1>3, <1>9, <1>12
  <2> QED
    BY <1>2, <2>1, SameEntries
<1>14. AudioTypes'
  BY <1>1, <1>2, <1>9, <1>11 DEF AudioTypes
<1>15. Held'
  BY <1>1, <1>2, <1>11, <1>13 DEF Held
<1>16. /\ Pending(x)' = Pending(x) \ {t}
       /\ \A s : s # x => Pending(s)' = Pending(s)
  BY <1>2, <1>11 DEF Pending, NotObserving, x
<1>17. /\ \A s : Cardinality(Pending(s)) \in Nat
       /\ Cardinality(Pending(x)') = Cardinality(Pending(x)) - 1
  BY <1>5, <1>16, PendingFacts, FS_RemoveElement
<1>18. heard \in [StreamIds -> Nat]
  BY <1>1 DEF AudioTypes
\* A bound on what was heard of a stream holds on
<1>19. ASSUME NEW s \in StreamIds, NEW c \in Nat, c + Cardinality(Pending(s)) <= heard[s]
       PROVE  c + Cardinality(Pending(s)') <= heard[s]
  <2>1. CASE s = x
    BY <1>17, <1>18, <1>19, <2>1
  <2>2. CASE s # x
    BY <1>16, <1>19, <2>2
  <2> QED
    BY <2>1, <2>2
<1>20. Bounded'
  <2>1. ASSUME NEW i \in 1 .. n
        PROVE  (streams[i].total + Cardinality(Pending(streams[i].id)) <= heard[streams[i].id])'
    <3>1. CASE i = k
      <4>1. observing[t].loaded + Cardinality(Pending(x)) <= heard[x]
        BY <1>1, <1>2 DEF Bounded, x
      <4>2. observing[t].loaded \in Nat /\ heard[x] \in Nat
        BY <1>3, <1>4, <1>18 DEF Observe
      <4>3. b + Cardinality(Pending(x)') <= heard[x]
        BY <1>10, <1>17, <4>1, <4>2
      <4> QED
        BY <1>2, <1>6, <1>12, <3>1, <4>3
    <3>2. CASE i # k
      <4>1. streams[i].total + Cardinality(Pending(streams[i].id)) <= heard[streams[i].id]
        BY <1>1, <1>3 DEF Bounded
      <4>2. PICK s \in StreamIds : s = streams[i].id
        BY <1>8
      <4>3. streams[i].total + Cardinality(Pending(s)') <= heard[s]
        BY <1>8, <1>19, <4>1, <4>2
      <4>4. streams'[i] = streams[i]
        BY <1>9, <3>2
      <4> QED
        BY <1>2, <4>2, <4>3, <4>4
    <3> QED
      BY <3>1, <3>2
  <2>2. ASSUME NEW u \in AudioTracks, observing'[u].at = "total"
        PROVE  observing'[u].loaded + Cardinality(Pending(StreamOf[u])') <= heard[StreamOf[u]]
    <3>1. u # t /\ observing'[u] = observing[u]
      BY <1>11, <2>2 DEF NotObserving
    <3>2. observing[u].loaded + Cardinality(Pending(StreamOf[u])) <= heard[StreamOf[u]]
      BY <1>1, <2>2, <3>1 DEF Bounded
    <3>3. observing[u].loaded \in Nat /\ StreamOf[u] \in StreamIds
      BY <1>1, <1>4, ListFacts DEF Observe
    <3> QED
      BY <1>19, <3>1, <3>2, <3>3
  <2> QED
    BY <1>2, <1>9, <2>1, <2>2 DEF Bounded
<1>21. Exact'
  <2>1. ASSUME NEW i \in 1 .. n, streams[i].id \notin doubled
        PROVE  Counted(streams[i])'
    <3>1. Counted(streams[i])
      BY <1>1, <1>3, <2>1 DEF Exact
    <3>2. CASE streams[i].id = x
      <4>1. i = k /\ \A u \in Pending(x) : u = t
        BY <1>3, <1>5, <2>1, <3>2, OnlyObserver DEF x, EntriesOf
      <4>2. InTotal(streams[k], observing[t])
        BY <1>2, <1>5, <1>6, <3>1, <4>1 DEF Counted
      <4>3. heard[x] = b /\ loud[x] = streams[k].sum
        BY <1>6, <1>10, <4>2 DEF InTotal
      <4>4. (Settled(streams[i]))'
        BY <1>2, <1>6, <1>12, <4>1, <4>3 DEF Settled
      <4>5. (Pending(streams[i].id))' = {}
        BY <1>12, <1>16, <3>2, <4>1
      <4> QED
        BY <4>4, <4>5 DEF Counted
    <3>3. CASE streams[i].id # x
      <4>1. PICK s : s = streams[i].id
        OBVIOUS
      <4>2. Pending(s)' = Pending(s)
        BY <1>16, <3>3, <4>1
      <4>3. \A u \in Pending(s) : observing'[u] = observing[u]
        BY <1>11, <3>3, <4>1 DEF Pending, x
      <4>4. streams'[i] = streams[i]
        BY <1>6, <1>9, <3>3
      <4> QED
        BY <1>2, <3>1, <4>1, <4>2, <4>3, <4>4, CountedOn
    <3> QED
      BY <3>2, <3>3
  <2> QED
    BY <1>1, <1>2, <1>9, <1>12, <1>13, <2>1 DEF Exact, StreamIds
<1> QED
  BY <1>13, <1>14, <1>15, <1>20, <1>21 DEF AudioIInv

-----------------------------------------------------------------------------
(* Calc                                                                    *)

\* q is the list of streams in an order sort.Slice may leave it in; f tells where each
\* entry was.
IsSorting(q, f) ==
    /\ q \in Seq(Stream) /\ Len(q) = Len(streams)
    /\ f \in [1 .. Len(q) -> 1 .. Len(q)]
    /\ \A i \in 1 .. Len(q) : q[i] = streams[f[i]]
    /\ \A i, j \in 1 .. Len(q) : f[i] = f[j] => i = j
    /\ \A j \in 1 .. Len(q) : \E i \in 1 .. Len(q) : f[i] = j
    /\ \A i, j \in 1 .. Len(q) : i < j => ~Before(q[j], q[i])

\* A sorted list has every entry once, and none after one that goes before it.
LEMMA SortedIs ==
    ASSUME AudioTypes, NEW q \in Sorted
    PROVE  \E f : IsSorting(q, f)
<1>1. PICK n \in Nat : n = Len(streams)
  BY ListFacts
<1>2. DOMAIN streams = 1 .. n /\ \A i \in 1 .. n : streams[i] \in Stream
  BY <1>1, ListFacts
<1>3. PICK f \in [1 .. n -> 1 .. n] :
          /\ q = [i \in 1 .. n |-> streams[f[i]]]
          /\ \A i, j \in 1 .. n : i # j => f[i] # f[j]
          /\ \A i, j \in 1 .. n : i < j => ~Before(streams[f[j]], streams[f[i]])
  BY <1>2 DEF Sorted
<1>4. q \in Seq(Stream) /\ Len(q) = n /\ \A i \in 1 .. n : q[i] = streams[f[i]]
  BY <1>2, <1>3
<1>5. \A j \in 1 .. n : \E i \in 1 .. n : f[i] = j
  <2>1. f \in Injection(1 .. n, 1 .. n)
    BY <1>3 DEF Injection, IsInjective
  <2>2. IsFiniteSet(1 .. n)
    BY FS_Interval
  <2>3. f \in Surjection(1 .. n, 1 .. n)
    BY <2>1, <2>2, FS_Injection, Zenon
  <2> QED
    BY <2>3 DEF Surjection
<1>6. \A i, j \in 1 .. n : f[i] = f[j] => i = j
  BY <1>3
<1>7. \A i, j \in 1 .. n : i < j => ~Before(q[j], q[i])
  BY <1>3, <1>4
<1>8. f \in [1 .. n -> 1 .. n]
  OBVIOUS
<1>9. IsSorting(q, f)
  BY <1>1, <1>4, <1>5, <1>6, <1>7, <1>8, Zenon DEF IsSorting
<1> QED
  BY <1>9

\* Two entries of a stream make it doubled.
LEMMA OneIfNotMore ==
    ASSUME AudioTypes, NEW s, ~(Cardinality(EntriesOf(s)) > 1),
           NEW i \in EntriesOf(s), NEW j \in EntriesOf(s)
    PROVE  i = j
<1>1. SUFFICES ASSUME i # j PROVE FALSE
  OBVIOUS
<1>2. IsFiniteSet(EntriesOf(s))
  <2>1. EntriesOf(s) \in SUBSET (1 .. Len(streams)) /\ Len(streams) \in Nat
    BY ListFacts DEF EntriesOf
  <2>2. IsFiniteSet(1 .. Len(streams))
    BY <2>1, FS_Interval
  <2> QED
    BY <2>1, <2>2, FS_Subset
<1>3. Cardinality({i, j}) = 2
  <2>1. IsFiniteSet({i}) /\ Cardinality({i}) = 1 /\ j \notin {i} /\ {i, j} = {i} \cup {j}
    BY <1>1, FS_Singleton
  <2> QED
    BY <2>1, FS_AddElement
<1>4. Cardinality({i, j}) <= Cardinality(EntriesOf(s)) /\ Cardinality(EntriesOf(s)) \in Nat
  BY <1>2, FS_Subset, FS_CardinalityType
<1> QED
  BY <1>3, <1>4

\* The list is sorted, its counts start again.
LEMMA CalcKeeps ==
    ASSUME AudioIInv, Calc
    PROVE  AudioIInv'
<1>1. AudioTypes /\ Held /\ Matched
  BY DEF AudioIInv
<1>2. PICK q \in Sorted :
          /\ streams' = [i \in DOMAIN q |-> [q[i] EXCEPT !.sum = 0, !.total = 0]]
          /\ previous' = Speakers(q)
          /\ shown' = IF Speakers(q) = previous THEN shown ELSE Speakers(q)
  BY DEF Calc
<1>3. /\ Unread /\ UNCHANGED <<track, observing>> /\ heard' = Zero /\ loud' = Zero
      /\ doubled' = {s \in StreamIds : Cardinality(EntriesOf(s)) > 1}
  BY DEF Calc
<1>4. PICK f : IsSorting(q, f)
  BY <1>1, SortedIs
<1>5. PICK n \in Nat : n = Len(q)
  BY <1>4, LenProperties DEF IsSorting
<1>6. /\ q \in Seq(Stream) /\ Len(streams) = n /\ DOMAIN q = 1 .. n
      /\ f \in [1 .. n -> 1 .. n] /\ \A i \in 1 .. n : q[i] = streams[f[i]]
      /\ \A i, j \in 1 .. n : f[i] = f[j] => i = j
      /\ \A j \in 1 .. n : \E i \in 1 .. n : f[i] = j
  BY <1>4, <1>5, LenProperties DEF IsSorting
<1> DEFINE Cleared(i) == [q[i] EXCEPT !.sum = 0, !.total = 0]
<1>7. ASSUME NEW i \in 1 .. n
      PROVE  /\ Cleared(i) \in Stream /\ Cleared(i).id = streams[f[i]].id
             /\ Cleared(i).sum = 0 /\ Cleared(i).total = 0
  <2>1. q[i] \in Stream /\ q[i] = streams[f[i]]
    BY <1>5, <1>6, ElementOfSeq
  <2> QED
    BY <2>1 DEF Stream
<1>8. /\ streams' \in Seq(Stream) /\ DOMAIN streams' = 1 .. n
      /\ \A i \in 1 .. n : /\ streams'[i].id = streams[f[i]].id
                           /\ streams'[i].sum = 0 /\ streams'[i].total = 0
  <2>1. streams' = [i \in 1 .. n |-> Cleared(i)]
    BY <1>2, <1>6
  <2> HIDE DEF Cleared
  <2>2. streams' \in [1 .. n -> Stream] /\ \A i \in 1 .. n : streams'[i] = Cleared(i)
    BY <1>7, <2>1
  <2>3. streams' \in Seq(Stream) /\ DOMAIN streams' = 1 .. n
    BY <2>2
  <2> QED
    BY <1>7, <2>2, <2>3
<1>9. AudioTypes'
  <2>1. heard' \in [StreamIds -> Nat] /\ loud' \in [StreamIds -> Nat] /\ doubled' \subseteq StreamIds
    BY <1>3 DEF Zero
  <2>2. shown' = previous'
    BY <1>1, <1>2 DEF AudioTypes
  <2> QED
    BY <1>1, <1>3, <1>8, <2>1, <2>2 DEF AudioTypes
<1>10. \A s : Pending(s)' = {} /\ Cardinality(Pending(s)') = 0
  <2>1. ASSUME NEW s PROVE Pending(s)' = Pending(s)
    BY <1>3 DEF Pending
  <2> QED
    BY <1>3, <2>1, PendingFacts, Zenon
<1>11. Held'
  BY <1>3 DEF Unread, Held
<1>12. Single'
  <2>1. SUFFICES ASSUME NEW s \in StreamIds, s \notin doubled',
                        NEW i \in EntriesOf(s)', NEW j \in EntriesOf(s)'
                 PROVE  i = j
    BY DEF Single, StreamIds
  <2>2. i \in 1 .. n /\ j \in 1 .. n /\ f[i] \in EntriesOf(s) /\ f[j] \in EntriesOf(s)
    BY <1>1, <1>6, <1>8, <2>1, ListFacts DEF EntriesOf
  <2>3. f[i] = f[j]
    BY <1>1, <1>3, <2>1, <2>2, OneIfNotMore
  <2> QED
    BY <1>6, <2>2, <2>3
<1>13. Matched'
  <2>1. PICK place : IsPlacing(place, LiveTracks, streams)
    BY <1>1 DEF Matched
  <2>2. LiveTracks' = LiveTracks
    BY <1>3 DEF LiveTracks
  <2>3. /\ place \in [LiveTracks -> 1 .. n]
        /\ \A u \in LiveTracks : streams[place[u]].id = StreamOf[u]
        /\ \A u, v \in LiveTracks : place[u] = place[v] => u = v
    BY <1>1, <1>6, <2>1, ListFacts DEF IsPlacing
  <2> DEFINE next == [u \in LiveTracks |-> CHOOSE i \in 1 .. n : f[i] = place[u]]
  <2>4. ASSUME NEW u \in LiveTracks
        PROVE  next[u] \in 1 .. n /\ f[next[u]] = place[u]
    <3>1. \E i \in 1 .. n : f[i] = place[u]
      BY <1>6, <2>3
    <3> QED
      BY <3>1
  <2>5. next \in [LiveTracks -> 1 .. n]
    BY <2>4
  <2> HIDE DEF next
  <2>6. \A u \in LiveTracks : streams'[next[u]].id = StreamOf[u]
    BY <1>8, <2>3, <2>4
  <2>7. \A u, v \in LiveTracks : next[u] = next[v] => u = v
    BY <2>3, <2>4
  <2>8. IsPlacing(next, LiveTracks, streams')
    BY <1>8, <2>5, <2>6, <2>7 DEF IsPlacing
  <2> QED
    BY <2>2, <2>8 DEF Matched
<1>14. ASSUME NEW i \in 1 .. n
       PROVE  streams'[i].id \in StreamIds /\ heard'[streams'[i].id] = 0 /\ loud'[streams'[i].id] = 0
  <2>1. streams'[i].id \in StreamIds
    <3>1. streams'[i].id = streams[f[i]].id /\ f[i] \in 1 .. Len(streams)
      BY <1>6, <1>8
    <3> QED
      BY <1>1, <3>1, ListFacts
  <2> QED
    BY <1>3, <2>1 DEF Zero
<1>15. Bounded'
  <2>1. ASSUME NEW i \in 1 .. n
        PROVE  (streams[i].total + Cardinality(Pending(streams[i].id)) <= heard[streams[i].id])'
    <3>1. (Cardinality(Pending(streams[i].id)))' = 0
      BY <1>10
    <3> QED
      BY <1>8, <1>14, <3>1
  <2>2. \A u \in AudioTracks : observing'[u].at # "total"
    BY <1>3 DEF Unread, NotObserving
  <2> QED
    BY <1>8, <2>1, <2>2 DEF Bounded
<1>16. Exact'
  <2>1. ASSUME NEW i \in 1 .. n
        PROVE  Counted(streams[i])'
    <3>1. (Settled(streams[i]))'
      BY <1>8, <1>14 DEF Settled
    <3>2. (Pending(streams[i].id))' = {}
      BY <1>10
    <3> QED
      BY <3>1, <3>2 DEF Counted
  <2>2. \A s \in StreamIds : heard'[s] = 0 /\ loud'[s] = 0
    BY <1>3 DEF Zero
  <2> QED
    BY <1>8, <2>1, <2>2 DEF Exact, StreamIds
<1> QED
  BY <1>9, <1>11, <1>12, <1>13, <1>15, <1>16 DEF AudioIInv

\* Calc's list is true: an entry's counts are what was heard, or less for a doubled
\* stream, and the list has the entries' order.
LEMMA CalcShows ==
    ASSUME AudioIInv, Calc
    PROVE  Truthful
<1>1. AudioTypes /\ Bounded /\ Single /\ Exact /\ Unread
  BY DEF AudioIInv, Calc
<1>2. PICK q \in Sorted :
          /\ previous' = Speakers(q)
          /\ shown' = IF Speakers(q) = previous THEN shown ELSE Speakers(q)
  BY DEF Calc
<1>3. shown' = Speakers(q)
  BY <1>1, <1>2 DEF AudioTypes
<1>4. PICK f : IsSorting(q, f)
  BY <1>1, SortedIs
<1>5. PICK n \in Nat : n = Len(q)
  BY <1>4, LenProperties DEF IsSorting
<1>6. /\ q \in Seq(Stream) /\ Len(streams) = n
      /\ f \in [1 .. n -> 1 .. n] /\ \A i \in 1 .. n : q[i] = streams[f[i]]
      /\ \A i, j \in 1 .. n : f[i] = f[j] => i = j
      /\ \A j \in 1 .. n : \E i \in 1 .. n : f[i] = j
      /\ \A i, j \in 1 .. n : i < j => ~Before(q[j], q[i])
  BY <1>4, <1>5 DEF IsSorting
<1>7. PICK r : r = Speakers(q)
  OBVIOUS
<1>8. PICK g : RanksAt(q, r, n, g)
  BY <1>5, <1>6, <1>7, SpeakersRank DEF Ranks
<1>9. PICK m \in Nat : m = Len(r)
  BY <1>8, LenProperties DEF RanksAt
<1>10. /\ DOMAIN r = 1 .. m /\ g \in [1 .. m -> 1 .. n]
       /\ \A i \in 1 .. m : r[i] = q[g[i]].id /\ q[g[i]].total >= ExpectedTotal
       /\ \A i, j \in 1 .. m : i < j => g[i] < g[j]
       /\ \A k \in 1 .. n : q[k].total >= ExpectedTotal => \E i \in 1 .. m : g[i] = k
  BY <1>8, <1>9, LenProperties DEF RanksAt
\* Entries and what was heard of their streams
<1>11. ASSUME NEW k \in 1 .. n
       PROVE  /\ q[k].id \in StreamIds /\ q[k].total \in Nat /\ q[k].sum \in Nat
              /\ f[k] \in EntriesOf(q[k].id)
              /\ heard[q[k].id] \in Nat /\ q[k].total <= heard[q[k].id]
              /\ q[k].id \notin doubled =>
                    heard[q[k].id] = q[k].total /\ loud[q[k].id] = q[k].sum
  <2>1. PICK d \in 1 .. n : d = f[k]
    BY <1>6
  <2>2. q[k] = streams[d] /\ d \in DOMAIN streams
    BY <1>1, <1>6, <2>1, ListFacts
  <2>3. /\ streams[d].id \in StreamIds /\ streams[d].total \in Nat /\ streams[d].sum \in Nat
        /\ d \in EntriesOf(streams[d].id)
    BY <1>1, <1>6, <2>2, ListFacts DEF EntriesOf
  <2>4. heard[streams[d].id] \in Nat
    BY <1>1, <2>3 DEF AudioTypes
  <2>5. Pending(streams[d].id) = {} /\ Cardinality(Pending(streams[d].id)) = 0
    BY <1>1, PendingFacts
  <2>6. streams[d].total + Cardinality(Pending(streams[d].id)) <= heard[streams[d].id]
    BY <1>1, <2>2 DEF Bounded
  <2>7. streams[d].total <= heard[streams[d].id]
    BY <2>3, <2>4, <2>5, <2>6
  <2>8. streams[d].id \notin doubled => Settled(streams[d])
    BY <1>1, <2>2, <2>5 DEF Exact, Counted
  <2> QED
    BY <2>1, <2>2, <2>3, <2>4, <2>7, <2>8 DEF Settled
<1>12. ASSUME NEW i \in 1 .. m PROVE heard[r[i]] >= ExpectedTotal
  <2>1. g[i] \in 1 .. n /\ r[i] = q[g[i]].id /\ q[g[i]].total >= ExpectedTotal
    BY <1>10
  <2>2. q[g[i]].total <= heard[q[g[i]].id] /\ heard[q[g[i]].id] \in Nat /\ q[g[i]].total \in Nat
    BY <1>11, <2>1
  <2> QED
    BY <2>1, <2>2, AudioAssumption
<1>13. ASSUME NEW s \in StreamIds, s \notin doubled, EntriesOf(s) # {},
              heard[s] >= ExpectedTotal
       PROVE  \E i \in 1 .. m : r[i] = s
  <2>1. PICK d \in EntriesOf(s) : TRUE
    BY <1>13
  <2>2. d \in 1 .. n /\ streams[d].id = s
    BY <1>1, <1>6, <2>1, ListFacts DEF EntriesOf
  <2>3. PICK k \in 1 .. n : f[k] = d
    BY <1>6, <2>2
  <2>4. q[k].id = s /\ q[k].total = heard[s]
    BY <1>6, <1>11, <1>13, <2>2, <2>3
  <2>5. PICK i \in 1 .. m : g[i] = k
    BY <1>10, <1>13, <2>4
  <2> QED
    BY <1>10, <2>4, <2>5
<1>14. ASSUME NEW i \in 1 .. m, NEW j \in 1 .. m, i < j,
              r[i] \in StreamIds \ doubled, r[j] \in StreamIds \ doubled
       PROVE  /\ r[i] # r[j]
              /\ \/ heard[r[i]] > heard[r[j]]
                 \/ heard[r[i]] = heard[r[j]] /\ loud[r[i]] <= loud[r[j]]
  <2>1. PICK a \in 1 .. n, b \in 1 .. n : a = g[i] /\ b = g[j]
    BY <1>10
  <2>2. a < b /\ r[i] = q[a].id /\ r[j] = q[b].id
    BY <1>10, <1>14, <2>1
  <2>3. q[a].id # q[b].id
    <3>1. f[a] # f[b]
      BY <1>6, <2>2
    <3>2. f[a] \in EntriesOf(q[a].id) /\ f[b] \in EntriesOf(q[b].id)
      BY <1>11
    <3> QED
      BY <1>1, <1>14, <2>2, <3>1, <3>2 DEF Single
  <2>4. ~Before(q[b], q[a])
    BY <1>6, <2>2
  <2>5. /\ heard[r[i]] = q[a].total /\ loud[r[i]] = q[a].sum
        /\ heard[r[j]] = q[b].total /\ loud[r[j]] = q[b].sum
        /\ q[a].total \in Nat /\ q[b].total \in Nat /\ q[a].sum \in Nat /\ q[b].sum \in Nat
    BY <1>11, <1>14, <2>2
  <2> QED
    BY <2>2, <2>3, <2>4, <2>5 DEF Before
<1>15. shown' = r /\ DOMAIN r = 1 .. m /\ Len(r) = m
  BY <1>3, <1>7, <1>9, <1>10
<1>16. \A s \in StreamIds \ doubled :
          EntriesOf(s) # {} /\ heard[s] >= ExpectedTotal => Contains(r, s)
  BY <1>13, <1>15 DEF Contains
<1>17. \A i \in DOMAIN shown' : heard[shown'[i]] >= ExpectedTotal
  BY <1>12, <1>15
<1>18. \A i, j \in DOMAIN shown' :
          i < j /\ shown'[i] \in StreamIds \ doubled /\ shown'[j] \in StreamIds \ doubled =>
             /\ shown'[i] # shown'[j]
             /\ \/ heard[shown'[i]] > heard[shown'[j]]
                \/ heard[shown'[i]] = heard[shown'[j]] /\ loud[shown'[i]] <= loud[shown'[j]]
  BY <1>14, <1>15
<1> QED
  BY <1>15, <1>16, <1>17, <1>18, Zenon DEF Truthful

\* Every step keeps the invariant.
LEMMA AudioSteps ==
    ASSUME AudioIInv, [AudioNext]_audioVars
    PROVE  AudioIInv'
<1>1. ASSUME UNCHANGED <<streams, previous, track, observing, shown, heard, loud, doubled>>
      PROVE  AudioIInv'
  <2>1. AudioTypes /\ Held /\ Matched /\ Single /\ Bounded /\ Exact
    BY DEF AudioIInv
  <2>2. AudioTypes'
    BY <1>1, <2>1 DEF AudioTypes, Stream, StreamIds, Observe
  <2>3. (\A s : EntriesOf(s)' = EntriesOf(s)) /\ Single' /\ Matched'
    BY <1>1, SameEntries
  <2>4. \A s : Pending(s)' = Pending(s)
    BY <1>1 DEF Pending
  <2>5. Held'
    BY <1>1, <2>1, <2>3 DEF Held
  <2>6. Bounded'
    BY <1>1, <2>1, <2>4 DEF Bounded
  <2>7. Exact'
    <3>1. ASSUME NEW i \in DOMAIN streams, Counted(streams[i]) PROVE Counted(streams[i])'
      <4>1. PICK s : s = streams[i].id
        OBVIOUS
      <4> QED
        BY <1>1, <2>4, <3>1, <4>1, CountedOn
    <3> QED
      BY <1>1, <2>1, <2>3, <3>1 DEF Exact, StreamIds
  <2> QED
    BY <2>2, <2>3, <2>5, <2>6, <2>7 DEF AudioIInv
<1>2. ASSUME NEW t \in AudioTracks, NEW level \in Levels, observe(t, level)
      PROVE  AudioIInv'
  <2>1. CASE EntriesOf(StreamOf[t]) # {} /\ level <= Threshold
    BY <1>2, <2>1, ObserveKeeps
  <2>2. CASE ~(EntriesOf(StreamOf[t]) # {} /\ level <= Threshold)
    BY <1>1, <1>2, <2>2 DEF observe
  <2> QED
    BY <2>1, <2>2
<1>3. CASE UNCHANGED audioVars
  BY <1>1, <1>3 DEF audioVars
<1> QED
  BY <1>2, <1>3, AddKeeps, RemoveKeeps, SumKeeps, TotalKeeps, CalcKeeps DEF AudioNext

\* What the callers of Calc know is true of the interval, whatever updates two tracks
\* of one stream have lost (SpeakersShown).
THEOREM SpeakersRanked == AudioInit /\ [][AudioNext]_audioVars => SpeakersShown
<1>1. AudioInit => AudioIInv
  BY AudioStarts
<1>2. AudioIInv /\ [AudioNext]_audioVars => AudioIInv'
  BY AudioSteps
<1>3. AudioIInv /\ [AudioNext]_audioVars => [calcs' # calcs => Truthful]_audioVars
  <2>1. AudioNext /\ calcs' # calcs => Calc
    BY DEF AudioNext, addStream, removeStream, observe, observeSum, observeTotal
  <2>2. UNCHANGED audioVars => calcs' = calcs
    BY DEF audioVars
  <2> QED
    BY <2>1, <2>2, CalcShows
<1> QED
  BY <1>1, <1>2, <1>3, PTL DEF SpeakersShown

-----------------------------------------------------------------------------
(* NTP time                                                                *)

\* Quotient and remainder of a division.
LEMMA DivMod ==
    ASSUME NEW x \in Nat, NEW k \in Nat \ {0}
    PROVE  /\ x \div k \in Nat /\ x % k \in 0 .. k - 1
           /\ x = k * (x \div k) + (x % k)
OBVIOUS

\* The same, with the two numbers at hand.
LEMMA Divided ==
    ASSUME NEW x \in Nat, NEW k \in Nat \ {0}
    PROVE  \E q \in Nat, r \in 0 .. k - 1 : q = x \div k /\ r = x % k /\ x = k * q + r
<1>1. PICK q : q = x \div k
  OBVIOUS
<1>2. PICK r : r = x % k
  OBVIOUS
<1>3. q \in Nat /\ r \in 0 .. k - 1 /\ x = k * q + r
  BY <1>1, <1>2, DivMod, Zenon
<1> QED
  BY <1>1, <1>2, <1>3, Zenon

\* There is only one way to write a number as quotient and remainder.
LEMMA DivModUnique ==
    ASSUME NEW x \in Int, NEW k \in Nat \ {0}, NEW q \in Int, NEW r \in 0 .. k - 1, x = k * q + r
    PROVE  x \div k = q /\ x % k = r
<1>1. x \div k \in Int /\ x % k \in 0 .. k - 1 /\ x = k * (x \div k) + (x % k)
  OBVIOUS
<1>2. PICK p \in Int, s \in 0 .. k - 1 : p = x \div k /\ s = x % k /\ x = k * p + s
  BY <1>1
<1>3. p = q
  <2>1. CASE p >= q + 1
    <3>1. k * p >= k * (q + 1) /\ k * (q + 1) = k * q + k
      BY <2>1
    <3> QED
      BY <1>2, <3>1
  <2>2. CASE q >= p + 1
    <3>1. k * q >= k * (p + 1) /\ k * (p + 1) = k * p + k
      BY <2>2
    <3> QED
      BY <1>2, <3>1
  <2> QED
    BY <2>1, <2>2
<1> QED
  BY <1>2, <1>3

\* A number below the modulus is its own remainder.
LEMMA Below ==
    ASSUME NEW k \in Nat, NEW x \in Nat, x < k
    PROVE  x % k = x
OBVIOUS

\* The nearest whole quotient misses by at most half of the divisor.
LEMMA Rounded ==
    ASSUME NEW x \in Nat, NEW k \in Nat \ {0}
    PROVE  LET y == x \div k + Num(x % k >= k \div 2)
           IN /\ y \in Nat
              /\ k * y - x > -(k \div 2) /\ k * y - x <= k - k \div 2
<1>1. PICK q \in Nat, r \in 0 .. k - 1 : q = x \div k /\ r = x % k /\ x = k * q + r
  BY DivMod
<1>2. PICK h \in Nat : h = k \div 2 /\ h <= k
  OBVIOUS
<1>3. CASE r >= h
  <2>1. Num(r >= h) = 1 /\ k * (q + 1) = k * q + k
    BY <1>3 DEF Num
  <2> QED
    BY <1>1, <1>2, <1>3, <2>1
<1>4. CASE ~(r >= h)
  <2>1. Num(r >= h) = 0 /\ k * (q + 0) = k * q
    BY <1>4 DEF Num
  <2> QED
    BY <1>1, <1>2, <1>4, <2>1
<1> QED
  BY <1>3, <1>4

\* Conversely, what misses a multiple by less than that is rounded to it.
LEMMA RoundsTo ==
    ASSUME NEW x \in Nat, NEW k \in Nat \ {0}, NEW y \in Nat,
           x - k * y < k \div 2, k * y - x <= k - k \div 2
    PROVE  x \div k + Num(x % k >= k \div 2) = y
<1>1. PICK h \in Nat : h = k \div 2 /\ h <= k
  OBVIOUS
<1>2. CASE x >= k * y
  <2>1. x - k * y \in 0 .. k - 1 /\ x = k * y + (x - k * y)
    BY <1>1, <1>2
  <2>2. x \div k = y /\ x % k = x - k * y
    BY <2>1, DivModUnique
  <2> QED
    BY <1>1, <2>2 DEF Num
<1>3. CASE x < k * y
  <2>1. k * (y - 1) = k * y - k
    OBVIOUS
  <2>2. PICK p \in Int, d \in 0 .. k - 1 : p = y - 1 /\ x = k * p + d
    <3>1. x - (k * y - k) \in 0 .. k - 1
      BY <1>1, <1>3
    <3> QED
      BY <2>1, <3>1
  <2>3. x \div k = p /\ x % k = d
    BY <2>2, DivModUnique
  <2>4. d >= h
    BY <1>1, <2>1, <2>2
  <2>5. Num(x % k >= h) = 1
    BY <2>3, <2>4 DEF Num
  <2> QED
    BY <1>1, <2>2, <2>3, <2>5
<1> QED
  BY <1>2, <1>3

\* Conversion to NTP time and back gives the time converted.
LEMMA ThereAndBack ==
    ASSUME Fraction >= Second + 3, NEW ns \in Nat, ns < Second * Fraction
    PROVE  Duration(toNtpTime(ns)) = ns
<1>1. PICK S \in Nat \ {0}, F \in Nat \ {0} : S = Second /\ F = Fraction /\ F >= S + 3
  BY NtpAssumption
<1>2. ns < S * F
  BY <1>1
<1>3. PICK sec \in Nat, r \in 0 .. S - 1 : sec = ns \div S /\ r = ns % S /\ ns = S * sec + r
  BY Divided, Zenon
<1>4. sec < F
  <2>1. SUFFICES ASSUME sec >= F PROVE FALSE
    OBVIOUS
  <2>2. S * sec >= S * F
    BY <2>1
  <2> QED
    BY <1>2, <1>3, <2>2
<1>5. PICK x \in Nat : x = r * F
  OBVIOUS
<1>6. PICK frac \in Nat :
          /\ frac = x \div S + Num(x % S >= S \div 2)
          /\ S * frac - x > -(S \div 2) /\ S * frac - x <= S - S \div 2
  BY Rounded, Zenon
<1>7. S - S \div 2 < F \div 2 /\ S \div 2 <= F - F \div 2 /\ S \div 2 \in Nat
  BY <1>1
<1>8. frac < F
  <2>1. SUFFICES ASSUME frac >= F PROVE FALSE
    OBVIOUS
  <2>2. S * frac >= S * F /\ r * F <= (S - 1) * F /\ (S - 1) * F = S * F - F
    BY <2>1
  <2> QED
    BY <1>5, <1>6, <1>7, <2>2
<1>9. PICK t \in Nat : t = F * sec + frac
  OBVIOUS
<1>10. toNtpTime(ns) = t
  <2>1. ns - sec * S = r
    BY <1>3
  <2>2. (sec * F) % (F * F) = sec * F
    <3>1. sec * F < F * F
      BY <1>4
    <3>2. sec * F \in Nat /\ F * F \in Nat
      OBVIOUS
    <3> QED
      BY <3>1, <3>2, Below, Zenon
  <2>3. toNtpTime(ns) = sec * F + frac
    BY <1>1, <1>3, <1>5, <1>6, <2>1, <2>2, Zenon DEF toNtpTime
  <2> QED
    BY <1>9, <2>3
<1>11. t \div F = sec /\ t % F = frac
  BY <1>8, <1>9, DivModUnique
<1>12. PICK z \in Nat : z = frac * S
  OBVIOUS
<1>13. z \div F + Num(z % F >= F \div 2) = r
  <2>1. z = S * frac /\ F * r = x
    BY <1>5, <1>12
  <2>2. z - F * r < F \div 2 /\ F * r - z <= F - F \div 2
    BY <1>6, <1>7, <2>1
  <2>3. r \in Nat
    OBVIOUS
  <2> QED
    BY <2>2, <2>3, RoundsTo, Zenon
<1>14. Duration(t) = sec * S + r
  <2>1. Duration(t) = sec * S + z \div F + Num(z % F >= F \div 2)
    BY <1>1, <1>11, <1>12, Zenon DEF Duration
  <2>2. PICK zd \in Nat, zn \in Nat : zd = z \div F /\ zn = Num(z % F >= F \div 2)
    BY DEF Num
  <2>3. sec * S \in Nat /\ zd + zn = r
    BY <1>13, <2>2
  <2>4. Duration(t) = sec * S + zd + zn
    BY <2>1, <2>2, Zenon
  <2> QED
    BY <2>3, <2>4
<1> QED
  BY <1>3, <1>10, <1>14

\* Conversion to NTP time and back loses nothing, if there are a few more fractions of
\* a second than nanoseconds (the code: 2^32 and 10^9).
THEOREM NtpRoundTrip ==
    ASSUME sample \in NtpSamples, Fraction >= Second + 3
    PROVE  NtpAgrees
<1>1. sample.ns \in Nat /\ sample.ns < Second * Fraction
  BY NtpAssumption DEF NtpSamples
<1> QED
  BY <1>1, ThereAndBack DEF NtpAgrees

-----------------------------------------------------------------------------
(* The packets that source descriptions are spread over                    *)

\* The j-th slice of a list of n, and the list of those from j on if there are N in all
Slice(n, j) == [from |-> j * Chunks, to |-> IF (j + 1) * Chunks >= n THEN n ELSE (j + 1) * Chunks]
SlicesFrom(n, N, j) == [k \in 1 .. N - j |-> Slice(n, j + k - 1)]
AreSlices(n, N) == N \in Nat \ {0} /\ (N - 1) * Chunks < n /\ n <= N * Chunks

\* f is the table of the loop over a list of n
IsBatching(f, n) ==
    f = [j \in 0 .. n |->
            <<Slice(n, j)>> \o (IF Slice(n, j).to < n THEN f[j + 1] ELSE <<>>)]

\* A list that is not empty has a number of slices.
LEMMA SlicesExist ==
    ASSUME NEW n \in Nat \ {0}, Chunks \in Nat \ {0}
    PROVE  \E N : AreSlices(n, N)
<1>0. PICK m \in Nat : m = n - 1
  OBVIOUS
<1>1. PICK q \in Nat, r \in 0 .. Chunks - 1 :
         q = m \div Chunks /\ r = m % Chunks /\ m = Chunks * q + r
  BY Divided, Zenon
<1>2. q * Chunks < n /\ n <= (q + 1) * Chunks /\ q + 1 \in Nat \ {0}
  <2>1. Chunks * q = q * Chunks /\ (q + 1) * Chunks = Chunks * q + Chunks
    OBVIOUS
  <2> QED
    BY <1>0, <1>1, <2>1
<1>3. (q + 1) - 1 = q
  OBVIOUS
<1> QED
  BY <1>2, <1>3 DEF AreSlices

\* Which slices end before n.
LEMMA SliceEnds ==
    ASSUME Chunks \in Nat \ {0}, NEW n \in Nat \ {0}, NEW N, AreSlices(n, N), NEW j \in 0 .. N - 1
    PROVE  /\ Slice(n, j).from = j * Chunks /\ j * Chunks < n
           /\ Slice(n, j).to = IF j = N - 1 THEN n ELSE (j + 1) * Chunks
           /\ Slice(n, j).to < n <=> j < N - 1
<1>1. PICK C \in Nat \ {0} : C = Chunks
  OBVIOUS
<1>2. N \in Nat \ {0} /\ (N - 1) * C < n /\ n <= N * C
  BY <1>1 DEF AreSlices
<1>3. j * C <= (N - 1) * C
  BY <1>2
<1>4. CASE j = N - 1
  <2>1. (j + 1) * C >= n
    BY <1>2, <1>4
  <2> QED
    BY <1>1, <1>2, <1>3, <1>4, <2>1 DEF Slice
<1>5. CASE j < N - 1
  <2>1. (j + 1) * C <= (N - 1) * C
    BY <1>2, <1>5
  <2>2. (j + 1) * C < n /\ ~((j + 1) * C >= n)
    BY <1>2, <2>1
  <2> QED
    BY <1>1, <1>2, <1>3, <1>5, <2>2 DEF Slice
<1> QED
  BY <1>2, <1>4, <1>5

\* A turn of the loop puts one slice before the others.
LEMMA SlicesTurn ==
    ASSUME Chunks \in Nat \ {0}, NEW n \in Nat \ {0}, NEW N, AreSlices(n, N), NEW j \in 0 .. N - 1
    PROVE  SlicesFrom(n, N, j) =
               <<Slice(n, j)>> \o (IF Slice(n, j).to < n THEN SlicesFrom(n, N, j + 1) ELSE <<>>)
<1> DEFINE S == {Slice(n, k) : k \in Nat}
<1>1. N \in Nat \ {0}
  BY DEF AreSlices
<1>2. PICK m \in Nat : m = N - j /\ m > 0
  BY <1>1
<1>3. PICK x : x = Slice(n, j) /\ x \in S
  OBVIOUS
<1>4. PICK s : s = SlicesFrom(n, N, j)
  OBVIOUS
<1>5. s \in Seq(S) /\ Len(s) = m /\ \A k \in 1 .. m : s[k] = Slice(n, j + k - 1)
  <2>1. \A k \in 1 .. m : j + k - 1 \in Nat /\ Slice(n, j + k - 1) \in S
    OBVIOUS
  <2> HIDE DEF S
  <2>2. s \in [1 .. m -> S] /\ \A k \in 1 .. m : s[k] = Slice(n, j + k - 1)
    BY <1>2, <1>4, <2>1 DEF SlicesFrom
  <2> QED
    BY <2>2
<1>6. j + 1 - 1 = j /\ s[1] = x
  BY <1>2, <1>3, <1>5
<1>7. CASE j = N - 1
  <2>1. m = 1 /\ ~(Slice(n, j).to < n)
    BY <1>1, <1>2, <1>7, SliceEnds
  <2> HIDE DEF S
  <2>2. <<x>> \o <<>> \in Seq(S) /\ Len(<<x>> \o <<>>) = 1 /\ (<<x>> \o <<>>)[1] = x
    BY <1>3
  <2>3. s = <<x>> \o <<>>
    BY <1>5, <1>6, <2>1, <2>2, SeqEqual
  <2> QED
    BY <1>3, <1>4, <2>1, <2>3, Zenon
<1>8. CASE j < N - 1
  <2>1. PICK t : t = SlicesFrom(n, N, j + 1)
    OBVIOUS
  <2>2. t \in Seq(S) /\ Len(t) = m - 1 /\ \A k \in 1 .. m - 1 : t[k] = Slice(n, j + k)
    <3>1. \A k \in 1 .. m - 1 : j + k \in Nat /\ j + 1 + k - 1 = j + k /\ Slice(n, j + k) \in S
      OBVIOUS
    <3>2. N - (j + 1) = m - 1
      BY <1>1, <1>2
    <3> HIDE DEF S
    <3>3. t \in [1 .. m - 1 -> S] /\ \A k \in 1 .. m - 1 : t[k] = Slice(n, j + k)
      BY <2>1, <3>1, <3>2 DEF SlicesFrom
    <3> QED
      BY <1>2, <3>3
  <2> HIDE DEF S
  <2>3. PICK u : u = <<x>> \o t
    OBVIOUS
  <2>4. /\ u \in Seq(S) /\ Len(u) = m
        /\ \A k \in 1 .. m : u[k] = IF k = 1 THEN x ELSE t[k - 1]
    <3>1. <<x>> \in Seq(S) /\ Len(<<x>>) = 1 /\ <<x>>[1] = x
      BY <1>3
    <3> QED
      BY <1>2, <2>2, <2>3, <3>1, ConcatProperties
  <2>5. ASSUME NEW k \in 1 .. m PROVE s[k] = u[k]
    <3>1. CASE k = 1
      BY <1>6, <2>4, <2>5, <3>1
    <3>2. CASE k # 1
      <4>1. k - 1 \in 1 .. m - 1 /\ j + (k - 1) = j + k - 1
        BY <3>2
      <4> QED
        BY <1>5, <2>2, <2>4, <3>2, <4>1
    <3> QED
      BY <3>1, <3>2
  <2>6. s = u
    BY <1>5, <2>4, <2>5, SeqEqual
  <2>7. Slice(n, j).to < n
    BY <1>8, SliceEnds
  <2> QED
    BY <1>3, <1>4, <2>1, <2>3, <2>6, <2>7, Zenon
<1> QED
  BY <1>1, <1>7, <1>8

\* The loop has a table: it is the closed form, and of slices past the last one.
LEMMA BatchingExists ==
    ASSUME Chunks \in Nat \ {0}, NEW n \in Nat \ {0}, NEW N, AreSlices(n, N)
    PROVE  \E f : IsBatching(f, n)
<1> DEFINE f == [j \in 0 .. n |-> IF j < N THEN SlicesFrom(n, N, j) ELSE <<Slice(n, j)>>]
<1>1. N \in Nat \ {0} /\ (N - 1) * Chunks < n /\ n <= N * Chunks
  BY DEF AreSlices
<1>2. N <= n
  <2>1. SUFFICES ASSUME N >= n + 1 PROVE FALSE
    BY <1>1
  <2>2. (N - 1) * Chunks >= N - 1
    BY <1>1
  <2> QED
    BY <1>1, <2>1, <2>2
<1>3. ASSUME NEW j \in 0 .. n
      PROVE  f[j] = <<Slice(n, j)>> \o (IF Slice(n, j).to < n THEN f[j + 1] ELSE <<>>)
  <2>1. CASE j < N - 1
    <3>1. j \in 0 .. N - 1 /\ j + 1 \in 0 .. n /\ j < N /\ j + 1 < N
      BY <1>1, <1>2, <2>1
    <3>2. f[j] = SlicesFrom(n, N, j) /\ f[j + 1] = SlicesFrom(n, N, j + 1)
      BY <3>1
    <3>3. Slice(n, j).to < n
      BY <2>1, <3>1, SliceEnds
    <3>4. SlicesFrom(n, N, j) = <<Slice(n, j)>> \o SlicesFrom(n, N, j + 1)
      BY <3>1, <3>3, SlicesTurn, Zenon
    <3> QED
      BY <3>2, <3>3, <3>4, Zenon
  <2>2. CASE j = N - 1
    <3>1. j \in 0 .. N - 1 /\ j < N /\ ~(j < N - 1)
      BY <1>1, <2>2
    <3>2. f[j] = SlicesFrom(n, N, j)
      BY <3>1
    <3>3. ~(Slice(n, j).to < n)
      BY <3>1, SliceEnds
    <3>4. SlicesFrom(n, N, j) = <<Slice(n, j)>> \o <<>>
      BY <3>1, <3>3, SlicesTurn, Zenon
    <3> QED
      BY <3>2, <3>3, <3>4, Zenon
  <2>3. CASE j >= N
    <3>1. f[j] = <<Slice(n, j)>>
      BY <1>1, <2>3
    <3>2. (j + 1) * Chunks >= n
      <4>1. (j + 1) * Chunks >= N * Chunks
        BY <1>1, <2>3
      <4>2. (j + 1) * Chunks \in Nat /\ N * Chunks \in Nat
        BY <1>1
      <4> QED
        BY <1>1, <4>1, <4>2
    <3>3. Slice(n, j).to = n
      BY <3>2 DEF Slice
    <3>4. <<Slice(n, j)>> = <<Slice(n, j)>> \o <<>>
      <4>1. PICK x : x = Slice(n, j)
        OBVIOUS
      <4>2. <<x>> \in Seq({x})
        OBVIOUS
      <4> QED
        BY <4>1, <4>2, ConcatEmptySeq
    <3>5. ~(Slice(n, j).to < n)
      BY <3>3
    <3> QED
      BY <3>1, <3>4, <3>5, Zenon
  <2>4. j < N - 1 \/ j = N - 1 \/ j >= N
    BY <1>1
  <2> QED
    BY <2>1, <2>2, <2>3, <2>4, Zenon
<1>4. IsBatching(f, n)
  <2>1. f = [j \in 0 .. n |-> f[j]]
    OBVIOUS
  <2> HIDE DEF f
  <2> QED
    BY <1>3, <2>1 DEF IsBatching
<1> QED
  BY <1>4

\* The slices of a list, in closed form.
LEMMA BatchesAre ==
    ASSUME Chunks \in Nat \ {0}, NEW n \in Nat \ {0}, NEW N, AreSlices(n, N)
    PROVE  Batches(n) = SlicesFrom(n, N, 0)
<1> DEFINE f == CHOOSE g : IsBatching(g, n)
<1>1. IsBatching(f, n)
  BY BatchingExists, Zenon
<1>2. Batches(n) = f[0]
  BY Zenon DEF Batches, IsBatching, Slice
<1> HIDE DEF f
<1>3. N \in Nat \ {0}
  BY DEF AreSlices
<1>4. ASSUME NEW j \in 0 .. N - 1
      PROVE  f[j] = <<Slice(n, j)>> \o (IF Slice(n, j).to < n THEN f[j + 1] ELSE <<>>)
  <2>1. j * Chunks < n /\ j * Chunks >= j
    BY <1>3, SliceEnds
  <2>2. j \in 0 .. n
    BY <1>3, <2>1
  <2> QED
    BY <1>1, <2>2 DEF IsBatching
<1> DEFINE T == {m \in Nat : m <= N - 1 /\ f[N - 1 - m] # SlicesFrom(n, N, N - 1 - m)}
<1>5. CASE T = {}
  <2>1. N - 1 \in Nat /\ N - 1 - (N - 1) = 0
    BY <1>3
  <2> QED
    BY <1>2, <1>5, <2>1
<1>6. CASE T # {}
  <2>1. PICK m \in T : \A k \in T : m <= k
    BY <1>6, Least
  <2>2. PICK j \in 0 .. N - 1 : j = N - 1 - m
    BY <1>3, <2>1
  <2>3. f[j] # SlicesFrom(n, N, j)
    BY <2>1, <2>2
  <2>4. CASE j = N - 1
    <3>1. ~(Slice(n, j).to < n)
      BY <1>3, <2>4, SliceEnds
    <3> QED
      BY <1>4, <2>3, <3>1, SlicesTurn, Zenon
  <2>5. CASE j < N - 1
    <3>1. m - 1 \in Nat /\ m - 1 <= N - 1 /\ ~(m <= m - 1) /\ N - 1 - (m - 1) = j + 1
      BY <1>3, <2>1, <2>2, <2>5
    <3>2. m - 1 \notin T
      BY <2>1, <3>1
    <3>3. f[j + 1] = SlicesFrom(n, N, j + 1)
      BY <3>1, <3>2
    <3> QED
      BY <1>4, <2>3, <3>3, SlicesTurn, Zenon
  <2> QED
    BY <1>3, <2>4, <2>5
<1> QED
  BY <1>5, <1>6

\* Every source description of a list of any length is sent in exactly one packet, in
\* order, and no packet is too large.
THEOREM BatchesCover ==
    ASSUME Chunks \in Nat \ {0}, sample.n \in Nat
    PROVE  BatchesAgree
<1>1. PICK n \in Nat : n = sample.n
  OBVIOUS
<1>2. CASE n = 0
  <2>1. Batches(n) = <<>> /\ DOMAIN <<>> = {} /\ 0 .. n - 1 = {}
    BY <1>2 DEF Batches
  <2> QED
    BY <1>1, <2>1 DEF BatchesAgree
<1>3. CASE n # 0
  <2>1. PICK N : AreSlices(n, N)
    BY <1>3, SlicesExist
  <2>2. PICK b : b = Batches(sample.n)
    OBVIOUS
  <2>3. N \in Nat \ {0} /\ n <= N * Chunks
    BY <2>1 DEF AreSlices
  <2>4. b = SlicesFrom(n, N, 0)
    BY <1>1, <1>3, <2>1, <2>2, BatchesAre
  <2>5. DOMAIN b = 1 .. N /\ \A k \in 1 .. N : b[k] = Slice(n, k - 1)
    BY <2>3, <2>4 DEF SlicesFrom
  <2>6. ASSUME NEW k \in 1 .. N
        PROVE  /\ b[k].from = (k - 1) * Chunks /\ (k - 1) * Chunks < n
               /\ b[k].to = IF k = N THEN n ELSE k * Chunks
               /\ k * Chunks = (k - 1) * Chunks + Chunks
               /\ k # N => k * Chunks < n
    <3>1. k - 1 \in 0 .. N - 1 /\ (k - 1 = N - 1 <=> k = N) /\ (k - 1) + 1 = k
      BY <2>3
    <3>2. k # N => k \in 0 .. N - 1
      BY <2>3
    <3> QED
      BY <1>3, <2>1, <2>5, <3>1, <3>2, SliceEnds
  <2>7. ASSUME NEW k \in 1 .. N PROVE b[k].to - b[k].from \in 1 .. Chunks /\ b[k].to <= n
    BY <2>3, <2>6
  <2>8. ASSUME NEW k \in 1 .. N, k > 1 PROVE b[k - 1].to = b[k].from
    <3>1. k - 1 \in 1 .. N /\ k - 1 # N
      BY <2>3, <2>8
    <3> QED
      BY <2>6, <3>1
  <2>9. ASSUME NEW i \in 0 .. n - 1
        PROVE  Cardinality({k \in 1 .. N : b[k].from <= i /\ i < b[k].to}) = 1
    <3>1. PICK q \in Nat, r \in 0 .. Chunks - 1 :
             q = i \div Chunks /\ r = i % Chunks /\ i = Chunks * q + r
      <4>1. i \in Nat
        OBVIOUS
      <4>2. \E q \in Nat, r \in 0 .. Chunks - 1 :
               q = i \div Chunks /\ r = i % Chunks /\ i = Chunks * q + r
        BY <4>1, Divided, Zenon
      <4> QED
        BY <4>2, Zenon
    <3>2. q + 1 \in 1 .. N
      <4>1. SUFFICES ASSUME q >= N PROVE FALSE
        BY <2>3
      <4>2. Chunks * q >= Chunks * N /\ Chunks * N = N * Chunks
        BY <2>3, <4>1
      <4> QED
        BY <2>3, <3>1, <4>2
    <3>3. ASSUME NEW k \in 1 .. N
          PROVE  b[k].from <= i /\ i < b[k].to <=> k = q + 1
      <4>1. PICK c \in Nat : c = (k - 1) * Chunks
        OBVIOUS
      <4>2. CASE k = q + 1
        <5>1. c = Chunks * q
          BY <4>1, <4>2
        <5> QED
          BY <2>6, <3>1, <4>1, <4>2, <5>1
      <4>3. CASE k > q + 1
        <5>1. (k - 1) * Chunks >= (q + 1) * Chunks /\ (q + 1) * Chunks = Chunks * q + Chunks
          BY <4>3
        <5> QED
          BY <2>6, <3>1, <4>3, <5>1
      <4>4. CASE k < q + 1
        <5>1. k * Chunks <= Chunks * q
          BY <4>4
        <5>2. k # N
          BY <3>2, <4>4
        <5> QED
          BY <2>6, <3>1, <4>4, <5>1, <5>2, SMTT(30)
      <4> QED
        BY <4>2, <4>3, <4>4
    <3>4. {k \in 1 .. N : b[k].from <= i /\ i < b[k].to} = {q + 1}
      BY <3>2, <3>3
    <3> QED
      BY <3>4, FS_Singleton
  <2> QED
    BY <1>1, <2>2, <2>5, <2>7, <2>8, <2>9 DEF BatchesAgree
<1> QED
  BY <1>2, <1>3

-----------------------------------------------------------------------------
(* Timestamps of 32 bits                                                   *)

\* The sizes of the code.
LEMMA TsSizes ==
    ASSUME TsBits = 32
    PROVE  2^TsBits = 4294967296 /\ 2^(TsBits - 6) = 67108864
<1>1. 2^32 = 4294967296 /\ 2^26 = 67108864
  BY SMT
<1>2. TsBits - 6 = 26
  BY SMT
<1> QED
  BY <1>1, <1>2, SMT

\* A sample is a timestamp, and what is added to it.
LEMMA TsSampleIs ==
    ASSUME sample \in TsSamples
    PROVE  sample.from \in 0 .. 2^TsBits - 1 /\ sample.gap \in 1 .. MaxGap
BY Zenon DEF TsSamples

\* Of two timestamps at most 2^26 ticks apart, which is 12 minutes of video or 23 of
\* audio, IsLaterTimestamp finds the later one, also across a wrap.
THEOREM LaterWithinGap ==
    ASSUME TsBits = 32, MaxGap \in Nat, MaxGap <= 2^(TsBits - 6), sample \in TsSamples
    PROVE  LaterAgrees
<1>1. PICK G \in Nat, W \in Nat :
          /\ 2^TsBits = W /\ 2^(TsBits - 6) = G /\ W = 64 * G /\ G > 0 /\ MaxGap <= G
  BY TsSizes, SMT
<1>2. sample.from \in 0 .. 2^TsBits - 1 /\ sample.gap \in 1 .. MaxGap
  BY TsSampleIs, SMT
<1>3. PICK from \in 0 .. W - 1, gap \in 1 .. G : from = sample.from /\ gap = sample.gap
  BY <1>1, <1>2, SMT
<1>4. PICK next : next = (from + gap) % W
  BY SMT
<1>5. ASSUME NEW ts \in 0 .. W - 1
      PROVE  \E q \in 0 .. 63, r \in 0 .. G - 1 : ts = G * q + r /\ Masked(ts) = q % 4
  <2>1. PICK q \in Nat, r \in 0 .. G - 1 : q = ts \div G /\ ts = G * q + r
    BY <1>1, DivMod, SMT
  <2>2. q <= 63
    <3>1. SUFFICES ASSUME q >= 64 PROVE FALSE
      BY SMT
    <3>2. G * q >= G * 64 /\ G * 64 = W
      BY <1>1, <3>1, SMT
    <3>3. ts < W /\ ts >= G * q
      BY <2>1, SMT
    <3> QED
      BY <3>2, <3>3, SMT
  <2> QED
    BY <1>1, <2>1, <2>2, SMT DEF Masked
<1>6. PICK a \in 0 .. 63, r \in 0 .. G - 1 : from = G * a + r /\ Masked(from) = a % 4
  BY <1>5, SMT
<1>7. CASE from + gap < W
  <2>1. next = from + gap /\ next \in 0 .. W - 1
    BY <1>4, <1>7, SMT
  <2>2. PICK b \in 0 .. 63, s \in 0 .. G - 1 : next = G * b + s /\ Masked(next) = b % 4
    BY <1>5, <2>1, SMT
  <2>3. b = a \/ b = a + 1
    <3>1. CASE b >= a + 2
      <4>1. G * b >= G * a + 2 * G
        BY <3>1, SMT
      <4> QED
        BY <1>6, <2>1, <2>2, <4>1, SMT
    <3>2. CASE b <= a - 1
      <4>1. G * b <= G * a - G
        BY <3>2, SMT
      <4> QED
        BY <1>6, <2>1, <2>2, <4>1, SMT
    <3> QED
      BY <3>1, <3>2, SMT
  <2>4. ~(Masked(from) = 0 /\ Masked(next) = 3)
    BY <1>6, <2>2, <2>3, SMT
  <2>5. IsLaterTimestamp(next, from) /\ ~IsLaterTimestamp(from, next)
    BY <2>1, <2>4, SMT DEF IsLaterTimestamp, IsTimestampWrapAround
  <2> QED
    BY <1>1, <1>3, <1>4, <2>5, SMT DEF LaterAgrees
<1>8. CASE from + gap >= W
  <2>1. next = from + gap - W /\ next \in 0 .. G - 1 /\ next \in 0 .. W - 1 /\ next < from
    <3>1. /\ from + gap = W * 1 + (from + gap - W) /\ from + gap - W \in 0 .. W - 1
          /\ W \in Nat \ {0} /\ from + gap - W \in 0 .. G - 1 /\ from + gap - W < from
      BY <1>1, <1>8, SMT
    <3>2. next = from + gap - W
      BY <1>4, <3>1, DivModUnique, SMT
    <3> QED
      BY <3>1, <3>2, SMT
  <2>2. Masked(next) = 0
    <3>1. PICK b \in 0 .. 63, s \in 0 .. G - 1 : next = G * b + s /\ Masked(next) = b % 4
      BY <1>5, <2>1, SMT
    <3>2. b = 0
      <4>1. SUFFICES ASSUME b >= 1 PROVE FALSE
        BY SMT
      <4>2. G * b >= G
        BY <4>1, SMT
      <4> QED
        BY <2>1, <3>1, <4>2, SMT
    <3> QED
      BY <3>1, <3>2, SMT
  <2>3. Masked(from) = 3
    <3>1. a = 63
      <4>1. SUFFICES ASSUME a <= 62 PROVE FALSE
        BY SMT
      <4>2. G * a <= G * 62 /\ G * 62 = W - 2 * G
        BY <1>1, <4>1, SMT
      <4>3. from < G * a + G /\ gap <= G
        BY <1>6, SMT
      <4> QED
        BY <1>8, <4>2, <4>3, SMT
    <3> QED
      BY <1>6, <3>1, SMT
  <2>4. IsLaterTimestamp(next, from) /\ ~IsLaterTimestamp(from, next)
    BY <2>1, <2>2, <2>3, SMT DEF IsLaterTimestamp, IsTimestampWrapAround
  <2> QED
    BY <1>1, <1>3, <1>4, <2>4, SMT DEF LaterAgrees
<1> QED
  BY <1>7, <1>8, SMT

\* A time stamp that is moved on by q, less what it was, is q again.
LEMMA MovedOn ==
    ASSUME NEW W \in Nat \ {0}, NEW from \in 0 .. W - 1, NEW q \in Nat
    PROVE  (((from + q) % W) - from) % W = q % W
<1>1. PICK t \in Nat : t = from + q
  OBVIOUS
<1>2. PICK a \in Nat, b \in 0 .. W - 1 : a = t \div W /\ b = t % W /\ t = W * a + b
  BY Divided, Zenon
<1>3. PICK c \in Nat, d \in 0 .. W - 1 : c = q \div W /\ d = q % W /\ q = W * c + d
  BY Divided, Zenon
<1>4. W * (c - a) = W * c - W * a
  OBVIOUS
<1>5. PICK x \in Int, e \in Int : x = b - from /\ e = c - a /\ x = W * e + d
  BY <1>1, <1>2, <1>3, <1>4
<1>6. x % W = d
  BY <1>5, DivModUnique, Zenon
<1> QED
  BY <1>1, <1>2, <1>3, <1>5, <1>6, Zenon

\* The full ticks of an interval: the quotient counts those that fit into it.
LEMMA FullTicks ==
    ASSUME NEW S \in Nat \ {0}, NEW C \in Nat, NEW M \in Nat, NEW el \in 0 .. M
    PROVE  /\ (el * C) \div S \in Nat
           /\ Cardinality({n \in 1 .. M * C : n * S <= el * C}) = (el * C) \div S
<1>1. PICK x \in Nat : x = el * C
  OBVIOUS
<1>2. PICK q \in Nat, r \in 0 .. S - 1 : q = x \div S /\ r = x % S /\ x = S * q + r
  BY Divided, Zenon
<1>3. x <= M * C /\ M * C \in Nat
  BY <1>1
<1>4. ASSUME NEW n \in Nat
      PROVE  n * S <= x <=> n <= q
  <2>1. CASE n <= q
    <3>1. n * S <= S * q
      BY <2>1
    <3> QED
      BY <1>2, <2>1, <3>1
  <2>2. CASE n >= q + 1
    <3>1. n * S >= (q + 1) * S /\ (q + 1) * S = S * q + S
      BY <2>2
    <3> QED
      BY <1>2, <2>2, <3>1
  <2> QED
    BY <2>1, <2>2
<1>5. q <= M * C
  <2>1. q <= S * q
    OBVIOUS
  <2> QED
    BY <1>2, <1>3, <2>1
<1>6. {n \in 1 .. M * C : n * S <= x} = 1 .. q
  <2>1. \A n \in 1 .. M * C : n \in Nat /\ n >= 1
    BY <1>3
  <2>2. \A n \in 1 .. q : n \in Nat /\ n <= q /\ n \in 1 .. M * C
    BY <1>3, <1>5
  <2>3. \A n \in Nat : n >= 1 /\ n <= q => n \in 1 .. q
    OBVIOUS
  <2> QED
    BY <1>4, <2>1, <2>2, <2>3, Zenon
<1>7. Cardinality(1 .. q) = q
  <2>1. q = q - 1 + 1
    OBVIOUS
  <2> QED
    BY <2>1, FS_Interval
<1> QED
  BY <1>1, <1>2, <1>6, <1>7, Zenon

\* A sender report says of its time what the publisher's clock shows then, in full
\* ticks since the publisher's report, unless that report is so old that the ticks
\* times nanoseconds exceed 64 bits (two days), or from a clock that is ahead.
THEOREM ReportsNow ==
    ASSUME TsBits = 32, Fraction >= Second + 3, ClockRate \in Nat, MaxElapsed \in Nat,
           sample.bound \in BOOLEAN, sample.rtp \in 0 .. 2^TsBits - 1, sample.ns \in Nat,
           sample.elapsed \in 0 .. MaxElapsed,
           sample.ns + sample.elapsed < Second * Fraction,
           sample.elapsed * ClockRate < Fraction * Fraction
    PROVE  SrAgrees
<1>1. PICK S \in Nat \ {0}, F \in Nat \ {0}, C \in Nat, M \in Nat, W \in Nat \ {0} :
          /\ S = Second /\ F = Fraction /\ F > S /\ C = ClockRate /\ M = MaxElapsed
          /\ W = 2^TsBits
  BY NtpAssumption, TsSizes, SMT
<1>2. PICK ns \in Nat, el \in 0 .. M, rtp \in 0 .. W - 1 :
          ns = sample.ns /\ el = sample.elapsed /\ rtp = sample.rtp
  <2>1. sample.ns \in Nat /\ sample.elapsed \in 0 .. M /\ sample.rtp \in 0 .. W - 1
    BY <1>1, Zenon
  <2> QED
    BY <2>1, Zenon
<1>3. PICK now \in Nat : now = ns + el
  BY SMT
<1>4. now < S * F /\ el * C < F * F
  BY <1>1, <1>2, <1>3, SMT
<1>5. Duration(toNtpTime(ns)) = ns /\ Duration(toNtpTime(now)) = now
  <2>1. ns < S * F /\ now < Second * Fraction /\ ns < Second * Fraction
    BY <1>1, <1>3, <1>4, SMT
  <2> QED
    BY <2>1, ThereAndBack, Zenon
<1>6. PICK q \in Nat : /\ q = (el * C) \div S
                       /\ Cardinality({n \in 1 .. M * C : n * S <= el * C}) = q
  <2>1. /\ (el * C) \div S \in Nat
        /\ Cardinality({n \in 1 .. M * C : n * S <= el * C}) = (el * C) \div S
    BY FullTicks, Zenon
  <2> QED
    BY <2>1, Zenon
<1>7. (((now - ns) % (F * F)) * C % (F * F)) \div S = q
  <2>1. now - ns = el /\ el < F * F
    <3>1. S * F <= F * F
      BY <1>1, SMT
    <3> QED
      BY <1>3, <1>4, <3>1, SMT
  <2>2. el \in Nat /\ el * C \in Nat /\ F * F \in Nat
    BY SMT
  <2>3. el % (F * F) = el
    BY <2>1, <2>2, Below, Zenon
  <2>4. (el * C) % (F * F) = el * C
    BY <1>4, <2>2, Below, Zenon
  <2> QED
    BY <1>6, <2>1, <2>3, <2>4, Zenon
<1>8. PICK sr : sr = CreateSenderReport(sample.bound, sample.rtp, toNtpTime(ns), now)
  OBVIOUS
<1>9. CASE sample.bound /\ sample.rtp # 0
  <2>1. sr = <<[ntp |-> toNtpTime(now), rtp |-> (rtp + q) % W]>>
    BY <1>1, <1>2, <1>5, <1>7, <1>8, <1>9, SMT DEF CreateSenderReport
  <2>2. Len(sr) = 1 /\ sr[1].ntp = toNtpTime(now) /\ sr[1].rtp = (rtp + q) % W
    BY <2>1, SMT
  <2>3. (((rtp + q) % W) - rtp) % W = q % W
    BY MovedOn, Zenon
  <2> QED
    BY <1>1, <1>2, <1>3, <1>5, <1>6, <1>8, <1>9, <2>2, <2>3 DEF SrAgrees
<1>10. CASE ~(sample.bound /\ sample.rtp # 0)
  BY <1>2, <1>3, <1>8, <1>10 DEF SrAgrees, CreateSenderReport
<1> QED
  BY <1>9, <1>10

-----------------------------------------------------------------------------
(* H.264 aggregates                                                        *)

\* A set that holds 0, and with a number the next, holds all up to N.
LEMMA Upwards ==
    ASSUME NEW N \in Nat, NEW G, 0 \in G, \A k \in 0 .. N - 1 : k \in G => k + 1 \in G
    PROVE  \A k \in 0 .. N : k \in G
<1> DEFINE T == {k \in Nat : k <= N /\ k \notin G}
<1>1. SUFFICES ASSUME T # {} PROVE FALSE
  OBVIOUS
<1>2. PICK k \in T : \A m \in T : k <= m
  BY <1>1, Least
<1>3. k # 0
  BY <1>2
<1>4. k - 1 \in 0 .. N - 1 /\ k - 1 + 1 = k /\ k - 1 \in Nat /\ k - 1 <= N /\ ~(k <= k - 1)
  BY <1>2, <1>3
<1>5. k - 1 \notin T
  BY <1>2, <1>4
<1>6. k - 1 \in G
  BY <1>4, <1>5
<1> QED
  BY <1>2, <1>4, <1>6

\* A set that holds N, and with a number the one before, holds all from 0 on.
LEMMA Downwards ==
    ASSUME NEW N \in Nat, NEW G, N \in G, \A k \in 0 .. N - 1 : k + 1 \in G => k \in G
    PROVE  \A k \in 0 .. N : k \in G
<1> DEFINE H == {k \in 0 .. N : N - k \in G}
<1>1. 0 \in H
  <2>1. N - 0 = N
    OBVIOUS
  <2> QED
    BY <2>1
<1>2. ASSUME NEW k \in 0 .. N - 1, k \in H PROVE k + 1 \in H
  <2>1. N - (k + 1) \in 0 .. N - 1 /\ N - (k + 1) + 1 = N - k /\ k + 1 \in 0 .. N
    OBVIOUS
  <2>2. N - k \in G
    BY <1>2
  <2>3. N - (k + 1) \in G
    BY <2>1, <2>2
  <2> QED
    BY <2>1, <2>3
<1> HIDE DEF H
<1>3. \A k \in 0 .. N : k \in H
  BY <1>1, <1>2, Upwards, Zenon
<1>4. ASSUME NEW k \in 0 .. N PROVE k \in G
  <2>1. N - k \in 0 .. N /\ N - (N - k) = k
    OBVIOUS
  <2>2. N - k \in H
    BY <1>3, <2>1
  <2> QED
    BY <2>1, <2>2 DEF H
<1> QED
  BY <1>4

\* One unit of a packet, and the units after the first n
UnitOf(nalu, type) ==
    <<0, UnitOffset(nalu) + 1 + (type % 3)>> \o [i \in 1 .. UnitOffset(nalu) |-> 7]
    \o <<96 + type>> \o [i \in 1 .. type % 3 |-> 7]
IsUnits(f, nalu, units) ==
    f = [n \in 0 .. Len(units) |->
            IF n = Len(units) THEN <<>> ELSE UnitOf(nalu, units[n + 1]) \o f[n + 1]]

\* A number of equal bytes.
LEMMA Repeated ==
    ASSUME NEW n \in Nat, NEW x \in Nat
    PROVE  [i \in 1 .. n |-> x] \in Seq(Nat) /\ Len([i \in 1 .. n |-> x]) = n
<1>1. PICK s : s = [i \in 1 .. n |-> x]
  OBVIOUS
<1>2. s \in [1 .. n -> Nat]
  BY <1>1
<1>3. s \in Seq(Nat) /\ Len(s) = n
  BY <1>2
<1> QED
  BY <1>1, <1>3, Zenon

\* Bytes put behind others.
LEMMA Behind ==
    ASSUME NEW s \in Seq(Nat), NEW t \in Seq(Nat)
    PROVE  /\ s \o t \in Seq(Nat) /\ Len(s \o t) = Len(s) + Len(t)
           /\ \A i \in 1 .. Len(s) : (s \o t)[i] = s[i]
           /\ \A i \in 1 .. Len(t) : (s \o t)[Len(s) + i] = t[i]
<1>1. Len(s) \in Nat /\ Len(t) \in Nat
  OBVIOUS
<1>2. /\ s \o t \in Seq(Nat) /\ Len(s \o t) = Len(s) + Len(t)
      /\ \A i \in 1 .. Len(s) + Len(t) :
            (s \o t)[i] = IF i <= Len(s) THEN s[i] ELSE t[i - Len(s)]
  BY ConcatProperties
<1>3. ASSUME NEW i \in 1 .. Len(s) PROVE (s \o t)[i] = s[i]
  <2>1. i \in 1 .. Len(s) + Len(t) /\ i <= Len(s)
    BY <1>1
  <2> QED
    BY <1>2, <2>1, Zenon
<1>4. ASSUME NEW i \in 1 .. Len(t) PROVE (s \o t)[Len(s) + i] = t[i]
  <2>1. PICK j \in 1 .. Len(s) + Len(t) : j = Len(s) + i
    <3>1. Len(s) + i \in 1 .. Len(s) + Len(t)
      BY <1>1
    <3> QED
      BY <3>1, Zenon
  <2>2. ~(j <= Len(s)) /\ j - Len(s) = i
    BY <1>1, <2>1
  <2> QED
    BY <1>2, <2>1, <2>2
<1> QED
  BY <1>2, <1>3, <1>4

\* The bytes of a unit that matter
UnitBytes(u, O, type) ==
    /\ u \in Seq(Nat) /\ Len(u) = 3 + O + (type % 3)
    /\ u[1] = 0 /\ u[2] = O + 1 + (type % 3) /\ u[3 + O] = 96 + type

\* A unit has them.
LEMMA UnitIs ==
    ASSUME NEW nalu, NEW O \in Nat, O = UnitOffset(nalu), NEW type \in Nat
    PROVE  UnitBytes(UnitOf(nalu, type), O, type)
<1>1. PICK w \in Nat : w = type % 3
  OBVIOUS
<1>2. PICK a : a = <<0, O + 1 + w>>
  OBVIOUS
<1>3. a \in Seq(Nat) /\ Len(a) = 2 /\ a[1] = 0 /\ a[2] = O + 1 + w
  BY <1>2
<1>4. PICK b : b = [i \in 1 .. O |-> 7]
  OBVIOUS
<1>5. b \in Seq(Nat) /\ Len(b) = O
  BY <1>4, Repeated
<1>6. PICK c : c = <<96 + type>>
  OBVIOUS
<1>7. c \in Seq(Nat) /\ Len(c) = 1 /\ c[1] = 96 + type
  BY <1>6
<1>8. PICK d : d = [i \in 1 .. w |-> 7]
  OBVIOUS
<1>9. d \in Seq(Nat) /\ Len(d) = w
  BY <1>8, Repeated
<1>10. UnitOf(nalu, type) = ((a \o b) \o c) \o d
  BY <1>1, <1>2, <1>4, <1>6, <1>8, Zenon DEF UnitOf
<1>11. PICK e : e = a \o b
  OBVIOUS
<1>12. e \in Seq(Nat) /\ Len(e) = 2 + O /\ e[1] = 0 /\ e[2] = O + 1 + w
  <2>1. /\ e \in Seq(Nat) /\ Len(e) = Len(a) + Len(b)
        /\ \A i \in 1 .. Len(a) : e[i] = a[i]
    BY <1>3, <1>5, <1>11, Behind, Zenon
  <2>2. 1 \in 1 .. 2 /\ 2 \in 1 .. 2
    OBVIOUS
  <2>3. e[1] = a[1] /\ e[2] = a[2]
    BY <1>3, <2>1, <2>2, Zenon
  <2> QED
    BY <1>3, <1>5, <2>1, <2>3, Zenon
<1>13. PICK g : g = e \o c
  OBVIOUS
<1>14. /\ g \in Seq(Nat) /\ Len(g) = 3 + O /\ g[1] = 0 /\ g[2] = O + 1 + w
       /\ g[3 + O] = 96 + type
  <2>1. 2 + O + 1 = 3 + O /\ 1 \in 1 .. 1 /\ 1 \in 1 .. 2 + O /\ 2 \in 1 .. 2 + O
    OBVIOUS
  <2>2. Len(g) = 2 + O + 1 /\ g[2 + O + 1] = c[1] /\ g[1] = e[1] /\ g[2] = e[2] /\ g \in Seq(Nat)
    <3>1. /\ g \in Seq(Nat) /\ Len(g) = Len(e) + Len(c)
          /\ \A i \in 1 .. Len(e) : g[i] = e[i]
          /\ \A i \in 1 .. Len(c) : g[Len(e) + i] = c[i]
      BY <1>7, <1>12, <1>13, Behind, Zenon
    <3> QED
      BY <1>7, <1>12, <2>1, <3>1, Zenon
  <2> QED
    BY <1>7, <1>12, <2>1, <2>2, Zenon
<1>15. PICK u : u = g \o d
  OBVIOUS
<1>16. /\ u \in Seq(Nat) /\ Len(u) = 3 + O + w
       /\ u[1] = g[1] /\ u[2] = g[2] /\ u[3 + O] = g[3 + O]
  <2>1. 1 \in 1 .. 3 + O /\ 2 \in 1 .. 3 + O /\ 3 + O \in 1 .. 3 + O
    OBVIOUS
  <2> QED
    <3>1. /\ u \in Seq(Nat) /\ Len(u) = Len(g) + Len(d)
          /\ \A i \in 1 .. Len(g) : u[i] = g[i]
      BY <1>9, <1>14, <1>15, Behind, Zenon
    <3> QED
      BY <1>9, <1>14, <2>1, <3>1, Zenon
<1>17. u = UnitOf(nalu, type)
  BY <1>10, <1>11, <1>13, <1>15, Zenon
<1> QED
  BY <1>1, <1>14, <1>16, <1>17, Zenon DEF UnitBytes

\* What stands at place n of such a table, and a table that starts at place k
UnitsTurn(f, nalu, units, n) ==
    IF n = Len(units) THEN <<>> ELSE UnitOf(nalu, units[n + 1]) \o f[n + 1]
UnitsFrom(f, nalu, units, k) == f = [n \in k .. Len(units) |-> UnitsTurn(f, nalu, units, n)]

\* There is such a table, built from its end.
LEMMA UnitsExist ==
    ASSUME NEW nalu, NEW units \in Seq(Nat)
    PROVE  \E f : IsUnits(f, nalu, units)
<1>1. PICK N \in Nat : N = Len(units)
  OBVIOUS
<1> DEFINE G == {k \in 0 .. N : \E f : UnitsFrom(f, nalu, units, k)}
<1>2. N \in G
  <2> DEFINE f == [n \in N .. N |-> <<>>]
  <2>1. ASSUME NEW n \in N .. N PROVE UnitsTurn(f, nalu, units, n) = <<>>
    <3>1. n = Len(units)
      BY <1>1
    <3> QED
      BY <3>1, Zenon DEF UnitsTurn
  <2>2. f = [n \in N .. N |-> UnitsTurn(f, nalu, units, n)]
    BY <2>1, Zenon
  <2> HIDE DEF f
  <2>3. UnitsFrom(f, nalu, units, N)
    BY <1>1, <2>2, Zenon DEF UnitsFrom
  <2> QED
    BY <2>3
<1>3. ASSUME NEW k \in 0 .. N - 1, k + 1 \in G PROVE k \in G
  <2>1. PICK f : UnitsFrom(f, nalu, units, k + 1)
    BY <1>3
  <2>2. f = [n \in k + 1 .. N |-> UnitsTurn(f, nalu, units, n)]
    BY <1>1, <2>1, Zenon DEF UnitsFrom
  <2> DEFINE g == [n \in k .. N |-> IF n = k THEN UnitsTurn(f, nalu, units, k) ELSE f[n]]
  <2>3. ASSUME NEW n \in k .. N PROVE g[n] = UnitsTurn(g, nalu, units, n)
    <3>1. CASE n = N
      <4>1. n # k /\ n \in k + 1 .. N
        BY <3>1
      <4>2. g[n] = UnitsTurn(f, nalu, units, n)
        <5>1. g[n] = f[n]
          BY <4>1
        <5>2. f[n] = UnitsTurn(f, nalu, units, n)
          BY <2>2, <4>1, Zenon
        <5> QED
          BY <5>1, <5>2, Zenon
      <4> HIDE DEF g
      <4> QED
        BY <1>1, <3>1, <4>2, Zenon DEF UnitsTurn
    <3>2. CASE n # N
      <4>1. n + 1 \in k .. N /\ n + 1 # k /\ n + 1 \in k + 1 .. N /\ (n = k \/ n \in k + 1 .. N)
        BY <3>2
      <4>2. g[n + 1] = f[n + 1]
        BY <4>1
      <4>3. g[n] = UnitsTurn(f, nalu, units, n)
        <5>1. CASE n = k
          BY <5>1
        <5>2. CASE n \in k + 1 .. N
          <6>1. n # k
            BY <5>2
          <6>2. g[n] = f[n]
            BY <6>1
          <6>3. f[n] = UnitsTurn(f, nalu, units, n)
            BY <2>2, <5>2, Zenon
          <6> QED
            BY <6>2, <6>3, Zenon
        <5> QED
          BY <4>1, <5>1, <5>2, Zenon
      <4> HIDE DEF g
      <4> QED
        BY <1>1, <3>2, <4>2, <4>3, Zenon DEF UnitsTurn
    <3> QED
      BY <3>1, <3>2, Zenon
  <2>4. g = [n \in k .. N |-> g[n]]
    OBVIOUS
  <2> HIDE DEF g
  <2>5. UnitsFrom(g, nalu, units, k)
    BY <1>1, <2>3, <2>4, Zenon DEF UnitsFrom
  <2>6. k \in 0 .. N
    OBVIOUS
  <2> QED
    BY <2>5, <2>6
<1> HIDE DEF G
<1>4. \A k \in 0 .. N : k \in G
  BY <1>2, <1>3, Downwards, Zenon
<1>5. 0 \in 0 .. N
  OBVIOUS
<1>6. 0 \in G
  BY <1>4, <1>5, Zenon
<1>7. PICK f : UnitsFrom(f, nalu, units, 0)
  BY <1>6 DEF G
<1> QED
  BY <1>7, Zenon DEF UnitsFrom, UnitsTurn, IsUnits

\* The units after the first k: bytes, of which a unit more is in front each time
UnitSuffixes(f, nalu, units) ==
    /\ \A k \in 0 .. Len(units) : f[k] \in Seq(Nat)
    /\ f[Len(units)] = <<>>
    /\ \A k \in 0 .. Len(units) - 1 :
          /\ units[k + 1] \in Nat
          /\ f[k] = UnitOf(nalu, units[k + 1]) \o f[k + 1]

\* The table consists of those.
LEMMA UnitsAre ==
    ASSUME NEW nalu, UnitOffset(nalu) \in Nat, NEW units \in Seq(Nat), NEW f,
           IsUnits(f, nalu, units)
    PROVE  UnitSuffixes(f, nalu, units)
<1>1. PICK N \in Nat : N = Len(units)
  OBVIOUS
<1>2. f = [n \in 0 .. N |-> IF n = N THEN <<>> ELSE UnitOf(nalu, units[n + 1]) \o f[n + 1]]
  BY <1>1, Zenon DEF IsUnits
<1>3. f[N] = <<>>
  <2>1. N \in 0 .. N
    OBVIOUS
  <2> QED
    BY <1>2, <2>1, Zenon
<1>4. ASSUME NEW k \in 0 .. N - 1
      PROVE  units[k + 1] \in Nat /\ f[k] = UnitOf(nalu, units[k + 1]) \o f[k + 1]
  <2>1. k \in 0 .. N /\ k # N /\ k + 1 \in 1 .. Len(units)
    BY <1>1
  <2>2. units[k + 1] \in Nat
    BY <2>1, ElementOfSeq
  <2> QED
    BY <1>2, <2>1, <2>2, Zenon
<1> DEFINE G == {k \in 0 .. N : f[k] \in Seq(Nat)}
<1>5. N \in G
  <2>1. <<>> \in Seq(Nat) /\ N \in 0 .. N
    OBVIOUS
  <2> QED
    BY <1>3, <2>1, Zenon
<1>6. ASSUME NEW k \in 0 .. N - 1, k + 1 \in G PROVE k \in G
  <2>1. UnitOf(nalu, units[k + 1]) \in Seq(Nat)
    <3>1. PICK O \in Nat : O = UnitOffset(nalu)
      OBVIOUS
    <3>2. PICK type \in Nat : type = units[k + 1]
      BY <1>4
    <3>3. UnitOf(nalu, type) \in Seq(Nat)
      BY <3>1, UnitIs, Zenon DEF UnitBytes
    <3> QED
      BY <3>2, <3>3, Zenon
  <2>2. f[k] \in Seq(Nat)
    BY <1>4, <1>6, <2>1, Behind, Zenon
  <2>3. k \in 0 .. N
    OBVIOUS
  <2> QED
    BY <2>2, <2>3
<1> HIDE DEF G
<1>7. \A k \in 0 .. N : k \in G
  BY <1>5, <1>6, Downwards, Zenon
<1> QED
  BY <1>1, <1>3, <1>4, <1>7, Zenon DEF G, UnitSuffixes

\* The end of the sequence s is t
EndsIn(s, t) ==
    Len(t) <= Len(s) /\ \A i \in 1 .. Len(t) : s[Len(s) - Len(t) + i] = t[i]

\* What stands at the end of all units are the units after the first k.
LEMMA UnitsEndWith ==
    ASSUME NEW nalu, UnitOffset(nalu) \in Nat, NEW units \in Seq(Nat), NEW f,
           IsUnits(f, nalu, units), NEW k \in 0 .. Len(units)
    PROVE  EndsIn(f[0], f[k])
<1>1. PICK N \in Nat : N = Len(units)
  OBVIOUS
<1>2. /\ \A j \in 0 .. N : f[j] \in Seq(Nat) /\ Len(f[j]) \in Nat
      /\ \A j \in 0 .. N - 1 : /\ units[j + 1] \in Nat
                               /\ f[j] = UnitOf(nalu, units[j + 1]) \o f[j + 1]
  <2>1. /\ \A j \in 0 .. N : f[j] \in Seq(Nat)
        /\ \A j \in 0 .. N - 1 : /\ units[j + 1] \in Nat
                                 /\ f[j] = UnitOf(nalu, units[j + 1]) \o f[j + 1]
    <3>1. UnitSuffixes(f, nalu, units)
      BY UnitsAre, Zenon
    <3> QED
      BY <1>1, <3>1, Zenon DEF UnitSuffixes
  <2>2. \A x \in Seq(Nat) : Len(x) \in Nat
    OBVIOUS
  <2> QED
    BY <2>1, <2>2, Zenon
<1> DEFINE E(j) == /\ Len(f[j]) <= Len(f[0])
                   /\ \A i \in 1 .. Len(f[j]) : f[0][Len(f[0]) - Len(f[j]) + i] = f[j][i]
           G == {j \in 0 .. N : E(j)}
<1>3. 0 \in G
  <2>1. Len(f[0]) \in Nat /\ 0 \in 0 .. N
    BY <1>2
  <2>2. \A i \in 1 .. Len(f[0]) : Len(f[0]) - Len(f[0]) + i = i
    BY <2>1
  <2> QED
    BY <2>1, <2>2
<1>4. ASSUME NEW j \in 0 .. N - 1, j \in G PROVE j + 1 \in G
  <2>1. j \in 0 .. N /\ j + 1 \in 0 .. N /\ 0 \in 0 .. N
    OBVIOUS
  <2>2. PICK all \in Seq(Nat), s \in Seq(Nat), t \in Seq(Nat) :
           all = f[0] /\ s = f[j] /\ t = f[j + 1]
    BY <1>2, <2>1, Zenon
  <2>3. PICK u \in Seq(Nat) : s = u \o t
    <3>1. PICK O \in Nat : O = UnitOffset(nalu)
      OBVIOUS
    <3>2. PICK type \in Nat : type = units[j + 1]
      BY <1>2
    <3>3. UnitOf(nalu, type) \in Seq(Nat)
      BY <3>1, UnitIs, Zenon DEF UnitBytes
    <3> QED
      BY <1>2, <2>2, <3>2, <3>3, Zenon
  <2>4. PICK a \in Nat, b \in Nat, c \in Nat : a = Len(all) /\ b = Len(u) /\ c = Len(t)
    OBVIOUS
  <2>5. /\ Len(s) = b + c
        /\ \A i \in 1 .. c : s[b + i] = t[i]
    BY <2>3, <2>4, Behind, Zenon
  <2>6. b + c <= a /\ \A i \in 1 .. b + c : all[a - (b + c) + i] = s[i]
    <3>1. E(j)
      BY <1>4
    <3>2. /\ Len(s) <= Len(all)
          /\ \A i \in 1 .. Len(s) : all[Len(all) - Len(s) + i] = s[i]
      BY <2>2, <3>1, Zenon
    <3> QED
      BY <2>4, <2>5, <3>2, Zenon
  <2>7. ASSUME NEW i \in 1 .. c PROVE all[a - c + i] = t[i]
    <3>1. b + i \in 1 .. b + c /\ a - (b + c) + (b + i) = a - c + i
      BY <2>6
    <3> QED
      BY <2>5, <2>6, <3>1
  <2>8. c <= a
    BY <2>6
  <2>9. E(j + 1)
    BY <2>2, <2>4, <2>7, <2>8, Zenon
  <2> QED
    BY <2>1, <2>9
<1> HIDE DEF G
<1>5. \A j \in 0 .. N : j \in G
  BY <1>3, <1>4, Upwards, Zenon
<1> QED
  BY <1>1, <1>5, Zenon DEF G, EndsIn

\* The sequence s is as long as t without u
ShorterBy(s, t, u) == Len(s) = Len(t) - Len(u)

\* Leaving out the last units leaves out their bytes.
LEMMA FewerUnits ==
    ASSUME NEW nalu, UnitOffset(nalu) \in Nat, NEW units \in Seq(Nat), NEW f,
           IsUnits(f, nalu, units), NEW m \in 0 .. Len(units), NEW g,
           IsUnits(g, nalu, SubSeq(units, 1, m))
    PROVE  ShorterBy(g[0], f[0], f[m])
<1>1. PICK part \in Seq(Nat) : /\ part = SubSeq(units, 1, m) /\ Len(part) = m
                               /\ \A i \in 1 .. m : part[i] = units[i]
  <2>1. PICK s : s = SubSeq(units, 1, m)
    OBVIOUS
  <2>2. s \in Seq(Nat) /\ Len(s) = m /\ \A i \in 1 .. m : s[i] = units[i]
    BY <2>1
  <2> QED
    BY <2>1, <2>2, Zenon
<1>2. /\ \A j \in 0 .. m : f[j] \in Seq(Nat) /\ g[j] \in Seq(Nat)
      /\ g[m] = <<>>
  <2>1. /\ \A j \in 0 .. Len(units) : f[j] \in Seq(Nat)
        /\ \A j \in 0 .. m : g[j] \in Seq(Nat)
        /\ g[m] = <<>>
    <3>1. UnitSuffixes(f, nalu, units)
      BY UnitsAre, Zenon
    <3>2. UnitSuffixes(g, nalu, part)
      BY <1>1, UnitsAre, Zenon
    <3> QED
      BY <1>1, <3>1, <3>2, Zenon DEF UnitSuffixes
  <2>2. \A j \in 0 .. m : j \in 0 .. Len(units)
    OBVIOUS
  <2> QED
    BY <2>1, <2>2, Zenon
<1>3. ASSUME NEW j \in 0 .. m - 1
      PROVE  \E u \in Seq(Nat) : f[j] = u \o f[j + 1] /\ g[j] = u \o g[j + 1]
  <2>1. j \in 0 .. Len(units) - 1 /\ j \in 0 .. Len(part) - 1 /\ j + 1 \in 1 .. m
    BY <1>1
  <2>2. /\ units[j + 1] \in Nat
        /\ f[j] = UnitOf(nalu, units[j + 1]) \o f[j + 1]
        /\ g[j] = UnitOf(nalu, part[j + 1]) \o g[j + 1]
    <3>1. UnitSuffixes(f, nalu, units)
      BY UnitsAre, Zenon
    <3>2. UnitSuffixes(g, nalu, part)
      BY <1>1, UnitsAre, Zenon
    <3> QED
      BY <2>1, <3>1, <3>2, Zenon DEF UnitSuffixes
  <2>3. PICK O \in Nat : O = UnitOffset(nalu)
    OBVIOUS
  <2>4. PICK type \in Nat : type = units[j + 1] /\ type = part[j + 1]
    BY <1>1, <2>1, <2>2, Zenon
  <2>5. UnitOf(nalu, type) \in Seq(Nat)
    BY <2>3, UnitIs, Zenon DEF UnitBytes
  <2> QED
    BY <2>2, <2>4, <2>5, Zenon
<1> DEFINE G == {j \in 0 .. m : Len(g[j]) = Len(f[j]) - Len(f[m])}
<1>4. m \in G
  <2>1. Len(g[m]) = 0 /\ Len(f[m]) \in Nat /\ m \in 0 .. m
    BY <1>2
  <2>2. Len(g[m]) = Len(f[m]) - Len(f[m])
    BY <2>1
  <2> QED
    BY <2>1, <2>2
<1>5. ASSUME NEW j \in 0 .. m - 1, j + 1 \in G PROVE j \in G
  <2>1. j \in 0 .. m /\ j + 1 \in 0 .. m /\ m \in 0 .. m
    OBVIOUS
  <2>2. PICK u \in Seq(Nat) : f[j] = u \o f[j + 1] /\ g[j] = u \o g[j + 1]
    BY <1>3
  <2>3. /\ Len(f[j]) = Len(u) + Len(f[j + 1]) /\ Len(g[j]) = Len(u) + Len(g[j + 1])
    <3>1. PICK a \in Seq(Nat), b \in Seq(Nat) : a = f[j + 1] /\ b = g[j + 1]
      BY <1>2, <2>1, Zenon
    <3>2. Len(u \o a) = Len(u) + Len(a) /\ Len(u \o b) = Len(u) + Len(b)
      BY Behind, Zenon
    <3> QED
      BY <2>2, <3>1, <3>2, Zenon
  <2>4. /\ Len(u) \in Nat /\ Len(f[m]) \in Nat /\ Len(f[j + 1]) \in Nat
        /\ Len(g[j + 1]) = Len(f[j + 1]) - Len(f[m])
    <3>1. f[m] \in Seq(Nat) /\ f[j + 1] \in Seq(Nat)
      BY <1>2, <2>1, Zenon
    <3>2. Len(g[j + 1]) = Len(f[j + 1]) - Len(f[m])
      BY <1>5, Zenon
    <3>3. \A x \in Seq(Nat) : Len(x) \in Nat
      OBVIOUS
    <3> QED
      BY <3>1, <3>2, <3>3, Zenon
  <2>5. Len(g[j]) = Len(f[j]) - Len(f[m])
    BY <2>3, <2>4
  <2> QED
    BY <2>1, <2>5
<1> HIDE DEF G
<1>6. \A j \in 0 .. m : j \in G
  <2>1. m \in Nat
    OBVIOUS
  <2> QED
    BY <1>4, <1>5, <2>1, Downwards, Zenon
<1>7. 0 \in 0 .. m
  OBVIOUS
<1>8. 0 \in G
  BY <1>6, <1>7, Zenon
<1> QED
  BY <1>8 DEF G, ShorterBy

\* Where the units of a packet p begin (counting bytes from 0), and what stands there
Layout(p, off, nalu, units) ==
    /\ p \in Seq(Nat) /\ off \in [0 .. Len(units) -> Nat]
    /\ off[0] = (IF nalu = 24 THEN 1 ELSE 3) /\ off[Len(units)] = Len(p)
    /\ p[1] = 96 + nalu
    /\ \A k \in 0 .. Len(units) - 1 :
          /\ off[k + 1] = off[k] + 3 + UnitOffset(nalu) + (units[k + 1] % 3)
          /\ p[off[k] + 1] = 0 /\ p[off[k] + 2] = UnitOffset(nalu) + 1 + (units[k + 1] % 3)
          /\ p[off[k] + 3 + UnitOffset(nalu)] = 96 + units[k + 1]

\* The bytes before the first unit.
LEMMA HeadIs ==
    ASSUME NEW nalu \in Nat
    PROVE  \E h \in Seq(Nat) :
              /\ h = <<96 + nalu>> \o (IF nalu = 24 THEN <<>> ELSE <<0, 7>>)
              /\ Len(h) = (IF nalu = 24 THEN 1 ELSE 3) /\ h[1] = 96 + nalu
<1>1. PICK a : a = <<96 + nalu>>
  OBVIOUS
<1>2. a \in Seq(Nat) /\ Len(a) = 1 /\ a[1] = 96 + nalu /\ 1 \in 1 .. 1
  BY <1>1
<1>3. PICK b : b = (IF nalu = 24 THEN <<>> ELSE <<0, 7>>)
  OBVIOUS
<1>4. b \in Seq(Nat) /\ Len(b) = (IF nalu = 24 THEN 0 ELSE 2)
  <2>1. <<>> \in Seq(Nat) /\ Len(<<>>) = 0 /\ <<0, 7>> \in Seq(Nat) /\ Len(<<0, 7>>) = 2
    OBVIOUS
  <2> QED
    BY <1>3, <2>1
<1>5. /\ a \o b \in Seq(Nat) /\ Len(a \o b) = Len(a) + Len(b)
      /\ \A i \in 1 .. Len(a) : (a \o b)[i] = a[i]
  BY <1>2, <1>4, Behind, Zenon
<1>6. Len(a \o b) = IF nalu = 24 THEN 1 ELSE 3
  BY <1>2, <1>4, <1>5
<1> QED
  BY <1>1, <1>2, <1>3, <1>5, <1>6, Zenon

\* Every packet has a layout, and a packet of its first m units ends where those do.
LEMMA LayoutExists ==
    ASSUME NEW nalu \in Nat, UnitOffset(nalu) \in Nat, NEW units \in Seq(Nat)
    PROVE  \E off : /\ Layout(Packed(nalu, units), off, nalu, units)
                    /\ \A m \in 0 .. Len(units) :
                          Len(Packed(nalu, SubSeq(units, 1, m))) = off[m]
<1>1. PICK h \in Seq(Nat) : /\ h = <<96 + nalu>> \o (IF nalu = 24 THEN <<>> ELSE <<0, 7>>)
                            /\ Len(h) = (IF nalu = 24 THEN 1 ELSE 3) /\ h[1] = 96 + nalu
  BY HeadIs, Zenon
<1>2. PICK n \in Nat : n = Len(h) /\ n >= 1
  BY <1>1
<1>3. ASSUME NEW list \in Seq(Nat)
      PROVE  \E f : IsUnits(f, nalu, list) /\ Packed(nalu, list) = h \o f[0]
  <2> DEFINE f == CHOOSE g : IsUnits(g, nalu, list)
  <2>1. IsUnits(f, nalu, list)
    BY UnitsExist, Zenon
  <2>2. Packed(nalu, list) = h \o f[0]
    BY <1>1, Zenon DEF Packed, IsUnits, UnitOf
  <2> QED
    BY <2>1, <2>2, Zenon
<1>4. PICK f : IsUnits(f, nalu, units) /\ Packed(nalu, units) = h \o f[0]
  BY <1>3, Zenon
<1>5. PICK N \in Nat : N = Len(units)
  OBVIOUS
<1>6. /\ \A k \in 0 .. N : f[k] \in Seq(Nat) /\ Len(f[k]) \in Nat
      /\ f[N] = <<>>
      /\ \A k \in 0 .. N - 1 : /\ units[k + 1] \in Nat
                               /\ f[k] = UnitOf(nalu, units[k + 1]) \o f[k + 1]
  <2>1. /\ \A k \in 0 .. N : f[k] \in Seq(Nat)
        /\ f[N] = <<>>
        /\ \A k \in 0 .. N - 1 : /\ units[k + 1] \in Nat
                                 /\ f[k] = UnitOf(nalu, units[k + 1]) \o f[k + 1]
    <3>1. UnitSuffixes(f, nalu, units)
      BY <1>4, UnitsAre, Zenon
    <3> QED
      BY <1>5, <3>1, Zenon DEF UnitSuffixes
  <2>2. \A x \in Seq(Nat) : Len(x) \in Nat
    OBVIOUS
  <2> QED
    BY <2>1, <2>2, Zenon
<1>7. \A k \in 0 .. N :
         /\ Len(f[k]) <= Len(f[0])
         /\ \A i \in 1 .. Len(f[k]) : f[0][Len(f[0]) - Len(f[k]) + i] = f[k][i]
  <2>1. IsUnits(f, nalu, units)
    BY <1>4, Zenon
  <2>2. \A k \in 0 .. Len(units) : EndsIn(f[0], f[k])
    BY <2>1, UnitsEndWith, Zenon
  <2> QED
    BY <1>5, <2>2, Zenon DEF EndsIn
<1>8. PICK all \in Seq(Nat), L \in Nat : all = f[0] /\ L = Len(all)
  <2>1. 0 \in 0 .. N
    OBVIOUS
  <2> QED
    BY <1>6, <2>1, Zenon
<1>9. PICK p : p = h \o all
  OBVIOUS
<1>10. /\ p \in Seq(Nat) /\ Len(p) = n + L
       /\ \A i \in 1 .. n : p[i] = h[i]
       /\ \A i \in 1 .. L : p[n + i] = all[i]
  <2>1. /\ h \o all \in Seq(Nat) /\ Len(h \o all) = Len(h) + Len(all)
        /\ \A i \in 1 .. Len(h) : (h \o all)[i] = h[i]
        /\ \A i \in 1 .. Len(all) : (h \o all)[Len(h) + i] = all[i]
    BY Behind, Zenon
  <2> QED
    BY <1>2, <1>8, <1>9, <2>1, Zenon
<1>11. PICK off \in [0 .. N -> Nat] : \A k \in 0 .. N : off[k] = n + L - Len(f[k])
  <2> DEFINE o == [k \in 0 .. N |-> n + L - Len(f[k])]
  <2>1. ASSUME NEW k \in 0 .. N PROVE n + L - Len(f[k]) \in Nat
    <3>1. Len(f[k]) \in Nat /\ Len(f[k]) <= L
      BY <1>6, <1>7, <1>8, Zenon
    <3> QED
      BY <3>1
  <2>2. o \in [0 .. N -> Nat]
    BY <2>1
  <2>3. \A k \in 0 .. N : o[k] = n + L - Len(f[k])
    OBVIOUS
  <2> HIDE DEF o
  <2> QED
    BY <2>2, <2>3, Zenon
<1>12. off[0] = n /\ off[N] = Len(p)
  <2>1. 0 \in 0 .. N /\ N \in 0 .. N /\ Len(f[0]) = L /\ Len(f[N]) = 0
    BY <1>6, <1>8
  <2>2. off[0] = n + L - L /\ off[N] = n + L - 0
    BY <1>11, <2>1, Zenon
  <2> QED
    BY <1>10, <2>2
<1>13. ASSUME NEW k \in 0 .. N - 1
       PROVE  /\ off[k + 1] = off[k] + 3 + UnitOffset(nalu) + (units[k + 1] % 3)
              /\ p[off[k] + 1] = 0 /\ p[off[k] + 2] = UnitOffset(nalu) + 1 + (units[k + 1] % 3)
              /\ p[off[k] + 3 + UnitOffset(nalu)] = 96 + units[k + 1]
  <2>1. k \in 0 .. N /\ k + 1 \in 0 .. N
    OBVIOUS
  <2>2. PICK O \in Nat : O = UnitOffset(nalu)
    OBVIOUS
  <2>3. PICK type \in Nat, w \in Nat : type = units[k + 1] /\ w = type % 3
    <3>1. PICK type \in Nat : type = units[k + 1]
      BY <1>6
    <3>2. type % 3 \in Nat
      OBVIOUS
    <3> QED
      BY <3>1, <3>2, Zenon
  <2>4. PICK u \in Seq(Nat) : /\ u = UnitOf(nalu, type) /\ Len(u) = 3 + O + w
                              /\ u[1] = 0 /\ u[2] = O + 1 + w /\ u[3 + O] = 96 + type
    <3>1. PICK u : u = UnitOf(nalu, type)
      OBVIOUS
    <3>2. UnitBytes(UnitOf(nalu, type), O, type)
      BY <2>2, UnitIs, Zenon
    <3>3. /\ u \in Seq(Nat) /\ Len(u) = 3 + O + w
          /\ u[1] = 0 /\ u[2] = O + 1 + w /\ u[3 + O] = 96 + type
      BY <2>3, <3>1, <3>2, Zenon DEF UnitBytes
    <3> QED
      BY <3>1, <3>3, Zenon
  <2>5. PICK s \in Seq(Nat), t \in Seq(Nat), a \in Nat, b \in Nat :
            s = f[k] /\ t = f[k + 1] /\ a = Len(s) /\ b = Len(t)
    BY <1>6, <2>1, Zenon
  <2>6. s = u \o t
    BY <1>6, <2>3, <2>4, <2>5, Zenon
  <2>7. a = 3 + O + w + b /\ \A i \in 1 .. 3 + O + w : s[i] = u[i]
    <3>1. /\ Len(u \o t) = Len(u) + Len(t)
          /\ \A i \in 1 .. Len(u) : (u \o t)[i] = u[i]
      BY Behind, Zenon
    <3> QED
      BY <2>4, <2>5, <2>6, <3>1, Zenon
  <2>8. a <= L /\ \A i \in 1 .. a : all[L - a + i] = s[i]
    BY <1>7, <1>8, <2>1, <2>5, Zenon
  <2>9. PICK x \in Nat : x = off[k] /\ x = n + L - a /\ off[k + 1] = n + L - b
    BY <1>11, <2>1, <2>5, Zenon
  <2>10. ASSUME NEW i \in 1 .. 3 + O + w PROVE p[x + i] = u[i]
    <3>1. i \in 1 .. a /\ L - a + i \in 1 .. L /\ n + (L - a + i) = x + i
      BY <2>7, <2>8, <2>9
    <3>2. p[n + (L - a + i)] = all[L - a + i] /\ all[L - a + i] = s[i] /\ s[i] = u[i]
      BY <1>10, <2>7, <2>8, <3>1, Zenon
    <3> QED
      BY <3>1, <3>2, Zenon
  <2>11. /\ 1 \in 1 .. 3 + O + w /\ 2 \in 1 .. 3 + O + w /\ 3 + O \in 1 .. 3 + O + w
         /\ x + 3 + O = x + (3 + O) /\ off[k + 1] = x + 3 + O + w
    BY <2>7, <2>9
  <2>12. p[x + 1] = 0 /\ p[x + 2] = O + 1 + w /\ p[x + 3 + O] = 96 + type
    BY <2>4, <2>10, <2>11, Zenon
  <2> QED
    BY <2>2, <2>3, <2>9, <2>11, <2>12, Zenon
<1>14. p[1] = 96 + nalu
  BY <1>1, <1>2, <1>10
<1>15. Layout(p, off, nalu, units)
  <2>1. off[0] = (IF nalu = 24 THEN 1 ELSE 3)
    BY <1>1, <1>2, <1>12, Zenon
  <2> QED
    BY <1>5, <1>10, <1>12, <1>13, <1>14, <2>1, Zenon DEF Layout
<1>16. ASSUME NEW m \in 0 .. N PROVE Len(Packed(nalu, SubSeq(units, 1, m))) = off[m]
  <2>1. SubSeq(units, 1, m) \in Seq(Nat)
    BY <1>5
  <2>2. PICK g : /\ IsUnits(g, nalu, SubSeq(units, 1, m))
                 /\ Packed(nalu, SubSeq(units, 1, m)) = h \o g[0]
    BY <1>3, <2>1, Zenon
  <2>3. Len(g[0]) = Len(f[0]) - Len(f[m])
    <3>1. m \in 0 .. Len(units) /\ IsUnits(f, nalu, units)
      BY <1>4, <1>5, Zenon
    <3>2. IsUnits(g, nalu, SubSeq(units, 1, m))
      BY <2>2, Zenon
    <3>3. ShorterBy(g[0], f[0], f[m])
      BY <3>1, <3>2, FewerUnits, Zenon
    <3> QED
      BY <3>3, Zenon DEF ShorterBy
  <2>4. g[0] \in Seq(Nat)
    <3>1. 0 \in 0 .. Len(SubSeq(units, 1, m))
      BY <2>1
    <3>2. UnitSuffixes(g, nalu, SubSeq(units, 1, m))
      BY <2>1, <2>2, UnitsAre, Zenon
    <3> QED
      BY <3>1, <3>2, Zenon DEF UnitSuffixes
  <2>5. Len(h \o g[0]) = Len(h) + Len(g[0])
    BY <2>4, Behind, Zenon
  <2>6. Len(f[m]) \in Nat /\ Len(f[m]) <= L
    BY <1>6, <1>7, <1>8, Zenon
  <2>7. Len(Packed(nalu, SubSeq(units, 1, m))) = n + (L - Len(f[m]))
    BY <1>2, <1>8, <2>2, <2>3, <2>5, Zenon
  <2>8. n + (L - Len(f[m])) = n + L - Len(f[m])
    BY <2>6
  <2> QED
    BY <1>11, <2>7, <2>8, Zenon
<1> QED
  BY <1>4, <1>5, <1>8, <1>9, <1>15, <1>16, Zenon

\* What the loop over the units says at byte i, and the table of that
LengthAt(q, i) == 256 * q[i + 1] + q[i + 2]
UnitScan(q, nalu, i, length, rest) ==
    /\ i + 2 <= Len(q)
    /\ i + 2 + length <= Len(q) /\ UnitOffset(nalu) < length
    /\ Low5(q[i + 3 + UnitOffset(nalu)]) = 7 \/ rest
ScanTurn(g, q, nalu, i) == UnitScan(q, nalu, i, LengthAt(q, i), g[i + 2 + LengthAt(q, i)])
IsScan(g, q, nalu) == g = [i \in 0 .. Len(q) + 3 |-> ScanTurn(g, q, nalu, i)]
ScanFrom(g, q, nalu, k) == g = [i \in k .. Len(q) + 3 |-> ScanTurn(g, q, nalu, i)]

\* A turn looks at later bytes only.
LEMMA SameTurn ==
    ASSUME NEW q \in Seq(Nat), NEW nalu, NEW i \in Nat, NEW g, NEW h,
           \A j \in i + 1 .. Len(q) : g[j] = h[j]
    PROVE  ScanTurn(g, q, nalu, i) = ScanTurn(h, q, nalu, i)
<1>1. PICK length : length = LengthAt(q, i)
  OBVIOUS
<1>2. CASE i + 2 <= Len(q) /\ i + 2 + length <= Len(q)
  <2>1. q[i + 1] \in Nat /\ q[i + 2] \in Nat
    BY <1>2
  <2>2. PICK a \in Nat, b \in Nat : a = q[i + 1] /\ b = q[i + 2]
    BY <2>1
  <2>3. length \in Nat
    <3>1. length = 256 * a + b
      BY <1>1, <2>2 DEF LengthAt
    <3> QED
      BY <3>1
  <2>4. i + 2 + length \in i + 1 .. Len(q)
    BY <1>2, <2>3
  <2>5. g[i + 2 + length] = h[i + 2 + length]
    BY <2>4
  <2>6. UnitScan(q, nalu, i, length, g[i + 2 + length])
          = UnitScan(q, nalu, i, length, h[i + 2 + length])
    <3>1. PICK x : x = g[i + 2 + length] /\ x = h[i + 2 + length]
      BY <2>5, Zenon
    <3> QED
      BY <3>1, Zenon
  <2>7. ASSUME NEW t
        PROVE  ScanTurn(t, q, nalu, i) = UnitScan(q, nalu, i, length, t[i + 2 + length])
    BY <1>1, Zenon DEF ScanTurn
  <2> QED
    BY <2>6, <2>7, Zenon
<1>3. CASE ~(i + 2 <= Len(q) /\ i + 2 + length <= Len(q))
  <2>1. ASSUME NEW rest PROVE UnitScan(q, nalu, i, length, rest) = FALSE
    BY <1>3, Zenon DEF UnitScan
  <2> QED
    BY <1>1, <2>1, Zenon DEF ScanTurn
<1> QED
  BY <1>2, <1>3, Zenon

\* There is such a table.
LEMMA ScanExists ==
    ASSUME NEW q \in Seq(Nat), NEW nalu
    PROVE  \E g : IsScan(g, q, nalu)
<1>1. PICK N \in Nat : N = Len(q) + 3
  OBVIOUS
<1> DEFINE G == {k \in 0 .. N : \E g : ScanFrom(g, q, nalu, k)}
<1>2. N \in G
  <2> DEFINE g == [i \in N .. N |-> ScanTurn(<<>>, q, nalu, i)]
  <2>1. ASSUME NEW i \in N .. N PROVE ScanTurn(<<>>, q, nalu, i) = ScanTurn(g, q, nalu, i)
    <3>1. i \in Nat /\ \A j \in i + 1 .. Len(q) : FALSE
      BY <1>1
    <3> HIDE DEF g
    <3> QED
      BY <3>1, SameTurn, ZenonT(30)
  <2>2. g = [i \in N .. N |-> ScanTurn(g, q, nalu, i)]
    <3>1. \A i \in N .. N : g[i] = ScanTurn(<<>>, q, nalu, i)
      OBVIOUS
    <3>2. g = [i \in N .. N |-> g[i]]
      OBVIOUS
    <3> HIDE DEF g
    <3> QED
      BY <2>1, <3>1, <3>2, Zenon
  <2> HIDE DEF g
  <2>3. ScanFrom(g, q, nalu, N)
    BY <1>1, <2>2, Zenon DEF ScanFrom
  <2>4. N \in 0 .. N
    OBVIOUS
  <2> QED
    BY <2>3, <2>4
<1>3. ASSUME NEW k \in 0 .. N - 1, k + 1 \in G PROVE k \in G
  <2>1. PICK f : ScanFrom(f, q, nalu, k + 1)
    BY <1>3
  <2>2. f = [i \in k + 1 .. N |-> ScanTurn(f, q, nalu, i)]
    BY <1>1, <2>1, Zenon DEF ScanFrom
  <2> DEFINE g == [i \in k .. N |-> IF i = k THEN ScanTurn(f, q, nalu, k) ELSE f[i]]
  <2>3. ASSUME NEW i \in k .. N PROVE g[i] = ScanTurn(f, q, nalu, i)
    <3>1. CASE i = k
      BY <3>1
    <3>2. CASE i # k
      <4>1. i \in k + 1 .. N
        BY <3>2
      <4>2. f[i] = ScanTurn(f, q, nalu, i)
        BY <2>2, <4>1, Zenon
      <4>3. g[i] = f[i]
        BY <3>2
      <4> QED
        BY <4>2, <4>3, Zenon
    <3> QED
      BY <3>1, <3>2, Zenon
  <2>4. ASSUME NEW i \in k .. N PROVE ScanTurn(f, q, nalu, i) = ScanTurn(g, q, nalu, i)
    <3>1. i \in Nat
      OBVIOUS
    <3>2. ASSUME NEW j \in i + 1 .. Len(q) PROVE f[j] = g[j]
      <4>1. j \in k .. N /\ j # k
        BY <1>1
      <4> QED
        BY <4>1
    <3> HIDE DEF g
    <3> QED
      BY <3>1, <3>2, SameTurn, Zenon
  <2>5. g = [i \in k .. N |-> g[i]]
    OBVIOUS
  <2> HIDE DEF g
  <2>6. ScanFrom(g, q, nalu, k)
    BY <1>1, <2>3, <2>4, <2>5, Zenon DEF ScanFrom
  <2>7. k \in 0 .. N
    OBVIOUS
  <2> QED
    BY <2>6, <2>7
<1> HIDE DEF G
<1>4. \A k \in 0 .. N : k \in G
  BY <1>2, <1>3, Downwards, Zenon
<1>5. 0 \in 0 .. N
  OBVIOUS
<1>6. 0 \in G
  BY <1>4, <1>5, Zenon
<1>7. PICK g : ScanFrom(g, q, nalu, 0)
  BY <1>6 DEF G
<1> QED
  BY <1>7, Zenon DEF ScanFrom, IsScan

\* The types of a unit and of a packet are read from their first byte.
LEMMA TypesRead ==
    ASSUME NEW type \in 0 .. 31
    PROVE  Low5(96 + type) = type /\ Low5(type) = type
BY DEF Low5

\* The parameter sets of the units behind the first k end within n bytes
Sets(units, off, k, n) == {m \in k + 1 .. Len(units) : units[m] = 7 /\ off[m] <= n}

\* The scan of the first n bytes of a packet, from the beginning of a unit, finds a
\* parameter set among the units from there on that end within n.
LEMMA ScanFinds ==
    ASSUME NEW nalu \in Nat, UnitOffset(nalu) \in Nat, NEW units \in Seq({1, 5, 7}),
           NEW p, NEW off, Layout(p, off, nalu, units), NEW n \in 0 .. Len(p), NEW q,
           q = SubSeq(p, 1, n), NEW g, IsScan(g, q, nalu), off[0] <= n + 3
    PROVE  g[off[0]] <=> Sets(units, off, 0, n) # {}
<1>1. PICK N \in Nat, O \in Nat, L \in Nat : N = Len(units) /\ O = UnitOffset(nalu) /\ L = Len(p)
  BY DEF Layout
<1>2. /\ p \in Seq(Nat) /\ off \in [0 .. N -> Nat] /\ off[N] = L
      /\ \A k \in 0 .. N - 1 :
            /\ off[k + 1] = off[k] + 3 + O + (units[k + 1] % 3)
            /\ p[off[k] + 1] = 0 /\ p[off[k] + 2] = O + 1 + (units[k + 1] % 3)
            /\ p[off[k] + 3 + O] = 96 + units[k + 1]
  BY <1>1, Zenon DEF Layout
<1>3. n \in Nat /\ n <= L
  BY <1>1
<1>4. q \in Seq(Nat) /\ Len(q) = n /\ \A i \in 1 .. n : q[i] = p[i]
  <2>1. PICK s : s = SubSeq(p, 1, n)
    OBVIOUS
  <2>2. s \in Seq(Nat) /\ Len(s) = n /\ \A i \in 1 .. n : s[i] = p[i]
    BY <1>1, <1>2, <2>1
  <2> QED
    BY <2>1, <2>2, Zenon
<1>5. \A i \in 0 .. n + 3 : g[i] = ScanTurn(g, q, nalu, i)
  BY <1>4, Zenon DEF IsScan
<1> DEFINE Found(k) ==
             /\ \A m \in k .. N : off[k] <= off[m]
             /\ off[k] <= n + 3 => (g[off[k]] <=> Sets(units, off, k, n) # {})
           G == {k \in 0 .. N : Found(k)}
<1>6. N \in G
  <2>1. \A m \in N .. N : off[N] <= off[m]
    BY <1>1, <1>2
  <2>2. Sets(units, off, N, n) = {}
    <3>1. N + 1 .. N = {}
      OBVIOUS
    <3> QED
      BY <1>1, <3>1, Zenon DEF Sets
  <2>3. ASSUME L <= n + 3 PROVE g[L] = FALSE
    <3>1. ~(L + 2 <= n) /\ L \in 0 .. n + 3
      BY <1>3, <2>3
    <3>2. g[L] = ScanTurn(g, q, nalu, L)
      BY <1>5, <3>1, Zenon
    <3> QED
      BY <1>4, <3>1, <3>2, Zenon DEF ScanTurn, UnitScan
  <2>4. N \in 0 .. N
    OBVIOUS
  <2>5. Found(N)
    BY <1>2, <2>1, <2>2, <2>3, Zenon
  <2> QED
    BY <2>4, <2>5, Zenon
<1>7. ASSUME NEW k \in 0 .. N - 1, k + 1 \in G PROVE k \in G
  <2>1. Found(k + 1)
    BY <1>7, Zenon
  <2> HIDE DEF Found
  <2>2. k \in 0 .. N /\ k + 1 \in 0 .. N /\ k + 1 \in 1 .. N
    OBVIOUS
  <2>3. PICK type \in {1, 5, 7} : type = units[k + 1]
    BY <1>1, <2>2
  <2>4. PICK w \in Nat : w = type % 3
    OBVIOUS
  <2>5. PICK x \in Nat, y \in Nat : x = off[k] /\ y = off[k + 1]
    <3>1. off[k] \in Nat /\ off[k + 1] \in Nat
      BY <1>2, <2>2
    <3> QED
      BY <3>1, Zenon
  <2>10. y = x + 3 + O + w
    BY <1>2, <2>3, <2>4, <2>5, Zenon
  <2>11. p[x + 1] = 0 /\ p[x + 2] = O + 1 + w /\ p[x + 3 + O] = 96 + type
    BY <1>2, <2>3, <2>4, <2>5, Zenon
  <2>6. \A m \in k + 1 .. N : y <= off[m]
    BY <2>1, <2>5, Zenon DEF Found
  <2>7. \A m \in k .. N : x <= off[m]
    <3>1. \A m \in k .. N : m = k \/ m \in k + 1 .. N
      OBVIOUS
    <3>2. x <= x /\ \A z \in Nat : y <= z => x <= z
      BY <2>10
    <3>3. \A m \in k .. N : off[m] \in Nat
      <4>1. \A m \in k .. N : m \in 0 .. N
        OBVIOUS
      <4> QED
        BY <1>2, <4>1
    <3> QED
      BY <2>5, <2>6, <3>1, <3>2, <3>3, Zenon
  <2>8. ASSUME x <= n + 3 PROVE g[x] <=> Sets(units, off, k, n) # {}
    <3>1. g[x] = UnitScan(q, nalu, x, LengthAt(q, x), g[x + 2 + LengthAt(q, x)])
      <4>1. x \in 0 .. n + 3
        BY <2>8
      <4> QED
        BY <1>5, <4>1, Zenon DEF ScanTurn
    <3>2. x + 2 <= n => LengthAt(q, x) = O + 1 + w
      <4>1. ASSUME x + 2 <= n PROVE 256 * q[x + 1] + q[x + 2] = O + 1 + w
        <5>1. q[x + 1] = 0 /\ q[x + 2] = O + 1 + w
          <6>1. x + 1 \in 1 .. n /\ x + 2 \in 1 .. n
            BY <4>1
          <6> QED
            BY <1>4, <2>11, <6>1, Zenon
        <5>2. PICK b \in Nat : b = O + 1 + w
          OBVIOUS
        <5>3. 256 * 0 + b = b
          OBVIOUS
        <5> QED
          BY <5>1, <5>2, <5>3, Zenon
      <4> QED
        BY <4>1, Zenon DEF LengthAt
    <3>3. CASE y <= n
      <4>1. /\ x + 2 <= n /\ x + 2 + (O + 1 + w) = y /\ O < O + 1 + w
            /\ x + 3 + O \in 1 .. n /\ y <= n + 3
        BY <1>3, <2>10, <3>3
      <4>2. Low5(q[x + 3 + O]) = type
        <5>1. type \in 0 .. 31
          OBVIOUS
        <5>2. q[x + 3 + O] = 96 + type
          BY <1>4, <2>11, <4>1, Zenon
        <5> QED
          BY <5>1, <5>2, TypesRead, Zenon
      <4>3. g[x] <=> type = 7 \/ g[y]
        BY <1>1, <1>4, <3>1, <3>2, <3>3, <4>1, <4>2, Zenon DEF UnitScan
      <4>4. g[y] <=> Sets(units, off, k + 1, n) # {}
        BY <2>1, <2>5, <4>1, Zenon DEF Found
      <4>5. Sets(units, off, k, n)
              = Sets(units, off, k + 1, n) \cup {m \in {k + 1} : units[m] = 7}
        <5>1. ASSUME NEW m
              PROVE  m \in k + 1 .. N <=> m \in k + 1 + 1 .. N \/ m = k + 1
          BY <2>2
        <5>2. off[k + 1] <= n
          BY <2>5, <3>3, Zenon
        <5> QED
          BY <1>1, <5>1, <5>2, Zenon DEF Sets
      <4> QED
        BY <2>3, <4>3, <4>4, <4>5, Zenon
    <3>4. CASE ~(y <= n)
      <4>1. g[x] = FALSE
        <5>1. CASE x + 2 <= n
          <6>1. LengthAt(q, x) = O + 1 + w /\ ~(x + 2 + (O + 1 + w) <= n)
            <7>1. x + 2 + (O + 1 + w) = y
              BY <2>10
            <7> QED
              BY <3>2, <3>4, <5>1, <7>1, Zenon
          <6> QED
            BY <1>4, <3>1, <6>1, Zenon DEF UnitScan
        <5>2. CASE ~(x + 2 <= n)
          BY <1>4, <3>1, <5>2, Zenon DEF UnitScan
        <5> QED
          BY <5>1, <5>2, Zenon
      <4>2. ASSUME NEW m \in k + 1 .. N PROVE ~(off[m] <= n)
        <5>1. m \in 0 .. N
          OBVIOUS
        <5>2. off[m] \in Nat /\ y <= off[m]
          BY <1>2, <2>6, <5>1
        <5> QED
          BY <1>3, <3>4, <5>2
      <4>3. Sets(units, off, k, n) = {}
        BY <1>1, <4>2, Zenon DEF Sets
      <4> QED
        BY <4>1, <4>3, Zenon
    <3> QED
      BY <3>3, <3>4, Zenon
  <2>9. Found(k)
    BY <2>5, <2>7, <2>8, Zenon DEF Found
  <2> QED
    BY <2>2, <2>9, Zenon
<1> HIDE DEF G
<1>8. \A k \in 0 .. N : k \in G
  BY <1>6, <1>7, Downwards, Zenon
<1>9. 0 \in 0 .. N
  OBVIOUS
<1>10. 0 \in G
  BY <1>8, <1>9, Zenon
<1> QED
  BY <1>10, Zenon DEF G

\* The units end behind the head of the packet and within it.
LEMMA OffsetsWithin ==
    ASSUME NEW nalu, UnitOffset(nalu) \in Nat, NEW units \in Seq({1, 5, 7}), NEW p, NEW off,
           Layout(p, off, nalu, units)
    PROVE  \A k \in 0 .. Len(units) : off[k] \in Nat /\ off[0] <= off[k] /\ off[k] <= Len(p)
<1>1. PICK N \in Nat, O \in Nat, L \in Nat : N = Len(units) /\ O = UnitOffset(nalu) /\ L = Len(p)
  BY DEF Layout
<1>2. /\ off \in [0 .. N -> Nat] /\ off[N] = L
      /\ \A k \in 0 .. N - 1 : off[k + 1] = off[k] + 3 + O + (units[k + 1] % 3)
  BY <1>1, Zenon DEF Layout
<1>3. \A k \in 0 .. N - 1 : k \in 0 .. N /\ k + 1 \in 0 .. N
  OBVIOUS
<1>4. ASSUME NEW k \in 0 .. N - 1 PROVE off[k] <= off[k + 1]
  <2>1. units[k + 1] % 3 \in Nat
    BY <1>1
  <2>2. off[k] \in Nat /\ off[k + 1] = off[k] + 3 + O + (units[k + 1] % 3)
    BY <1>2, <1>3
  <2> QED
    BY <2>1, <2>2
<1>5. \A k \in 0 .. N : off[k] \in Nat
  BY <1>2
<1>6. \A x \in Nat, y \in Nat, z \in Nat : x <= y /\ y <= z => x <= z
  OBVIOUS
<1>7. 0 \in 0 .. N /\ N \in 0 .. N /\ off[0] <= off[0] /\ off[N] <= off[N]
  BY <1>5
<1> DEFINE G == {k \in 0 .. N : off[0] <= off[k]}
           H == {k \in 0 .. N : off[k] <= off[N]}
<1>8. ASSUME NEW k \in 0 .. N - 1, k \in G PROVE k + 1 \in G
  <2>1. off[0] <= off[k]
    BY <1>8
  <2>2. k + 1 \in 0 .. N /\ off[0] <= off[k + 1]
    BY <1>3, <1>4, <1>5, <1>6, <1>7, <2>1, Zenon
  <2> QED
    BY <2>2, Zenon
<1>9. ASSUME NEW k \in 0 .. N - 1, k + 1 \in H PROVE k \in H
  <2>1. off[k + 1] <= off[N]
    BY <1>9
  <2>2. k \in 0 .. N /\ off[k] <= off[N]
    BY <1>3, <1>4, <1>5, <1>6, <1>7, <2>1, Zenon
  <2> QED
    BY <2>2, Zenon
<1>10. 0 \in G /\ N \in H
  BY <1>7, Zenon
<1> HIDE DEF G, H
<1>11. (\A k \in 0 .. N : k \in G) /\ (\A k \in 0 .. N : k \in H)
  BY <1>8, <1>9, <1>10, Upwards, Downwards, Zenon
<1> QED
  BY <1>1, <1>2, <1>5, <1>11, Zenon DEF G, H

\* isH264Keyframe of the first n bytes of an aggregate.
LEMMA AggregateRead ==
    ASSUME NEW nalu \in 24 .. 27, NEW units \in Seq({1, 5, 7}), NEW p, NEW off,
           Layout(p, off, nalu, units), NEW n \in 0 .. Len(p)
    PROVE  isH264Keyframe(SubSeq(p, 1, n)) <=> Sets(units, off, 0, n) # {}
<1>1. UnitOffset(nalu) \in Nat
  BY DEF UnitOffset
<1>2. PICK L \in Nat, N \in Nat : L = Len(p) /\ N = Len(units)
  BY DEF Layout
<1>3. /\ p \in Seq(Nat) /\ off \in [0 .. N -> Nat]
      /\ off[0] = (IF nalu = 24 THEN 1 ELSE 3) /\ p[1] = 96 + nalu
  BY <1>2, Zenon DEF Layout
<1>4. PICK q : q = SubSeq(p, 1, n)
  OBVIOUS
<1>5. q \in Seq(Nat) /\ Len(q) = n /\ \A i \in 1 .. n : q[i] = p[i]
  BY <1>2, <1>3, <1>4
<1>6. off[0] \in Nat /\ 1 <= off[0] /\ off[0] <= n + 3
  BY <1>3
<1>7. HasSps(q, nalu, off[0]) <=> Sets(units, off, 0, n) # {}
  <2> DEFINE g == CHOOSE f : IsScan(f, q, nalu)
  <2>1. IsScan(g, q, nalu)
    BY <1>5, ScanExists, Zenon
  <2>2. HasSps(q, nalu, off[0]) = g[off[0]]
    BY Zenon DEF HasSps, IsScan, ScanTurn, UnitScan, LengthAt
  <2> HIDE DEF g
  <2>3. nalu \in Nat
    OBVIOUS
  <2>4. g[off[0]] <=> Sets(units, off, 0, n) # {}
    BY <1>1, <1>4, <1>6, <2>1, <2>3, ScanFinds, Zenon
  <2> QED
    BY <2>2, <2>4, Zenon
<1>8. CASE n = 0
  <2>1. ~isH264Keyframe(q)
    BY <1>5, <1>8 DEF isH264Keyframe
  <2>2. Sets(units, off, 0, n) = {}
    <3>1. \A m \in 0 + 1 .. Len(units) : m \in 0 .. Len(units)
      OBVIOUS
    <3>2. \A x \in Nat : 1 <= off[0] /\ off[0] <= x => ~(x <= n)
      BY <1>6, <1>8
    <3>3. ASSUME NEW m \in 0 + 1 .. Len(units) PROVE ~(off[m] <= n)
      BY <1>1, <1>6, <3>1, <3>2, OffsetsWithin, Zenon
    <3> QED
      BY <3>3, Zenon DEF Sets
  <2> QED
    BY <1>4, <2>1, <2>2, Zenon
<1>9. CASE n > 0
  <2>1. Low5(q[1]) = nalu
    <3>1. 1 \in 1 .. n
      BY <1>9
    <3>2. nalu \in 0 .. 31
      OBVIOUS
    <3>3. q[1] = 96 + nalu
      BY <1>3, <1>5, <3>1, Zenon
    <3> QED
      BY <3>2, <3>3, TypesRead, Zenon
  <2>2. /\ nalu # 5 /\ nalu \notin {28, 29} /\ (nalu = 24 \/ nalu \in 25 .. 27)
        /\ ~(nalu = 24 /\ nalu \in 25 .. 27)
    OBVIOUS
  <2>3. isH264Keyframe(q) <=> HasSps(q, nalu, off[0])
    <3>1. CASE nalu = 24
      <4>1. off[0] = 1
        BY <1>3, <3>1
      <4> QED
        BY <1>5, <1>9, <2>1, <2>2, <3>1, <4>1, Zenon DEF isH264Keyframe
    <3>2. CASE nalu \in 25 .. 27
      <4>1. off[0] = 3 /\ nalu # 24
        BY <1>3, <3>2
      <4> QED
        BY <1>5, <1>9, <2>1, <2>2, <3>2, <4>1, Zenon DEF isH264Keyframe
    <3> QED
      BY <2>2, <3>1, <3>2, Zenon
  <2> QED
    BY <1>4, <1>7, <2>3, Zenon
<1> QED
  BY <1>8, <1>9

\* An aggregate, whole and cut off anywhere.
LEMMA AggregatesAgree ==
    ASSUME NEW nalu \in 24 .. 27, NEW units \in Seq({1, 5, 7})
    PROVE  LET whole == Packed(nalu, units)
               sps == {m \in DOMAIN units : units[m] = 7}
               Part(m) == Packed(nalu, SubSeq(units, 1, m))
           IN /\ isH264Keyframe(whole) <=> sps # {}
              /\ \A n \in 0 .. Len(whole) : isH264Keyframe(SubSeq(whole, 1, n)) <=>
                    \E m \in sps : n >= Len(Part(m))
<1> DEFINE sps == {m \in DOMAIN units : units[m] = 7}
           Part(m) == Packed(nalu, SubSeq(units, 1, m))
<1>1. units \in Seq(Nat) /\ nalu \in Nat
  OBVIOUS
<1>2. UnitOffset(nalu) \in Nat
  BY DEF UnitOffset
<1>3. PICK p : p = Packed(nalu, units)
  OBVIOUS
<1>4. PICK off : /\ Layout(p, off, nalu, units)
                 /\ \A m \in 0 .. Len(units) : Len(Part(m)) = off[m]
  <2>1. \E off : /\ Layout(Packed(nalu, units), off, nalu, units)
                 /\ \A m \in 0 .. Len(units) :
                       Len(Packed(nalu, SubSeq(units, 1, m))) = off[m]
    BY <1>1, <1>2, LayoutExists, Zenon
  <2> QED
    BY <1>3, <2>1, Zenon
<1>5. p \in Seq(Nat)
  BY <1>4, Zenon DEF Layout
<1>6. PICK L \in Nat : L = Len(p)
  BY <1>5
<1>7. DOMAIN units = 0 + 1 .. Len(units) /\ \A m \in 0 + 1 .. Len(units) : m \in 0 .. Len(units)
  OBVIOUS
<1>8. \A k \in 0 .. Len(units) : off[k] \in Nat /\ off[k] <= L
  BY <1>2, <1>4, <1>6, OffsetsWithin, Zenon
<1>9. ASSUME NEW n \in 0 .. L
      PROVE  Sets(units, off, 0, n) # {} <=> \E m \in sps : n >= Len(Part(m))
  <2>1. \A x \in Nat : n >= x <=> x <= n
    OBVIOUS
  <2>2. ASSUME NEW m
        PROVE  m \in Sets(units, off, 0, n) <=> m \in sps /\ n >= Len(Part(m))
    BY <1>4, <1>7, <1>8, <2>1, Zenon DEF Sets
  <2> QED
    BY <2>2, Zenon
<1>10. \A n \in 0 .. L : isH264Keyframe(SubSeq(p, 1, n)) <=>
                            \E m \in sps : n >= Len(Part(m))
  <2>1. ASSUME NEW n \in 0 .. L
        PROVE  isH264Keyframe(SubSeq(p, 1, n)) <=> Sets(units, off, 0, n) # {}
    BY <1>4, <1>6, AggregateRead, Zenon
  <2> QED
    BY <1>9, <2>1, Zenon
<1>11. isH264Keyframe(p) <=> sps # {}
  <2>1. SubSeq(p, 1, L) = p /\ L \in 0 .. L
    BY <1>5, <1>6
  <2>2. isH264Keyframe(p) <=> Sets(units, off, 0, L) # {}
    BY <1>4, <1>6, <2>1, AggregateRead, Zenon
  <2>3. ASSUME NEW m PROVE m \in Sets(units, off, 0, L) <=> m \in sps
    BY <1>7, <1>8, Zenon DEF Sets
  <2> QED
    BY <2>2, <2>3, Zenon
<1> QED
  BY <1>3, <1>6, <1>10, <1>11, Zenon

\* A packet of two bytes that is not an aggregate.
LEMMA NalRead ==
    ASSUME NEW nalu \in 0 .. 31, nalu \notin 24 .. 27, NEW second \in {1, 7, 128 + 5, 128 + 7}
    PROVE  isH264Keyframe(<<nalu, second>>)
             <=> nalu = 5 \/ (nalu \in {28, 29} /\ second = 128 + 7)
<1>1. PICK p : p = <<nalu, second>>
  OBVIOUS
<1>2. Len(p) = 2 /\ Len(p) > 0 /\ Len(p) > 1 /\ p[1] = nalu /\ p[2] = second
  BY <1>1
<1>3. Low5(p[1]) = nalu
  BY <1>2, TypesRead, Zenon
<1>4. (Bit(second, 7) /\ Low5(second) = 7) <=> second = 128 + 7
  BY DEF Bit, Low5
<1>5. nalu # 24 /\ nalu \notin 25 .. 27
  OBVIOUS
<1>6. isH264Keyframe(p) <=> nalu = 5 \/ (nalu \in {28, 29} /\ Bit(second, 7) /\ Low5(second) = 7)
  BY <1>2, <1>3, <1>5, Zenon DEF isH264Keyframe
<1> QED
  BY <1>1, <1>4, <1>6, Zenon

\* isH264Keyframe (buffer/helpers.go) answers as H.264 packets are packed: for an
\* aggregate of any number of units and for every part of one, whether a parameter set
\* is in it; for a fragment or a unit of its own, whether it starts a set or is a
\* picture.  MaxUnits is any number.
LEMMA H264Read ==
    ASSUME MaxUnits \in Nat, sample \in H264Samples
    PROVE  H264Agrees /\ (sample.kind = "h264" \/ sample.kind = "nal")
<1>1. CASE sample \in [kind : {"nal"}, nalu : 0 .. 31 , second : {1, 7, 128 + 5, 128 + 7}]
  <2>1. sample.kind = "nal" /\ sample.nalu \in 0 .. 31 /\ sample.second \in {1, 7, 128 + 5, 128 + 7}
    BY <1>1
  <2>2. H264Agrees
    <3>1. PICK nalu \in 0 .. 31, second \in {1, 7, 128 + 5, 128 + 7} :
             nalu = sample.nalu /\ second = sample.second
      BY <2>1
    <3>2. nalu \notin 24 .. 27 =>
            (isH264Keyframe(<<nalu, second>>)
               <=> nalu = 5 \/ (nalu \in {28, 29} /\ second = 128 + 7))
      BY NalRead, Zenon
    <3> QED
      BY <2>1, <3>1, <3>2, Zenon DEF H264Agrees
  <2> QED
    BY <2>1, <2>2, Zenon
<1>2. CASE sample \in [kind : {"h264"}, nalu : 24 .. 27,
                       units : UNION {[1 .. n -> {1, 5, 7}] : n \in 0 .. MaxUnits}]
  <2>1. /\ sample.kind = "h264" /\ sample.nalu \in 24 .. 27
        /\ sample.units \in UNION {[1 .. n -> {1, 5, 7}] : n \in 0 .. MaxUnits}
    BY <1>2
  <2>2. PICK n \in 0 .. MaxUnits : sample.units \in [1 .. n -> {1, 5, 7}]
    BY <2>1
  <2>3. sample.units \in Seq({1, 5, 7})
    BY <2>2
  <2>4. sample.kind # "nal"
    BY <2>1
  <2>5. H264Agrees
    BY <2>1, <2>3, <2>4, AggregatesAgree, Zenon DEF H264Agrees
  <2> QED
    BY <2>1, <2>5, Zenon
<1> QED
  BY <1>1, <1>2, Zenon DEF H264Samples

\* codecParametersFuzzySearch: no codec of the list serves better than the one found.
LEMMA CodecChosen ==
    ASSUME sample \in CodecSamples
    PROVE  CodecAgrees
<1>1. PICK needle \in Codecs, haystack \in [1 .. 3 -> Codecs] :
         needle = sample.needle /\ haystack = sample.haystack
  BY DEF CodecSamples
<1> DEFINE mime == {i \in DOMAIN haystack : haystack[i].mime = needle.mime}
           exact == {i \in mime : haystack[i].fmtp = needle.fmtp}
           First(S) == IF S = {} THEN 0 ELSE CHOOSE i \in S : \A j \in S : i <= j
           Fit(c) == Num(c.mime = needle.mime) + Num(c = needle)
           chosen == FuzzySearch(needle, haystack)
           best == IF chosen = 0 THEN 0 ELSE Fit(haystack[chosen])
<1>2. ASSUME NEW S \in SUBSET (1 .. 3), S # {} PROVE First(S) \in S /\ First(S) # 0
  <2>1. S \in SUBSET Nat /\ 0 \notin S
    OBVIOUS
  <2>2. \E i \in S : \A j \in S : i <= j
    BY <1>2, <2>1, Least, Zenon
  <2>3. First(S) \in S
    BY <1>2, <2>2, Zenon
  <2> QED
    BY <2>1, <2>3, Zenon
<1>3. DOMAIN haystack = 1 .. 3 /\ mime \in SUBSET (1 .. 3) /\ exact \in SUBSET (1 .. 3)
  OBVIOUS
<1>4. chosen = IF exact # {} THEN First(exact) ELSE First(mime)
  BY Zenon DEF FuzzySearch
<1>5. \A c, d \in Codecs : c = d <=> c.mime = d.mime /\ c.fmtp = d.fmtp
  BY DEF Codecs
<1>6. \A i \in 1 .. 3 : haystack[i] \in Codecs
  OBVIOUS
<1>7. \A i \in 1 .. 3 : /\ i \in mime <=> haystack[i].mime = needle.mime
                        /\ i \in exact <=> haystack[i] = needle
  BY <1>3, <1>5, <1>6, Zenon
<1>8. ASSUME NEW i \in 1 .. 3
      PROVE  Fit(haystack[i]) = IF i \in exact THEN 2 ELSE IF i \in mime THEN 1 ELSE 0
  <2>1. i \in exact => i \in mime
    OBVIOUS
  <2> HIDE DEF mime, exact
  <2> QED
    BY <1>7, <2>1 DEF Num
<1> HIDE DEF mime, exact, Fit, chosen, First
<1>9. ASSUME NEW i \in 1 .. 3 PROVE Fit(haystack[i]) <= best
  <2>1. CASE exact # {}
    <3>1. chosen \in exact /\ chosen # 0 /\ chosen \in 1 .. 3
      BY <1>2, <1>3, <1>4, <2>1, Zenon
    <3> QED
      BY <1>8, <3>1
  <2>2. CASE exact = {} /\ mime # {}
    <3>1. chosen \in mime /\ chosen # 0 /\ chosen \in 1 .. 3
      BY <1>2, <1>3, <1>4, <2>2, Zenon
    <3> QED
      BY <1>8, <2>2, <3>1
  <2>3. CASE exact = {} /\ mime = {}
    <3>1. chosen = 0
      BY <1>4, <2>3, Zenon DEF First
    <3> QED
      BY <1>8, <2>3, <3>1
  <2> QED
    BY <2>1, <2>2, <2>3, Zenon
<1> QED
  BY <1>1, <1>9, Zenon DEF CodecAgrees, Fit, chosen

-----------------------------------------------------------------------------
(* VP8 payload descriptors                                                 *)

\* The bytes of a payload: the first, x = 1 for an extension with flags e, i bytes of
\* a picture id, l = 1 for a TL0PICIDX, t = 1 for a temporal layer, and the last
PayloadBytes(p, first, x, e, i, l, t, last) ==
    /\ p \in Seq(Nat) /\ Len(p) = 2 + x + i + l + t
    /\ p[1] = first /\ (x = 1 => p[2] = e)
    /\ i = 1 => p[3] = 5
    /\ i = 2 => p[3] = 129 /\ p[4] = 5
    /\ l = 1 => p[3 + i] = 9
    /\ t = 1 => p[3 + i + l] = 135
    /\ p[2 + x + i + l + t] = last

\* Bytes s with bytes t behind them
Joined(u, s, t) ==
    /\ u \in Seq(Nat) /\ Len(u) = Len(s) + Len(t)
    /\ \A k \in 1 .. Len(s) : u[k] = s[k]
    /\ \A k \in 1 .. Len(t) : u[Len(s) + k] = t[k]

LEMMA Join ==
    ASSUME NEW s \in Seq(Nat), NEW t \in Seq(Nat), NEW u, u = s \o t
    PROVE  Joined(u, s, t)
<1>1. Joined(s \o t, s, t)
  BY Behind, Zenon DEF Joined
<1> QED
  BY <1>1, Zenon

\* The bytes of an extension
ExtensionBytes(x, e, i, l, t) ==
    /\ x \in Seq(Nat) /\ Len(x) = 1 + i + l + t /\ x[1] = e
    /\ i = 1 => x[2] = 5
    /\ i = 2 => x[2] = 129 /\ x[3] = 5
    /\ l = 1 => x[2 + i] = 9
    /\ t = 1 => x[2 + i + l] = 135

\* What Encode puts together for it
ExtensionParts(i, l, t, a, b, c) ==
    /\ a = (IF i = 0 THEN <<>> ELSE IF i = 2 THEN <<128 + 1, 5>> ELSE <<5>>)
    /\ b = (IF l = 1 THEN <<9>> ELSE <<>>)
    /\ c = (IF t = 1 THEN <<2 * 64 + 7>> ELSE <<>>)

\* What Encode writes of an extension.
LEMMA ExtensionIs ==
    ASSUME NEW e \in Nat, NEW i \in 0 .. 2, NEW l \in 0 .. 1, NEW t \in 0 .. 1,
           NEW a, NEW b, NEW c, ExtensionParts(i, l, t, a, b, c),
           NEW x, x = <<e>> \o a \o b \o c
    PROVE  ExtensionBytes(x, e, i, l, t)
<1>1. PICK s : s = <<e>>
  OBVIOUS
<1>2. s \in Seq(Nat) /\ Len(s) = 1 /\ s[1] = e
  BY <1>1
<1>3. a \in Seq(Nat) /\ Len(a) = i /\ (i = 1 => a[1] = 5) /\ (i = 2 => a[1] = 129 /\ a[2] = 5)
  BY DEF ExtensionParts
<1>4. b \in Seq(Nat) /\ Len(b) = l /\ (l = 1 => b[1] = 9)
  BY DEF ExtensionParts
<1>5. c \in Seq(Nat) /\ Len(c) = t /\ (t = 1 => c[1] = 135)
  BY DEF ExtensionParts
<1>6. PICK u : u = s \o a
  OBVIOUS
<1>7. Joined(u, s, a)
  BY <1>2, <1>3, <1>6, Join, Zenon
<1>8. /\ u \in Seq(Nat) /\ Len(u) = 1 + i /\ u[1] = e
      /\ (i = 1 => u[2] = 5) /\ (i = 2 => u[2] = 129 /\ u[3] = 5)
  BY <1>2, <1>3, <1>7 DEF Joined
<1>9. PICK v : v = u \o b
  OBVIOUS
<1>10. Joined(v, u, b)
  BY <1>4, <1>8, <1>9, Join, Zenon
<1>11. /\ v \in Seq(Nat) /\ Len(v) = 1 + i + l /\ v[1] = e
       /\ (i = 1 => v[2] = 5) /\ (i = 2 => v[2] = 129 /\ v[3] = 5)
       /\ l = 1 => v[2 + i] = 9
  <2>1. PICK m \in Nat : m = Len(u) /\ m = 1 + i
    BY <1>8
  <2>2. Len(b) = l /\ (l = 1 => b[1] = 9)
    BY <1>4
  <2>3. /\ v \in Seq(Nat) /\ Len(v) = m + l
        /\ \A k \in 1 .. m : v[k] = u[k]
        /\ \A k \in 1 .. l : v[m + k] = b[k]
    BY <1>10, <2>1, <2>2, Zenon DEF Joined
  <2>4. /\ 1 \in 1 .. m /\ (i = 1 => 2 \in 1 .. m) /\ (i = 2 => 2 \in 1 .. m /\ 3 \in 1 .. m)
        /\ (l = 1 => 1 \in 1 .. l) /\ m + 1 = 2 + i /\ m + l = 1 + i + l
    BY <2>1
  <2>5. /\ v[1] = u[1] /\ (i = 1 => v[2] = u[2]) /\ (i = 2 => v[2] = u[2] /\ v[3] = u[3])
        /\ (l = 1 => v[2 + i] = b[1])
    BY <2>3, <2>4, Zenon
  <2> QED
    BY <1>8, <2>2, <2>3, <2>4, <2>5
<1>12. x = v \o c
  BY <1>1, <1>6, <1>9, Zenon
<1>13. Joined(x, v, c)
  BY <1>5, <1>11, <1>12, Join, Zenon
<1>14. PICK len \in Nat : len = Len(v) /\ len = 1 + i + l
  BY <1>11
<1>15. /\ x \in Seq(Nat) /\ Len(x) = len + t
       /\ \A k \in 1 .. len : x[k] = v[k]
       /\ \A k \in 1 .. t : x[len + k] = c[k]
  <2>1. Len(c) = t
    BY <1>5
  <2> QED
    BY <1>13, <1>14, <2>1, Zenon DEF Joined
<1>16. x[1] = e
  BY <1>11, <1>14, <1>15
<1>17. /\ i = 1 => 2 \in 1 .. len
       /\ i = 2 => 2 \in 1 .. len /\ 3 \in 1 .. len
       /\ l = 1 => 2 + i \in 1 .. len
  BY <1>14
<1>18. (i = 1 => x[2] = 5) /\ (i = 2 => x[2] = 129 /\ x[3] = 5)
  BY <1>11, <1>15, <1>17, Zenon
<1>19. l = 1 => x[2 + i] = 9
  BY <1>11, <1>15, <1>17, Zenon
<1>20. t = 1 => x[2 + i + l] = 135
  <2>1. len + 1 = 2 + i + l /\ (t = 1 => 1 \in 1 .. t)
    BY <1>14
  <2>2. t = 1 => x[len + 1] = c[1]
    BY <1>15, <2>1, Zenon
  <2> QED
    BY <1>5, <2>1, <2>2
<1> QED
  BY <1>14, <1>15, <1>16, <1>18, <1>19, <1>20 DEF ExtensionBytes

\* The bytes between the first and the last
Middle(ext, x, e, i, l, t) ==
    /\ x = 0 => i = 0 /\ l = 0 /\ t = 0
    /\ ext \in Seq(Nat) /\ Len(ext) = x + i + l + t /\ (x = 1 => ext[1] = e)
    /\ i = 1 => ext[2] = 5
    /\ i = 2 => ext[2] = 129 /\ ext[3] = 5
    /\ l = 1 => ext[2 + i] = 9
    /\ t = 1 => ext[2 + i + l] = 135

\* What Encode writes of a payload.
LEMMA PayloadIs ==
    ASSUME NEW first \in Nat, NEW last \in Nat, NEW x \in 0 .. 1, NEW e \in Nat,
           NEW i \in 0 .. 2, NEW l \in 0 .. 1, NEW t \in 0 .. 1, NEW ext,
           Middle(ext, x, e, i, l, t)
    PROVE  PayloadBytes(<<first>> \o ext \o <<last>>, first, x, e, i, l, t, last)
<1>1. PICK s : s = <<first>>
  OBVIOUS
<1>2. PICK r : r = <<last>>
  OBVIOUS
<1>3. s \in Seq(Nat) /\ Len(s) = 1 /\ s[1] = first
  BY <1>1
<1>4. r \in Seq(Nat) /\ Len(r) = 1 /\ r[1] = last
  BY <1>2
<1>5. PICK u : u = s \o ext
  OBVIOUS
<1>6. Joined(u, s, ext)
  <2>1. ext \in Seq(Nat)
    BY DEF Middle
  <2> QED
    BY <1>3, <1>5, <2>1, Join, Zenon
<1>7. /\ u \in Seq(Nat) /\ Len(u) = 1 + x + i + l + t /\ u[1] = first /\ (x = 1 => u[2] = e)
      /\ (i = 1 => u[3] = 5) /\ (i = 2 => u[3] = 129 /\ u[4] = 5)
      /\ (l = 1 => u[3 + i] = 9) /\ (t = 1 => u[3 + i + l] = 135)
  <2>1. PICK len \in Nat : len = Len(ext) /\ len = x + i + l + t
    BY DEF Middle
  <2>2. /\ u \in Seq(Nat) /\ Len(u) = 1 + len /\ u[1] = first
        /\ \A k \in 1 .. len : u[1 + k] = ext[k]
    BY <1>3, <1>6, <2>1 DEF Joined
  <2> QED
    BY <2>1, <2>2 DEF Middle
<1>8. PICK p : p = u \o r
  OBVIOUS
<1>9. Joined(p, u, r)
  BY <1>4, <1>7, <1>8, Join, Zenon
<1>10. /\ p \in Seq(Nat) /\ Len(p) = 2 + x + i + l + t
       /\ \A k \in 1 .. 1 + x + i + l + t : p[k] = u[k]
       /\ p[2 + x + i + l + t] = last
  <2>1. PICK len \in Nat : len = Len(u) /\ len = 1 + x + i + l + t
    BY <1>7
  <2>2. Len(r) = 1 /\ r[1] = last /\ 1 \in 1 .. 1
    BY <1>4
  <2>3. /\ p \in Seq(Nat) /\ Len(p) = len + 1 /\ p[len + 1] = last
        /\ \A k \in 1 .. len : p[k] = u[k]
    BY <1>9, <2>1, <2>2, Zenon DEF Joined
  <2> QED
    BY <2>1, <2>3
<1>11. PayloadBytes(p, first, x, e, i, l, t, last)
  BY <1>7, <1>10 DEF PayloadBytes, Middle
<1> QED
  BY <1>1, <1>2, <1>5, <1>8, <1>11, Zenon

\* The parts of a payload, by its flags
Ext(on) == Num("X" \in on)
ExtFlags(on) ==
    128 * Num("I" \in on) + 64 * Num("L" \in on) + 32 * Num("T" \in on) + 16 * Num("K" \in on)
IdBytes(on) == IF {"X", "I"} \subseteq on THEN 1 + Num("M" \in on) ELSE 0
Tl0Bytes(on) == Num({"X", "L"} \subseteq on)
TidBytes(on) == Num("X" \in on /\ on \cap {"T", "K"} # {})

\* Encode writes them in this order.
LEMMA Encoded ==
    ASSUME NEW on
    PROVE  PayloadBytes(Encode(on), 128 * Num("X" \in on) + 16 * Num("S" \in on), Ext(on),
                        ExtFlags(on), IdBytes(on), Tl0Bytes(on), TidBytes(on), Num("P" \in on) + 2)
<1>1. PICK i \in 0 .. 2 : i = (IF "I" \in on THEN 1 + Num("M" \in on) ELSE 0)
  BY DEF Num
<1>2. PICK l \in 0 .. 1 : l = Num("L" \in on)
  BY DEF Num
<1>3. PICK t \in 0 .. 1 : t = Num(on \cap {"T", "K"} # {})
  BY DEF Num
<1>4. PICK first \in Nat : first = Num("X" \in on) * 2^7 + Num("S" \in on) * 2^4
  BY DEF Num
<1>5. PICK e \in Nat : e = Num("I" \in on) * 2^7 + Num("L" \in on) * 2^6 + Num("T" \in on) * 2^5
                            + Num("K" \in on) * 2^4
  BY DEF Num
<1>6. PICK last \in Nat : last = Num("P" \in on) * 2^0 + 2
  BY DEF Num
<1>7. PICK a : a = (IF "I" \in on THEN IF "M" \in on THEN <<128 + 1, 5>> ELSE <<5>> ELSE <<>>)
  OBVIOUS
<1>8. PICK b : b = (IF "L" \in on THEN <<9>> ELSE <<>>)
  OBVIOUS
<1>9. PICK c : c = (IF on \cap {"T", "K"} # {} THEN <<2 * 64 + 7>> ELSE <<>>)
  OBVIOUS
<1>10. PICK y : y = <<e>> \o a \o b \o c
  OBVIOUS
<1>11. PICK ext : ext = (IF "X" \in on THEN y ELSE <<>>)
  OBVIOUS
<1>12. Encode(on) = <<first>> \o ext \o <<last>>
  BY <1>4, <1>5, <1>6, <1>7, <1>8, <1>9, <1>10, <1>11, ZenonT(60) DEF Encode
<1>13. ExtensionParts(i, l, t, a, b, c)
  <2>1. /\ "I" \notin on <=> i = 0
        /\ i = 2 <=> "I" \in on /\ "M" \in on
        /\ l = 1 <=> "L" \in on
        /\ t = 1 <=> on \cap {"T", "K"} # {}
    BY <1>1, <1>2, <1>3 DEF Num
  <2> QED
    BY <1>7, <1>8, <1>9, <2>1, Zenon DEF ExtensionParts
<1>14. ExtensionBytes(y, e, i, l, t)
  BY <1>10, <1>13, ExtensionIs, Zenon
<1>15. PICK x \in 0 .. 1, ii \in 0 .. 2, ll \in 0 .. 1, tt \in 0 .. 1 :
          x = Ext(on) /\ ii = IdBytes(on) /\ ll = Tl0Bytes(on) /\ tt = TidBytes(on)
  BY DEF Ext, IdBytes, Tl0Bytes, TidBytes, Num
<1>16. /\ x = 0 => ii = 0 /\ ll = 0 /\ tt = 0
       /\ x = 1 => ii = i /\ ll = l /\ tt = t
       /\ x = 1 <=> "X" \in on
  BY <1>1, <1>2, <1>3, <1>15 DEF Ext, IdBytes, Tl0Bytes, TidBytes, Num
<1>17. Middle(ext, x, e, ii, ll, tt)
  <2>1. CASE x = 1
    BY <1>11, <1>14, <1>16, <2>1 DEF ExtensionBytes, Middle
  <2>2. CASE x = 0
    <3>1. ext = <<>>
      BY <1>11, <1>16, <2>2
    <3> QED
      BY <1>16, <2>2, <3>1 DEF Middle
  <2> QED
    BY <2>1, <2>2
<1>18. PayloadBytes(Encode(on), first, x, e, ii, ll, tt, last)
  <2>1. PayloadBytes(<<first>> \o ext \o <<last>>, first, x, e, ii, ll, tt, last)
    BY <1>17, PayloadIs, Zenon
  <2> QED
    BY <1>12, <2>1, Zenon
<1>19. /\ first = 128 * Num("X" \in on) + 16 * Num("S" \in on)
       /\ e = ExtFlags(on) /\ last = Num("P" \in on) + 2
  BY <1>4, <1>5, <1>6 DEF ExtFlags, Num
<1> QED
  BY <1>15, <1>18, <1>19, Zenon

\* The flags of a payload's bytes, as far as the first n bytes hold them
FlagsRead(q, on, n) ==
    /\ Len(q) = n
    /\ n > 0 => (Bit(q[1], 7) <=> "X" \in on)
    /\ n > 1 /\ "X" \in on => /\ Bit(q[2], 7) <=> "I" \in on
                              /\ Bit(q[2], 6) <=> "L" \in on
                              /\ Bit(q[2], 5) <=> "T" \in on
                              /\ Bit(q[2], 4) <=> "K" \in on
    /\ n > 2 /\ {"X", "I"} \subseteq on => (Bit(q[3], 7) <=> "M" \in on)

\* The bits of the bytes that Encode writes.
LEMMA BitsWritten ==
    ASSUME NEW on
    PROVE  /\ Bit(128 * Num("X" \in on) + 16 * Num("S" \in on), 7) <=> "X" \in on
           /\ Bit(128 * Num("X" \in on) + 16 * Num("S" \in on), 4) <=> "S" \in on
           /\ Bit(ExtFlags(on), 7) <=> "I" \in on
           /\ Bit(ExtFlags(on), 6) <=> "L" \in on
           /\ Bit(ExtFlags(on), 5) <=> "T" \in on
           /\ Bit(ExtFlags(on), 4) <=> "K" \in on
           /\ Bit(Num("P" \in on) + 2, 0) <=> "P" \in on
           /\ ~Bit(5, 7) /\ Bit(129, 7)
<1>1. /\ Bit(128 * Num("X" \in on) + 16 * Num("S" \in on), 7) <=> "X" \in on
      /\ Bit(128 * Num("X" \in on) + 16 * Num("S" \in on), 4) <=> "S" \in on
  BY DEF Bit, Num
<1>2. Bit(ExtFlags(on), 7) <=> "I" \in on
  BY DEF Bit, Num, ExtFlags
<1>3. Bit(ExtFlags(on), 6) <=> "L" \in on
  BY DEF Bit, Num, ExtFlags
<1>4. Bit(ExtFlags(on), 5) <=> "T" \in on
  BY DEF Bit, Num, ExtFlags
<1>5. Bit(ExtFlags(on), 4) <=> "K" \in on
  BY DEF Bit, Num, ExtFlags
<1>6. (Bit(Num("P" \in on) + 2, 0) <=> "P" \in on) /\ ~Bit(5, 7) /\ Bit(129, 7)
  BY DEF Bit, Num
<1> QED
  BY <1>1, <1>2, <1>3, <1>4, <1>5, <1>6, Zenon

\* What Unmarshal takes the length of the descriptor to be, flag by flag
SizeRead(q) ==
    LET X == Len(q) > 0 /\ Bit(q[1], 7)
        F(n) == X /\ Len(q) > 1 /\ Bit(q[2], n)
        M == F(7) /\ Len(q) > 2 /\ Bit(q[3], 7)
    IN 1 + Num(X) + Num(F(7)) + Num(M) + Num(F(6)) + Num(F(5) \/ F(4))

\* The length of the whole payload
Size(on) == 2 + Ext(on) + IdBytes(on) + Tl0Bytes(on) + TidBytes(on)

\* It is that of the payload for the whole payload, and too long for a part of it.
LEMMA SizeIs ==
    ASSUME NEW q, NEW on, NEW n \in 0 .. Size(on), FlagsRead(q, on, n)
    PROVE  /\ SizeRead(q) \in Nat /\ Size(on) \in Nat
           /\ n < Size(on) => n <= SizeRead(q)
           /\ n = Size(on) => SizeRead(q) + 1 = n
<1> USE DEF FlagsRead, SizeRead, Size, Ext, IdBytes, Tl0Bytes, TidBytes, Num
<1>1. SizeRead(q) \in Nat /\ Size(on) \in Nat
  OBVIOUS
<1>2. CASE n = 0
  BY <1>1, <1>2
<1>3. CASE n = 1
  BY <1>1, <1>3
<1>4. CASE n = 2
  BY <1>1, <1>4
<1>5. CASE n > 2
  BY <1>1, <1>5
<1> QED
  BY <1>1, <1>2, <1>3, <1>4, <1>5

\* A part of a payload is not accepted.
LEMMA PartRefused ==
    ASSUME NEW q, NEW on, NEW n \in 0 .. Size(on), FlagsRead(q, on, n), n < Size(on)
    PROVE  Unmarshal(q) = Short
<1>1. SizeRead(q) \in Nat /\ n <= SizeRead(q)
  BY SizeIs, Zenon
<1>2. Len(q) <= SizeRead(q)
  BY <1>1, Zenon DEF FlagsRead
<1> QED
  BY <1>2, Zenon DEF Unmarshal, SizeRead

\* The whole is read as it was written.
LEMMA WholeRead ==
    ASSUME NEW q, NEW on, FlagsRead(q, on, Size(on)),
           PayloadBytes(q, 128 * Num("X" \in on) + 16 * Num("S" \in on), Ext(on), ExtFlags(on),
                        IdBytes(on), Tl0Bytes(on), TidBytes(on), Num("P" \in on) + 2)
    PROVE  LET Has(f) == {"X", f} \subseteq on
           IN Unmarshal(q) =
                [ok |-> TRUE, temporal |-> Has("T"),
                 pictureID |-> IF ~Has("I") THEN 0 ELSE IF "M" \in on THEN 256 + 5 ELSE 5,
                 tl0 |-> IF Has("L") THEN 9 ELSE 0,
                 tid |-> IF Has("T") \/ Has("K") THEN 2 ELSE 0,
                 key |-> "S" \in on /\ "P" \notin on]
<1> DEFINE Has(f) == {"X", f} \subseteq on
           X == Len(q) > 0 /\ Bit(q[1], 7)
           F(k) == X /\ Len(q) > 1 /\ Bit(q[2], k)
           M == F(7) /\ Len(q) > 2 /\ Bit(q[3], 7)
           pictureID == CASE ~F(7) -> 0
                          [] F(7) /\ ~M -> q[3] % 128
                          [] OTHER -> 256 * (q[3] % 128) + q[4]
           tl0 == IF F(6) THEN q[3 + Num(F(7)) + Num(M)] ELSE 0
           tid == IF F(5) \/ F(4) THEN q[SizeRead(q)] \div 64 ELSE 0
           key == Bit(q[1], 4) /\ ~Bit(q[SizeRead(q) + 1], 0)
<1>1. /\ SizeRead(q) \in Nat /\ Size(on) \in Nat /\ SizeRead(q) + 1 = Size(on)
      /\ ~(Len(q) <= SizeRead(q))
  <2>1. Size(on) \in 0 .. Size(on)
    BY DEF Size, Ext, IdBytes, Tl0Bytes, TidBytes, Num
  <2>2. SizeRead(q) \in Nat /\ Size(on) \in Nat /\ SizeRead(q) + 1 = Size(on)
    BY <2>1, SizeIs, Zenon
  <2>3. Len(q) = Size(on)
    BY Zenon DEF FlagsRead
  <2> QED
    BY <2>2, <2>3
<1>2. Unmarshal(q) = [ok |-> TRUE, temporal |-> F(5), pictureID |-> pictureID, tl0 |-> tl0,
                      tid |-> tid, key |-> key]
  BY <1>1, Zenon DEF Unmarshal, SizeRead
<1>3. /\ F(7) <=> Has("I")
      /\ F(6) <=> Has("L")
      /\ F(5) <=> Has("T")
      /\ F(4) <=> Has("K")
      /\ M <=> Has("I") /\ "M" \in on
  BY DEF FlagsRead, Size, Ext, IdBytes, Tl0Bytes, TidBytes, Num
<1> HIDE DEF X, F, M
<1>4. pictureID = IF ~Has("I") THEN 0 ELSE IF "M" \in on THEN 256 + 5 ELSE 5
  <2>1. /\ Has("I") /\ "M" \in on => q[3] = 129 /\ q[4] = 5
        /\ Has("I") /\ "M" \notin on => q[3] = 5
    BY DEF PayloadBytes, IdBytes, Num
  <2> QED
    BY <1>3, <2>1
<1>5. tl0 = IF Has("L") THEN 9 ELSE 0
  <2>1. Has("L") => q[3 + Num(F(7)) + Num(M)] = 9
    <3>1. ASSUME Has("L") PROVE q[3 + IdBytes(on)] = 9
      <4>1. Tl0Bytes(on) = 1
        BY <3>1 DEF Tl0Bytes, Num
      <4> QED
        BY <4>1, Zenon DEF PayloadBytes
    <3>2. 3 + Num(F(7)) + Num(M) = 3 + IdBytes(on)
      BY <1>3 DEF IdBytes, Num
    <3> QED
      BY <3>1, <3>2, Zenon
  <2> QED
    BY <1>3, <2>1, Zenon
<1>6. tid = IF Has("T") \/ Has("K") THEN 2 ELSE 0
  <2>1. Has("T") \/ Has("K") => q[SizeRead(q)] = 135
    <3>1. ASSUME Has("T") \/ Has("K") PROVE q[3 + IdBytes(on) + Tl0Bytes(on)] = 135
      <4>1. TidBytes(on) = 1
        BY <3>1 DEF TidBytes, Num
      <4> QED
        BY <4>1, Zenon DEF PayloadBytes
    <3>2. ASSUME Has("T") \/ Has("K")
          PROVE  SizeRead(q) = 3 + IdBytes(on) + Tl0Bytes(on)
      BY <1>1, <3>2 DEF Size, Ext, IdBytes, Tl0Bytes, TidBytes, Num
    <3> QED
      BY <3>1, <3>2, Zenon
  <2>2. 135 \div 64 = 2
    OBVIOUS
  <2> QED
    BY <1>3, <2>1, <2>2, Zenon
<1>7. key <=> "S" \in on /\ "P" \notin on
  <2>1. q[1] = 128 * Num("X" \in on) + 16 * Num("S" \in on)
    BY Zenon DEF PayloadBytes
  <2>2. q[SizeRead(q) + 1] = Num("P" \in on) + 2
    BY <1>1, Zenon DEF PayloadBytes, Size
  <2>3. /\ Bit(128 * Num("X" \in on) + 16 * Num("S" \in on), 4) <=> "S" \in on
        /\ Bit(Num("P" \in on) + 2, 0) <=> "P" \in on
    BY BitsWritten, Zenon
  <2> QED
    BY <2>1, <2>2, <2>3, Zenon
<1> HIDE DEF pictureID, tl0, tid, key
<1>8. (F(5) = Has("T")) /\ key = ("S" \in on /\ "P" \notin on)
  BY <1>3, <1>7 DEF F, key
<1> QED
  BY <1>2, <1>4, <1>5, <1>6, <1>8, Zenon

\* The flags of the first n bytes of a payload.
LEMMA FlagsOfPart ==
    ASSUME NEW p, NEW on, NEW n \in 0 .. Len(p),
           PayloadBytes(p, 128 * Num("X" \in on) + 16 * Num("S" \in on), Ext(on), ExtFlags(on),
                        IdBytes(on), Tl0Bytes(on), TidBytes(on), Num("P" \in on) + 2)
    PROVE  FlagsRead(SubSeq(p, 1, n), on, n) /\ Len(p) = Size(on)
<1>1. p \in Seq(Nat) /\ Len(p) = Size(on)
  BY DEF PayloadBytes, Size
<1>2. PICK q : q = SubSeq(p, 1, n)
  OBVIOUS
<1>3. Len(q) = n /\ \A i \in 1 .. n : q[i] = p[i]
  BY <1>1, <1>2
<1>4. (n > 0 => 1 \in 1 .. n) /\ (n > 1 => 2 \in 1 .. n) /\ (n > 2 => 3 \in 1 .. n)
  OBVIOUS
<1>5. p[1] = 128 * Num("X" \in on) + 16 * Num("S" \in on)
  BY Zenon DEF PayloadBytes
<1>6. "X" \in on => p[2] = ExtFlags(on)
  <2>1. "X" \in on => Ext(on) = 1
    BY DEF Ext, Num
  <2> QED
    BY <2>1, Zenon DEF PayloadBytes
<1>7. {"X", "I"} \subseteq on => (Bit(p[3], 7) <=> "M" \in on)
  <2>1. {"X", "I"} \subseteq on => IdBytes(on) = (IF "M" \in on THEN 2 ELSE 1)
    BY DEF IdBytes, Num
  <2>2. {"X", "I"} \subseteq on => p[3] = (IF "M" \in on THEN 129 ELSE 5)
    BY <2>1, Zenon DEF PayloadBytes
  <2>3. ~Bit(5, 7) /\ Bit(129, 7)
    BY BitsWritten, Zenon
  <2> QED
    BY <2>2, <2>3, Zenon
<1>8. n > 0 => (Bit(q[1], 7) <=> "X" \in on)
  <2>1. Bit(128 * Num("X" \in on) + 16 * Num("S" \in on), 7) <=> "X" \in on
    BY BitsWritten, Zenon
  <2> QED
    BY <1>3, <1>4, <1>5, <2>1, Zenon
<1>9. n > 1 /\ "X" \in on => /\ Bit(q[2], 7) <=> "I" \in on
                             /\ Bit(q[2], 6) <=> "L" \in on
                             /\ Bit(q[2], 5) <=> "T" \in on
                             /\ Bit(q[2], 4) <=> "K" \in on
  <2>1. /\ Bit(ExtFlags(on), 7) <=> "I" \in on
        /\ Bit(ExtFlags(on), 6) <=> "L" \in on
        /\ Bit(ExtFlags(on), 5) <=> "T" \in on
        /\ Bit(ExtFlags(on), 4) <=> "K" \in on
    BY BitsWritten, Zenon
  <2> QED
    BY <1>3, <1>4, <1>6, <2>1, Zenon
<1>10. n > 2 /\ {"X", "I"} \subseteq on => (Bit(q[3], 7) <=> "M" \in on)
  BY <1>3, <1>4, <1>7, Zenon
<1>11. FlagsRead(q, on, n)
  BY <1>3, <1>8, <1>9, <1>10, Zenon DEF FlagsRead
<1> QED
  BY <1>1, <1>2, <1>11, Zenon

\* VP8.Unmarshal, of every payload and every part of one.
LEMMA Vp8Read ==
    ASSUME sample \in Vp8Samples
    PROVE  Vp8Agrees
<1>1. PICK on : on = sample.on
  OBVIOUS
<1>2. PICK p : p = Encode(on)
  OBVIOUS
<1>3. PayloadBytes(p, 128 * Num("X" \in on) + 16 * Num("S" \in on), Ext(on), ExtFlags(on),
                   IdBytes(on), Tl0Bytes(on), TidBytes(on), Num("P" \in on) + 2)
  BY <1>2, Encoded, Zenon
<1>4. p \in Seq(Nat)
  BY <1>3, Zenon DEF PayloadBytes
<1>5. Len(p) \in Nat /\ Len(p) \in 0 .. Len(p) /\ SubSeq(p, 1, Len(p)) = p
  BY <1>4
<1>6. Len(p) = Size(on) /\ FlagsRead(p, on, Size(on))
  <2>1. FlagsRead(SubSeq(p, 1, Len(p)), on, Len(p)) /\ Len(p) = Size(on)
    <3>1. PICK n \in 0 .. Len(p) : n = Len(p)
      BY <1>5
    <3>2. FlagsRead(SubSeq(p, 1, n), on, n) /\ Len(p) = Size(on)
      BY <1>3, FlagsOfPart, Zenon
    <3> QED
      BY <3>1, <3>2, Zenon
  <2> QED
    BY <1>5, <2>1, Zenon
<1>7. ASSUME NEW n \in 0 .. Len(p) - 1 PROVE Unmarshal(SubSeq(p, 1, n)) = Short
  <2>1. n \in 0 .. Len(p) /\ n < Len(p)
    BY <1>5
  <2>2. FlagsRead(SubSeq(p, 1, n), on, n)
    BY <1>3, <2>1, FlagsOfPart, Zenon
  <2> QED
    BY <1>6, <2>1, <2>2, PartRefused, Zenon
<1> QED
  BY <1>1, <1>2, <1>3, <1>6, <1>7, WholeRead, Zenon DEF Vp8Agrees

-----------------------------------------------------------------------------
(* All of the pure functions                                               *)

\* The kind of a sample tells what it is a sample of.
LEMMA KindIs ==
    /\ sample \in Vp8Samples => sample.kind = "vp8"
    /\ sample \in NtpSamples => sample.kind = "ntp"
    /\ sample \in CodecSamples => sample.kind = "codec"
    /\ sample \in BatchSamples => sample.kind = "batch" /\ sample.n \in 0 .. MaxSources
<1>1. sample \in Vp8Samples => sample.kind = "vp8"
  BY Zenon DEF Vp8Samples
<1>2. sample \in NtpSamples => sample.kind = "ntp"
  BY Zenon DEF NtpSamples
<1>3. sample \in CodecSamples => sample.kind = "codec"
  BY Zenon DEF CodecSamples
<1>4. sample \in BatchSamples => sample.kind = "batch" /\ sample.n \in 0 .. MaxSources
  BY Zenon DEF BatchSamples
<1> QED
  BY <1>1, <1>2, <1>3, <1>4, Zenon

\* A sample of a timestamp, and of a sender report.
LEMMA NumbersOf ==
    /\ sample \in TsSamples => sample.kind = "ts"
    /\ sample \in SrSamples =>
          /\ sample.kind = "sr" /\ sample.bound \in BOOLEAN
          /\ sample.rtp \in {0, 1, 2^TsBits - 1} /\ sample.ns \in 0 .. Second * 2
          /\ sample.elapsed \in 0 .. MaxElapsed
<1>1. sample \in TsSamples => sample.kind = "ts"
  BY Zenon DEF TsSamples
<1>2. sample \in SrSamples =>
         /\ sample.kind = "sr" /\ sample.bound \in BOOLEAN
         /\ sample.rtp \in {0, 1, 2^TsBits - 1} /\ sample.ns \in 0 .. Second * 2
         /\ sample.elapsed \in 0 .. MaxElapsed
  BY Zenon DEF SrSamples
<1> QED
  BY <1>1, <1>2, Zenon

\* A report of the samples is young enough for ReportsNow.
LEMMA ReportsOfSamples ==
    ASSUME TsBits = 32, Fraction >= Second + 3, ClockRate \in Nat, MaxElapsed \in Nat,
           Second * 2 + MaxElapsed < Second * Fraction,
           MaxElapsed * ClockRate < Fraction * Fraction, sample \in SrSamples
    PROVE  SrAgrees
<1>1. /\ sample.bound \in BOOLEAN /\ sample.rtp \in {0, 1, 2^TsBits - 1}
      /\ sample.ns \in 0 .. Second * 2 /\ sample.elapsed \in 0 .. MaxElapsed
  BY NumbersOf, Zenon
<1>2. PICK W \in Nat : W = 2^TsBits /\ W > 2
  BY TsSizes, SMT
<1>3. sample.rtp \in 0 .. 2^TsBits - 1
  BY <1>1, <1>2
<1>4. PICK ns \in Nat, el \in Nat :
         ns = sample.ns /\ el = sample.elapsed /\ ns <= Second * 2 /\ el <= MaxElapsed
  BY <1>1, NtpAssumption
<1>5. ns + el < Second * Fraction
  BY <1>4, NtpAssumption
<1>6. el * ClockRate <= MaxElapsed * ClockRate
  BY <1>4
<1>7. el * ClockRate < Fraction * Fraction
  <2>1. el * ClockRate \in Nat /\ MaxElapsed * ClockRate \in Nat /\ Fraction * Fraction \in Nat
    BY <1>4, NtpAssumption
  <2> QED
    BY <1>6, <2>1
<1>8. sample.ns \in Nat
  BY <1>4
<1> QED
  BY <1>1, <1>3, <1>4, <1>5, <1>7, <1>8, ReportsNow, Zenon

\* Every one of the pure functions agrees with its definition, for the sizes that the
\* code has (timestamps of 32 bits; a few more fractions of a second than nanoseconds)
\* and the bounds within which its arithmetic is exact: VP8 descriptors of every shape
\* and H.264 packets of any number of units, whole and cut off anywhere, NTP time there
\* and back, reports young enough that the ticks fit 64 bits, any choice of a codec, a
\* list of any length of source descriptions, and timestamps at most 2^26 apart.
THEOREM HelpersCorrect ==
    ASSUME TsBits = 32, Fraction >= Second + 3, ClockRate \in Nat, Chunks \in Nat \ {0},
           MaxGap \in Nat, MaxGap <= 2^(TsBits - 6), MaxUnits \in Nat, MaxSources \in Nat,
           MaxElapsed \in Nat, Second * 2 + MaxElapsed < Second * Fraction,
           MaxElapsed * ClockRate < Fraction * Fraction
    PROVE  HelperInit => HelpersAgree
<1>1. CASE sample \in Vp8Samples
  BY <1>1, KindIs, Vp8Read, Zenon DEF HelpersAgree
<1>2. CASE sample \in H264Samples
  BY <1>2, H264Read, Zenon DEF HelpersAgree
<1>3. CASE sample \in NtpSamples
  BY <1>3, KindIs, NtpRoundTrip, Zenon DEF HelpersAgree
<1>4. CASE sample \in CodecSamples
  BY <1>4, KindIs, CodecChosen, Zenon DEF HelpersAgree
<1>5. CASE sample \in BatchSamples
  <2>1. sample.n \in Nat
    BY <1>5, KindIs
  <2> QED
    BY <1>5, <2>1, KindIs, BatchesCover, Zenon DEF HelpersAgree
<1>6. CASE sample \in TsSamples
  BY <1>6, NumbersOf, LaterWithinGap, Zenon DEF HelpersAgree
<1>7. CASE sample \in SrSamples
  <2>1. SrAgrees
    BY <1>7, ReportsOfSamples, Zenon
  <2> QED
    BY <1>7, <2>1, NumbersOf, Zenon DEF HelpersAgree
<1> QED
  BY <1>1, <1>2, <1>3, <1>4, <1>5, <1>6, <1>7, Zenon DEF HelperInit, Samples
=============================================================================
