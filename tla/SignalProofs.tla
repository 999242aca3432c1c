---------------------------- MODULE SignalProofs ----------------------------
(***************************************************************************)
(* Proof that the websocket signalling (Signal) answers every offer once   *)
(* and in order, for any number of messages and of application goroutines  *)
(* that send on the same channel.                                          *)
(***************************************************************************)
EXTENDS Signal, SequenceTheorems, TLAPS

Msg == {"answer", "warning", "app", "close"} \X Nat

\* A channel hands over one message at a time: the writer holds one only while it
\* writes, the reader only while it waits in SendObject
SignalTypeOK ==
    /\ wire \in Seq(Msg) /\ holding \in Seq(Msg) /\ out \in Seq(Msg) /\ offers \in Nat
    /\ writer \in {"select", "write", "stopped"}
    /\ reader \in {"read", "send", "last", "stopped"}
    /\ Len(holding) <= 1 /\ Len(out) <= 1
    /\ writer # "write" => holding = <<>>
    /\ reader \in {"read", "stopped"} => out = <<>>

SignalIInv == SignalTypeOK /\ AnswersInOrder

-----------------------------------------------------------------------------
(* Sequences of messages with answers in order                             *)

\* InOrder of a sequence, with its length in place of its domain.
LEMMA InOrderIs ==
    ASSUME NEW s \in Seq(Msg), NEW n \in Nat
    PROVE  InOrder(s, n) <=>
             /\ \A i \in 1 .. Len(s) : IsAnswer(s[i]) => s[i][2] \in 1 .. n
             /\ \A i, j \in 1 .. Len(s) :
                   i < j /\ IsAnswer(s[i]) /\ IsAnswer(s[j]) => s[i][2] < s[j][2]
             /\ \A k \in 1 .. n : \E i \in 1 .. Len(s) : s[i] = <<"answer", k>>
<1>1. DOMAIN s = 1 .. Len(s)
  OBVIOUS
<1> QED
  BY <1>1, Zenon DEF InOrder

\* An answer that ends such a sequence is the last one's; other messages do not count.
LEMMA AppendInOrder ==
    ASSUME NEW s \in Seq(Msg), NEW m \in Msg, NEW n \in Nat
    PROVE  /\ ~IsAnswer(m) => (InOrder(Append(s, m), n) <=> InOrder(s, n))
           /\ IsAnswer(m) =>
                (InOrder(Append(s, m), n) <=> n >= 1 /\ m[2] = n /\ InOrder(s, n - 1))
<1>0. PICK t \in Seq(Msg), last \in Nat : t = Append(s, m) /\ last = Len(s) + 1
  <2>1. Append(s, m) \in Seq(Msg) /\ Len(s) + 1 \in Nat
    BY AppendProperties
  <2> QED
    BY <2>1, Zenon
<1>1. /\ Len(s) \in Nat /\ Len(t) = last /\ last = Len(s) + 1
      /\ t[last] = m /\ \A i \in 1 .. Len(s) : t[i] = s[i]
      /\ \A i \in 1 .. last : i = last \/ i \in 1 .. Len(s)
      /\ \A i \in 1 .. Len(s) : i \in 1 .. last
  BY <1>0
<1>2. /\ \A i \in 1 .. Len(s) : s[i] \in Msg
      /\ \A x \in Msg : x[2] \in Nat /\ x = <<x[1], x[2]>>
  BY <1>1 DEF Msg
<1>3. ASSUME ~IsAnswer(m)
      PROVE  InOrder(t, n) <=> InOrder(s, n)
  <2>1. \A k : m # <<"answer", k>>
    BY <1>3 DEF IsAnswer
  <2>2. ASSUME InOrder(t, n)
        PROVE  InOrder(s, n)
    <3>1. \A i \in 1 .. Len(s) : IsAnswer(s[i]) => s[i][2] \in 1 .. n
      BY <1>1, <2>2, InOrderIs
    <3>2. \A i, j \in 1 .. Len(s) : i < j /\ IsAnswer(s[i]) /\ IsAnswer(s[j]) => s[i][2] < s[j][2]
      BY <1>1, <2>2, InOrderIs, Zenon
    <3>3. \A k \in 1 .. n : \E i \in 1 .. last : t[i] = <<"answer", k>>
      BY <1>1, <2>2, InOrderIs, Zenon
    <3>4. \A k \in 1 .. n : \E i \in 1 .. Len(s) : s[i] = <<"answer", k>>
      BY <1>1, <2>1, <3>3, Zenon
    <3> QED
      BY <3>1, <3>2, <3>4, InOrderIs, Zenon
  <2>3. ASSUME InOrder(s, n)
        PROVE  InOrder(t, n)
    <3>1. \A i \in 1 .. last : IsAnswer(t[i]) => t[i][2] \in 1 .. n
      BY <1>1, <1>3, <2>3, InOrderIs
    <3>2. \A i, j \in 1 .. Len(s) : i < j /\ IsAnswer(s[i]) /\ IsAnswer(s[j]) => s[i][2] < s[j][2]
      BY <2>3, InOrderIs, Zenon
    <3>3. \A i, j \in 1 .. last : i < j /\ IsAnswer(t[i]) /\ IsAnswer(t[j]) => t[i][2] < t[j][2]
      BY <1>1, <1>3, <3>2, Zenon
    <3>4. \A k \in 1 .. n : \E i \in 1 .. Len(s) : s[i] = <<"answer", k>>
      BY <2>3, InOrderIs, Zenon
    <3>5. \A k \in 1 .. n : \E i \in 1 .. last : t[i] = <<"answer", k>>
      BY <1>1, <3>4, Zenon
    <3> QED
      BY <1>1, <3>1, <3>3, <3>5, InOrderIs, Zenon
  <2> QED
    BY <2>2, <2>3
<1>4. ASSUME IsAnswer(m), InOrder(t, n)
      PROVE  n >= 1 /\ m[2] = n /\ InOrder(s, n - 1)
  <2>0. \A k \in 1 .. n : \E i \in 1 .. last : t[i] = <<"answer", k>>
    BY <1>1, <1>4, InOrderIs, Zenon
  <2>1. /\ m[2] \in 1 .. n
        /\ \A i \in 1 .. Len(s) : IsAnswer(s[i]) => s[i][2] \in 1 .. n /\ s[i][2] < m[2]
    <3>1. \A i \in 1 .. last : IsAnswer(t[i]) => t[i][2] \in 1 .. n
      BY <1>1, <1>4, InOrderIs, Zenon
    <3>2. \A i, j \in 1 .. last : i < j /\ IsAnswer(t[i]) /\ IsAnswer(t[j]) => t[i][2] < t[j][2]
      BY <1>1, <1>4, InOrderIs, Zenon
    <3>3. last \in 1 .. last /\ \A i \in 1 .. Len(s) : i < last
      BY <1>1
    <3> QED
      BY <1>1, <1>4, <3>1, <3>2, <3>3, Zenon
  <2>2. m[2] = n
    <3>1. PICK i \in 1 .. last : t[i] = <<"answer", n>>
      <4>1. n \in 1 .. n
        BY <2>1
      <4> QED
        BY <2>0, <4>1, Zenon
    <3>2. CASE i = last
      BY <1>1, <3>1, <3>2
    <3>3. CASE i # last
      <4>1. i \in 1 .. Len(s) /\ s[i] = <<"answer", n>>
        BY <1>1, <3>1, <3>3
      <4>2. IsAnswer(s[i]) /\ s[i][2] = n
        BY <4>1 DEF IsAnswer
      <4> QED
        BY <2>1, <4>1, <4>2
    <3> QED
      BY <3>2, <3>3
  <2>3. ASSUME NEW k \in 1 .. n - 1
        PROVE  \E i \in 1 .. Len(s) : s[i] = <<"answer", k>>
    <3>1. k \in 1 .. n /\ k # n
      OBVIOUS
    <3>2. PICK i \in 1 .. last : t[i] = <<"answer", k>>
      BY <2>0, <3>1, Zenon
    <3>3. i # last
      BY <1>1, <2>2, <3>1, <3>2
    <3> QED
      BY <1>1, <3>2, <3>3, Zenon
  <2>4. \A i \in 1 .. Len(s) : IsAnswer(s[i]) => s[i][2] \in 1 .. n - 1
    BY <2>1, <2>2
  <2>5. \A i, j \in 1 .. Len(s) : i < j /\ IsAnswer(s[i]) /\ IsAnswer(s[j]) => s[i][2] < s[j][2]
    BY <1>1, <1>4, InOrderIs, Zenon
  <2>6. n >= 1 /\ n - 1 \in Nat
    BY <2>1
  <2> QED
    BY <2>2, <2>3, <2>4, <2>5, <2>6, InOrderIs, Zenon
<1>5. ASSUME IsAnswer(m), n >= 1, m[2] = n, InOrder(s, n - 1)
      PROVE  InOrder(t, n)
  <2>0. n - 1 \in Nat /\ \A k \in 1 .. n : k = n \/ k \in 1 .. n - 1
    BY <1>5
  <2>1. \A i \in 1 .. Len(s) : IsAnswer(s[i]) => s[i][2] \in 1 .. n - 1
    BY <1>5, <2>0, InOrderIs, Zenon
  <2>2. \A i \in 1 .. last : IsAnswer(t[i]) => t[i][2] \in 1 .. n
    BY <1>1, <1>5, <2>1
  <2>3. \A i, j \in 1 .. last : i < j /\ IsAnswer(t[i]) /\ IsAnswer(t[j]) => t[i][2] < t[j][2]
    <3>1. \A i, j \in 1 .. Len(s) : i < j /\ IsAnswer(s[i]) /\ IsAnswer(s[j]) => s[i][2] < s[j][2]
      BY <1>5, <2>0, InOrderIs, Zenon
    <3> QED
      BY <1>1, <1>5, <2>1, <3>1
  <2>4. \A k \in 1 .. n : \E i \in 1 .. last : t[i] = <<"answer", k>>
    <3>1. \A k \in 1 .. n - 1 : \E i \in 1 .. Len(s) : s[i] = <<"answer", k>>
      BY <1>5, <2>0, InOrderIs, Zenon
    <3>2. m = <<"answer", n>> /\ last \in 1 .. last
      BY <1>1, <1>2, <1>5 DEF IsAnswer
    <3> QED
      BY <1>1, <2>0, <3>1, <3>2, Zenon
  <2> QED
    BY <1>1, <2>2, <2>3, <2>4, InOrderIs, Zenon
<1> QED
  BY <1>0, <1>3, <1>4, <1>5

\* At the end of a sequence, one message or none: taking it away leaves an earlier
\* count of answers, and another message may come before it.
LEMMA TailInOrder ==
    ASSUME NEW s \in Seq(Msg), NEW t \in Seq(Msg), Len(t) <= 1, NEW n \in Nat,
           InOrder(s \o t, n)
    PROVE  /\ \E k \in 0 .. n : InOrder(s, k)
           /\ \A m \in Msg : ~IsAnswer(m) => InOrder((s \o <<m>>) \o t, n)
<1>1. CASE t = <<>>
  <2>1. s \o t = s /\ n \in 0 .. n
    BY <1>1
  <2>2. \A m \in Msg : (s \o <<m>>) \o t = Append(s, m)
    BY <1>1
  <2>3. InOrder(s, n)
    BY <2>1
  <2>4. \E k \in 0 .. n : InOrder(s, k)
    BY <2>1, <2>3
  <2>5. ASSUME NEW m \in Msg, ~IsAnswer(m)
        PROVE  InOrder((s \o <<m>>) \o t, n)
    <3>1. InOrder(Append(s, m), n)
      BY <2>3, <2>5, AppendInOrder
    <3> QED
      BY <2>2, <3>1, Zenon
  <2> QED
    BY <2>4, <2>5
<1>2. CASE t # <<>>
  <2>1. PICK x \in Msg : t = <<x>>
    <3>1. Len(t) = 1 /\ t[1] \in Msg
      <4>1. Len(t) \in Nat \ {0}
        BY <1>2, EmptySeq
      <4>2. PICK l \in Nat \ {0} : l = Len(t) /\ l <= 1
        BY <4>1, Zenon
      <4>3. l = 1 /\ 1 \in 1 .. l
        BY <4>2
      <4> QED
        BY <4>2, <4>3, ElementOfSeq
    <3> QED
      BY <3>1
  <2>2. s \o t = Append(s, x)
    BY <2>1
  <2>3. ASSUME NEW m \in Msg, ~IsAnswer(m)
        PROVE  InOrder((s \o <<m>>) \o t, n)
    <3>1. (s \o <<m>>) \o t = Append(Append(s, m), x) /\ Append(s, m) \in Seq(Msg)
      BY <2>1
    <3>2. CASE IsAnswer(x)
      <4>1. n >= 1 /\ x[2] = n /\ InOrder(s, n - 1) /\ n - 1 \in Nat
        BY <2>2, <3>2, AppendInOrder
      <4>2. InOrder(Append(s, m), n - 1)
        BY <2>3, <4>1, AppendInOrder
      <4> QED
        <5>1. PICK u \in Seq(Msg) : u = Append(s, m)
          BY <3>1
        <5>2. InOrder(Append(u, x), n)
          BY <3>2, <4>1, <4>2, <5>1, AppendInOrder
        <5> QED
          BY <3>1, <5>1, <5>2, Zenon
    <3>3. CASE ~IsAnswer(x)
      <4>1. InOrder(s, n)
        BY <2>2, <3>3, AppendInOrder
      <4>2. InOrder(Append(s, m), n)
        BY <2>3, <4>1, AppendInOrder
      <4> QED
        BY <3>1, <3>3, <4>2, AppendInOrder
    <3> QED
      BY <3>2, <3>3
  <2>4. \E k \in 0 .. n : InOrder(s, k)
    <3>1. CASE IsAnswer(x)
      <4>1. n >= 1 /\ InOrder(s, n - 1) /\ n - 1 \in 0 .. n
        BY <2>2, <3>1, AppendInOrder
      <4> QED
        BY <4>1
    <3>2. CASE ~IsAnswer(x)
      <4>1. InOrder(s, n) /\ n \in 0 .. n
        BY <2>2, <3>2, AppendInOrder
      <4> QED
        BY <4>1
    <3> QED
      BY <3>1, <3>2
  <2> QED
    BY <2>3, <2>4
<1> QED
  BY <1>1, <1>2

-----------------------------------------------------------------------------
(* The steps                                                               *)

\* What a writer that ends leaves on the wire.
LEMMA WireInOrder ==
    ASSUME SignalIInv
    PROVE  \E n \in 0 .. offers : InOrder(wire, n)
<1>1. CASE writer = "stopped"
  BY <1>1 DEF SignalIInv, AnswersInOrder
<1>2. CASE writer # "stopped"
  <2>1. /\ wire \in Seq(Msg) /\ holding \in Seq(Msg) /\ out \in Seq(Msg) /\ offers \in Nat
        /\ Len(holding) <= 1 /\ Len(out) <= 1
        /\ InOrder((wire \o holding) \o out, offers)
    BY <1>2 DEF SignalIInv, SignalTypeOK, AnswersInOrder
  <2>2. wire \o holding \in Seq(Msg)
    BY <2>1, ConcatProperties
  <2>3. PICK k \in 0 .. offers : InOrder(wire \o holding, k)
    BY <2>1, <2>2, TailInOrder
  <2>4. k \in Nat
    BY <2>1
  <2>5. PICK n \in 0 .. k : InOrder(wire, n)
    BY <2>1, <2>3, <2>4, TailInOrder
  <2>6. n \in 0 .. offers
    BY <2>1
  <2> QED
    BY <2>5, <2>6
<1> QED
  BY <1>1, <1>2

\* What the reader puts on the channel comes after all that was sent.
LEMMA SendInOrder ==
    ASSUME SignalIInv, reader = "read", NEW m \in Msg, NEW n \in Nat,
           \/ ~IsAnswer(m) /\ n = offers
           \/ m = <<"answer", n>> /\ n = offers + 1,
           out' = <<m>>, offers' = n, reader' \in {"send", "last"},
           UNCHANGED <<wire, holding, writer>>
    PROVE  SignalIInv'
<1>1. /\ wire \in Seq(Msg) /\ holding \in Seq(Msg) /\ out = <<>> /\ offers \in Nat
  BY DEF SignalIInv, SignalTypeOK
<1>2. <<m>> \in Seq(Msg) /\ Len(<<m>>) = 1 /\ <<m>> # <<>>
  OBVIOUS
<1>3. SignalTypeOK'
  BY <1>2 DEF SignalIInv, SignalTypeOK
<1>4. CASE writer = "stopped"
  <2>1. PICK k \in 0 .. offers : InOrder(wire, k)
    BY <1>4 DEF SignalIInv, AnswersInOrder
  <2>2. k \in 0 .. n
    BY <1>1
  <2> QED
    BY <1>3, <1>4, <2>1, <2>2 DEF SignalIInv, AnswersInOrder
<1>5. CASE writer # "stopped"
  <2>1. PICK u \in Seq(Msg) : u = wire \o holding
    BY <1>1, ConcatProperties
  <2>2. u \o out = u /\ u \o <<m>> = Append(u, m)
    BY <1>1
  <2>3. InOrder(u, offers)
    BY <1>5, <2>1, <2>2 DEF SignalIInv, AnswersInOrder
  <2>4. InOrder(Append(u, m), n)
    <3>1. CASE ~IsAnswer(m) /\ n = offers
      BY <2>3, <3>1, AppendInOrder
    <3>2. CASE m = <<"answer", n>> /\ n = offers + 1
      <4>1. IsAnswer(m) /\ m[2] = n /\ n >= 1 /\ n - 1 = offers
        BY <1>1, <3>2 DEF IsAnswer
      <4> QED
        BY <2>3, <4>1, AppendInOrder
    <3> QED
      BY <3>1, <3>2
  <2>5. InOrder(wire' \o holding' \o out', offers')
    BY <2>1, <2>2, <2>4
  <2> QED
    BY <1>3, <1>5, <2>5 DEF SignalIInv, AnswersInOrder
<1> QED
  BY <1>4, <1>5

\* Every step of the two loops, of the client and of the application.
LEMMA SignalStep ==
    ASSUME SignalIInv, [Next]_vars
    PROVE  SignalIInv'
<1>0. /\ wire \in Seq(Msg) /\ holding \in Seq(Msg) /\ out \in Seq(Msg) /\ offers \in Nat
      /\ Len(holding) <= 1 /\ Len(out) <= 1
      /\ writer \in {"select", "write", "stopped"}
      /\ reader \in {"read", "send", "last", "stopped"}
      /\ writer # "write" => holding = <<>>
      /\ reader \in {"read", "stopped"} => out = <<>>
  BY DEF SignalIInv, SignalTypeOK
<1>e. <<>> \in Seq(Msg) /\ Len(<<>>) = 0
  OBVIOUS
<1>w. <<"warning", 0>> \in Msg /\ ~IsAnswer(<<"warning", 0>>)
  BY DEF Msg, IsAnswer
<1>1. ASSUME UNCHANGED <<wire, holding, out, offers, writer>>,
             reader' = reader \/ (reader = "read" /\ reader' = "stopped")
      PROVE  SignalIInv'
  BY <1>1 DEF SignalIInv, SignalTypeOK, AnswersInOrder
<1>2. ASSUME NEW pc \in {"send", "last"}, reader = "read", SendObject(<<"warning", 0>>, pc),
             UNCHANGED <<wire, holding, offers, writer>>
      PROVE  SignalIInv'
  <2>1. out' = <<<<"warning", 0>>>> /\ reader' \in {"send", "last"} /\ offers' = offers
    BY <1>2 DEF SendObject
  <2> QED
    BY <1>0, <1>2, <1>w, <2>1, SendInOrder
<1>3. ASSUME reader = "read", Stop, UNCHANGED <<wire, holding, offers, writer>>
      PROVE  SignalIInv'
  BY <1>0, <1>1, <1>3 DEF Stop
<1>4. ASSUME NEW e, Receive(e)
      PROVE  reader = "read" /\ UNCHANGED <<wire, holding, writer>>
  BY <1>4 DEF Receive, sendVars
<1>5. ASSUME NEW m \in ClientMsg, ClientSends(m)
      PROVE  SignalIInv'
  BY <1>1, <1>5 DEF ClientSends, sendVars
<1>6. ASSUME NEW how, ClientLost(how)
      PROVE  SignalIInv'
  BY <1>1, <1>6 DEF ClientLost, sendVars, readVars
<1>7. CASE ReadFails
  BY <1>3, <1>7 DEF ReadFails, sendVars
<1>8. CASE HandleGarbage
  BY <1>3, <1>4, <1>8 DEF HandleGarbage
<1>9. CASE HandleOther
  BY <1>2, <1>4, <1>9 DEF HandleOther
<1>10. ASSUME NEW e \in Events, Unparsed(e)
       PROVE  SignalIInv'
  BY <1>2, <1>3, <1>4, <1>10 DEF Unparsed
<1>11. ASSUME NEW e \in Events, Hooked(e)
       PROVE  SignalIInv'
  BY <1>3, <1>4, <1>11 DEF Hooked
<1>12. ASSUME NEW ok \in BOOLEAN, HandleCandidate(ok)
       PROVE  SignalIInv'
  <2>1. CASE ok
    BY <1>1, <1>4, <1>12, <2>1 DEF HandleCandidate, Continue
  <2>2. CASE ~ok
    BY <1>2, <1>4, <1>12, <2>2 DEF HandleCandidate
  <2> QED
    BY <2>1, <2>2
<1>13. ASSUME NEW ok \in BOOLEAN, HandleAnswer(ok)
       PROVE  SignalIInv'
  <2>1. CASE ok
    BY <1>1, <1>4, <1>13, <2>1 DEF HandleAnswer, Continue
  <2>2. CASE ~ok
    BY <1>3, <1>4, <1>13, <2>2 DEF HandleAnswer
  <2> QED
    BY <2>1, <2>2
<1>14. ASSUME NEW ok \in BOOLEAN, HandleOffer(ok)
       PROVE  SignalIInv'
  <2>1. CASE ok
    <3>1. /\ offers' = offers + 1 /\ reader = "read" /\ UNCHANGED <<wire, holding, writer>>
          /\ out' = <<<<"answer", offers + 1>>>> /\ reader' \in {"send", "last"}
      BY <1>4, <1>14, <2>1 DEF HandleOffer, SendObject
    <3>2. PICK n \in Nat : n = offers + 1
      BY <1>0
    <3>3. <<"answer", n>> \in Msg
      BY DEF Msg
    <3> QED
      BY <3>1, <3>2, <3>3, SendInOrder
  <2>2. CASE ~ok
    BY <1>3, <1>4, <1>14, <2>2 DEF HandleOffer
  <2> QED
    BY <2>1, <2>2
<1>15. CASE TakeFromReader
  <2>1. /\ writer = "select" /\ holding = <<>> /\ holding' = out /\ out' = <<>>
        /\ writer' = "write" /\ reader' \in {"read", "stopped"}
        /\ UNCHANGED <<wire, offers>>
    BY <1>0, <1>15 DEF TakeFromReader, Stop
  <2>2. (wire \o <<>>) \o out = wire \o out /\ (wire \o out) \o <<>> = wire \o out
    BY <1>0
  <2>3. InOrder(wire \o out, offers)
    BY <2>1, <2>2 DEF SignalIInv, AnswersInOrder
  <2>4. AnswersInOrder'
    BY <2>1, <2>2, <2>3 DEF AnswersInOrder
  <2>5. SignalTypeOK'
    BY <1>0, <1>e, <2>1 DEF SignalTypeOK
  <2> QED
    BY <2>4, <2>5 DEF SignalIInv
<1>16. ASSUME NEW a \in Apps, SendMessage(a)
       PROVE  SignalIInv'
  BY <1>1, <1>16 DEF SendMessage, readVars
<1>17. ASSUME NEW a \in Apps, TakeFromApp(a)
       PROVE  SignalIInv'
  <2>0. <<"app", 0>> \in Msg /\ ~IsAnswer(<<"app", 0>>)
    BY DEF Msg, IsAnswer
  <2>1. PICK m \in Msg : m = <<"app", 0>> /\ ~IsAnswer(m)
    BY <2>0, Zenon
  <2>2. /\ writer = "select" /\ holding = <<>> /\ holding' = <<m>> /\ writer' = "write"
        /\ UNCHANGED <<wire, offers, out, reader>>
    BY <1>0, <1>17, <2>1 DEF TakeFromApp, readVars
  <2>3. InOrder(wire \o out, offers)
    <3>1. (wire \o <<>>) \o out = wire \o out
      BY <1>0
    <3> QED
      BY <2>2, <3>1 DEF SignalIInv, AnswersInOrder
  <2>4. InOrder((wire \o <<m>>) \o out, offers)
    BY <1>0, <2>1, <2>3, TailInOrder
  <2>5. AnswersInOrder'
    BY <2>2, <2>4 DEF AnswersInOrder
  <2>6. <<m>> \in Seq(Msg) /\ Len(<<m>>) = 1
    OBVIOUS
  <2>7. SignalTypeOK'
    BY <1>0, <2>2, <2>6 DEF SignalTypeOK
  <2> QED
    BY <2>5, <2>7 DEF SignalIInv
<1>18. CASE Close
  BY <1>1, <1>18 DEF Close, readVars
<1>19. ASSUME writer' = "stopped", holding' = <<>>, UNCHANGED <<wire, offers>>,
              UNCHANGED <<reader, out>> \/ (reader' = "stopped" /\ out' = <<>>)
       PROVE  SignalIInv'
  <2>1. SignalTypeOK'
    <3>1. CASE UNCHANGED <<reader, out>>
      BY <1>0, <1>e, <1>19, <3>1 DEF SignalTypeOK
    <3>2. CASE reader' = "stopped" /\ out' = <<>>
      BY <1>0, <1>e, <1>19, <3>2 DEF SignalTypeOK
    <3> QED
      BY <1>19, <3>1, <3>2
  <2>2. AnswersInOrder'
    BY <1>19, WireInOrder DEF AnswersInOrder
  <2> QED
    BY <2>1, <2>2 DEF SignalIInv
<1>20. CASE SendOnClosed
  BY <1>19, <1>20 DEF SendOnClosed, Stop
<1>21. CASE WriteMessage
  <2>1. /\ writer = "write" /\ writer' = "select" /\ wire' = wire \o holding
        /\ holding' = <<>> /\ UNCHANGED <<offers, out, reader>>
    BY <1>21 DEF WriteMessage, readVars
  <2>2. PICK u \in Seq(Msg) : u = wire \o holding
    BY <1>0, ConcatProperties
  <2>3. u \o <<>> = u
    OBVIOUS
  <2>4. AnswersInOrder'
    BY <2>1, <2>2, <2>3 DEF SignalIInv, AnswersInOrder
  <2>5. SignalTypeOK'
    BY <1>0, <1>e, <2>1, <2>2 DEF SignalTypeOK
  <2> QED
    BY <2>4, <2>5 DEF SignalIInv
<1>22. CASE WriteFails \/ PingFails
  BY <1>19, <1>22 DEF WriteFails, PingFails, WriterStops, readVars
<1>23. CASE ReceiveClosed
  <2>1. /\ writer = "select" /\ writer' = "stopped" /\ holding' = <<>>
        /\ UNCHANGED <<offers, out, reader>>
        /\ wire' = wire \/ wire' = Append(wire, <<"close", 0>>)
    BY <1>23 DEF ReceiveClosed, WriterStops, readVars
  <2>2. CASE wire' = wire
    BY <1>19, <2>1, <2>2
  <2>3. CASE wire' = Append(wire, <<"close", 0>>)
    <3>0. <<"close", 0>> \in Msg /\ ~IsAnswer(<<"close", 0>>)
      BY DEF Msg, IsAnswer
    <3>1. PICK m \in Msg : m = <<"close", 0>> /\ ~IsAnswer(m)
      BY <3>0, Zenon
    <3>2. wire' \in Seq(Msg)
      BY <1>0, <2>3, <3>1, AppendProperties
    <3>3. PICK n \in 0 .. offers : InOrder(wire, n)
      BY WireInOrder
    <3>4. n \in Nat
      BY <1>0
    <3>5. InOrder(wire', n)
      BY <1>0, <2>3, <3>1, <3>3, <3>4, AppendInOrder
    <3>6. AnswersInOrder'
      BY <2>1, <3>5 DEF AnswersInOrder
    <3>7. SignalTypeOK'
      BY <1>0, <1>e, <2>1, <3>2 DEF SignalTypeOK
    <3> QED
      BY <3>6, <3>7 DEF SignalIInv
  <2> QED
    BY <2>1, <2>2, <2>3
<1>24. CASE UNCHANGED vars
  BY <1>1, <1>24 DEF vars, sendVars, readVars
<1> QED
  BY <1>5, <1>6, <1>7, <1>8, <1>9, <1>10, <1>11, <1>12, <1>13, <1>14, <1>15, <1>16, <1>17,
     <1>18, <1>20, <1>21, <1>22, <1>23, <1>24 DEF Next, Reader, Writer

\* Every offer taken is answered once and in order, among the warnings and whatever the
\* application sends on the same channel, for any number of messages and senders; a
\* writer that has ended has written the answers to the first offers.
THEOREM AnsweredInOrder == Spec => []AnswersInOrder
<1>1. Init => SignalIInv
  <2>1. SUFFICES ASSUME Init PROVE SignalIInv
    OBVIOUS
  <2>2. /\ wire = <<>> /\ holding = <<>> /\ out = <<>> /\ offers = 0 /\ writer = "select"
        /\ reader = "read"
    BY <2>1 DEF Init
  <2>3. <<>> \in Seq(Msg) /\ Len(<<>>) = 0 /\ <<>> \o <<>> \o <<>> = <<>>
    OBVIOUS
  <2>4. InOrder(<<>>, 0)
    <3>1. DOMAIN <<>> = {} /\ 1 .. 0 = {}
      OBVIOUS
    <3> QED
      BY <3>1, Zenon DEF InOrder
  <2> QED
    BY <2>2, <2>3, <2>4 DEF SignalIInv, SignalTypeOK, AnswersInOrder
<1>2. SignalIInv /\ [Next]_vars => SignalIInv'
  BY SignalStep
<1>3. SignalIInv => AnswersInOrder
  BY DEF SignalIInv
<1> QED
  BY <1>1, <1>2, <1>3, PTL DEF Spec

=============================================================================
