------------------------------- MODULE Signal -------------------------------
(***************************************************************************)
(* The websocket signalling of one client (signal.go): the goroutine that  *)
(* reads messages and acts on them (SignalMessageLoop), the goroutine that *)
(* writes and pings (WriteWebrtcMessageLoop), the unbuffered channel Send  *)
(* between them, and application goroutines that send messages or Close.   *)
(*                                                                         *)
(* Each loop closes the connection when it ends; that is the only way one  *)
(* of them learns of the other's end.  A ping that succeeds changes        *)
(* nothing here.  ReadMessage of the websocket library reports the         *)
(* client's close frame as an error, so the branch for CloseMessage        *)
(* (signal.go:111) is never taken and only the application calls Close.    *)
(***************************************************************************)
EXTENDS Naturals, Sequences

CONSTANTS Apps,         \* application goroutines, each sends one message
          HookChoices,  \* sets of events whose callback may be set: OnTrickle, ...
          MaxMsgs       \* bound: messages the client sends

Events == {"candidate", "answer", "offer"}

ASSUME SignalAssumption == HookChoices \subseteq SUBSET Events /\ MaxMsgs \in Nat

\* A message of the client: its event ("none" if the field is missing, "garbage"
\* if it is not JSON), and whether its data can be parsed
ClientMsg == [event : Events \cup {"join", "none", "garbage"}, parses : BOOLEAN]

\* What goes through Send: the answer to the n-th offer, a warning, or a
\* message of the application
Outgoing == {<<"answer", n>> : n \in 1 .. MaxMsgs} \cup {<<"warning", 0>>, <<"app", 0>>}

VARIABLES
    hooks,      \* events whose callback is set, before the loops start
    client,     \* "there", "silent" (no pong any more), "gone"
    conn,       \* s.conn, on this side: "open", "closed"
    inbox,      \* messages the client has sent and nobody has read
    arrived,    \* number of messages the client has sent
    event,      \* message.Event: the decoded message is reused
    reader,     \* "read", "send", "last" (sends, then returns), "stopped"
    out,        \* <<>>, or the message the reader is sending on s.Send
    writer,     \* "select", "write", "stopped"
    holding,    \* <<>>, or the message the writer took
    app,        \* per application goroutine: "idle", "sending", "sent"
    closed,     \* s.Send is closed
    wire,       \* history: what was written to the client
    handled,    \* history: number of messages read
    offers,     \* history: number of offers taken
    refused     \* history: the reader returned because of an error

sendVars == <<writer, holding, app, closed, wire>>
readVars == <<inbox, event, reader, out, handled, offers, refused>>
vars == <<hooks, client, conn, arrived, sendVars, readVars>>

Init ==
    /\ hooks \in HookChoices
    /\ client = "there" /\ conn = "open" /\ inbox = <<>> /\ arrived = 0
    /\ event = "none" /\ reader = "read" /\ out = <<>>
    /\ writer = "select" /\ holding = <<>> /\ app = [a \in Apps |-> "idle"]
    /\ closed = FALSE
    /\ wire = <<>> /\ handled = 0 /\ offers = 0 /\ refused = FALSE

-----------------------------------------------------------------------------
(* The client                                                              *)

ClientSends(m) ==
    /\ client = "there" /\ conn = "open" /\ arrived < MaxMsgs
    /\ inbox' = Append(inbox, m) /\ arrived' = arrived + 1
    /\ UNCHANGED <<hooks, client, conn, sendVars, event, reader, out, handled, offers, refused>>

ClientLost(how) ==
    /\ client = "there" /\ client' = how
    /\ UNCHANGED <<hooks, conn, arrived, sendVars, readVars>>

-----------------------------------------------------------------------------
(* SignalMessageLoop                                                       *)

\* Mutant of Stop: returns without the deferred conn.Close
StopKeepsConn == reader' = "stopped" /\ out' = <<>> /\ UNCHANGED conn

\* return, with the deferred conn.Close
Stop == reader' = "stopped" /\ out' = <<>> /\ conn' = "closed"

\* Next iteration
Continue == UNCHANGED <<reader, out, conn>>

\* SendObject: waits in s.Send <- message, then does what pc says
SendObject(m, pc) == reader' = pc /\ out' = <<m>> /\ UNCHANGED conn

\* ReadMessage fails: the connection is closed here or there, or the client has
\* let the read deadline pass
ReadFails ==
    /\ reader = "read"
    /\ \/ conn = "closed" \/ client = "gone"
       \/ client = "silent" /\ inbox = <<>>
    /\ Stop
    /\ UNCHANGED <<hooks, client, arrived, sendVars, inbox, event, handled, offers, refused>>

\* The event switched on: Unmarshal leaves a missing field as it was
Decoded(m) == IF m.event = "none" THEN event ELSE m.event

\* ReadMessage and Unmarshal yield a message that counts as e
Receive(e) ==
    /\ reader = "read" /\ conn = "open" /\ inbox # <<>>
    /\ Decoded(Head(inbox)) = e
    /\ inbox' = Tail(inbox) /\ handled' = handled + 1
    /\ UNCHANGED <<hooks, client, arrived, sendVars>>

HandleGarbage ==
    /\ Receive("garbage") /\ Stop /\ refused' = TRUE
    /\ UNCHANGED <<event, offers>>

\* The data do not parse
Unparsed(e) ==
    /\ Receive(e) /\ ~Head(inbox).parses /\ event' = e /\ refused' = TRUE
    /\ IF e = "candidate" THEN SendObject(<<"warning", 0>>, "last") ELSE Stop
    /\ UNCHANGED offers

\* The callback is called, and the loop returns
Hooked(e) ==
    /\ Receive(e) /\ Head(inbox).parses /\ e \in hooks /\ event' = e
    /\ Stop
    /\ UNCHANGED <<offers, refused>>

\* PeerConnection.AddICECandidate
HandleCandidate(ok) ==
    /\ Receive("candidate") /\ Head(inbox).parses /\ "candidate" \notin hooks
    /\ event' = "candidate" /\ refused' = ~ok
    /\ IF ok THEN Continue ELSE SendObject(<<"warning", 0>>, "last")
    /\ UNCHANGED offers

\* PeerConnection.SetRemoteDescription
HandleAnswer(ok) ==
    /\ Receive("answer") /\ Head(inbox).parses /\ "answer" \notin hooks
    /\ event' = "answer" /\ refused' = ~ok
    /\ IF ok THEN Continue ELSE Stop
    /\ UNCHANGED offers

\* Mutant of HandleOffer: an error of takeOffer is not looked at
HandleOfferAnyway(ok) ==
    /\ Receive("offer") /\ Head(inbox).parses /\ "offer" \notin hooks
    /\ event' = "offer" /\ UNCHANGED refused
    /\ offers' = IF ok THEN offers + 1 ELSE offers
    /\ SendObject(<<"answer", offers + 1>>, "send")

\* takeOffer, and the answer is sent
HandleOffer(ok) ==
    /\ Receive("offer") /\ Head(inbox).parses /\ "offer" \notin hooks
    /\ event' = "offer" /\ refused' = ~ok
    /\ IF ok THEN offers' = offers + 1 /\ SendObject(<<"answer", offers + 1>>, "send")
       ELSE Stop /\ UNCHANGED offers

\* Mutant of HandleOther: warns, then returns like the other warnings
HandleOtherReturns ==
    /\ \E e \in {"join", "none"} : Receive(e) /\ event' = e
    /\ SendObject(<<"warning", 0>>, "last")
    /\ UNCHANGED <<offers, refused>>

\* join, or no event seen yet: an unknown command
HandleOther ==
    /\ \E e \in {"join", "none"} : Receive(e) /\ event' = e
    /\ SendObject(<<"warning", 0>>, "send")
    /\ UNCHANGED <<offers, refused>>

-----------------------------------------------------------------------------
(* The channel Send                                                        *)

\* The writer takes what the reader is sending
TakeFromReader ==
    /\ writer = "select" /\ ~closed /\ out # <<>>
    /\ writer' = "write" /\ holding' = out
    /\ IF reader = "last" THEN Stop
       ELSE reader' = "read" /\ out' = <<>> /\ UNCHANGED conn
    /\ UNCHANGED <<hooks, client, arrived, app, closed, wire, inbox, event, handled,
                   offers, refused>>

\* SendMessage: the application waits in s.Send <- message
SendMessage(a) ==
    /\ app[a] = "idle" /\ app' = [app EXCEPT ![a] = "sending"]
    /\ UNCHANGED <<hooks, client, conn, arrived, writer, holding, closed, wire, readVars>>

\* The writer takes what the application is sending
TakeFromApp(a) ==
    /\ writer = "select" /\ ~closed /\ app[a] = "sending"
    /\ writer' = "write" /\ holding' = <<<<"app", 0>>>>
    /\ app' = [app EXCEPT ![a] = "sent"]
    /\ UNCHANGED <<hooks, client, conn, arrived, closed, wire, readVars>>

Close ==
    /\ Apps # {} /\ ~closed /\ closed' = TRUE
    /\ UNCHANGED <<hooks, client, conn, arrived, writer, holding, app, wire, readVars>>

\* A sender that waits when Send is closed, or sends afterwards, panics: the
\* program and all its goroutines end
SendOnClosed ==
    /\ closed /\ (out # <<>> \/ \E a \in Apps : app[a] = "sending")
    /\ Stop /\ writer' = "stopped" /\ holding' = <<>>
    /\ app' = [a \in Apps |-> "sent"]
    /\ UNCHANGED <<hooks, client, arrived, closed, wire, inbox, event, handled, offers, refused>>

-----------------------------------------------------------------------------
(* WriteWebrtcMessageLoop                                                  *)

\* NextWriter, Write and Close of the writer
WriteMessage ==
    /\ writer = "write" /\ conn = "open"
    /\ writer' = "select" /\ wire' = wire \o holding /\ holding' = <<>>
    /\ UNCHANGED <<hooks, client, conn, arrived, app, closed, readVars>>

\* A write or a ping fails: the loop returns, with the deferred conn.Close
WriterStops ==
    /\ writer' = "stopped" /\ holding' = <<>> /\ conn' = "closed"
    /\ UNCHANGED <<hooks, client, arrived, app, closed, readVars>>

WriteFails ==
    /\ writer = "write" /\ (conn = "closed" \/ client # "there")
    /\ WriterStops /\ UNCHANGED wire

PingFails ==
    /\ writer = "select" /\ (conn = "closed" \/ client # "there")
    /\ WriterStops /\ UNCHANGED wire

\* Send is closed: a close frame is tried and the loop returns
ReceiveClosed ==
    /\ writer = "select" /\ closed /\ WriterStops
    /\ wire' = IF conn = "open" THEN Append(wire, <<"close", 0>>) ELSE wire

-----------------------------------------------------------------------------
Reader ==
    \/ ReadFails \/ HandleGarbage \/ HandleOther
    \/ \E e \in Events : Unparsed(e) \/ Hooked(e)
    \/ \E ok \in BOOLEAN : HandleCandidate(ok) \/ HandleAnswer(ok) \/ HandleOffer(ok)

Writer == WriteMessage \/ WriteFails \/ ReceiveClosed

Next ==
    \/ \E m \in ClientMsg : ClientSends(m)
    \/ \E how \in {"silent", "gone"} : ClientLost(how)
    \/ Reader \/ TakeFromReader
    \/ \E a \in Apps : SendMessage(a) \/ TakeFromApp(a)
    \/ Close \/ SendOnClosed
    \/ Writer \/ PingFails

(***************************************************************************)
(* The two loops run when they can.  select picks at random among what is  *)
(* ready, so that no sender is passed over for ever (strong fairness); the *)
(* ticker fires every minute, and a ping on a connection that is closed on *)
(* either side fails.  Nothing is assumed of the client and of the         *)
(* application.                                                            *)
(***************************************************************************)
Fairness ==
    /\ WF_vars(Reader) /\ WF_vars(Writer) /\ SF_vars(TakeFromReader)
    /\ \A a \in Apps : SF_vars(TakeFromApp(a))
    /\ WF_vars((conn = "closed" \/ client = "gone") /\ PingFails)
    /\ WF_vars(SendOnClosed)

Spec == Init /\ [][Next]_vars /\ Fairness

-----------------------------------------------------------------------------
(* Properties                                                              *)

IsAnswer(m) == m[1] = "answer"

\* The answers in s are those to the first n offers, each once and in this order
InOrder(s, n) ==
    /\ \A i \in DOMAIN s : IsAnswer(s[i]) => s[i][2] \in 1 .. n
    /\ \A i, j \in DOMAIN s : i < j /\ IsAnswer(s[i]) /\ IsAnswer(s[j]) => s[i][2] < s[j][2]
    /\ \A k \in 1 .. n : \E i \in DOMAIN s : s[i] = <<"answer", k>>

\* Every offer that was taken is answered once and in order, among the warnings
\* and the messages of the application: its answer is written, held by the
\* writer or waiting in SendObject, unless the writer has ended.
AnswersInOrder ==
    IF writer = "stopped" THEN \E n \in 0 .. offers : InOrder(wire, n)
    ELSE InOrder(wire \o holding \o out, offers)

Blocked == reader \in {"send", "last"}

\* Closing the connection is enough for the end of one loop to end the other: the
\* writer always, the reader unless it waits for the writer to take a message.
EndTogether ==
    /\ (reader = "stopped") ~> (writer = "stopped")
    /\ (writer = "stopped") ~> (reader = "stopped" \/ Blocked)

\* A message of a client that stays is read, unless an earlier one was refused or
\* Send is closed.  (A callback ends the loop after the message it was given.)
AllProcessed ==
    \A i \in 1 .. MaxMsgs :
        (arrived >= i) ~> (handled >= i \/ refused \/ client # "there" \/ closed \/ hooks # {})
=============================================================================
