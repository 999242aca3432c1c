-------------------------------- MODULE Rpc ---------------------------------
(***************************************************************************)
(* Remote calls over RabbitMQ (pkg/rabbitmq/rmq_rpc): a client with its    *)
(* table of pending calls, a server, and the life of a connection, which   *)
(* is the same code in both.                                               *)
(*                                                                         *)
(* The broker is external.  It loses, delays and reorders messages, and as *)
(* neither side acknowledges them it may deliver one again.  connect does  *)
(* not assign Delivery at this commit (the call of Consume is commented    *)
(* out), so both cases are kept: `wired` says that connecting yields a     *)
(* channel of messages; without it nothing is ever received.               *)
(*                                                                         *)
(* A panic ends the program.                                               *)
(***************************************************************************)
EXTENDS Naturals, FiniteSets

CONSTANTS Calls,        \* calls of RemoteCall
          Attempts,     \* conn.Attempts
          Scenarios     \* bounds: records [calls (that are made), losses (connections
                        \* lost), repeats (messages delivered a second time), stops
                        \* (sides the application shuts down)]

Sides == {"client", "server"}

VARIABLES
    scenario, wired,
    delivery,       \* per side, the channel Delivery: "nil", "open", "closed"
    stop,           \* per side: is the present channel stop closed
    loop,           \* per side, its consumer: "select", "connect", "report", "gone"
    tries,          \* per side: attempts left
    errorClosed,    \* per side: is the channel error closed
    shutdown,       \* per side, its Shutdown: "no", "sleep", "returned"
    call,           \* per call: [at, result]
    pending,        \* c.calls: those in the map
    done, status,   \* per call: done is closed, status (with what its body is)
    finding,        \* the getCall under way: set of at most one [call, status, at]
    requests, answers,  \* messages of the broker
    \* history
    losses, repeats,    \* counts, for the bounds
    repeated,       \* calls a message of which was delivered twice
    got,          \* per call: statuses that getCall found it for
    panic           \* "no", "done" or "stop": close of a closed channel

endVars == <<delivery, stop, loop, tries, errorClosed, shutdown, losses>>
callVars == <<call, pending, done, status, finding, got>>
brokerVars == <<requests, answers, repeats, repeated>>
setup == <<scenario, wired>>
rpcVars == <<setup, endVars, callVars, brokerVars, panic>>

\* What a server answers; "garbled" is a success whose body does not unmarshal
Statuses == {"success", "garbled", "badHandler", "internal"}
NoStatus == "none"

\* Both sides have connected and started their consumer
EndsInit ==
    /\ delivery = [e \in Sides |-> IF wired THEN "open" ELSE "nil"]
    /\ stop = [e \in Sides |-> FALSE] /\ loop = [e \in Sides |-> "select"]
    /\ tries = [e \in Sides |-> Attempts]
    /\ errorClosed = [e \in Sides |-> FALSE] /\ shutdown = [e \in Sides |-> "no"]
    /\ losses = 0

RpcInit ==
    /\ scenario \in Scenarios /\ wired \in BOOLEAN
    /\ EndsInit
    /\ call = [i \in Calls |-> [at |-> "new", result |-> "none"]]
    /\ pending = {} /\ done = {} /\ status = [i \in Calls |-> NoStatus] /\ finding = {}
    /\ got = [i \in Calls |-> {}]
    /\ requests = {} /\ answers = {} /\ repeats = 0 /\ repeated = {}
    /\ panic = "no"

-----------------------------------------------------------------------------
(* RemoteCall                                                              *)

At(i, at) == call' = [call EXCEPT ![i].at = at]
Result(i, at, result) == call' = [call EXCEPT ![i] = [at |-> at, result |-> result]]

\* The first test of stop
RemoteCall(i) ==
    /\ call[i].at = "new" /\ i \in scenario.calls
    /\ At(i, IF stop["client"] THEN "sleep" ELSE "publish")
    /\ UNCHANGED <<setup, endVars, pending, done, status, finding, got, brokerVars, panic>>

\* After time.Sleep, the second
TestAgain(i) ==
    /\ call[i].at = "sleep"
    /\ IF stop["client"] THEN Result(i, "returned", "closed") ELSE At(i, "publish")
    /\ UNCHANGED <<setup, endVars, pending, done, status, finding, got, brokerVars, panic>>

publish(i) ==
    /\ call[i].at = "publish"
    /\ \/ At(i, "add") /\ requests' = requests \cup {i}
       \/ Result(i, "returned", "publishError") /\ UNCHANGED requests
    /\ UNCHANGED <<setup, endVars, pending, done, status, finding, got, answers, repeats,
                   repeated, panic>>

\* The request is on its way before the call is in the table
addCall(i) ==
    /\ call[i].at = "add" /\ At(i, "wait") /\ pending' = pending \cup {i}
    /\ UNCHANGED <<setup, endVars, done, status, finding, got, brokerVars, panic>>

\* <-time.After: at any time, also when done is closed
TimedOut(i) ==
    /\ call[i].at = "wait" /\ Result(i, "delete", "timeout")
    /\ UNCHANGED <<setup, endVars, pending, done, status, finding, got, brokerVars, panic>>

\* Mutant of Outcome: an error of the server is not passed on
OutcomeNil(s) == IF s = "garbled" THEN "unmarshalError" ELSE "nil"

Outcome(s) ==
    CASE s = "garbled" -> "unmarshalError"
      [] s = "badHandler" -> "ErrBadHandler"
      [] s = "internal" -> "ErrInternalServer"
      [] OTHER -> "nil"

Answered(i) ==
    /\ call[i].at = "wait" /\ i \in done /\ Result(i, "delete", Outcome(status[i]))
    /\ UNCHANGED <<setup, endVars, pending, done, status, finding, got, brokerVars, panic>>

\* Deferred
deleteCall(i) ==
    /\ call[i].at = "delete" /\ At(i, "returned") /\ pending' = pending \ {i}
    /\ UNCHANGED <<setup, endVars, done, status, finding, got, brokerVars, panic>>

-----------------------------------------------------------------------------
(* Messages.  `again`: the broker keeps the message and will deliver it a  *)
(* second time.                                                            *)

Reads(e) == loop[e] = "select" /\ delivery[e] = "open" /\ (e = "client" => finding = {})

Repeat(i, again) ==
    /\ again => repeats < scenario.repeats
    /\ repeats' = IF again THEN repeats + 1 ELSE repeats
    /\ repeated' = IF again THEN repeated \cup {i} ELSE repeated

\* getCall: the lookup; an answer to no call of the table is dropped
getCall(a, again) ==
    /\ Reads("client") /\ a \in answers
    /\ finding' = IF a.call \in pending
                  THEN {[call |-> a.call, status |-> a.status, at |-> "set"]} ELSE {}
    /\ got' = IF a.call \in pending THEN [got EXCEPT ![a.call] = @ \cup {a.status}]
                ELSE got
    /\ answers' = IF again THEN answers ELSE answers \ {a}
    /\ Repeat(a.call, again)
    /\ UNCHANGED <<setup, endVars, call, pending, done, status, requests, panic>>

SetAnswer ==
    \E f \in finding :
        /\ f.at = "set" /\ finding' = {[f EXCEPT !.at = "close"]}
        /\ status' = [status EXCEPT ![f.call] = f.status]
        /\ UNCHANGED <<setup, endVars, call, pending, done, got, brokerVars, panic>>

CloseDone ==
    \E f \in finding :
        /\ f.at = "close" /\ finding' = {}
        /\ done' = done \cup {f.call}
        /\ panic' = IF f.call \in done THEN "done" ELSE panic
        /\ UNCHANGED <<setup, endVars, call, pending, status, got, brokerVars>>

\* An answer, which the broker may not take
Publishes(i, statuses) ==
    \/ \E s \in statuses :
          answers' = answers \cup {[call |-> i, status |-> s, n |-> repeats]}
    \/ UNCHANGED answers

\* serveCall routes on the header "type", which is not the "Type" the client writes:
\* a handler is found only if something on the way adds it
serveCall(i, again) ==
    /\ Reads("server") /\ i \in requests
    /\ requests' = IF again THEN requests ELSE requests \ {i}
    /\ \/ Publishes(i, {"badHandler"})
       \/ Publishes(i, {"internal", "success", "garbled"})
    /\ Repeat(i, again)
    /\ UNCHANGED <<setup, endVars, callVars, panic>>

-----------------------------------------------------------------------------
(* The life of a connection                                                *)

\* The connection is lost, and with it the channel
LoseConnection(e) ==
    /\ delivery[e] = "open" /\ losses < scenario.losses
    /\ losses' = losses + 1
    /\ delivery' = [delivery EXCEPT ![e] = "closed"]
    /\ UNCHANGED <<setup, stop, loop, tries, errorClosed, shutdown, callVars, brokerVars,
                   panic>>

Free(e) == e = "client" => finding = {}

\* Mutant of ConsumerStops: leaves the select only
ConsumerStopsBreak(e) ==
    /\ loop[e] = "select" /\ stop[e] /\ Free(e)
    /\ UNCHANGED rpcVars

ConsumerStops(e) ==
    /\ loop[e] = "select" /\ stop[e] /\ Free(e)
    /\ loop' = [loop EXCEPT ![e] = "gone"]
    /\ UNCHANGED <<setup, delivery, stop, tries, errorClosed, shutdown, losses, callVars,
                   brokerVars, panic>>

\* close(stop), then AttemptConnect
reconnect(e) ==
    /\ loop[e] = "select" /\ delivery[e] = "closed" /\ Free(e)
    /\ stop' = [stop EXCEPT ![e] = TRUE]
    /\ panic' = IF stop[e] THEN "stop" ELSE panic
    /\ loop' = [loop EXCEPT ![e] = "connect"]
    /\ tries' = [tries EXCEPT ![e] = Attempts]
    /\ UNCHANGED <<setup, delivery, errorClosed, shutdown, losses, callVars, brokerVars>>

\* Mutant of Connected: stop is not replaced
ConnectedStopped(e) ==
    /\ loop[e] = "connect"
    /\ loop' = [loop EXCEPT ![e] = "select"]
    /\ delivery' = [delivery EXCEPT ![e] = "open"]
    /\ UNCHANGED <<setup, stop, tries, errorClosed, shutdown, losses, callVars, brokerVars,
                   panic>>

\* A new stop, a new consumer
Connected(e) ==
    /\ loop[e] = "connect"
    /\ loop' = [loop EXCEPT ![e] = "select"]
    /\ stop' = [stop EXCEPT ![e] = FALSE]
    /\ delivery' = [delivery EXCEPT ![e] = "open"]
    /\ UNCHANGED <<setup, tries, errorClosed, shutdown, losses, callVars, brokerVars, panic>>

ConnectFails(e) ==
    /\ loop[e] = "connect"
    /\ tries' = [tries EXCEPT ![e] = @ - 1]
    /\ loop' = IF tries[e] = 1 THEN [loop EXCEPT ![e] = "report"] ELSE loop
    /\ UNCHANGED <<setup, delivery, stop, errorClosed, shutdown, losses, callVars,
                   brokerVars, panic>>

\* error is unbuffered: reconnect waits for a reader, then closes it
Reported(e) ==
    /\ loop' = [loop EXCEPT ![e] = "gone"]
    /\ errorClosed' = [errorClosed EXCEPT ![e] = TRUE]

Notify(e) ==
    /\ loop[e] = "report" /\ Reported(e)
    /\ UNCHANGED <<setup, delivery, stop, tries, shutdown, losses, callVars, brokerVars,
                   panic>>

Shutdown(e) ==
    /\ shutdown[e] = "no" /\ e \in scenario.stops
    /\ \/ /\ loop[e] = "report" /\ Reported(e)
          /\ shutdown' = [shutdown EXCEPT ![e] = "returned"]
          /\ UNCHANGED <<stop, panic>>
       \/ /\ errorClosed[e]
          /\ shutdown' = [shutdown EXCEPT ![e] = "returned"]
          /\ UNCHANGED <<stop, panic, loop, errorClosed>>
       \/ /\ loop[e] # "report" /\ ~errorClosed[e]
          /\ shutdown' = [shutdown EXCEPT ![e] = "sleep"]
          /\ stop' = [stop EXCEPT ![e] = TRUE]
          /\ panic' = IF stop[e] THEN "stop" ELSE panic
          /\ UNCHANGED <<loop, errorClosed>>
    /\ UNCHANGED <<setup, delivery, tries, losses, callVars, brokerVars>>

\* After the sleep: Disconnect, which may fail
Disconnect(e) ==
    /\ shutdown[e] = "sleep" /\ shutdown' = [shutdown EXCEPT ![e] = "returned"]
    /\ \/ delivery' = [delivery EXCEPT ![e] = IF wired THEN "closed" ELSE "nil"]
       \/ UNCHANGED delivery
    /\ UNCHANGED <<setup, stop, loop, tries, errorClosed, losses, callVars, brokerVars,
                   panic>>

CallSteps(i) ==
    TestAgain(i) \/ publish(i) \/ addCall(i) \/ TimedOut(i) \/ Answered(i) \/ deleteCall(i)
LoopSteps(e) == ConsumerStops(e) \/ reconnect(e) \/ Connected(e) \/ ConnectFails(e)

RpcNext ==
    /\ panic = "no"
    /\ \/ \E i \in Calls : RemoteCall(i) \/ CallSteps(i)
       \/ \E a \in answers, again \in BOOLEAN : getCall(a, again)
       \/ SetAnswer \/ CloseDone
       \/ \E i \in requests, again \in BOOLEAN : serveCall(i, again)
       \/ \E e \in Sides : LoopSteps(e) \/ LoseConnection(e) \/ Notify(e) \/ Shutdown(e)
                           \/ Disconnect(e)

\* Goroutines run and timers fire; no message has to arrive, nobody has to read error.
RpcSteps ==
    /\ panic = "no"
    /\ \/ \E i \in Calls : CallSteps(i)
       \/ SetAnswer \/ CloseDone
       \/ \E e \in Sides : LoopSteps(e) \/ Disconnect(e)
RpcFairness == WF_rpcVars(RpcSteps)

-----------------------------------------------------------------------------
(* Properties                                                              *)

\* What a call should return for each status
ErrorOf == {<<"success", "nil">>, <<"garbled", "unmarshalError">>,
            <<"badHandler", "ErrBadHandler">>, <<"internal", "ErrInternalServer">>}

\* A call returns what the server said of it and nothing else, the table holds no
\* call that has returned, and done is closed only for a call that got an answer:
\* an answer that comes before addCall or after the timeout changes nothing.
AnswersFit ==
    \A i \in Calls :
        /\ \A said \in ErrorOf : call[i].result = said[2] => said[1] \in got[i]
        /\ i \in pending => call[i].at \in {"wait", "delete"}
        /\ i \in done => got[i] # {}

\* Nothing is closed twice, however connections are lost and answers arrive, unless
\* the broker delivered a message twice or Shutdown was called around a loss.
PanicsExplained ==
    /\ panic = "done" => repeated # {}
    /\ panic = "stop" => \E e \in Sides : shutdown[e] # "no" /\ delivery[e] # "nil"

\* Every call returns, and after a Shutdown the consumer ends, unless the program
\* has panicked.
RpcEnds ==
    <>[] \/ panic # "no"
         \/ /\ \A i \in Calls : call[i].at \in {"new", "returned"}
            /\ \A e \in Sides : shutdown[e] # "no" => loop[e] = "gone"
=============================================================================
