------------------------------- MODULE MCParts ------------------------------
(***************************************************************************)
(* TLC instance of the smaller parts: candidates, a Subscriber's list, the *)
(* audio observer, the buffer factory, remote calls, pure helpers.  They   *)
(* share no state; a behaviour is one of one part (`part`), the others     *)
(* stay as they are.                                                       *)
(***************************************************************************)
EXTENDS Candidates, AudioObserver, Factory, Subscriber, Rpc, Helpers

CONSTANTS Parts, c1, c2, t1, t2, t3, r1, r2

VARIABLE part

TestStreamOf == [t \in {t1, t2, t3} |-> IF t = t3 THEN "y" ELSE "x"]
TestVisitSets == {{"v1", "v2"}, {"d"}}
TestSsrcOf == [v \in {"v1", "v2", "d"} |-> IF v = "d" THEN "own" ELSE "x"]

\* Connections lost around a Shutdown; two calls and a message that comes twice
TestScenarios ==
    [calls : {{c1}}, losses : {2}, repeats : {0}, stops : {{"client"}, {"server"}}]
    \cup [calls : {{c1, c2}}, losses : {0}, repeats : {1}, stops : {{}}]

\* Of the parts that do not run, one state
Still ==
    /\ part # "factory" => visiting = {"d"}
    /\ part # "rpc" => wired = FALSE /\ scenario.stops = {"client"}
    /\ part # "helpers" => sample = [kind |-> "batch", n |-> 0]

Init ==
    /\ part \in Parts
    /\ CandInit /\ AudioInit /\ FactoryInit /\ SubInit
    /\ RpcInit /\ HelperInit
    /\ Still

vars == <<part, candVars, audioVars, factoryVars, subVars, rpcVars, sample>>

Next ==
    \/ /\ part = "candidates" /\ CandNext
       /\ UNCHANGED <<part, audioVars, factoryVars, subVars, rpcVars, sample>>
    \/ /\ part = "audio" /\ AudioNext
       /\ UNCHANGED <<part, candVars, factoryVars, subVars, rpcVars, sample>>
    \/ /\ part = "factory" /\ FactoryNext
       /\ UNCHANGED <<part, candVars, audioVars, subVars, rpcVars, sample>>
    \/ /\ part = "subscriber" /\ SubNext
       /\ UNCHANGED <<part, candVars, audioVars, factoryVars, rpcVars, sample>>
    \/ /\ part = "rpc" /\ RpcNext
       /\ UNCHANGED <<part, candVars, audioVars, factoryVars, subVars, sample>>

Spec == Init /\ [][Next]_vars /\ SubFairness /\ RpcFairness
=============================================================================
