---------------------------- MODULE MCBufferCalc ----------------------------
(***************************************************************************)
(* TLC instances of BufferCalc, and the loop of Bucket.AddPacket against   *)
(* its closed form.                                                        *)
(***************************************************************************)
EXTENDS BufferCalc

\* for i := 1; i < diff; i++ { step++; if step >= maxSteps { step = 0 } }
SkipLoop(step, n) ==
    FoldLeft(LAMBDA s, i : IF s + 1 >= MaxSteps THEN 0 ELSE s + 1,
             step, [i \in 1 .. n |-> i])

ASSUME SkipIsTheLoop ==
    \A step \in Slots, n \in 0 .. 3 * (MaxSteps + 1) : Skip(step, n) = SkipLoop(step, n)
=============================================================================
