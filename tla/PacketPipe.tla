----------------------------- MODULE PacketPipe -----------------------------
(***************************************************************************)
(* What a receive buffer promises the goroutine that reads from it:        *)
(* packets come out in the order Write accepted them, each at most once;   *)
(* some are dropped on the way (repeats, padding); the reader has one at a *)
(* time; and after Close at most one more comes out.                       *)
(***************************************************************************)
EXTENDS Naturals, Sequences

CONSTANT Packets

VARIABLES
    pipe,       \* packets accepted and not yet handed out
    given,      \* the packet the reader has: <<>> or one
    over,       \* Close has been called
    extra       \* packets handed out since

pipeVars == <<pipe, given, over, extra>>

PipeInit == pipe = <<>> /\ given = <<>> /\ over = FALSE /\ extra = 0

Accept(p) ==
    /\ ~over /\ pipe' = Append(pipe, p)
    /\ UNCHANGED <<given, over, extra>>

Drop(i) ==
    /\ i \in DOMAIN pipe
    /\ pipe' = SubSeq(pipe, 1, i - 1) \o SubSeq(pipe, i + 1, Len(pipe))
    /\ UNCHANGED <<given, over, extra>>

HandOut ==
    /\ pipe # <<>> /\ given = <<>>
    /\ given' = <<Head(pipe)>> /\ pipe' = Tail(pipe)
    /\ IF over THEN extra = 0 /\ extra' = 1 ELSE UNCHANGED extra
    /\ UNCHANGED over

GiveBack == given # <<>> /\ given' = <<>> /\ UNCHANGED <<pipe, over, extra>>

End == ~over /\ over' = TRUE /\ UNCHANGED <<pipe, given, extra>>

PipeNext ==
    \/ \E p \in Packets : Accept(p)
    \/ \E i \in DOMAIN pipe : Drop(i)
    \/ HandOut \/ GiveBack \/ End

PipeSpec == PipeInit /\ [][PipeNext]_pipeVars
=============================================================================
