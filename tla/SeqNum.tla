------------------------------- MODULE SeqNum -------------------------------
(***************************************************************************)
(* RTP sequence numbers: Go's uint16 arithmetic, and the uint32 "extended" *)
(* numbers (cycles | sn) the receive buffer derives from them.  The width  *)
(* is a parameter: the program has Half = 0x8000 and Cycles = 2^16.        *)
(* Differences are written as a conditional, not with %, so that they stay *)
(* linear for the prover.                                                  *)
(***************************************************************************)
EXTENDS Integers

CONSTANTS Half,       \* 0x8000: the bit that tells "newer" from "older"
          Cycles      \* how many times SNSpace fits in a uint32 (2^16)

ASSUME HalfAssumption == Half \in Nat /\ Half > 1
ASSUME CyclesAssumption == Cycles \in Nat /\ Cycles > 1

SNSpace == 2 * Half             \* maxSN = 1 << 16
SN == 0 .. SNSpace - 1
U32 == SNSpace * Cycles         \* 1 << 32

\* a - b of two uint16
Minus(a, b) == IF a >= b THEN a - b ELSE a - b + SNSpace

\* a + n of two uint16
Plus(a, n) == IF a + n < SNSpace THEN a + n ELSE a + n - SNSpace

\* (a - b) & 0x8000 == 0
NotOlder(a, b) == Minus(a, b) < Half

\* a & 0x8000 > 0
TopBit(a) == a >= Half

\* a + b and a - b of two uint32
Add32(a, b) == IF a + b < U32 THEN a + b ELSE a + b - U32
Sub32(a, b) == IF a >= b THEN a - b ELSE a - b + U32

\* uint16(e) of a uint32
Low16(e) == e % SNSpace
=============================================================================
