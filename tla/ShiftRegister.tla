--------------------------- MODULE ShiftRegister ---------------------------
(***************************************************************************)
(* What a FIR filter needs of its memory: the last Taps samples, the       *)
(* newest first, zeros before the first.                                   *)
(***************************************************************************)
EXTENDS Naturals

CONSTANTS Taps, Samples

VARIABLE reg

Cleared == [i \in 0 .. Taps - 1 |-> 0]

Shifted(x) == [i \in 0 .. Taps - 1 |-> IF i = 0 THEN x ELSE reg[i - 1]]

Init == reg = Cleared

Next ==
  \/ \E x \in Samples : reg' = Shifted(x)
  \/ reg' = Cleared

Spec == Init /\ [][Next]_reg
=============================================================================
