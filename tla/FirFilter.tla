----------------------------- MODULE FirFilter -----------------------------
(***************************************************************************)
(* One channel of the FIR filters (libfir) behind the trigger and the      *)
(* noise of the function generator.  The samples are kept in a ring that   *)
(* the filter walks backwards from the newest; a coefficient is known by   *)
(* the design that it is of.                                               *)
(*                                                                         *)
(* A filter is designed while it is not in use: the generator switches     *)
(* the channel's power off, and the engine halts the measurement.          *)
(***************************************************************************)
EXTENDS Integers

CONSTANTS
  FirTaps,      \* FIRNTAPS
  FirSamples,   \* values of the samples
  FirDesigns    \* stop frequencies, whose filters differ

ASSUME FirAssumption ==
  /\ FirTaps \in Nat \ {0} /\ FirSamples \subseteq Int /\ 0 \notin FirDesigns

VARIABLES
  firIdx,   \* fir_idx_x[ichan]
  firX,     \* fir_x[.][ichan]
  firH      \* fir_h[.][ichan]

firVars == << firIdx, firX, firH >>

Ring == 0 .. FirTaps - 1

\* fir_design: remez fills the array h, and all of it but h[0] is copied.
Designed(h, d) == [i \in Ring |-> IF i = 0 THEN h[0] ELSE d]

\* fir_init, with a first design.
FirBegin(d) ==
  /\ firIdx = 0
  /\ firX = [i \in Ring |-> 0]
  /\ firH = Designed([i \in Ring |-> 0], d)

FirInit == \E d \in FirDesigns : FirBegin(d)

FirReset ==
  /\ firIdx' = 0
  /\ firX' = [i \in Ring |-> 0]
  /\ \E d \in FirDesigns : firH' = Designed([i \in Ring |-> 0], d)

FirDesign(d) ==
  /\ firH' = Designed(firH, d)
  /\ UNCHANGED << firIdx, firX >>

\* Where fir_filter stores the next sample.
Slot == IF firIdx = FirTaps THEN 0 ELSE firIdx

\* Mutant: the walk goes round one place too early.
WalkShort(i) == IF i < firIdx - 1 THEN firIdx - 1 - i ELSE (firIdx - 2 - i + FirTaps) % FirTaps

\* The place of the sample that fir_filter multiplies with coefficient i.
Walk(i) == IF i < firIdx THEN firIdx - 1 - i ELSE firIdx - 1 - i + FirTaps

\* fir_filter.
FirStore(x) ==
  /\ firX' = [firX EXCEPT ![Slot] = x]
  /\ firIdx' = Slot + 1
  /\ UNCHANGED firH

FirNext ==
  \/ FirReset
  \/ \E d \in FirDesigns : FirDesign(d)
  \/ \E x \in FirSamples : FirStore(x)

FirSpec == FirInit /\ [][FirNext]_firVars

----------------------------------------------------------------------------
\* What the coefficients are multiplied with, in their order.
Window == [i \in Ring |-> firX[Walk(i)]]

Register == INSTANCE ShiftRegister
              WITH Taps <- FirTaps, Samples <- FirSamples, reg <- Window

\* Coefficient i meets the sample i steps back, also when the ring has come round
\* and after the filter was started anew: the ring implements a shift register
\* (fir_filter).
FirShifts == Register!Spec
=============================================================================
