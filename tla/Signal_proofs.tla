---------------------------- MODULE Signal_proofs ----------------------------
(***************************************************************************)
(* What becomes of samples.  The ring of the FIR filter implements a shift *)
(* register, for every number of taps.  The function generator keeps a     *)
(* multisine within its bandwidth and a whistle between its frequencies,   *)
(* for all frequencies, observation intervals and bandwidths.  Encoders    *)
(* show displacements: the EL5101 for every width of the counter, every    *)
(* bound below half its period and every length of the axle's way, and the *)
(* E-box for both of its channels.                                         *)
(***************************************************************************)
EXTENDS FirFilter, FunGen, Encoder, TLAPS

----------------------------------------------------------------------------
(* The FIR filter. *)

(***************************************************************************)
(* The index stays within the ring or one past it (fir_filter).            *)
(***************************************************************************)
RingInv ==
  /\ firIdx \in 0 .. FirTaps
  /\ firX \in [Ring -> Int]

LEMMA InitRing == FirInit => RingInv
BY FirAssumption DEF FirInit, FirBegin, RingInv, Ring

LEMMA StepRing == RingInv /\ [FirNext]_firVars => RingInv'
<1> SUFFICES ASSUME RingInv, [FirNext]_firVars PROVE RingInv'
  OBVIOUS
<1> USE FirAssumption DEF RingInv, Ring
<1>1. CASE FirReset
  BY <1>1 DEF FirReset
<1>2. ASSUME NEW d \in FirDesigns, FirDesign(d) PROVE RingInv'
  BY <1>2 DEF FirDesign
<1>3. ASSUME NEW x \in FirSamples, FirStore(x) PROVE RingInv'
  <2>1. Slot \in Ring
    BY DEF Slot
  <2>2. firX' \in [Ring -> Int]
    BY <1>3, <2>1 DEF FirStore
  <2> QED
    BY <1>3, <2>1, <2>2 DEF FirStore
<1>4. CASE UNCHANGED firVars
  BY <1>4 DEF firVars
<1> QED
  BY <1>1, <1>2, <1>3, <1>4 DEF FirNext

(***************************************************************************)
(* The walk of fir_filter stays within the ring.                           *)
(***************************************************************************)
LEMMA WalkInRing ==
  ASSUME firIdx \in 0 .. FirTaps, NEW i \in Ring PROVE Walk(i) \in Ring
BY FirAssumption DEF Walk, Ring

\* A filter that starts anew shows zeros only.
LEMMA ClearedWindow ==
  ASSUME firIdx = 0, firX = [i \in Ring |-> 0] PROVE Window = Register!Cleared
<1>1. \A i \in Ring : firX[Walk(i)] = 0
  <2> TAKE i \in Ring
  <2>1. Walk(i) \in Ring
    BY FirAssumption, WalkInRing
  <2> QED
    BY <2>1
<1> QED
  BY <1>1 DEF Window, Register!Cleared, Ring

LEMMA InitRegister == FirInit => Register!Init
BY ClearedWindow DEF FirInit, FirBegin, Register!Init

(***************************************************************************)
(* Every step of the ring is one of the register, or leaves it alone.      *)
(***************************************************************************)
LEMMA StepRegister == RingInv /\ [FirNext]_firVars => [Register!Next]_Window
<1> SUFFICES ASSUME RingInv, [FirNext]_firVars PROVE [Register!Next]_Window
  OBVIOUS
<1> USE FirAssumption
<1>1. CASE FirReset
  <2>1. Window' = Register!Cleared
    <3>1. \A i \in Ring : Walk(i)' \in Ring
      BY <1>1 DEF FirReset, Walk, Ring
    <3>2. \A i \in Ring : firX'[Walk(i)'] = 0
      BY <1>1, <3>1 DEF FirReset
    <3> QED
      BY <3>2 DEF Window, Register!Cleared, Ring
  <2> QED
    BY <2>1 DEF Register!Next
<1>2. ASSUME NEW d \in FirDesigns, FirDesign(d) PROVE UNCHANGED Window
  BY <1>2 DEF FirDesign, Window, Walk
<1>3. ASSUME NEW x \in FirSamples, FirStore(x) PROVE Register!Next
  <2>1. Window' = Register!Shifted(x)
    <3>1. Slot \in Ring /\ firIdx' = Slot + 1
      BY <1>3 DEF RingInv, FirStore, Slot, Ring
    <3>2. \A i \in Ring : Walk(i)' \in Ring
      BY <3>1 DEF Walk, Ring
    <3>3. \A i \in Ring : firX'[Walk(i)'] = IF Walk(i)' = Slot THEN x ELSE firX[Walk(i)']
      BY <1>3, <3>2 DEF FirStore, RingInv
    <3>4. 0 \in Ring /\ Walk(0)' = Slot
      BY <3>1 DEF Walk, Ring
    <3>5. \A i \in Ring : i # 0 => i - 1 \in Ring /\ Walk(i)' # Slot /\ Walk(i)' = Walk(i - 1)
      BY <3>1 DEF RingInv, Walk, Slot, Ring
    <3>6. \A i \in Ring : firX'[Walk(i)'] = IF i = 0 THEN x ELSE Window[i - 1]
      BY <3>3, <3>4, <3>5 DEF Window
    <3> QED
      BY <3>6 DEF Window, Register!Shifted, Ring
  <2> QED
    BY <2>1 DEF Register!Next
<1>4. CASE UNCHANGED firVars
  BY <1>4 DEF firVars, Window, Walk
<1> QED
  BY <1>1, <1>2, <1>3, <1>4 DEF FirNext

(***************************************************************************)
(* Coefficient i of the filter meets the sample i steps back, whatever the *)
(* number of taps (fir_filter).                                            *)
(***************************************************************************)
THEOREM RingIsRegister == FirSpec => FirShifts
<1>1. FirSpec => []RingInv
  BY InitRing, StepRing, PTL DEF FirSpec
<1> QED
  BY <1>1, InitRegister, StepRegister, PTL DEF FirSpec, FirShifts, Register!Spec

----------------------------------------------------------------------------
(* The spectral lines of the function generator. *)


FgTypeInv ==
  /\ fgType \in FgTypes
  /\ fgFreq1 \in Nat /\ fgFreq2 \in Nat
  /\ fgObsiv \in Nat \ {0} /\ Den % fgObsiv = 0
  /\ fgTime \in Nat /\ fgT0 \in Nat /\ fgSeen \in Nat
  /\ fgLimited \in BOOLEAN /\ fgRaced \in BOOLEAN

\* The frequencies that a line and a frequency between lines stand for.
Unit == Den \div fgObsiv

LEMMA UnitOfLines ==
  ASSUME FgTypeInv
  PROVE  Unit \in Nat /\ fgObsiv * Unit = Den /\ Unit > 0
<1>1. Den \in Nat \ {0} /\ fgObsiv \in Nat \ {0} /\ Den % fgObsiv = 0
  BY FunGenAssumption DEF FgTypeInv
<1> DEFINE q == Den \div fgObsiv
<1>2. q \in Nat /\ Den = fgObsiv * q + (Den % fgObsiv)
  BY <1>1
<1> HIDE DEF q
<1>3. fgObsiv * q = Den
  BY <1>1, <1>2
<1>4. q # 0
  BY <1>1, <1>3
<1> QED
  BY <1>2, <1>3, <1>4 DEF Unit, q

LEMMA ShiftedQuotient ==
  ASSUME NEW a \in Nat, NEW w \in Nat, NEW d \in Nat \ {0}
  PROVE  (a + w * d) \div d = (a \div d) + w
<1> DEFINE q == a \div d
           r == a % d
<1>1. q \in Nat /\ r \in 0 .. d - 1 /\ a = d * q + r
  OBVIOUS
<1> HIDE DEF q, r
<1>2. a + w * d = d * (q + w) + r
  BY <1>1
<1>3. (d * (q + w) + r) \div d = q + w
  BY <1>1
<1> QED
  BY <1>2, <1>3 DEF q

\* A line is at least the first, and the half line of rounding is the same for all.
Rounded(freq) == (2 * freq * fgObsiv + Den - 1) \div (2 * Den)

LEMMA LineIs ==
  ASSUME FgTypeInv, NEW freq \in Nat
  PROVE  /\ Rounded(freq) \in Nat /\ Line(freq) \in Nat \ {0}
         /\ Line(freq) = IF Rounded(freq) = 0 THEN 1 ELSE Rounded(freq)
<1>1. Den \in Nat \ {0} /\ fgObsiv \in Nat \ {0}
  BY FunGenAssumption DEF FgTypeInv
<1>2. 2 * freq * fgObsiv \in Nat
  BY <1>1
<1> DEFINE a == 2 * freq * fgObsiv + Den - 1
<1>3. a \in Nat /\ 2 * Den \in Nat \ {0}
  BY <1>1, <1>2
<1> HIDE DEF a
<1>4. a \div (2 * Den) \in Nat
  BY <1>3
<1> QED
  BY <1>4 DEF Rounded, Line, a

LEMMA FreqIs ==
  ASSUME FgTypeInv, NEW k \in Nat
  PROVE  Freq(k) = k * Unit /\ Freq(k) \in Nat
  BY UnitOfLines DEF Freq, Unit

\* w lines further up, the line is w further.
LEMMA RoundedShift ==
  ASSUME FgTypeInv, NEW freq \in Nat, NEW w \in Nat
  PROVE  Rounded(freq + Freq(w)) = Rounded(freq) + w
<1>1. Den \in Nat \ {0} /\ fgObsiv \in Nat \ {0} /\ Unit \in Nat /\ fgObsiv * Unit = Den
  BY FunGenAssumption, UnitOfLines DEF FgTypeInv
<1>2. 2 * freq * fgObsiv \in Nat
  BY <1>1
<1> DEFINE a == 2 * freq * fgObsiv + Den - 1
<1>3. 2 * (w * Unit) * fgObsiv = w * (2 * Den)
  <2>1. 2 * (w * Unit) * fgObsiv = (2 * w) * (fgObsiv * Unit)
    BY <1>1
  <2> QED
    BY <1>1, <2>1
<1>4. 2 * (freq + w * Unit) * fgObsiv = 2 * freq * fgObsiv + 2 * (w * Unit) * fgObsiv
  BY <1>1
<1>5. w * (2 * Den) \in Nat /\ 2 * Den \in Nat \ {0} /\ a \in Nat
  BY <1>1, <1>2
<1>6. 2 * (freq + w * Unit) * fgObsiv + Den - 1 = a + w * (2 * Den)
  BY <1>1, <1>2, <1>3, <1>4, <1>5
<1>7. (a + w * (2 * Den)) \div (2 * Den) = (a \div (2 * Den)) + w
  BY <1>5, ShiftedQuotient
<1> QED
  BY <1>6, <1>7, FreqIs DEF Rounded

LEMMA LineShift ==
  ASSUME FgTypeInv, NEW freq \in Nat, NEW w \in Nat
  PROVE  Line(freq + Freq(w)) <= Line(freq) + w
<1>1. freq + Freq(w) \in Nat
  BY FreqIs
<1>2. Line(freq + Freq(w)) = IF Rounded(freq) + w = 0 THEN 1 ELSE Rounded(freq) + w
  BY <1>1, LineIs, RoundedShift
<1>3. Rounded(freq) \in Nat /\ Line(freq) = IF Rounded(freq) = 0 THEN 1 ELSE Rounded(freq)
  BY LineIs
<1> QED
  BY <1>2, <1>3

\* The line of the frequency of a line is that line.
LEMMA LineFreq ==
  ASSUME FgTypeInv, NEW k \in Nat \ {0}
  PROVE  Line(Freq(k)) = k
<1>1. Rounded(0) = 0
  <2>1. Den \in Nat \ {0} /\ fgObsiv \in Nat \ {0}
    BY FunGenAssumption DEF FgTypeInv
  <2>2. 2 * 0 * fgObsiv + Den - 1 = Den - 1
    BY <2>1
  <2>3. (Den - 1) \div (2 * Den) = 0
    BY <2>1
  <2> QED
    BY <2>2, <2>3 DEF Rounded
<1>2. Freq(k) \in Nat /\ 0 + Freq(k) = Freq(k)
  BY FreqIs
<1>3. Rounded(0 + Freq(k)) = Rounded(0) + k
  BY RoundedShift
<1> QED
  BY <1>1, <1>2, <1>3, LineIs

LEMMA LineMonotonic ==
  ASSUME FgTypeInv, NEW a \in Nat, NEW b \in Nat, a <= b
  PROVE  Line(a) <= Line(b)
<1>1. Den \in Nat \ {0} /\ fgObsiv \in Nat \ {0}
  BY FunGenAssumption DEF FgTypeInv
<1>2. a * fgObsiv <= b * fgObsiv /\ a * fgObsiv \in Nat /\ b * fgObsiv \in Nat
  BY <1>1
<1> DEFINE x == 2 * a * fgObsiv + Den - 1
           y == 2 * b * fgObsiv + Den - 1
<1>3. x \in Nat /\ y \in Nat /\ x <= y
  BY <1>1, <1>2
<1>4. 2 * Den \in Nat \ {0}
  BY <1>1
<1> HIDE DEF x, y
<1>5. ASSUME NEW d \in Nat \ {0} PROVE x \div d <= y \div d
  <2> DEFINE p == x \div d
             q == y \div d
  <2>1. p \in Nat /\ q \in Nat /\ p * d <= x /\ y < (q + 1) * d
    BY <1>3
  <2> HIDE DEF p, q
  <2>2. p * d < (q + 1) * d
    <3>1. p * d \in Nat /\ (q + 1) * d \in Nat
      BY <2>1
    <3> QED
      BY <1>3, <2>1, <3>1
  <2>3. p >= q + 1 => p * d >= (q + 1) * d
    BY <2>1
  <2>4. p < q + 1
    <3>1. p * d \in Nat /\ (q + 1) * d \in Nat
      BY <2>1
    <3> QED
      BY <2>1, <2>2, <2>3, <3>1
  <2> QED
    BY <2>1, <2>4 DEF p, q
<1>6. Rounded(a) <= Rounded(b)
  BY <1>4, <1>5 DEF Rounded, x, y
<1> QED
  BY <1>6, LineIs

\* The band of a multisine whose first frequency has just been limited.
LEMMA LowLimits ==
  ASSUME FgTypeInv, NEW k \in Nat \ {0}
  PROVE  /\ LimitLow(Freq(k)) \in Nat
         /\ Line(fgFreq2) - Line(LimitLow(Freq(k))) <= MaxWidth
<1>1. MaxWidth \in Nat /\ fgFreq2 \in Nat /\ Freq(k) \in Nat /\ Freq(MaxWidth) \in Nat
      /\ Freq(1) \in Nat /\ Freq(k + MaxWidth) \in Nat /\ Freq(1 + MaxWidth) \in Nat
  BY FunGenAssumption, FreqIs DEF FgTypeInv
<1>2. /\ Freq(k + MaxWidth) = Freq(k) + Freq(MaxWidth)
      /\ Freq(1 + MaxWidth) = Freq(1) + Freq(MaxWidth)
  BY FunGenAssumption, UnitOfLines, FreqIs
<1>3. Line(fgFreq2) \in Nat
  BY <1>1, LineIs
<1>4. CASE fgFreq2 - Freq(k) > Freq(MaxWidth) /\ fgFreq2 <= Freq(MaxWidth)
  <2>1. LimitLow(Freq(k)) = Freq(1) /\ fgFreq2 <= Freq(1 + MaxWidth)
    BY <1>1, <1>2, <1>4 DEF LimitLow
  <2>2. Line(fgFreq2) <= Line(Freq(1 + MaxWidth))
    BY <1>1, <2>1, LineMonotonic
  <2>3. Line(Freq(1 + MaxWidth)) = 1 + MaxWidth /\ Line(Freq(1)) = 1
    BY <1>1, LineFreq
  <2> QED
    BY <1>1, <1>3, <2>1, <2>2, <2>3
<1>5. CASE fgFreq2 - Freq(k) > Freq(MaxWidth) /\ ~(fgFreq2 <= Freq(MaxWidth))
  <2>1. LimitLow(Freq(k)) = fgFreq2 - Freq(MaxWidth)
    BY <1>5 DEF LimitLow
  <2> DEFINE f == fgFreq2 - Freq(MaxWidth)
  <2>2. f \in Nat /\ fgFreq2 = f + Freq(MaxWidth)
    BY <1>1, <1>5
  <2> HIDE DEF f
  <2>3. Line(fgFreq2) <= Line(f) + MaxWidth /\ Line(f) \in Nat
    BY <1>1, <2>2, LineShift, LineIs
  <2> QED
    BY <1>1, <1>3, <2>1, <2>2, <2>3 DEF f
<1>6. CASE ~(fgFreq2 - Freq(k) > Freq(MaxWidth))
  <2>1. LimitLow(Freq(k)) = Freq(k) /\ fgFreq2 <= Freq(k + MaxWidth)
    BY <1>1, <1>2, <1>6 DEF LimitLow
  <2>2. Line(fgFreq2) <= Line(Freq(k + MaxWidth))
    BY <1>1, <2>1, LineMonotonic
  <2>3. Line(Freq(k + MaxWidth)) = k + MaxWidth /\ Line(Freq(k)) = k
    BY <1>1, LineFreq
  <2> QED
    BY <1>1, <1>3, <2>1, <2>2, <2>3
<1> QED
  BY <1>4, <1>5, <1>6

\* The same of the second.
LEMMA HighLimits ==
  ASSUME FgTypeInv, NEW k \in Nat \ {0}
  PROVE  /\ LimitHigh(Freq(k)) \in Nat
         /\ Line(LimitHigh(Freq(k))) - Line(fgFreq1) <= MaxWidth
<1>1. MaxWidth \in Nat /\ fgFreq1 \in Nat /\ Freq(k) \in Nat /\ Freq(MaxWidth) \in Nat
      /\ fgFreq1 + Freq(MaxWidth) \in Nat
  BY FunGenAssumption, FreqIs DEF FgTypeInv
<1>2. Line(fgFreq1 + Freq(MaxWidth)) <= Line(fgFreq1) + MaxWidth
  BY <1>1, LineShift
<1>3. Line(fgFreq1) \in Nat /\ Line(fgFreq1 + Freq(MaxWidth)) \in Nat /\ Line(Freq(k)) \in Nat
  BY <1>1, LineIs
<1>4. CASE Freq(k) - fgFreq1 > Freq(MaxWidth)
  BY <1>1, <1>2, <1>3, <1>4 DEF LimitHigh
<1>5. CASE ~(Freq(k) - fgFreq1 > Freq(MaxWidth))
  <2>1. LimitHigh(Freq(k)) = Freq(k) /\ Freq(k) <= fgFreq1 + Freq(MaxWidth)
    BY <1>1, <1>5 DEF LimitHigh
  <2>2. Line(Freq(k)) <= Line(fgFreq1 + Freq(MaxWidth))
    BY <1>1, <2>1, LineMonotonic
  <2> QED
    BY <1>1, <1>2, <1>3, <2>1, <2>2
<1> QED
  BY <1>4, <1>5

----------------------------------------------------------------------------
LEMMA InitFg == FgInit => FgTypeInv
<1>1. Den \in Nat /\ Den % 1 = 0
  BY FunGenAssumption
<1> SUFFICES ASSUME FgInit PROVE FgTypeInv
  OBVIOUS
<1>2. fgType \in FgTypes /\ fgLimited \in BOOLEAN /\ fgRaced \in BOOLEAN
  BY DEF FgInit, FgTypes
<1>3. Den % fgObsiv = 0
  BY <1>1 DEF FgInit
<1>4. /\ fgFreq1 \in Nat /\ fgFreq2 \in Nat /\ fgObsiv \in Nat \ {0}
      /\ fgTime \in Nat /\ fgT0 \in Nat /\ fgSeen \in Nat
  BY <1>1 DEF FgInit
<1> QED
  BY <1>2, <1>3, <1>4 DEF FgTypeInv

\* What the setters and fg_get_val put in for a frequency.
LEMMA Frequencies ==
  ASSUME FgTypeInv, NEW freq \in Nat
  PROVE  /\ Freq(Line(freq)) \in Nat /\ Line(freq) \in Nat \ {0}
         /\ LimitLow(Freq(Line(freq))) \in Nat /\ LimitHigh(Freq(Line(freq))) \in Nat
         /\ ChirpTop(freq) \in Nat
<1>1. Line(freq) \in Nat \ {0} /\ Freq(Line(freq)) \in Nat
  BY LineIs, FreqIs
<1>2. ChirpTop(freq) \in Nat
  <2>1. fgFreq1 \in Nat /\ fgFreq1 + freq \in Nat
    BY DEF FgTypeInv
  <2>2. Line(fgFreq1 + freq) \in Nat
    BY <2>1, LineIs
  <2>3. Freq(Line(fgFreq1 + freq)) \in Nat
    BY <2>2, FreqIs
  <2> QED
    BY <2>1, <2>3 DEF ChirpTop
<1> QED
  BY <1>1, <1>2, LowLimits, HighLimits

LEMMA StepFg == FgTypeInv /\ [FgNext]_fgVars => FgTypeInv'
<1> SUFFICES ASSUME FgTypeInv, [FgNext]_fgVars PROVE FgTypeInv'
  OBVIOUS
<1> USE DEF fgSignal, fgClock, fgLocal
<1>0. Freqs \subseteq Nat /\ SetTypes \subseteq FgTypes
      /\ \A o \in Intervals : o \in Nat \ {0} /\ Den % o = 0
  BY FunGenAssumption
<1>1. ASSUME NEW s \in {"freq1", "freq2", "type"}, FgBegin(s) PROVE FgTypeInv'
  BY <1>1 DEF FgBegin, FgTypeInv
<1>2. ASSUME NEW f \in Freqs, FgSetFreq1(f) PROVE FgTypeInv'
  <2>1. f \in Nat
    BY <1>0
  <2>2. fgFreq1' \in Nat
    BY <1>2, <2>1, Frequencies DEF FgSetFreq1
  <2> QED
    BY <1>2, <2>2 DEF FgSetFreq1, FgTypeInv
<1>3. ASSUME NEW f \in Freqs, FgSetFreq2(f) PROVE FgTypeInv'
  <2>1. f \in Nat /\ fgFreq1 \in Nat
    BY <1>0 DEF FgTypeInv
  <2>2. fgFreq2' \in Nat
    <3>1. Freq(Line(f)) \in Nat /\ LimitHigh(Freq(Line(f))) \in Nat /\ ChirpTop(f) \in Nat
      BY <2>1, Frequencies
    <3>2. Freq(Line(f)) < fgFreq1 \/ Freq(Line(f)) >= fgFreq1
      BY <2>1, <3>1
    <3> QED
      BY <1>3, <2>1, <3>1, <3>2 DEF FgSetFreq2
  <2> QED
    BY <1>3, <2>2 DEF FgSetFreq2, FgTypeInv
<1>4. ASSUME NEW ty \in SetTypes, FgSetType(ty) PROVE FgTypeInv'
  BY <1>0, <1>4 DEF FgSetType, FgTypeInv
<1>5. CASE FgEnd
  BY <1>5 DEF FgEnd, FgTypeInv
<1>6. ASSUME NEW p \in {0, 1}, FgSwitch(p) \/ FgSetOnoff(p) \/ FgNotify(p) PROVE FgTypeInv'
  BY <1>6 DEF FgSwitch, FgSetOnoff, FgNotify, FgTypeInv
<1>7. ASSUME NEW o \in Intervals, FgPutObsiv(o) PROVE FgTypeInv'
  BY <1>0, <1>7 DEF FgPutObsiv, FgTypeInv
<1>8. CASE FgGetVal
  <2>1. fgTime' \in Nat /\ fgT0' \in Nat
    BY <1>8 DEF FgGetVal, LinkTime, FgTypeInv
  <2>2. fgSeen' \in Nat
    <3>1. fgFreq1 \in Nat /\ fgFreq2 \in Nat
      BY DEF FgTypeInv
    <3>2. Freq(Line(fgFreq1)) \in Nat /\ ChirpTop(fgFreq2) \in Nat
      BY <3>1, Frequencies
    <3>3. fgSeen' \in {Freq(Line(fgFreq1)), ChirpTop(fgFreq2), 0}
      BY <1>8 DEF FgGetVal
    <3> QED
      BY <3>2, <3>3
  <2> QED
    BY <1>8, <2>1, <2>2 DEF FgGetVal, FgTypeInv
<1>9. CASE FgStore1
  <2>1. fgSeen' \in Nat
    BY <1>9, Frequencies DEF FgStore1, FgTypeInv
  <2> QED
    BY <1>9, <2>1 DEF FgStore1, FgTypeInv
<1>10. CASE FgStore2
  BY <1>10 DEF FgStore2, FgTypeInv
<1>11. CASE UNCHANGED fgVars
  BY <1>11 DEF fgVars, FgTypeInv
<1> QED
  BY <1>1, <1>2, <1>3, <1>4, <1>5, <1>6, <1>7, <1>8, <1>9, <1>10, <1>11 DEF FgNext

\* The callback stores the lines of the frequencies that it finds.
BandInv ==
  fgType = "MULTISINE" /\ ~fgRaced =>
    /\ fgCallback = "freq1" => fgSeen = Freq(Line(fgFreq1))
    /\ fgCallback = "freq2" => fgSeen = Freq(Line(fgFreq2))
    /\ fgLimited => Line(fgFreq2) - Line(fgFreq1) <= MaxWidth

LEMMA StepBand == FgTypeInv /\ BandInv /\ [FgNext]_fgVars => BandInv'
<1> SUFFICES ASSUME FgTypeInv, BandInv, [FgNext]_fgVars, fgType' = "MULTISINE", ~fgRaced'
             PROVE  BandInv'
  BY DEF BandInv
<1> USE DEF fgSignal, fgClock, fgLocal
<1>0. fgFreq1 \in Nat /\ fgFreq2 \in Nat /\ Freqs \subseteq Nat /\ fgLimited \in BOOLEAN
      /\ fgRaced \in BOOLEAN
  BY FunGenAssumption DEF FgTypeInv
\* A step that keeps the interval keeps every line.
<1>a. fgObsiv' = fgObsiv =>
        \A f : Line(f)' = Line(f) /\ Freq(f)' = Freq(f)
  BY DEF Line, Freq
<1>1. ASSUME UNCHANGED << fgType, fgRaced, fgLimited, fgFreq1, fgFreq2, fgObsiv, fgCallback,
                          fgSeen >>
      PROVE  BandInv'
  BY <1>1 DEF BandInv, Line, Freq
<1>2. ASSUME NEW s \in {"freq1", "freq2", "type"}, FgBegin(s) PROVE BandInv'
  BY <1>1, <1>2 DEF FgBegin
<1>3. ASSUME NEW f \in Freqs, FgSetFreq1(f) PROVE BandInv'
  <2>1. fgCallback = "idle" /\ fgCallback' = "idle" /\ fgType = "MULTISINE"
        /\ UNCHANGED << fgFreq2, fgObsiv >>
    BY <1>0, <1>3 DEF FgSetFreq1
  <2>2. fgFreq1' = LimitLow(Freq(Line(f)))
    BY <1>3, <2>1 DEF FgSetFreq1
  <2>3. Line(f) \in Nat \ {0}
    BY <1>0, Frequencies
  <2>4. Line(fgFreq2) - Line(fgFreq1') <= MaxWidth
    BY <2>2, <2>3, LowLimits
  <2>5. Line(fgFreq2)' = Line(fgFreq2) /\ Line(fgFreq1)' = Line(fgFreq1')
    BY <2>1 DEF Line
  <2> QED
    BY <2>1, <2>4, <2>5 DEF BandInv
<1>4. ASSUME NEW f \in Freqs, FgSetFreq2(f) PROVE BandInv'
  <2>1. fgCallback = "idle" /\ fgCallback' = "idle" /\ fgType = "MULTISINE"
        /\ UNCHANGED << fgFreq1, fgObsiv >>
    BY <1>0, <1>4 DEF FgSetFreq2
  <2>2. fgFreq2' = LimitHigh(Freq(Line(f)))
    BY <1>4, <2>1 DEF FgSetFreq2
  <2>3. Line(f) \in Nat \ {0}
    BY <1>0, Frequencies
  <2>4. Line(fgFreq2') - Line(fgFreq1) <= MaxWidth
    BY <2>2, <2>3, HighLimits
  <2>5. Line(fgFreq1)' = Line(fgFreq1) /\ Line(fgFreq2)' = Line(fgFreq2')
    BY <2>1 DEF Line
  <2> QED
    BY <2>1, <2>4, <2>5 DEF BandInv
<1>5. ASSUME NEW ty \in SetTypes, FgSetType(ty) PROVE BandInv'
  <2>1. fgCallback' = "idle" /\ ~fgLimited'
    BY <1>0, <1>5 DEF FgSetType
  <2> QED
    BY <2>1 DEF BandInv
<1>6. CASE FgEnd
  BY <1>1, <1>6 DEF FgEnd
<1>7. ASSUME NEW p \in {0, 1}, FgSwitch(p) \/ FgSetOnoff(p) \/ FgNotify(p) PROVE BandInv'
  BY <1>1, <1>7 DEF FgSwitch, FgSetOnoff, FgNotify
<1>8. ASSUME NEW o \in Intervals, FgPutObsiv(o) PROVE BandInv'
  <2>1. fgCallback' = "idle" /\ ~fgLimited'
    BY <1>0, <1>8 DEF FgPutObsiv
  <2> QED
    BY <2>1 DEF BandInv
<1>9. CASE FgGetVal
  <2>1. /\ fgCallback' = "freq1" => fgSeen' = Freq(Line(fgFreq1))
        /\ fgCallback' # "freq2"
        /\ UNCHANGED << fgType, fgRaced, fgLimited, fgFreq1, fgFreq2, fgObsiv >>
    BY <1>9 DEF FgGetVal
  <2>2. Line(fgFreq1)' = Line(fgFreq1) /\ Line(fgFreq2)' = Line(fgFreq2)
        /\ Freq(Line(fgFreq1))' = Freq(Line(fgFreq1))
    BY <2>1 DEF Line, Freq
  <2> QED
    BY <2>1, <2>2 DEF BandInv
<1>10. CASE FgStore1
  <2>1. /\ fgCallback = "freq1" /\ fgFreq1' = fgSeen
        /\ fgCallback' = "freq2" /\ fgSeen' = Freq(Line(fgFreq2))
        /\ UNCHANGED << fgType, fgRaced, fgLimited, fgFreq2, fgObsiv >>
    BY <1>10 DEF FgStore1
  <2>2. fgFreq1' = Freq(Line(fgFreq1))
    BY <2>1 DEF BandInv
  <2>3. Line(fgFreq1') = Line(fgFreq1)
    BY <1>0, <2>2, Frequencies, LineFreq
  <2>4. Line(fgFreq1)' = Line(fgFreq1') /\ Line(fgFreq2)' = Line(fgFreq2)
        /\ Freq(Line(fgFreq2))' = Freq(Line(fgFreq2))
    BY <2>1 DEF Line, Freq
  <2> QED
    BY <2>1, <2>3, <2>4 DEF BandInv
<1>11. CASE FgStore2
  <2>1. /\ fgCallback = "freq2" /\ fgFreq2' = fgSeen /\ fgCallback' = "idle"
        /\ UNCHANGED << fgType, fgRaced, fgLimited, fgFreq1, fgObsiv >>
    BY <1>11 DEF FgStore2
  <2>2. fgFreq2' = Freq(Line(fgFreq2))
    BY <2>1 DEF BandInv
  <2>3. Line(fgFreq2') = Line(fgFreq2)
    BY <1>0, <2>2, Frequencies, LineFreq
  <2>4. Line(fgFreq2)' = Line(fgFreq2') /\ Line(fgFreq1)' = Line(fgFreq1)
    BY <2>1 DEF Line
  <2> QED
    BY <2>1, <2>3, <2>4 DEF BandInv
<1>12. CASE UNCHANGED fgVars
  BY <1>1, <1>12 DEF fgVars
<1> QED
  BY <1>2, <1>3, <1>4, <1>5, <1>6, <1>7, <1>8, <1>9, <1>10, <1>11, <1>12 DEF FgNext

\* A multisine has no more lines than MaxWidth apart once one of its frequencies was
\* set, in whatever order they are set and however the callback rounds them, as long as
\* no setter runs into the callback (libfungen), for every interval and frequency.
THEOREM BandIsLimited == FgSpec => []BandLimited
<1>1. FgInit => BandInv
  BY DEF FgInit, BandInv
<1>2. BandInv => BandLimited
  BY DEF BandInv, BandLimited
<1> QED
  BY <1>1, <1>2, InitFg, StepFg, StepBand, PTL DEF FgSpec

LEMMA Later == ASSUME NEW a \in Nat, NEW b \in Nat, a >= b PROVE a - b \in Nat
  OBVIOUS

\* A whistle stays between its two frequencies, whatever its history (fg_get_val).
THEOREM LineStaysInBand == FgSpec => LineInBand
<1> DEFINE InBand == /\ fgK' >= Line(fgFreq1)
                     /\ fgK' <= IF Line(fgFreq2) < Line(fgFreq1) THEN Line(fgFreq1)
                                ELSE Line(fgFreq2)
<1>1. FgTypeInv /\ [FgNext]_fgVars
      => [FgGetVal /\ fgType = "WHISTLE" /\ fgK' # fgK /\ fgTime' >= fgT0' => InBand]_fgVars
  <2> SUFFICES ASSUME FgTypeInv, FgGetVal, fgType = "WHISTLE", fgK' # fgK, fgTime' >= fgT0'
               PROVE  InBand
    OBVIOUS
  <2> DEFINE k1 == Line(fgFreq1)
             k2 == IF Line(fgFreq2) < k1 THEN k1 ELSE Line(fgFreq2)
             t == fgTime' - fgT0'
             width == k2 - k1 + 1
             frame == (t \div (2 * fgObsiv)) + 1
             turn == ((frame - 1) % width) + 1
  <2>1. fgFreq1 \in Nat /\ fgFreq2 \in Nat /\ fgObsiv \in Nat \ {0}
        /\ fgTime' \in Nat /\ fgT0' \in Nat
    BY DEF FgTypeInv, FgGetVal, LinkTime
  <2>2. t \in Nat /\ 2 * fgObsiv \in Nat \ {0}
    <3>1. t \in Nat
      BY <2>1, Later
    <3>2. 2 * fgObsiv \in Nat \ {0}
      BY <2>1
    <3> QED
      BY <3>1, <3>2
  <2>3. k1 \in Nat \ {0} /\ k2 \in Nat /\ k2 >= k1 /\ width \in Nat \ {0}
    BY <2>1, LineIs
  <2>4. fgK' = WhistleLine(t)
    BY DEF FgGetVal
  <2> HIDE DEF t
  <2>5. frame \in Nat \ {0}
    BY <2>2
  <2>6. WhistleLine(t) = k1 + turn - 1
    BY <2>2, <2>5 DEF WhistleLine
  <2> HIDE DEF frame, width, k2
  <2>7. turn \in 1 .. width
    BY <2>3, <2>5
  <2> HIDE DEF turn, k1
  <2>8. k1 <= fgK' /\ fgK' <= k2
    BY <2>3, <2>4, <2>6, <2>7 DEF width
  <2> QED
    BY <2>8 DEF k2, k1
<1> QED
  BY <1>1, InitFg, StepFg, PTL DEF FgSpec, LineInBand

----------------------------------------------------------------------------
(* The EL5101. *)

Period == 2 * ElHalf

Raw == 1 - ElHalf .. ElHalf

(***************************************************************************)
(* The parts of the inductive invariant: the origin differs from count0 by *)
(* whole revolutions; the previous count is one that the counter can show, *)
(* or was before ec_EL5101_enc_zero_chan; and with the revolutions it      *)
(* makes the displacement at the last read, as the value then returned.    *)
(***************************************************************************)
ElTypes ==
  /\ elCount0 \in Raw /\ elFirst \in BOOLEAN /\ elRevol \in Int /\ elPrev \in Int
  /\ elValue \in Int /\ elOrigin \in Int /\ elTruth \in Int

OriginShown == \E k \in Int : elOrigin = elCount0 + k * Period

PrevShown ==
  \/ elPrev + elCount0 \in Raw
  \/ elCount0 = 0 /\ elPrev \in 1 - Period .. Period - 1

Counted ==
  elTrusted => elPrev + elRevol * Period = elTruth /\ elValue = elTruth

Untouched ==
  elFirst => /\ elPrev = 0 /\ elRevol = 0 /\ elTruth = 0 /\ elCount0 = 0 /\ elOrigin = 0

ElInv == ElTypes /\ OriginShown /\ PrevShown /\ Counted /\ Untouched

----------------------------------------------------------------------------
(* Arithmetic.                                                             *)

LEMMA DivMod ==
  ASSUME NEW a \in Int, NEW d \in Nat \ {0}
  PROVE  /\ a \div d \in Int /\ a % d \in 0 .. d - 1
         /\ a = (a \div d) * d + (a % d)
OBVIOUS

LEMMA Distribute ==
  ASSUME NEW a \in Int, NEW b \in Int, NEW c \in Int
  PROVE  (a + b) * c = a * c + b * c /\ (a - b) * c = a * c - b * c /\ a * c \in Int
OBVIOUS

LEMMA PeriodPositive == Period \in Nat \ {0} /\ Period = 2 * ElHalf /\ ElHalf \in Nat \ {0}
                        /\ ElBound \in Nat /\ ElBound < ElHalf
BY EncoderAssumption DEF Period

\* The counter shows a position less whole revolutions.
LEMMA ElShows ==
  ASSUME NEW p \in Int
  PROVE  ElShown(p) \in Raw
         /\ \E j \in Int : p = ElShown(p) + j * Period
<1> DEFINE j == p \div Period
           raw == p % Period
<1>1. raw \in 0 .. Period - 1 /\ j \in Int /\ p = j * Period + raw
  BY PeriodPositive, DivMod
<1>2. ElShown(p) = IF raw > ElHalf THEN raw - Period ELSE raw
  BY DEF ElShown, Period
<1> HIDE DEF j, raw
<1>3. j * Period \in Int /\ (j + 1) * Period = j * Period + Period
  BY <1>1, PeriodPositive
<1>4. CASE raw > ElHalf
  <2>1. p = ElShown(p) + (j + 1) * Period /\ j + 1 \in Int
    BY <1>1, <1>2, <1>3, <1>4, PeriodPositive
  <2>2. ElShown(p) \in Raw
    BY <1>1, <1>2, <1>4, PeriodPositive DEF Raw
  <2> QED
    BY <2>1, <2>2
<1>5. CASE ~(raw > ElHalf)
  <2>1. p = ElShown(p) + j * Period
    BY <1>1, <1>2, <1>3, <1>5, PeriodPositive
  <2>2. ElShown(p) \in Raw
    BY <1>1, <1>2, <1>5, PeriodPositive DEF Raw
  <2> QED
    BY <1>1, <2>1, <2>2
<1> QED
  BY <1>4, <1>5

\* A whole number of revolutions of less than two is none or one.
LEMMA OneRevolution ==
  ASSUME NEW m \in Int, m * Period < 2 * Period, m * Period > -(2 * Period)
  PROVE  m \in {-1, 0, 1}
<1>1. ASSUME m >= 2 PROVE FALSE
  <2>1. m * Period >= 2 * Period
    BY <1>1, PeriodPositive
  <2> QED
    BY <2>1, PeriodPositive
<1>2. ASSUME m <= -2 PROVE FALSE
  <2>1. m * Period <= (-2) * Period
    BY <1>2, PeriodPositive
  <2> QED
    BY <2>1, PeriodPositive
<1> QED
  BY <1>1, <1>2

(***************************************************************************)
(* If the way since the last read is within the bound, the test of         *)
(* ec_EL5101_enc_read_chan finds the revolutions.                          *)
(***************************************************************************)
LEMMA UnwrapCounts ==
  ASSUME elPrev \in Int, elRevol \in Int,
         NEW count \in Int, NEW m \in Int, NEW d \in Int,
         d = (count - elPrev) + m * Period, Abs(d) <= ElBound,
         count - elPrev < 3 * ElHalf, elPrev - count < 3 * ElHalf
  PROVE  ElUnwrap(count) = elRevol + m
<1>1. -ElBound <= d /\ d <= ElBound
  BY PeriodPositive DEF Abs
<1>2. m * Period \in Int
  BY PeriodPositive
<1>3. m * Period < 2 * Period /\ m * Period > -(2 * Period)
  BY <1>1, <1>2, PeriodPositive
<1>4. m \in {-1, 0, 1}
  BY <1>3, OneRevolution
<1>5. CASE m = -1
  <2>1. m * Period = -Period
    BY <1>5, PeriodPositive
  <2>2. count - elPrev > ElBound
    BY <1>1, <2>1, PeriodPositive
  <2> QED
    BY <1>5, <2>2 DEF ElUnwrap
<1>6. CASE m = 0
  <2>1. m * Period = 0
    BY <1>6, PeriodPositive
  <2>2. ~(count - elPrev > ElBound) /\ ~(elPrev - count > ElBound)
    BY <1>1, <2>1, PeriodPositive
  <2> QED
    BY <1>6, <2>2 DEF ElUnwrap
<1>7. CASE m = 1
  <2>1. m * Period = Period
    BY <1>7, PeriodPositive
  <2>2. elPrev - count > ElBound /\ ~(count - elPrev > ElBound)
    BY <1>1, <2>1, PeriodPositive
  <2> QED
    BY <1>7, <2>2 DEF ElUnwrap
<1> QED
  BY <1>4, <1>5, <1>6, <1>7

----------------------------------------------------------------------------
LEMMA InitEncoder == ElInit => ElInv
<1> SUFFICES ASSUME ElInit PROVE ElInv
  OBVIOUS
<1> USE DEF ElInit
<1>1. 0 * Period = 0
  BY PeriodPositive
<1>2. ElTypes
  BY PeriodPositive DEF ElTypes, Raw
<1>3. OriginShown
  BY <1>1 DEF OriginShown
<1>4. PrevShown
  BY PeriodPositive DEF PrevShown, Raw
<1>5. Counted /\ Untouched
  BY <1>1 DEF Counted, Untouched
<1> QED
  BY <1>2, <1>3, <1>4, <1>5 DEF ElInv

LEMMA StepRead ==
  ASSUME ElInv, NEW p \in Int, ElRead(p) PROVE ElInv'
<1> DEFINE raw == ElShown(p)
           count0 == IF elFirst THEN raw ELSE elCount0
           origin == IF elFirst THEN p ELSE elOrigin
           count == raw - count0
<1>1. /\ elTrusted
      /\ elCount0' = count0 /\ elFirst' = FALSE /\ elRevol' = ElUnwrap(count)
      /\ elPrev' = count /\ elValue' = count + elRevol' * Period
      /\ elOrigin' = origin /\ elTruth' = p - origin
      /\ elTrusted' = (Abs((p - origin) - elTruth) <= ElBound)
  BY DEF ElRead, Period
<1>2. raw \in Raw /\ \E j \in Int : p = raw + j * Period
  BY ElShows
<1> HIDE DEF raw
<1>3. ElTypes /\ PrevShown /\ Untouched
  BY DEF ElInv
<1>4. count0 \in Raw /\ count0 \in Int /\ raw \in Int /\ origin \in Int /\ count \in Int
  BY <1>2, <1>3, PeriodPositive DEF ElTypes, Raw
<1>5. \E k \in Int : origin = count0 + k * Period
  BY <1>2 DEF ElInv, OriginShown
<1>6. PICK j \in Int : p = raw + j * Period
  BY <1>2
<1>7. PICK k \in Int : origin = count0 + k * Period
  BY <1>5
<1>8. count - elPrev < 3 * ElHalf /\ elPrev - count < 3 * ElHalf
  BY <1>2, <1>3, <1>4, PeriodPositive DEF PrevShown, Untouched, ElTypes, Raw
<1>9. count + count0 \in Raw
  BY <1>2, <1>4
<1> HIDE DEF count, count0, origin
<1>10. p - origin = count + (j - k) * Period
  <2>1. (j - k) * Period = j * Period - k * Period /\ j * Period \in Int /\ k * Period \in Int
    BY PeriodPositive, Distribute
  <2> QED
    BY <1>4, <1>6, <1>7, <2>1 DEF count
<1>11. elRevol' \in Int
  BY <1>1, <1>3 DEF ElUnwrap, ElTypes
<1>12. ElTypes'
  <2>1. elRevol' * Period \in Int
    BY <1>11, PeriodPositive
  <2>2. elFirst' \in BOOLEAN
    BY <1>1, Zenon
  <2>3. elCount0' \in Raw /\ elPrev' \in Int /\ elOrigin' \in Int
    BY <1>1, <1>4
  <2>4. elValue' \in Int /\ elTruth' \in Int
    BY <1>1, <1>4, <2>1
  <2>5. Raw' = Raw
    BY DEF Raw
  <2> QED
    BY <1>11, <2>2, <2>3, <2>4, <2>5, Zenon DEF ElTypes
<1>13. OriginShown'
  <2>1. \E q \in Int : elOrigin' = elCount0' + q * Period
    BY <1>1, <1>7
  <2> QED
    BY <2>1 DEF OriginShown, Period
<1>14. PrevShown'
  BY <1>1, <1>9 DEF PrevShown, Raw
<1>15. Counted'
  <2> SUFFICES ASSUME elTrusted'
               PROVE elPrev' + elRevol' * Period = elTruth' /\ elValue' = elTruth'
    BY DEF Counted, Period
  <2> DEFINE m == (j - k) - elRevol
             d == (p - origin) - elTruth
  <2>1. elRevol \in Int /\ elPrev \in Int /\ elTruth \in Int /\ m \in Int /\ d \in Int
    BY <1>3, <1>4 DEF ElTypes
  <2>2. elTruth = elPrev + elRevol * Period
    BY <1>1 DEF ElInv, Counted
  <2>3. m * Period = (j - k) * Period - elRevol * Period
        /\ (j - k) * Period \in Int /\ elRevol * Period \in Int
    BY <2>1, PeriodPositive, Distribute
  <2>4. d = (count - elPrev) + m * Period
    BY <1>4, <1>10, <2>1, <2>2, <2>3
  <2>5. Abs(d) <= ElBound
    BY <1>1
  <2> HIDE DEF m, d
  <2>6. ElUnwrap(count) = elRevol + m
    BY <1>4, <1>8, <2>1, <2>4, <2>5, UnwrapCounts
  <2>7. elRevol' = j - k
    BY <1>1, <2>1, <2>6 DEF m
  <2> QED
    BY <1>1, <1>10, <2>7
<1>16. Untouched'
  BY <1>1 DEF Untouched
<1> QED
  BY <1>12, <1>13, <1>14, <1>15, <1>16 DEF ElInv

LEMMA StepZero ==
  ASSUME ElInv, ElZero PROVE ElInv'
<1> USE DEF ElInv, ElZero
<1>1. ElTypes'
  BY PeriodPositive DEF ElTypes, Raw
<1>2. OriginShown'
  <2>1. PICK k \in Int : elOrigin = elCount0 + k * Period
    BY DEF OriginShown
  <2>2. k * Period \in Int /\ elCount0 \in Int
    BY PeriodPositive DEF ElTypes, Raw
  <2>3. elOrigin' = elCount0' + k * Period
    BY <2>1, <2>2
  <2> QED
    BY <2>3 DEF OriginShown, Period
<1>3. PrevShown'
  BY PeriodPositive DEF PrevShown, ElTypes, Raw, Period
<1>4. Counted'
  BY DEF Counted, Period
<1>5. Untouched'
  BY DEF Untouched
<1> QED
  BY <1>1, <1>2, <1>3, <1>4, <1>5

LEMMA StepEncoder == ElInv /\ [ElNext]_elVars => ElInv'
<1> SUFFICES ASSUME ElInv, [ElNext]_elVars PROVE ElInv'
  OBVIOUS
<1>1. ASSUME NEW p \in -ElReach .. ElReach, ElRead(p) PROVE ElInv'
  <2>1. p \in Int
    BY EncoderAssumption
  <2> QED
    BY <1>1, <2>1, StepRead
<1>2. CASE ElZero
  BY <1>2, StepZero
<1>3. CASE UNCHANGED elVars
  BY <1>3 DEF elVars, ElInv, ElTypes, OriginShown, PrevShown, Counted, Untouched, Raw, Period
<1> QED
  BY <1>1, <1>2, <1>3 DEF ElNext

(***************************************************************************)
(* As long as the axle turns by no more than the bound between two reads,  *)
(* the value read is its displacement, however often the counter wrapped   *)
(* (ec_EL5101_enc_read_chan, ec_EL5101_enc_zero_chan).                     *)
(***************************************************************************)
THEOREM EncoderIsExact == ElSpec => []ElExact
<1>1. ElSpec => []ElInv
  BY InitEncoder, StepEncoder, PTL DEF ElSpec
<1>2. ElInv => ElExact
  BY DEF ElInv, Counted, ElExact
<1> QED
  BY <1>1, <1>2, PTL

----------------------------------------------------------------------------
(* The E-box.                                                              *)

EbPeriod == 2 * EbHalf

\* Positions that the counters do not tell apart.
Congruent(x, y) == \E k \in Int : x = y + k * EbPeriod

(***************************************************************************)
(* While the reads can be trusted the first channel never counts a         *)
(* revolution, since the count that both channels leave in its variable is *)
(* a displacement within half the bound, whoever left it.                  *)
(***************************************************************************)
EbTypes ==
  /\ ebMode \in {0, 1} /\ ebCount0 \in [Channels -> Int] /\ ebFirst \in [Channels -> BOOLEAN]
  /\ ebRevol \in [Channels -> Int] /\ ebPrev \in [Channels -> Int]
  /\ ebPos \in [Channels -> Int] /\ ebOrigin \in [Channels -> Int]

EbOriginShown == \A c \in Channels : Congruent(ebOrigin[c], ebCount0[c])

EbSteady ==
  ebTrusted => ebRevol[0] = 0 /\ 2 * Abs(ebPrev[0]) <= EbBound /\ ebError = 0

EbInv == EbTypes /\ EbOriginShown /\ EbSteady

LEMMA EbPeriodPositive ==
  /\ EbPeriod \in Nat \ {0} /\ EbPeriod = 2 * EbHalf /\ EbHalf \in Nat \ {0}
  /\ EbBound \in Nat /\ EbBound < EbHalf /\ EbHome \in Int
BY EncoderAssumption DEF EbPeriod

\* A signed counter shows a position less whole revolutions ...
LEMMA WrapShows ==
  ASSUME NEW x \in Int
  PROVE  /\ Wrap(x, EbHalf) \in Int
         /\ -EbHalf <= Wrap(x, EbHalf) /\ Wrap(x, EbHalf) < EbHalf
         /\ \E k \in Int : x = Wrap(x, EbHalf) + k * EbPeriod
<1> DEFINE y == x + EbHalf
<1>0. y \in Int
  BY EbPeriodPositive
<1> HIDE DEF y
<1> DEFINE k == y \div EbPeriod
           r == y % EbPeriod
<1>1. k \in Int /\ r \in 0 .. EbPeriod - 1 /\ y = k * EbPeriod + r
  BY <1>0, EbPeriodPositive, DivMod
<1>2. Wrap(x, EbHalf) = r - EbHalf
  BY DEF Wrap, EbPeriod, y
<1>3. k * EbPeriod \in Int
  BY <1>1, EbPeriodPositive
<1> HIDE DEF k, r
<1>4. x = (r - EbHalf) + k * EbPeriod
  BY <1>1, <1>3, EbPeriodPositive DEF y
<1> QED
  BY <1>1, <1>2, <1>4, EbPeriodPositive

\* ... and the position itself within half a revolution of 0.
LEMMA WrapIs ==
  ASSUME NEW x \in Int, NEW y \in Int, Congruent(x, y), -EbHalf <= y, y < EbHalf
  PROVE  Wrap(x, EbHalf) = y
<1> DEFINE w == Wrap(x, EbHalf)
<1>1. w \in Int /\ -EbHalf <= w /\ w < EbHalf /\ \E j \in Int : x = w + j * EbPeriod
  BY WrapShows
<1> HIDE DEF w
<1>2. \E m \in Int : w - y = m * EbPeriod
  <2>1. PICK j \in Int : x = w + j * EbPeriod
    BY <1>1
  <2>2. PICK k \in Int : x = y + k * EbPeriod
    BY DEF Congruent
  <2>3. (k - j) * EbPeriod = k * EbPeriod - j * EbPeriod
        /\ k * EbPeriod \in Int /\ j * EbPeriod \in Int
    BY Distribute, EbPeriodPositive
  <2>4. w - y = (k - j) * EbPeriod
    BY <1>1, <2>1, <2>2, <2>3
  <2> QED
    BY <2>4
<1>3. PICK m \in Int : w - y = m * EbPeriod
  BY <1>2
<1>4. w - y < EbPeriod /\ w - y > -EbPeriod
  BY <1>1, EbPeriodPositive
<1>5. ASSUME m >= 1 PROVE FALSE
  <2>1. m * EbPeriod >= EbPeriod
    BY <1>5, EbPeriodPositive
  <2> QED
    BY <1>1, <1>3, <1>4, <2>1, EbPeriodPositive
<1>6. ASSUME m <= -1 PROVE FALSE
  <2>1. m * EbPeriod <= -EbPeriod
    BY <1>6, EbPeriodPositive
  <2> QED
    BY <1>1, <1>3, <1>4, <2>1, EbPeriodPositive
<1>7. m = 0
  BY <1>5, <1>6
<1>8. m * EbPeriod = 0
  BY <1>7, EbPeriodPositive
<1> QED
  BY <1>1, <1>3, <1>8 DEF w

LEMMA CongruentSteps ==
  ASSUME NEW x \in Int, NEW y \in Int, Congruent(x, y)
  PROVE  /\ \A z \in Int : Congruent(x + z, y + z)
         /\ \A z \in Int : Congruent(z - y, z - x)
         /\ \A z \in Int : Congruent(y, z) => Congruent(x, z)
         /\ Congruent(x - y, 0)
<1>1. PICK k \in Int : x = y + k * EbPeriod
  BY DEF Congruent
<1>2. k * EbPeriod \in Int
  BY EbPeriodPositive
<1>3. ASSUME NEW z \in Int PROVE Congruent(x + z, y + z)
  <2>1. x + z = (y + z) + k * EbPeriod
    BY <1>1, <1>2
  <2> QED
    BY <2>1 DEF Congruent
<1>4. ASSUME NEW z \in Int PROVE Congruent(z - y, z - x)
  <2>1. z - y = (z - x) + k * EbPeriod
    BY <1>1, <1>2
  <2> QED
    BY <2>1 DEF Congruent
<1>5. ASSUME NEW z \in Int, Congruent(y, z) PROVE Congruent(x, z)
  <2>1. PICK j \in Int : y = z + j * EbPeriod
    BY <1>5 DEF Congruent
  <2>2. j + k \in Int /\ j * EbPeriod \in Int /\ (j + k) * EbPeriod = j * EbPeriod + k * EbPeriod
    BY Distribute, EbPeriodPositive
  <2>3. x = z + (j + k) * EbPeriod
    BY <1>1, <1>2, <2>1, <2>2
  <2> QED
    BY <2>2, <2>3 DEF Congruent
<1>6. Congruent(x - y, 0)
  <2>1. x - y = 0 + k * EbPeriod
    BY <1>1, <1>2
  <2> QED
    BY <2>1 DEF Congruent
<1> QED
  BY <1>3, <1>4, <1>5, <1>6

LEMMA CongruentBack ==
  ASSUME NEW x \in Int, NEW y \in Int, Congruent(x, y)
  PROVE  Congruent(y, x)
<1>1. PICK k \in Int : x = y + k * EbPeriod
  BY DEF Congruent
<1>2. (-k) * EbPeriod = -(k * EbPeriod) /\ k * EbPeriod \in Int /\ -k \in Int
  BY Distribute, EbPeriodPositive
<1>3. y = x + (-k) * EbPeriod
  BY <1>1, <1>2
<1> QED
  BY <1>2, <1>3 DEF Congruent

LEMMA WrapCongruent ==
  ASSUME NEW x \in Int
  PROVE  Wrap(x, EbHalf) \in Int /\ Congruent(x, Wrap(x, EbHalf))
BY WrapShows DEF Congruent

\* A small displacement is no wrap.
LEMMA SmallIsShown ==
  ASSUME NEW x \in Int, Abs(x) <= EbBound
  PROVE  Wrap(x, EbHalf) = x
<1>1. -EbHalf <= x /\ x < EbHalf
  BY EbPeriodPositive DEF Abs
<1>2. Congruent(x, x)
  <2>1. x = x + 0 * EbPeriod
    BY EbPeriodPositive
  <2> QED
    BY <2>1 DEF Congruent
<1> QED
  BY <1>1, <1>2, WrapIs

LEMMA ReadTypes ==
  ASSUME EbInv, NEW c \in Channels, NEW neighbour \in Int
  PROVE  LET r == EbReads(c, neighbour)
         IN /\ r.count0 \in [Channels -> Int] /\ r.first \in [Channels -> BOOLEAN]
            /\ r.revol \in [Channels -> Int] /\ r.prev \in [Channels -> Int]
            /\ r.origin \in [Channels -> Int] /\ r.count \in Int /\ r.truth \in Int
            /\ \A d \in Channels : Congruent(r.origin[d], r.count0[d])
<1> DEFINE raw == Wrap(ebPos[c], EbHalf)
           count0 == IF ebFirst[c] THEN raw ELSE ebCount0[c]
           origin == IF ebFirst[c] THEN ebPos[c] ELSE ebOrigin[c]
           plain == ebMode = 1 /\ c = 1
           count == IF plain THEN raw ELSE Wrap(raw - count0, EbHalf)
           r == EbReads(c, neighbour)
<1>1. EbTypes /\ EbOriginShown
  BY DEF EbInv
<1>2. ebPos[c] \in Int /\ ebCount0[c] \in Int /\ ebOrigin[c] \in Int
  BY <1>1 DEF EbTypes
<1>3. raw \in Int /\ count0 \in Int /\ origin \in Int /\ Congruent(origin, count0)
  BY <1>1, <1>2, WrapCongruent DEF EbOriginShown
<1>4. count \in Int
  BY <1>3, WrapCongruent
<1>5. \A x : EbUnwrap(c, x, neighbour) \in Int
  BY <1>1 DEF EbTypes, EbUnwrap
<1>6. /\ r.count0 = [ebCount0 EXCEPT ![c] = count0]
      /\ r.revol = (IF plain THEN ebRevol
                    ELSE [ebRevol EXCEPT ![c] = EbUnwrap(c, count, neighbour)])
      /\ r.first = [ebFirst EXCEPT ![c] = FALSE]
      /\ r.prev = [ebPrev EXCEPT ![0] = count]
      /\ r.count = count
      /\ r.origin = [ebOrigin EXCEPT ![c] = origin]
      /\ r.truth = (IF plain THEN ebPos[c] ELSE ebPos[c] - origin)
  BY DEF EbReads, Index
<1> HIDE DEF raw, count0, origin, plain, count, r
<1>7. r.count0 \in [Channels -> Int] /\ r.first \in [Channels -> BOOLEAN]
      /\ r.origin \in [Channels -> Int]
  BY <1>1, <1>3, <1>6 DEF EbTypes
<1>8. r.revol \in [Channels -> Int] /\ r.prev \in [Channels -> Int]
  <2>1. ebRevol \in [Channels -> Int] /\ ebPrev \in [Channels -> Int] /\ 0 \in Channels
    BY <1>1 DEF EbTypes, Channels
  <2> DEFINE u == EbUnwrap(c, count, neighbour)
  <2>2. u \in Int
    BY <1>5
  <2>3. r.revol = ebRevol \/ r.revol = [ebRevol EXCEPT ![c] = u]
    BY <1>6
  <2> HIDE DEF u
  <2>4. r.revol \in [Channels -> Int]
    BY <2>1, <2>2, <2>3
  <2>5. r.prev \in [Channels -> Int]
    BY <1>4, <1>6, <2>1
  <2> QED
    BY <2>4, <2>5
<1>9. r.count \in Int /\ r.truth \in Int
  BY <1>2, <1>3, <1>4, <1>6
<1>10. \A d \in Channels : Congruent(r.origin[d], r.count0[d])
  <2> SUFFICES ASSUME NEW d \in Channels PROVE Congruent(r.origin[d], r.count0[d])
    OBVIOUS
  <2>1. CASE d = c
    <3>1. r.origin[d] = origin /\ r.count0[d] = count0
      BY <1>1, <1>6, <2>1 DEF EbTypes
    <3> QED
      BY <1>3, <3>1
  <2>2. CASE d # c
    <3>1. r.origin[d] = ebOrigin[d] /\ r.count0[d] = ebCount0[d]
      BY <1>1, <1>6, <2>2 DEF EbTypes
    <3> QED
      BY <1>1, <3>1 DEF EbOriginShown
  <2> QED
    BY <2>1, <2>2
<1> QED
  BY <1>7, <1>8, <1>9, <1>10 DEF r

\* A read that can be trusted finds the displacement, and no revolution.
LEMMA ReadFollows ==
  ASSUME EbInv, ebTrusted, NEW c \in Channels, NEW neighbour \in Int,
         EbFollows(EbReads(c, neighbour), neighbour)
  PROVE  LET r == EbReads(c, neighbour)
         IN /\ r.revol[0] = 0 /\ 2 * Abs(r.prev[0]) <= EbBound
            /\ (r.count + r.revol[0] * (2 * EbHalf)) - r.truth = 0
<1> DEFINE pos == ebPos[c]
           raw == Wrap(pos, EbHalf)
           count0 == IF ebFirst[c] THEN raw ELSE ebCount0[c]
           origin == IF ebFirst[c] THEN pos ELSE ebOrigin[c]
           plain == ebMode = 1 /\ c = 1
           count == IF plain THEN raw ELSE Wrap(raw - count0, EbHalf)
           truth == IF plain THEN pos ELSE pos - origin
           r == EbReads(c, neighbour)
<1>1. EbTypes /\ EbOriginShown /\ ebRevol[0] = 0 /\ 2 * Abs(ebPrev[0]) <= EbBound
  BY DEF EbInv, EbSteady
<1>2. pos \in Int /\ ebCount0[c] \in Int /\ ebOrigin[c] \in Int /\ ebPrev[0] \in Int
  BY <1>1 DEF EbTypes, Channels
<1>3. /\ raw \in Int /\ count0 \in Int /\ origin \in Int
      /\ Congruent(origin, count0) /\ Congruent(pos, raw)
  BY <1>1, <1>2, WrapCongruent DEF EbOriginShown
<1>4. /\ r.revol = (IF plain THEN ebRevol
                    ELSE [ebRevol EXCEPT ![c] = EbUnwrap(c, count, neighbour)])
      /\ r.prev = [ebPrev EXCEPT ![0] = count]
      /\ r.count = count /\ r.truth = truth
  BY DEF EbReads, Index
<1>5. neighbour = 0 /\ 2 * Abs(truth) <= EbBound
  BY <1>4 DEF EbFollows
<1>6. truth \in Int
  BY <1>2, <1>3
<1> HIDE DEF r
<1>7. count = truth
  <2>1. Abs(truth) <= EbBound
    BY <1>5, <1>6, EbPeriodPositive DEF Abs
  <2>2. CASE plain
    BY <1>2, <2>1, <2>2, SmallIsShown
  <2>3. CASE ~plain
    <3> HIDE DEF pos, raw, count0, origin, plain, count, truth
    <3>1. truth = pos - origin /\ count = Wrap(raw - count0, EbHalf)
      BY <2>3 DEF truth, count
    <3>2. -EbHalf <= truth /\ truth < EbHalf
      BY <1>6, <2>1, EbPeriodPositive DEF Abs
    <3>3. Congruent(raw - count0, pos - origin)
      <4>1. Congruent(raw, pos)
        BY <1>2, <1>3, CongruentBack
      <4>2. Congruent(raw - count0, pos - count0)
        <5>1. Congruent(raw + (-count0), pos + (-count0))
          BY <1>2, <1>3, <4>1, CongruentSteps
        <5> QED
          BY <1>2, <1>3, <5>1
      <4>3. Congruent(pos - count0, pos - origin)
        BY <1>2, <1>3, CongruentSteps
      <4> QED
        BY <1>2, <1>3, <4>2, <4>3, CongruentSteps
    <3> QED
      BY <1>3, <1>6, <3>1, <3>2, <3>3, WrapIs
  <2> QED
    BY <2>2, <2>3
<1> HIDE DEF pos, raw, count0, origin, plain, count, truth
<1>8. 2 * Abs(count) <= EbBound /\ count \in Int
  BY <1>5, <1>6, <1>7
<1>9. r.prev[0] = count
  BY <1>1, <1>4 DEF EbTypes, Channels
<1>10. r.revol[0] = 0
  <2>1. CASE plain \/ c # 0
    BY <1>1, <1>4, <2>1 DEF EbTypes, Channels
  <2>2. CASE ~plain /\ c = 0
    <3>1. r.revol[0] = EbUnwrap(0, count, 0)
      BY <1>1, <1>4, <1>5, <2>2 DEF EbTypes, Channels
    <3>2. Abs(count - ebPrev[0]) <= EbBound /\ Abs(0 - count) <= EbBound
          /\ count - ebPrev[0] \in Int /\ 0 - count \in Int
      BY <1>1, <1>2, <1>8, EbPeriodPositive DEF Abs
    <3>3. /\ Wrap(count - ebPrev[0], EbHalf) = count - ebPrev[0]
          /\ Wrap(0 - count, EbHalf) = 0 - count
      BY <3>2, SmallIsShown
    <3>4. ~(count - ebPrev[0] > EbBound) /\ ~(0 - count > EbBound)
      BY <1>2, <1>8, <3>2, EbPeriodPositive DEF Abs
    <3> QED
      BY <1>1, <3>1, <3>3, <3>4 DEF EbUnwrap
  <2> QED
    BY <2>1, <2>2
<1>11. (r.count + r.revol[0] * (2 * EbHalf)) - r.truth = 0
  BY <1>4, <1>6, <1>7, <1>10, EbPeriodPositive
<1> QED
  BY <1>8, <1>9, <1>10, <1>11 DEF r

LEMMA InitEbox == EbInit => EbInv
<1> SUFFICES ASSUME EbInit PROVE EbInv
  OBVIOUS
<1>1. EbTypes
  BY EbPeriodPositive DEF EbInit, EbTypes
<1>2. EbOriginShown
  <2>1. Congruent(0, 0)
    <3>1. 0 = 0 + 0 * EbPeriod
      BY EbPeriodPositive
    <3> QED
      BY <3>1 DEF Congruent
  <2> QED
    BY <2>1 DEF EbInit, EbOriginShown
<1>3. EbSteady
  BY EbPeriodPositive DEF EbInit, EbSteady, Abs, Channels
<1> QED
  BY <1>1, <1>2, <1>3 DEF EbInv

LEMMA NeighbourType ==
  ASSUME NEW c \in Channels
  PROVE  Neighbour(c) \subseteq Int
BY EbPeriodPositive DEF Neighbour

LEMMA StepEbRead ==
  ASSUME EbInv, NEW c \in Channels, EbRead(c)
  PROVE  EbInv'
<1>1. PICK neighbour \in Neighbour(c) :
        LET r == EbReads(c, neighbour)
        IN /\ ebTrusted
           /\ ebCount0' = r.count0 /\ ebFirst' = r.first
           /\ ebRevol' = r.revol /\ ebPrev' = r.prev
           /\ ebOrigin' = r.origin
           /\ ebError' = (r.count + r.revol[0] * (2 * EbHalf)) - r.truth
           /\ ebTrusted' = EbFollows(r, neighbour)
           /\ UNCHANGED << ebMode, ebPos >>
  BY DEF EbRead
<1>2. neighbour \in Int
  BY NeighbourType
<1>3. EbTypes'
  BY <1>1, <1>2, ReadTypes DEF EbTypes, EbInv
<1>4. EbOriginShown'
  BY <1>1, <1>2, ReadTypes DEF EbOriginShown
<1>5. EbSteady'
  BY <1>1, <1>2, ReadFollows DEF EbSteady
<1> QED
  BY <1>3, <1>4, <1>5 DEF EbInv

LEMMA StepEbReset ==
  ASSUME EbInv, NEW c \in Channels, EbReset(c)
  PROVE  EbInv'
<1> DEFINE value(r) == r.count + r.revol[0] * (2 * EbHalf)
<1>1. PICK neighbour \in Neighbour(c) :
        LET r == EbReads(c, neighbour)
        IN /\ ebTrusted
           /\ ebCount0' = [r.count0 EXCEPT ![c] = Wrap(@ + value(r), EbHalf)]
           /\ ebFirst' = r.first /\ ebRevol' = r.revol /\ ebPrev' = r.prev
           /\ ebOrigin' = [r.origin EXCEPT ![c] = @ + value(r)]
           /\ ebTrusted' = EbFollows(r, neighbour)
           /\ UNCHANGED << ebMode, ebPos, ebError >>
  BY DEF EbReset, Index
<1> DEFINE r == EbReads(c, neighbour)
           v == value(r)
<1>2. neighbour \in Int
  BY NeighbourType
<1>3. /\ r.count0 \in [Channels -> Int] /\ r.first \in [Channels -> BOOLEAN]
      /\ r.revol \in [Channels -> Int] /\ r.prev \in [Channels -> Int]
      /\ r.origin \in [Channels -> Int] /\ r.count \in Int /\ r.truth \in Int
      /\ \A d \in Channels : Congruent(r.origin[d], r.count0[d])
  BY <1>2, ReadTypes
<1>4. /\ ebCount0' = [r.count0 EXCEPT ![c] = Wrap(r.count0[c] + v, EbHalf)]
      /\ ebFirst' = r.first /\ ebRevol' = r.revol /\ ebPrev' = r.prev
      /\ ebOrigin' = [r.origin EXCEPT ![c] = r.origin[c] + v]
      /\ ebTrusted' = EbFollows(r, neighbour)
      /\ UNCHANGED << ebMode, ebPos, ebError >>
  BY <1>1
<1>5. v \in Int
  BY <1>3, EbPeriodPositive DEF Channels
<1> HIDE DEF r, v
<1>6. Wrap(r.count0[c] + v, EbHalf) \in Int
      /\ Congruent(r.origin[c] + v, Wrap(r.count0[c] + v, EbHalf))
  <2>1. r.count0[c] + v \in Int /\ r.origin[c] + v \in Int
    BY <1>3, <1>5
  <2>2. Congruent(r.count0[c] + v, Wrap(r.count0[c] + v, EbHalf))
        /\ Wrap(r.count0[c] + v, EbHalf) \in Int
    BY <2>1, WrapCongruent
  <2>3. Congruent(r.origin[c] + v, r.count0[c] + v)
    BY <1>3, <1>5, CongruentSteps
  <2> QED
    BY <2>1, <2>2, <2>3, CongruentSteps
<1>7. EbTypes'
  BY <1>3, <1>4, <1>5, <1>6 DEF EbTypes, EbInv
<1>8. EbOriginShown'
  BY <1>3, <1>4, <1>6 DEF EbOriginShown
<1>9. EbSteady'
  <2> SUFFICES ASSUME ebTrusted'
               PROVE  ebRevol'[0] = 0 /\ 2 * Abs(ebPrev'[0]) <= EbBound /\ ebError' = 0
    BY DEF EbSteady
  <2>1. ebTrusted /\ EbFollows(EbReads(c, neighbour), neighbour)
    BY <1>1, <1>4 DEF r
  <2>2. ebError' = 0
    BY <1>4, <2>1 DEF EbInv, EbSteady
  <2>3. r.revol[0] = 0 /\ 2 * Abs(r.prev[0]) <= EbBound
    BY <1>2, <2>1, ReadFollows DEF r
  <2> QED
    BY <1>4, <2>2, <2>3
<1> QED
  BY <1>7, <1>8, <1>9 DEF EbInv

LEMMA StepEbZero ==
  ASSUME EbInv, NEW c \in Channels, EbZero(c)
  PROVE  EbInv'
<1>1. EbTypes /\ EbOriginShown
  BY DEF EbInv
<1>2. /\ ebCount0' = [ebCount0 EXCEPT ![c] = 0]
      /\ ebOrigin' = [ebOrigin EXCEPT ![c] = ebOrigin[c] - ebCount0[c]]
      /\ UNCHANGED << ebMode, ebFirst, ebRevol, ebPrev, ebPos, ebError, ebTrusted >>
  BY DEF EbZero, Index
<1>3. EbTypes'
  BY <1>1, <1>2 DEF EbTypes
<1>4. Congruent(ebOrigin[c] - ebCount0[c], 0)
  BY <1>1, CongruentSteps DEF EbTypes, EbOriginShown
<1>5. EbOriginShown'
  BY <1>1, <1>2, <1>4 DEF EbTypes, EbOriginShown
<1>6. EbSteady'
  BY <1>2 DEF EbInv, EbSteady
<1> QED
  BY <1>3, <1>5, <1>6 DEF EbInv

LEMMA StepEbox == EbInv /\ [EbNext]_ebVars => EbInv'
<1> SUFFICES ASSUME EbInv, [EbNext]_ebVars PROVE EbInv'
  OBVIOUS
<1>1. ASSUME NEW c \in Channels, EbRead(c) PROVE EbInv'
  BY <1>1, StepEbRead
<1>2. ASSUME NEW c \in Channels, EbReset(c) PROVE EbInv'
  BY <1>2, StepEbReset
<1>3. ASSUME NEW c \in Channels, EbZero(c) PROVE EbInv'
  BY <1>3, StepEbZero
<1>4. ASSUME NEW m \in {0, 1}, EbSetMode(m) PROVE EbInv'
  BY <1>4 DEF EbSetMode, EbInv, EbTypes, EbOriginShown, EbSteady
<1>5. ASSUME NEW c \in Channels, NEW d \in {-1, 1}, EbMove(c, d) PROVE EbInv'
  <2>1. ebPos' \in [Channels -> Int]
    BY <1>5 DEF EbMove, EbInv, EbTypes
  <2> QED
    BY <1>5, <2>1 DEF EbMove, EbInv, EbTypes, EbOriginShown, EbSteady
<1>6. CASE UNCHANGED ebVars
  BY <1>6 DEF ebVars, EbInv, EbTypes, EbOriginShown, EbSteady
<1> QED
  BY <1>1, <1>2, <1>3, <1>4, <1>5, <1>6 DEF EbNext

(***************************************************************************)
(* Two encoders on one E-box, read, reset and zeroed in any order and in   *)
(* either mode, show each its own displacement while they stay within half *)
(* the bound (ec_Ebox_enc_read_chan, ec_Ebox_enc_reset_chan,               *)
(* ec_Ebox_enc_zero_chan).                                                 *)
(***************************************************************************)
THEOREM EboxIsExact == EbSpec => []EboxExact
<1>1. EbSpec => []EbInv
  BY InitEbox, StepEbox, PTL DEF EbSpec
<1>2. EbInv => EboxExact
  BY DEF EbInv, EbSteady, EboxExact
<1> QED
  BY <1>1, <1>2, PTL
==============================================================================
