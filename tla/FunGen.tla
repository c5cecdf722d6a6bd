------------------------------- MODULE FunGen -------------------------------
(***************************************************************************)
(* One channel of the function generator (libfungen): the engine's timer   *)
(* callback computes the next value of the signal, while the command       *)
(* server sets its type, its two frequencies and its power.  Amplitudes,   *)
(* phases and the values themselves are left out.                          *)
(*                                                                         *)
(* Frequencies are in units of 1 / Den Hz and time in half seconds, so     *)
(* that everything is an integer.  A spectral line is a multiple of        *)
(* 1 / fg_obsiv.                                                           *)
(***************************************************************************)
EXTENDS Integers

CONSTANTS
  Den,        \* units of frequency to 1 Hz; a multiple of every interval
  Freqs,      \* frequencies that are set
  SetTypes,   \* types that are set
  Intervals,  \* observation intervals, in seconds
  MaxWidth,   \* 255: lines between the first and the last of a multisine
  EndTime     \* bound of TLC: the time since fg_timt0

FgTypes == {"SINE", "RAND", "SQUARE", "TWOTONE", "CHIRP", "MULTISINE", "WHISTLE"}

ASSUME FunGenAssumption ==
  /\ Den \in Nat \ {0} /\ Freqs \subseteq Nat /\ SetTypes \subseteq FgTypes
  /\ Intervals \subseteq Nat \ {0}
  /\ \A o \in Intervals : Den % o = 0
  /\ MaxWidth \in Nat /\ EndTime \in Nat

VARIABLES
  fgType, fgPower, fgFreq1, fgFreq2, fgK,   \* fg_type[ichan], ...
  fgOnoff, fgObsiv,
  fgTime,       \* fg_time, rtc_get_nominal_time() less fg_timt0
  fgT0,         \* fg_t0
  fgActive, fgLinked,  \* fg_link_is_active, fg_ilinked
  fgServer,     \* the setter under way: "idle", or its name once the power is off
  fgSaved,      \* ittt, the power to restore
  fgCallback,   \* "idle", or the frequency that fg_get_val is about to store
  fgSeen,       \* the frequency that fg_get_val read
  fgLimited,    \* history: a frequency of the multisine was set since its type and
                \* its interval were
  fgRaced       \* history: a setter wrote while fg_get_val was between read and store

fgSignal == << fgType, fgPower, fgFreq1, fgFreq2 >>
fgClock == << fgTime, fgT0, fgActive, fgLinked, fgOnoff >>
fgLocal == << fgServer, fgSaved, fgCallback, fgSeen >>
fgVars == << fgSignal, fgK, fgObsiv, fgClock, fgLocal, fgLimited, fgRaced >>

\* fg_set_defaults.
FgInit ==
  /\ fgType = "SINE" /\ fgPower = 0 /\ fgFreq1 = Den /\ fgFreq2 = Den /\ fgK = 1
  /\ fgOnoff = 0 /\ fgObsiv = 1
  /\ fgTime = 0 /\ fgT0 = 0
  /\ fgActive = 0 /\ fgLinked = 0
  /\ fgServer = "idle" /\ fgSaved = 0 /\ fgCallback = "idle" /\ fgSeen = 0
  /\ fgLimited = FALSE /\ fgRaced = FALSE

----------------------------------------------------------------------------
\* nearest(freq * fg_obsiv), with 1 for 0: the spectral line of a frequency.  A half
\* is rounded down.
Line(freq) ==
  LET k == (2 * freq * fgObsiv + Den - 1) \div (2 * Den)
  IN IF k = 0 THEN 1 ELSE k

\* The frequency of a spectral line.
Freq(k) == k * (Den \div fgObsiv)

\* The nearest upper frequency of a chirp that ends at a multiple of half a line.
ChirpTop(freq) ==
  LET n == Line(fgFreq1 + freq)
  IN IF Freq(n) < fgFreq1 THEN 0 ELSE Freq(n) - fgFreq1

\* Mutant: the band is not limited from below.
LimitLowNone(freq) == freq

\* The first line of a multisine of at most MaxWidth + 1 lines up to fg_freq2.
LimitLow(freq) ==
  IF fgFreq2 - freq > Freq(MaxWidth)
  THEN IF fgFreq2 <= Freq(MaxWidth) THEN Freq(1) ELSE fgFreq2 - Freq(MaxWidth)
  ELSE freq

\* The last line, in the same way.
LimitHigh(freq) ==
  IF freq - fgFreq1 > Freq(MaxWidth) THEN fgFreq1 + Freq(MaxWidth) ELSE freq

\* The setters: each switches the power off, writes, and restores the power.  Bound
\* of TLC: no setter follows one that ran into the callback.
FgBegin(setter) ==
  /\ fgServer = "idle" /\ ~fgRaced
  /\ fgServer' = setter /\ fgSaved' = fgPower /\ fgPower' = 0
  /\ UNCHANGED << fgType, fgFreq1, fgFreq2, fgK, fgObsiv, fgClock, 
                  fgCallback, fgSeen, fgLimited, fgRaced >>

FgEnd ==
  /\ fgServer = "done"
  /\ fgServer' = "idle" /\ fgPower' = fgSaved /\ fgSaved' = 0
  /\ UNCHANGED << fgType, fgFreq1, fgFreq2, fgK, fgObsiv, fgClock, 
                  fgCallback, fgSeen, fgLimited, fgRaced >>

\* fg_set_freq1.
FgSetFreq1(freq) ==
  /\ fgServer = "freq1" /\ fgServer' = "done"
  /\ fgFreq1' = CASE fgType = "MULTISINE" -> LimitLow(Freq(Line(freq)))
                  [] fgType = "WHISTLE" -> Freq(Line(freq))
                  [] OTHER -> freq
  /\ fgLimited' = (fgLimited \/ fgType = "MULTISINE")
  /\ fgRaced' = (fgRaced \/ fgCallback # "idle")
  /\ UNCHANGED << fgType, fgPower, fgFreq2, fgK, fgObsiv, fgClock, fgSaved,
                  fgCallback, fgSeen >>

\* fg_set_freq2.
FgSetFreq2(freq) ==
  /\ fgServer = "freq2" /\ fgServer' = "done"
  /\ fgFreq2' = CASE fgType = "CHIRP" -> ChirpTop(freq)
                  [] fgType = "MULTISINE" -> LimitHigh(Freq(Line(freq)))
                  [] fgType = "WHISTLE" /\ Freq(Line(freq)) < fgFreq1 -> fgFreq1
                  [] fgType = "WHISTLE" /\ Freq(Line(freq)) >= fgFreq1 -> Freq(Line(freq))
                  [] OTHER -> freq
  /\ fgLimited' = (fgLimited \/ fgType = "MULTISINE")
  /\ fgRaced' = (fgRaced \/ fgCallback # "idle")
  /\ UNCHANGED << fgType, fgPower, fgFreq1, fgK, fgObsiv, fgClock, fgSaved,
                  fgCallback, fgSeen >>

\* fg_set_type: nothing looks at the frequencies.
FgSetType(type) ==
  /\ fgServer = "type" /\ fgServer' = "done"
  /\ fgType' = type
  /\ fgLimited' = FALSE
  /\ fgRaced' = (fgRaced \/ fgCallback # "idle")
  /\ UNCHANGED << fgPower, fgFreq1, fgFreq2, fgK, fgObsiv, fgClock, fgSaved,
                  fgCallback, fgSeen >>

\* fg_start and fg_stop.
FgSwitch(power) ==
  /\ fgServer = "idle" /\ fgPower' = power
  /\ UNCHANGED << fgType, fgFreq1, fgFreq2, fgK, fgObsiv, fgClock, fgLocal,
                  fgLimited, fgRaced >>

\* fg_set_onoff: the time line restarts at zero.
FgSetOnoff(power) ==
  /\ fgServer = "idle"
  /\ fgOnoff' = power
  /\ fgTime' = IF power = 1 THEN 0 ELSE fgTime
  /\ UNCHANGED << fgSignal, fgK, fgObsiv, fgT0, fgActive, fgLinked,
                  fgLocal, fgLimited, fgRaced >>

\* fg_notify: the state of the link, from the engine.
FgNotify(active) ==
  /\ fgActive' = active
  /\ UNCHANGED << fgSignal, fgK, fgObsiv, fgTime, fgT0, fgLinked,
                  fgOnoff, fgLocal, fgLimited, fgRaced >>

\* fg_put_obsiv.
FgPutObsiv(o) ==
  /\ fgServer = "idle"
  /\ fgObsiv' = o
  /\ fgLimited' = FALSE
  /\ fgRaced' = (fgRaced \/ fgCallback # "idle")
  /\ UNCHANGED << fgSignal, fgK, fgClock, fgLocal >>
----------------------------------------------------------------------------
(* fg_get_val, at the next nominal time.                                   *)

\* Mutant: the sweep does not start again.
WhistleLineOn(t) == Line(fgFreq1) + (t \div (2 * fgObsiv))

\* The line that a whistle is at: one per interval, and again from the first.
WhistleLine(t) ==
  LET k1 == Line(fgFreq1)
      k2 == IF Line(fgFreq2) < k1 THEN k1 ELSE Line(fgFreq2)
      width == k2 - k1 + 1
      frame == IF t >= 0 THEN (t \div (2 * fgObsiv)) + 1
               ELSE 1 - ((-t - 1) \div (2 * fgObsiv))
      turn == IF frame > 0 THEN ((frame - 1) % width) + 1 ELSE frame + width
  IN k1 + turn - 1

\* The time since fg_t0 and fg_t0 itself, after fg_get_val looked at the link.
LinkTime(time) ==
  CASE fgActive = 1 /\ fgLinked = 0 -> time
    [] fgActive = 0 /\ fgLinked = 1 -> 0
    [] OTHER -> fgT0

FgGetVal ==
  LET time == fgTime + 1
      t0 == LinkTime(time)
      silent == (fgOnoff = 0 /\ fgActive = 0) \/ fgPower = 0
  IN /\ fgCallback = "idle" /\ fgTime < EndTime
     /\ fgTime' = time /\ fgT0' = t0 /\ fgLinked' = fgActive
     /\ fgK' = IF ~silent /\ fgType = "WHISTLE" THEN WhistleLine(time - t0) ELSE fgK
     /\ fgCallback' = CASE ~silent /\ fgType = "MULTISINE" -> "freq1"
                        [] ~silent /\ fgType = "CHIRP" -> "freq2"
                        [] OTHER -> "idle"
     /\ fgSeen' = CASE ~silent /\ fgType = "MULTISINE" -> Freq(Line(fgFreq1))
                    [] ~silent /\ fgType = "CHIRP" -> ChirpTop(fgFreq2)
                    [] OTHER -> 0
     /\ UNCHANGED << fgSignal, fgObsiv, fgActive, fgOnoff, fgServer,
                     fgSaved, fgLimited, fgRaced >>

\* The multisine and the chirp write the frequencies back that they rounded.
FgStore1 ==
  /\ fgCallback = "freq1"
  /\ fgFreq1' = fgSeen
  /\ fgCallback' = "freq2" /\ fgSeen' = Freq(Line(fgFreq2))
  /\ UNCHANGED << fgType, fgPower, fgFreq2, fgK, fgObsiv, fgClock, fgServer,
                  fgSaved, fgLimited, fgRaced >>

FgStore2 ==
  /\ fgCallback = "freq2"
  /\ fgFreq2' = fgSeen
  /\ fgCallback' = "idle" /\ fgSeen' = 0
  /\ UNCHANGED << fgType, fgPower, fgFreq1, fgK, fgObsiv, fgClock, fgServer,
                  fgSaved, fgLimited, fgRaced >>

FgNext ==
  \/ \E s \in {"freq1", "freq2", "type"} : FgBegin(s)
  \/ \E f \in Freqs : FgSetFreq1(f) \/ FgSetFreq2(f)
  \/ \E ty \in SetTypes : FgSetType(ty)
  \/ FgEnd
  \/ \E p \in {0, 1} : FgSwitch(p) \/ FgSetOnoff(p) \/ FgNotify(p)
  \/ \E o \in Intervals : FgPutObsiv(o)
  \/ FgGetVal \/ FgStore1 \/ FgStore2

FgSpec == FgInit /\ [][FgNext]_fgVars

----------------------------------------------------------------------------
\* "maximum bandwidth is 256 spectral lines due to cpu effort" (libfungen.c:465,
\* 534): a multisine has no more, once one of its frequencies was set, in whatever
\* order they are set and however the callback rounds them, as long as no setter
\* runs into the callback.
BandLimited ==
  fgType = "MULTISINE" /\ fgLimited /\ ~fgRaced =>
    Line(fgFreq2) - Line(fgFreq1) <= MaxWidth

\* A whistle stays between its two frequencies, whatever its history, as long as
\* the time line has not been restarted since the link was made (fg_get_val).
LineInBand ==
  [][ FgGetVal /\ fgType = "WHISTLE" /\ fgK' # fgK /\ fgTime' >= fgT0' =>
        /\ fgK' >= Line(fgFreq1)
        /\ fgK' <= IF Line(fgFreq2) < Line(fgFreq1) THEN Line(fgFreq1)
                   ELSE Line(fgFreq2) ]_fgVars
=============================================================================
