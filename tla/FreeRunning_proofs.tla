------------------------- MODULE FreeRunning_proofs -------------------------
(***************************************************************************)
(* While no trigger is armed, FreeInv is an inductive invariant, for every *)
(* ring, set of frame lengths and rates.  The frames that a client polls   *)
(* and copies are then successive samples, and none is delivered twice.    *)
(***************************************************************************)
EXTENDS ScopeEngine_proofs

----------------------------------------------------------------------------
(* What the steps do while no trigger is armed. *)

\* The callbacks that take no sample; each counts against the running handler.
Quiet ==
  /\ UNCHANGED << ringVars, ndown, nsamp, trigger, triggered, runVars,
                  serverVars, copyVars, clock, acked >>
  /\ lag' = lag \/ (lag' = lag + 1 /\ Busy /\ lag < LagBound)
  /\ \/ idown' = idown /\ tick' = "wait"
     \/ idown < ndown /\ idown' = idown + 1 /\ tick' = "wait"
        /\ (Busy => lag < LagBound /\ lag' = lag + 1)
     \/ idown >= ndown /\ idown' = NextDown(idown, ndown) /\ tick' = "receive"
        /\ (Busy => lag < LagBound)
     \/ idown' = idown /\ tick' = "stopped"

\* A sample without trigger: a full frame is published at once.
FreeSample ==
  LET full == frame_idx >= nsamp - 1
  IN  /\ tick = "receive" /\ tick' = "wait"
      /\ clock' = clock + 1
      /\ data' = [data EXCEPT ![buffer_idx] = clock + 1]
      /\ buffer_idx' = NextRow(buffer_idx)
      /\ frame_idx' = IF full THEN 0 ELSE frame_idx + 1
      /\ data_idx' = IF full THEN FrameStart(buffer_idx, nsamp) ELSE data_idx
      /\ ~full => valid' \in {0, valid}
      /\ Busy => lag < LagBound
      /\ lag' = IF Busy THEN lag + 1 ELSE lag
      /\ UNCHANGED << rateVars, ndown, nsamp, trigger, triggered, runVars,
                      serverVars, copyVars, acked >>

LEMMA TimerEffect ==
  ASSUME TypeInv, FreeRun, Timer
  PROVE  Quiet \/ FreeSample
<1> USE DEF Busy, TypeInv, TypeOK, FreeRun, Completes, InTime, ringVars, rateVars,
            trigVars, runVars, serverVars, copyVars
<1>1. CASE TimerStop
  BY <1>1 DEF TimerStop, Quiet
<1>2. CASE TimerPaused
  BY <1>2 DEF TimerPaused, Quiet
<1>3. CASE TimerSkip
  BY <1>3 DEF TimerSkip, Measures, Skips, NextDown, Quiet
<1>4. CASE TimerReceive
  BY <1>4 DEF TimerReceive, Measures, Skips, Quiet
<1>5. ASSUME NEW crossed \in BOOLEAN, TimerSample(crossed) PROVE FreeSample
  BY <1>5 DEF TimerSample, FreeSample
<1>6. QED
  BY <1>1, <1>2, <1>3, <1>4, <1>5 DEF Timer

\* What all commands have in common: they find the server idle, and only a
\* later store changes the ring.
Begins ==
  /\ pc = "idle" /\ op' \in Commands
  /\ UNCHANGED << ringVars, rateVars, ndown, nsamp, trigger, triggered, tick, clock >>
  /\ pc' \in {"idle", "copy", "read", "buffer_idx", "idown", "exited"}
  /\ pc' # pc /\ pc' # "exited" => lag' = 0
  /\ pc' = "copy" <=> op' = "get_data"
  /\ pc' = "read" => op' = "say_ready"
  /\ pc' = "buffer_idx" => op' \in {"pause", "set_nsamp"}
  /\ pc' = "idown" => op' = "set_ndown" /\ go' # 1
  /\ go' = 1 => go = 1 \/ pc' = "buffer_idx"
  /\ op' = "check_data" /\ retval' = 0 => valid = 1
  /\ op' = "get_data" =>
       /\ op = "check_data" /\ retval = 0 /\ go' = go
       /\ want' \in 1 .. nsamp /\ row' = data_idx /\ copied' = << >>

LEMMA CommandEffect ==
  ASSUME TypeInv, FreeRun, FreeRunningClients, Command
  PROVE  Begins
<1> USE DEF Begins, Accept, ringVars, rateVars, runVars, trigVars
<1>1. CASE CheckData
  BY <1>1 DEF CheckData
<1>2. CASE SayReady
  BY <1>2 DEF SayReady
<1>3. CASE TriggerOff
  BY <1>3 DEF TriggerOff, FreeRun
<1>4. CASE StopAcq
  BY <1>4 DEF StopAcq
<1>5. ASSUME NEW n \in Frames, GetData(n) PROVE Begins
  BY <1>5, EngineAssumption DEF GetData, FreeRunningClients, TypeInv, TypeOK
<1>6. ASSUME NEW n \in Frames, SetNsamp(n) PROVE Begins
  BY <1>6 DEF SetNsamp
<1>7. ASSUME NEW n \in Downs, SetNdown(n) PROVE Begins
  BY <1>7 DEF SetNdown, FreeRunningClients
<1>8. ASSUME NEW p \in {0, 1}, Pause(p) PROVE Begins
  BY <1>8 DEF Pause
<1>9. ASSUME NEW l \in {0, 1}, Link2Meas(l) PROVE Begins
  BY <1>9 DEF Link2Meas
<1>10. ASSUME NEW p \in Prerolls, TriggerOn(p) PROVE Begins
  BY <1>10 DEF TriggerOn, FreeRunningClients
<1>11. QED
  BY <1>1, <1>2, <1>3, <1>4, <1>5, <1>6, <1>7, <1>8, <1>9, <1>10 DEF Command

----------------------------------------------------------------------------
(* Every step preserves the invariant. *)

Parts == FreeRun /\ RateInv /\ RestartInv /\ FrameInv /\ PublishedInv /\ CopyInv

LEMMA InitParts == Init => Parts
  BY EngineAssumption DEF Init, Parts, FreeRun, RateInv, RestartInv, Restarted, FrameInv,
     Rows, PublishedInv, CopyInv, Stores

LEMMA QuietParts ==
  ASSUME TypeInv, Parts, FreeRunningClients, Quiet
  PROVE  Parts'
<1> USE DEF TypeInv, TypeOK, Parts, Quiet
<1>1. FreeRun'
  BY EngineAssumption DEF FreeRun, Stores, Busy, LagBound, runVars, serverVars
<1>2. RateInv'
  BY EngineAssumption DEF RateInv, NextDown, serverVars, Busy
<1>3. RestartInv'
  BY EngineAssumption DEF RestartInv, RateInv, Restarted, Stores, NextDown, ringVars,
       serverVars, Busy, LagBound
<1>4. FrameInv'
  BY DEF FrameInv, Rows, ringVars, runVars, serverVars
<1>5. PublishedInv'
  BY DEF PublishedInv, Rows, Restarted, ringVars, runVars, serverVars
<1>6. CopyInv'
  <2>1. ASSUME NEW age \in 1 .. MaxSamp, CopyingAt(age) PROVE CopyingAt(age)'
    <3>1. Rows(age)' /\ nsamp \in Nat /\ Len(copied) \in Nat
      BY <2>1, EngineAssumption DEF CopyingAt, Rows, ringVars
    <3>2. lag' >= lag
      OBVIOUS
    <3>3. QED
      BY <2>1, <3>1, <3>2 DEF CopyingAt, ringVars, copyVars
  <2>2. UNCHANGED << go, pc, op, want, copied >>
    BY DEF runVars, serverVars, copyVars
  <2>3. Successive(copied)' = Successive(copied)
    BY <2>2 DEF Successive
  <2>4. QED
    BY <2>1, <2>2, <2>3 DEF CopyInv
<1>7. QED
  BY <1>1, <1>2, <1>3, <1>4, <1>5, <1>6

LEMMA SampleParts ==
  ASSUME TypeInv, Parts, FreeRunningClients, FreeSample
  PROVE  Parts'
<1> USE DEF TypeInv, TypeOK, Parts
<1>1. /\ UNCHANGED << idown, ndown, nsamp, trigger, triggered, go, op, pc,
                      retval, want, row, copied >>
      /\ lag' = IF Busy THEN lag + 1 ELSE lag
      /\ Busy => lag < LagBound
  BY DEF FreeSample, rateVars, runVars, serverVars, copyVars
<1>2. /\ nsamp \in 1 .. MaxSamp /\ MaxStoreLag < nsamp /\ 2 * nsamp <= MaxSamp
      /\ 2 * nsamp + MaxCopyLag <= MaxSamp + 1 /\ MaxStoreLag \in {0, 1}
      /\ MaxSamp \in Nat \ {0} /\ MaxCopyLag \in Nat
  BY EngineAssumption DEF FreeRunningClients
<1>3. ASSUME NEW m \in 0 .. MaxSamp - 1, Rows(m) PROVE NextRows(m + 1)
  BY <1>3, RowsStep DEF FreeSample
<1>4. FreeRun'
  BY <1>1, <1>2 DEF FreeRun, Stores, Busy, LagBound
<1>5. RateInv'
  BY <1>1 DEF RateInv, Busy, FreeSample
<1>6. pc \in Stores => lag < MaxStoreLag /\ lag' = lag + 1
  BY <1>1 DEF Stores, Busy, LagBound
\* No frame is published between the stores that restart the buffer.
<1>7. Restarted /\ pc \notin {"buffer_idx", "frame_idx"} => frame_idx < nsamp - 1
  BY <1>2, <1>6 DEF Restarted, RestartInv
<1>8. RestartInv'
  BY <1>1, <1>2, <1>6, <1>7 DEF RestartInv, Restarted, RateInv, FreeSample
<1>9. FrameInv'
  <2>1. SUFFICES ASSUME pc \notin {"buffer_idx", "frame_idx"}
                 PROVE  frame_idx' < nsamp /\ (go = 1 => NextRows(frame_idx'))
    BY <1>1 DEF FrameInv, Rows, NextRows
  <2>2. frame_idx < nsamp /\ (go = 1 => Rows(frame_idx))
    BY <2>1 DEF FrameInv
  <2>3. CASE frame_idx >= nsamp - 1
    BY <1>2, <2>3 DEF FreeSample, NextRows
  <2>4. CASE frame_idx < nsamp - 1
    <3>1. frame_idx' = frame_idx + 1
      BY <2>4, <1>2 DEF FreeSample
    <3>2. go = 1 => NextRows(frame_idx + 1)
      BY <1>2, <1>3, <2>2, <2>4
    <3>3. QED
      BY <2>4, <3>1, <3>2, <1>2
  <2>5. QED
    BY <2>3, <2>4, <1>2
<1>10. PublishedInv'
  <2>1. CASE frame_idx >= nsamp - 1
    <3>1. data_idx' = FrameStart(buffer_idx, nsamp) /\ frame_idx' = 0
      BY <2>1 DEF FreeSample
    <3>2. data_idx' = Back(buffer_idx', nsamp)
      BY <3>1, <1>2, FrameStartBack DEF FreeSample, RingRows
    <3>3. data_idx' >= 0
      BY <3>1, <1>2 DEF FrameStart
    <3>4. pc \notin {"buffer_idx", "frame_idx"} => frame_idx = nsamp - 1
      BY <2>1, <1>2 DEF FrameInv
    <3>5. pc \notin {"buffer_idx", "frame_idx"} /\ go = 1 => NextRows(nsamp)
      <4>1. nsamp - 1 \in 0 .. MaxSamp - 1 /\ (nsamp - 1) + 1 = nsamp
        BY <1>2
      <4>2. QED
        BY <3>4, <4>1, <1>3 DEF FrameInv
    <3>6. QED
      BY <3>1, <3>2, <3>3, <3>5, <1>1, <1>2 DEF PublishedInv, Rows, NextRows
  <2>2. CASE frame_idx < nsamp - 1
    <3>1. frame_idx' = frame_idx + 1 /\ data_idx' = data_idx /\ (valid' = 1 => valid = 1)
      BY <2>2, <1>2 DEF FreeSample
    <3>2. ASSUME go = 1, data_idx >= 0, pc \notin {"buffer_idx", "frame_idx", "data_idx"}
          PROVE  /\ data_idx' = Back(buffer_idx', nsamp + frame_idx')
                 /\ NextRows(nsamp + frame_idx')
      <4>1. data_idx = Back(buffer_idx, nsamp + frame_idx) /\ Rows(nsamp + frame_idx)
        BY <3>2 DEF PublishedInv
      <4>2. nsamp + frame_idx \in 0 .. MaxSamp - 1
        BY <2>2, <1>2
      <4>3. Back(buffer_idx', (nsamp + frame_idx) + 1) = Back(buffer_idx, nsamp + frame_idx)
        BY <4>2, BackNext DEF FreeSample, RingRows
      <4>4. NextRows((nsamp + frame_idx) + 1)
        BY <4>1, <4>2, <1>3
      <4>5. (nsamp + frame_idx) + 1 = nsamp + frame_idx'
        BY <3>1, <1>1, <1>2
      <4>6. QED
        BY <3>1, <4>1, <4>3, <4>4, <4>5, <1>1
    <3>3. QED
      BY <3>1, <3>2, <1>1 DEF PublishedInv, Restarted, Rows, NextRows
  <2>3. QED
    BY <2>1, <2>2, <1>2
<1>11. CopyInv'
  <2>1. ASSUME NEW age \in 1 .. MaxSamp, CopyingAt(age), pc = "copy"
        PROVE  age + 1 \in 1 .. MaxSamp /\ CopyingAt(age + 1)'
    <3>1. lag < MaxCopyLag /\ lag' = lag + 1
      BY <1>1, <2>1 DEF Busy, LagBound
    <3>2. age \in RingRows /\ Len(copied) \in Nat
      <4>1. Len(copied) \in Nat
        OBVIOUS
      <4>2. age + Len(copied) <= 2 * nsamp - 1 + lag
        BY <2>1 DEF CopyingAt
      <4>3. QED
        BY <1>2, <3>1, <4>1, <4>2 DEF RingRows
    <3>3. row' = Back(buffer_idx', age + 1)
      BY <1>1, <2>1, <3>2, BackNext DEF CopyingAt, FreeSample, RingRows
    <3>4. NextRows(age + 1)
      BY <1>3, <2>1, <3>2 DEF CopyingAt, RingRows
    <3>5. clock' - (age + 1) = clock - age
      BY <3>2 DEF FreeSample, RingRows
    <3>6. want' <= age + 1 + Len(copied') /\ age + 1 + Len(copied') <= 2 * nsamp' - 1 + lag'
      <4>1. want <= age + Len(copied) /\ age + Len(copied) <= 2 * nsamp - 1 + lag
        BY <2>1 DEF CopyingAt
      <4>2. want <= age + 1 + Len(copied) /\ age + 1 + Len(copied) <= 2 * nsamp - 1 + lag'
        BY <1>2, <3>1, <3>2, <4>1 DEF RingRows
      <4>3. QED
        BY <1>1, <4>2
    <3>7. Len(copied') > 0 => copied'[Len(copied')] = clock' - (age + 1)
      BY <1>1, <2>1, <3>5 DEF CopyingAt
    <3>8. QED
      <4>1. age + 1 \in 1 .. MaxSamp
        BY <1>2, <3>2 DEF RingRows
      <4>2. Rows(age + 1)'
        BY <3>4 DEF Rows, NextRows
      <4>3. QED
        BY <3>3, <3>6, <3>7, <4>1, <4>2 DEF CopyingAt
  <2>2. Successive(copied)' = Successive(copied)
    BY <1>1 DEF Successive
  <2>3. QED
    BY <1>1, <2>1, <2>2 DEF CopyInv
<1>12. QED
  BY <1>4, <1>5, <1>8, <1>9, <1>10, <1>11

LEMMA BeginsParts ==
  ASSUME TypeInv, Parts, FreeRunningClients, Begins
  PROVE  Parts'
<1> USE DEF TypeInv, TypeOK, Parts
<1>1. /\ UNCHANGED << data, buffer_idx, frame_idx, data_idx, valid, idown, ndown,
                      nsamp, trigger, triggered, tick, clock >>
      /\ pc = "idle"
      /\ pc' \in {"idle", "copy", "read", "buffer_idx", "idown", "exited"}
  BY DEF Begins, ringVars, rateVars
<1>2. /\ nsamp \in 1 .. MaxSamp /\ MaxStoreLag < nsamp /\ 2 * nsamp <= MaxSamp
      /\ MaxStoreLag \in Nat /\ MaxSamp \in Nat \ {0} /\ MaxCopyLag \in Nat
  BY EngineAssumption DEF FreeRunningClients
<1>3. ~Restarted' \/ pc' = "buffer_idx"
  BY <1>1 DEF Begins, Restarted, Stores
<1>4. \A m : Rows(m) <=> NextRows(m)
  BY <1>1 DEF Rows, NextRows
<1>5. FreeRun'
  BY <1>1, <1>2 DEF FreeRun, Begins, Stores, FreeRunningClients
<1>6. RateInv'
  BY <1>1 DEF RateInv
<1>7. RestartInv'
  BY <1>3 DEF RestartInv
<1>8. FrameInv'
  BY <1>1 DEF FrameInv, Begins, Rows
<1>9. PublishedInv'
  BY <1>1, <1>3 DEF PublishedInv, Begins, Restarted, Stores, Rows
<1>10. CopyInv'
  <2>1. CASE op' # "get_data"
    BY <2>1 DEF CopyInv, Begins
  <2>2. CASE op' = "get_data"
    <3>1. /\ pc' = "copy" /\ lag' = 0 /\ data_idx >= 0 /\ go' = go
          /\ want' \in 1 .. nsamp /\ row' = data_idx /\ copied' = << >>
      BY <1>1, <2>2 DEF Begins, PublishedInv
    <3>2. ASSUME go = 1
          PROVE  nsamp + frame_idx \in 1 .. MaxSamp /\ CopyingAt(nsamp + frame_idx)'
      <4>1. data_idx = Back(buffer_idx, nsamp + frame_idx) /\ Rows(nsamp + frame_idx)
        BY <1>1, <3>1, <3>2 DEF PublishedInv
      <4>2. nsamp + frame_idx \in 1 .. MaxSamp /\ nsamp + frame_idx <= 2 * nsamp - 1
        BY <1>1, <1>2 DEF FrameInv
      <4>3. Len(copied') = 0
        BY <3>1
      <4>4. QED
        BY <1>1, <1>2, <3>1, <4>1, <4>2, <4>3 DEF CopyingAt, Rows
    <3>3. Len(copied') = 0
      BY <3>1
    <3>4. go = 1 => \E age \in 1 .. MaxSamp : CopyingAt(age)'
      BY <3>2, <1>1
    <3>5. QED
      BY <1>2, <3>1, <3>3, <3>4 DEF CopyInv, Successive
  <2>3. QED
    BY <2>1, <2>2
<1>11. QED
  BY <1>5, <1>6, <1>7, <1>8, <1>9, <1>10

LEMMA CopyParts ==
  ASSUME TypeInv, Parts, CopyRow \/ ReturnData
  PROVE  Parts'
<1> USE DEF TypeInv, TypeOK, Parts
<1>1. /\ UNCHANGED << data, buffer_idx, frame_idx, data_idx, valid, idown, ndown,
                      nsamp, trigger, triggered, tick, clock, op, go >>
      /\ pc \in {"copy", "return"} /\ pc' \in {"copy", "return", "idle"}
      /\ op = "get_data" /\ (pc' # "idle" => lag' = lag)
  <2>1. CASE CopyRow
    BY <2>1 DEF CopyRow, Handlers, ringVars, rateVars, runVars, trigVars
  <2>2. CASE ReturnData
    BY <2>2 DEF ReturnData, Handlers, ringVars, rateVars, runVars, trigVars
  <2>3. QED
    BY <2>1, <2>2
<1>2. FreeRun'
  BY <1>1 DEF FreeRun, Stores
<1>3. RateInv'
  BY <1>1 DEF RateInv
<1>4. RestartInv'
  BY <1>1 DEF RestartInv, Restarted
<1>5. FrameInv'
  BY <1>1 DEF FrameInv, Rows
<1>6. PublishedInv'
  BY <1>1 DEF PublishedInv, Restarted, Rows
<1>7. CopyInv'
  <2>1. CASE ReturnData
    BY <1>1, <2>1 DEF CopyInv, ReturnData, Successive
  <2>2. CASE CopyRow
    <3> DEFINE x == Fetch(row)
    <3>1. /\ pc = "copy" /\ copied' = Append(copied, x) /\ row' = NextRow(row)
          /\ want' = want /\ lag' = lag
          /\ pc' = IF Len(copied) + 1 = want THEN "return" ELSE "copy"
      BY <2>2 DEF CopyRow
    <3>2. x \in Nat \cup {Garbage} /\ copied \in Seq(Nat \cup {Garbage})
      BY DEF Fetch
    <3> HIDE DEF x
    <3>3. /\ Len(copied) \in Nat /\ Len(copied') = Len(copied) + 1
          /\ copied'[Len(copied) + 1] = x
          /\ \A k \in 1 .. Len(copied) : copied'[k] = copied[k]
      BY <3>1, <3>2
    <3>4. Len(copied) < want /\ Len(copied') > 0 /\ (pc' = "copy" => Len(copied') < want)
      BY <3>1, <3>3 DEF CopyInv
    <3>5. ASSUME go = 1, NEW age \in 1 .. MaxSamp, CopyingAt(age)
          PROVE  /\ pc' = "copy" => age - 1 \in 1 .. MaxSamp /\ CopyingAt(age - 1)'
                 /\ Successive(copied)' /\ copied'[1] # Garbage
      <4>1. row = Back(buffer_idx, age) /\ row \in RingRows
        BY <3>5, BackInRing DEF CopyingAt, RingRows
      <4>2. x = clock + 1 - age /\ x # Garbage
        BY <3>5, <4>1 DEF CopyingAt, Rows, x, Fetch, RingRows, Garbage
      <4>3. /\ Successive(copied)
            /\ Len(copied) > 0 => copied[1] # Garbage /\ copied[Len(copied)] = clock - age
        BY <1>1, <3>1, <3>5 DEF CopyInv, CopyingAt
      <4>0. /\ clock \in Nat /\ want \in Nat /\ age \in Nat /\ MaxSamp \in Nat
            /\ lag \in Nat /\ nsamp \in Nat /\ buffer_idx \in RingRows
            /\ \A k \in 1 .. Len(copied) : copied[k] \in Int
        BY <3>2, EngineAssumption DEF Garbage, RingRows
      <4> HIDE DEF TypeInv, TypeOK, Parts
      <4>4. copied'[1] # Garbage
        <5>1. CASE Len(copied) = 0
          BY <3>3, <4>2, <5>1
        <5>2. CASE Len(copied) # 0
          BY <3>3, <4>3, <5>2
        <5>3. QED
          BY <5>1, <5>2
      <4>5. ASSUME NEW k \in 2 .. Len(copied) + 1 PROVE copied'[k] = copied'[k - 1] + 1
        <5>1. CASE k = Len(copied) + 1
          BY <3>3, <4>0, <4>2, <4>3, <5>1
        <5>2. CASE k # Len(copied) + 1
          BY <3>3, <4>0, <4>3, <5>2 DEF Successive
        <5>3. QED
          BY <5>1, <5>2
      <4>6. Successive(copied)'
        BY <3>3, <4>5 DEF Successive
      <4>7. ASSUME pc' = "copy"
            PROVE  age - 1 \in 1 .. MaxSamp /\ CopyingAt(age - 1)'
        <5>1. want <= age + Len(copied) /\ age + Len(copied) <= 2 * nsamp - 1 + lag
          BY <3>5 DEF CopyingAt
        <5>2. age - 1 \in 1 .. MaxSamp
          BY <3>3, <3>4, <4>0, <4>7, <5>1
        <5>3. row' = Back(buffer_idx', age - 1)
          BY <1>1, <3>1, <4>0, <4>1, NextBack
        <5>4. Rows(age - 1)'
          BY <1>1, <3>5, <4>0, <5>2 DEF CopyingAt, Rows
        <5>5. /\ want' <= age - 1 + Len(copied')
              /\ age - 1 + Len(copied') <= 2 * nsamp' - 1 + lag'
          BY <1>1, <3>1, <3>3, <4>0, <5>1
        <5>6. copied'[Len(copied')] = clock' - (age - 1)
          BY <1>1, <3>3, <4>0, <4>2
        <5>7. QED
          BY <5>2, <5>3, <5>4, <5>5, <5>6 DEF CopyingAt
      <4>8. QED
        BY <4>4, <4>6, <4>7
    <3>6. go = 1 => \E age \in 1 .. MaxSamp : CopyingAt(age)
      BY <3>1 DEF CopyInv
    <3>7. go = 1 =>
            /\ pc' = "copy" => \E age \in 1 .. MaxSamp : CopyingAt(age)'
            /\ Successive(copied)' /\ copied'[1] # Garbage
      BY <3>5, <3>6
    <3>8. QED
      BY <1>1, <3>1, <3>4, <3>7 DEF CopyInv
  <2>3. QED
    BY <2>1, <2>2
<1>8. QED
  BY <1>2, <1>3, <1>4, <1>5, <1>6, <1>7

LEMMA StoreParts ==
  ASSUME TypeInv, Parts, FreeRunningClients, Store
  PROVE  Parts'
<1> USE DEF TypeInv, TypeOK, Parts
<1>1. /\ UNCHANGED << data, go, trigger, triggered, tick, op, want, row, copied >>
      /\ pc \in Stores /\ op \in {"pause", "set_nsamp", "set_ndown", "say_ready"}
      /\ pc' = NextStore /\ (NextStore # "idle" => lag' = lag)
      /\ NextStore \in Stores \cup {"idle"}
  BY DEF Store, Stores, NextStore, StoreAfter, Handlers, FreeRun, copyVars
<1>2. /\ \A n \in Frames : n \in 1 .. MaxSamp /\ MaxStoreLag < n
      /\ MaxStoreLag \in {0, 1} /\ MaxSamp \in Nat \ {0}
  BY EngineAssumption DEF FreeRunningClients
<1>3. lag \in Nat /\ lag <= MaxStoreLag
  BY <1>1 DEF FreeRun
<1>4. FreeRun'
  <2>1. pc' \in Stores => lag' = lag /\ NextStore # "idle"
    BY <1>1 DEF Stores
  <2>2. pc' \notin {"copy", "return"}
    BY <1>1 DEF Stores
  <2>3. op = "set_ndown" => pc \in {"idown", "ndown"}
    BY <1>1 DEF Handlers, Stores
  <2>4. QED
    BY <1>1, <1>3, <2>1, <2>2, <2>3 DEF FreeRun
<1>5. RateInv'
  <2>1. CASE pc = "idown"
    BY <1>1, <1>3, <2>1 DEF RateInv, Store
  <2>2. CASE pc = "ndown"
    <3>1. ndown' = arg /\ idown' = idown /\ pc' = "idle" /\ tick' = tick
      BY <2>2 DEF Store, NextStore, StoreAfter
    <3>2. idown <= lag /\ idown <= ndown /\ (tick = "receive" => idown = 0 \/ ndown = 0)
      BY <2>2 DEF RateInv
    <3>3. QED
      BY <1>2, <1>3, <3>1, <3>2 DEF RateInv
  <2>3. CASE pc \notin {"idown", "ndown"}
    <3>1. UNCHANGED << idown, ndown >> /\ pc' # "ndown"
      BY <1>1, <2>3 DEF Store, NextStore, StoreAfter
    <3>2. QED
      BY <1>1, <2>3, <3>1 DEF RateInv
  <2>4. QED
    BY <2>1, <2>2, <2>3
<1>6. RestartInv'
  <2>1. CASE op \in {"pause", "set_nsamp"}
    <3>1. Restarted
      BY <1>1, <2>1 DEF Restarted
    <3>2. /\ pc = "buffer_idx" => NextStore = "frame_idx"
          /\ pc = "frame_idx" => NextStore = "data_idx"
          /\ pc = "data_idx" => NextStore = "valid"
          /\ pc = "valid" => NextStore = "read"
          /\ pc = "read" => NextStore \in {"started", "nsamp"}
          /\ pc = "nsamp" => NextStore = "idle"
          /\ pc = "started" => NextStore = "idown"
          /\ pc = "idown" /\ op = "pause" => NextStore = "idle"
      BY <2>1 DEF NextStore, StoreAfter
    <3>3. /\ pc = "frame_idx" => frame_idx' = 0
          /\ pc = "data_idx" => data_idx' = -1
          /\ pc = "valid" => valid' = 0
      BY DEF Store
    <3>4. /\ pc \in {"buffer_idx", "frame_idx", "data_idx", "valid", "read", "nsamp",
                     "started", "idown"}
          /\ pc = "idown" => op = "pause"
      BY <1>1, <2>1 DEF Stores, Handlers
    <3>5. /\ pc # "frame_idx" => frame_idx' = frame_idx
          /\ pc # "data_idx" => data_idx' = data_idx
          /\ pc # "valid" => valid' = valid
          /\ pc # "idown" => idown' = idown
          /\ ndown' = ndown
      BY <3>4 DEF Store
    <3>6. Restarted' => pc' # "idle" /\ lag' = lag
      BY <1>1 DEF Restarted, Stores
    <3>7. QED
      BY <1>1, <1>3, <3>1, <3>2, <3>3, <3>4, <3>5, <3>6 DEF RestartInv
  <2>2. CASE op \notin {"pause", "set_nsamp"}
    BY <1>1, <2>2 DEF RestartInv, Restarted
  <2>3. QED
    BY <2>1, <2>2
\* A store that breaks the rhythm finds no row that has to be successive.
<1>7. BreaksRhythm /\ go = 1 => frame_idx = 0 /\ data_idx = -1
  BY <1>1 DEF BreaksRhythm, RestartInv, Restarted, Handlers, FreeRun, Stores
<1>8. FrameInv'
  <2>1. CASE pc = "buffer_idx"
    BY <1>1, <2>1 DEF FrameInv, NextStore, StoreAfter
  <2>2. CASE pc = "frame_idx"
    <3>1. frame_idx' = 0 /\ nsamp' = nsamp /\ nsamp > 0
      BY <1>2, <2>2 DEF Store
    <3>2. QED
      BY <3>1 DEF FrameInv, Rows
  <2>3. CASE pc \notin {"buffer_idx", "frame_idx"}
    <3>1. UNCHANGED << buffer_idx, frame_idx >> /\ frame_idx < nsamp
      BY <2>3 DEF Store, FrameInv
    <3>2. frame_idx' < nsamp'
      <4>1. CASE pc = "nsamp"
        BY <1>1, <1>2, <1>3, <3>1, <4>1 DEF Store, Handlers, RestartInv, Restarted
      <4>2. CASE pc # "nsamp"
        BY <3>1, <4>2 DEF Store
      <4>3. QED
        BY <4>1, <4>2
    <3>3. go = 1 => Rows(frame_idx)'
      <4>1. CASE BreaksRhythm
        BY <1>7, <3>1, <4>1 DEF Rows
      <4>2. CASE ~BreaksRhythm
        BY <1>1, <2>3, <3>1, <4>2 DEF Store, FrameInv, Rows
      <4>3. QED
        BY <4>1, <4>2
    <3>4. QED
      BY <1>1, <3>2, <3>3 DEF FrameInv
  <2>4. QED
    BY <2>1, <2>2, <2>3
<1>9. PublishedInv'
  <2>1. CASE Restarted
    <3>1. /\ pc = "data_idx" => data_idx' = -1 /\ pc' = "valid"
          /\ pc = "valid" => valid' = 0
          /\ pc \notin {"buffer_idx", "frame_idx", "data_idx"} => data_idx' = data_idx
          /\ pc # "valid" => valid' = valid
          /\ pc = "buffer_idx" => pc' = "frame_idx"
          /\ pc = "frame_idx" => pc' = "data_idx"
      BY <2>1 DEF Restarted, Store, NextStore, StoreAfter
    <3>2. pc \in {"buffer_idx", "frame_idx"} => data_idx' = data_idx
      BY DEF Store
    <3>3. valid' = 1 => data_idx' >= 0 \/ (Restarted' /\ pc' = "valid")
      BY <1>1, <2>1, <3>1, <3>2 DEF PublishedInv, RestartInv, Restarted, Stores
    <3>4. pc' \notin {"buffer_idx", "frame_idx", "data_idx"} => data_idx' = -1
      BY <1>1, <2>1, <3>1 DEF RestartInv, Restarted, Stores
    <3>5. op' # "check_data"
      BY <1>1
    <3>6. QED
      BY <3>3, <3>4, <3>5 DEF PublishedInv
  <2>2. CASE ~Restarted
    <3>1. op \in {"set_ndown", "say_ready"} /\ pc \in {"idown", "ndown", "read", "valid"}
      BY <1>1, <2>2 DEF Restarted, Handlers, Stores
    <3>2. /\ UNCHANGED << data, buffer_idx, frame_idx, data_idx, nsamp, go >>
          /\ valid' = 1 => valid = 1
          /\ go = 1 => clock' = clock
          /\ op' # "check_data" /\ pc \notin {"buffer_idx", "frame_idx", "data_idx"}
      BY <1>1, <3>1 DEF Store, FreeRun, BreaksRhythm, Handlers
    <3>3. QED
      BY <2>2, <3>2 DEF PublishedInv, Rows
  <2>3. QED
    BY <2>1, <2>2
<1>10. CopyInv'
  BY <1>1 DEF CopyInv, Stores
<1>11. QED
  BY <1>4, <1>5, <1>6, <1>8, <1>9, <1>10

LEMMA StepParts ==
  ASSUME TypeInv, Parts, FreeRunningClients, [Next]_vars
  PROVE  Parts'
<1>1. CASE Timer
  BY <1>1, TimerEffect, QuietParts, SampleParts DEF Parts
<1>2. CASE Command
  BY <1>2, CommandEffect, BeginsParts DEF Parts
<1>3. CASE CopyRow \/ ReturnData
  BY <1>3, CopyParts
<1>4. CASE TriggerWake
  BY <1>4 DEF TriggerWake, TypeInv, Handlers, Parts, FreeRun
<1>5. CASE Store
  BY <1>5, StoreParts
<1>6. CASE UNCHANGED vars
  BY <1>6 DEF vars, Parts, FreeRun, RateInv, RestartInv, Restarted, FrameInv, Rows,
     PublishedInv, CopyInv, CopyingAt, Successive, ringVars, rateVars, trigVars,
     runVars, serverVars, copyVars
<1>7. QED
  BY <1>1, <1>2, <1>3, <1>4, <1>5, <1>6 DEF Next, Server, Ended

----------------------------------------------------------------------------
(* What is delivered is new: NewerInv, given the invariant above. *)

LEMMA AgeOfRow ==
  ASSUME NEW age \in 1 .. MaxSamp, row = Back(buffer_idx, age), buffer_idx \in RingRows
  PROVE  Age = age
  BY EngineAssumption DEF RingRows, Back, Age

\* While rows are copied, the next one is as old as Age says.
LEMMA CopyingNow ==
  ASSUME TypeInv, Parts, go = 1, pc = "copy"
  PROVE  Age \in 1 .. MaxSamp /\ CopyingAt(Age)
<1>1. PICK age \in 1 .. MaxSamp : CopyingAt(age)
  BY DEF Parts, CopyInv
<1>2. Age = age
  BY <1>1, AgeOfRow DEF CopyingAt, TypeInv, TypeOK, RingRows
<1> QED
  BY <1>1, <1>2

\* What NewerInv compares are numbers.
LEMMA Stamps ==
  ASSUME TypeInv
  PROVE  /\ clock \in Nat /\ acked \in Int /\ frame_idx \in Nat /\ nsamp \in 1 .. MaxSamp
         /\ Len(copied) \in Nat /\ (\A k \in 1 .. Len(copied) : copied[k] \in Int)
         /\ want \in Nat /\ Age \in Int /\ MaxSamp \in Nat \ {0}
         /\ \A i \in RingRows : data[i] \in Nat
<1>1. copied \in Seq(Nat \cup {Garbage}) /\ acked \in Nat \cup {Garbage}
  BY DEF TypeInv, TypeOK
<1>2. Len(copied) \in Nat /\ (\A k \in 1 .. Len(copied) : copied[k] \in Int)
  BY <1>1 DEF Garbage
<1>3. acked \in Int
  BY <1>1 DEF Garbage
<1> HIDE DEF Garbage
<1>4. Age \in Int /\ MaxSamp \in Nat \ {0} /\ nsamp \in 1 .. MaxSamp
  BY EngineAssumption, ClientAssumption DEF TypeInv, TypeOK, Age
<1> QED
  BY <1>2, <1>3, <1>4 DEF TypeInv, TypeOK, RingRows

LEMMA InitNewer == Init => NewerInv
<1> SUFFICES ASSUME Init PROVE NewerInv
  OBVIOUS
<1>1. Len(copied) = 0
  BY DEF Init
<1> QED
  BY <1>1, EngineAssumption
     DEF Init, NewerInv, StampInv, AheadInv, UnreadInv, DeliverInv, RingRows

LEMMA QuietNewer ==
  ASSUME NewerInv, Quiet
  PROVE  NewerInv'
<1>1. UNCHANGED << data, buffer_idx, frame_idx, data_idx, valid, nsamp, go, pc, op,
                   retval, want, row, copied, clock, acked >>
  BY DEF Quiet, ringVars, runVars, serverVars, copyVars
<1>2. Age' = Age
  BY <1>1 DEF Age
<1> QED
  BY <1>1, <1>2 DEF NewerInv, StampInv, AheadInv, UnreadInv, DeliverInv

\* A sample makes everything else one sample older, and starts a frame that is
\* newer than all the samples before when it ends one.
LEMMA SampleNewer ==
  ASSUME TypeInv, Parts, FreeRunningClients, NewerInv, FreeSample
  PROVE  NewerInv'
<1>1. /\ UNCHANGED << nsamp, go, op, pc, retval, want, row, copied, acked >>
      /\ clock' = clock + 1 /\ buffer_idx' = NextRow(buffer_idx)
      /\ data' = [data EXCEPT ![buffer_idx] = clock + 1]
      /\ lag' = IF Busy THEN lag + 1 ELSE lag
      /\ Busy => lag < LagBound
  BY DEF FreeSample, rateVars, runVars, serverVars, copyVars
<1>2. \/ /\ frame_idx >= nsamp - 1 /\ frame_idx' = 0
      \/ /\ frame_idx < nsamp - 1 /\ frame_idx' = frame_idx + 1
         /\ data_idx' = data_idx /\ (valid' = 1 => valid = 1)
  BY Stamps DEF FreeSample
<1>3. buffer_idx \in RingRows /\ data \in [RingRows -> Nat]
  BY DEF TypeInv, TypeOK, RingRows
<1>4. StampInv'
  <2>1. acked' <= clock'
    BY <1>1, Stamps DEF NewerInv, StampInv
  <2>2. \A k \in 1 .. Len(copied') : copied'[k] <= clock'
    BY <1>1, Stamps DEF NewerInv, StampInv
  <2>3. \A i \in RingRows : data'[i] <= clock'
    BY <1>1, <1>3, Stamps DEF NewerInv, StampInv, RingRows
  <2> QED
    BY <2>1, <2>2, <2>3 DEF StampInv, RingRows
<1>5. AheadInv'
  <2> SUFFICES ASSUME go = 1, pc \notin {"buffer_idx", "frame_idx"}
               PROVE  /\ acked + frame_idx' <= clock'
                      /\ Len(copied) > 0 => copied[Len(copied)] + frame_idx' <= clock'
    BY <1>1 DEF AheadInv
  <2>1. /\ acked + frame_idx <= clock
        /\ Len(copied) > 0 => copied[Len(copied)] + frame_idx <= clock
    BY DEF NewerInv, AheadInv
  <2>2. frame_idx' <= frame_idx + 1 /\ frame_idx' \in Nat
    BY <1>2, Stamps
  <2>3. Len(copied) > 0 => copied[Len(copied)] \in Int
    BY Stamps
  <2> QED
    BY <1>1, <2>1, <2>2, <2>3, Stamps
<1>6. UnreadInv'
  <2>1. ASSUME go = 1, pc \notin {"buffer_idx", "frame_idx"}, frame_idx >= nsamp - 1
        PROVE  acked + nsamp + frame_idx' <= clock'
    <3>1. acked + frame_idx <= clock
      BY <2>1 DEF NewerInv, AheadInv
    <3> QED
      BY <1>1, <1>2, <2>1, <3>1, Stamps
  <2>2. ASSUME acked + nsamp + frame_idx <= clock
        PROVE  acked + nsamp + frame_idx' <= clock'
    <3>1. frame_idx' <= frame_idx + 1 /\ frame_idx' \in Nat
      BY <1>2, Stamps
    <3> QED
      BY <1>1, <2>2, <3>1, Stamps
  <2>3. frame_idx < nsamp - 1 => data_idx' = data_idx /\ (valid' = 1 => valid = 1)
    BY <1>2, Stamps
  <2>4. frame_idx >= nsamp - 1 \/ frame_idx < nsamp - 1
    BY Stamps
  <2> QED
    BY <1>1, <2>1, <2>2, <2>3, <2>4 DEF NewerInv, UnreadInv
<1>7. DeliverInv'
  <2>1. ASSUME go = 1, pc = "copy"
        PROVE  want + frame_idx' <= Age' + Len(copied) /\ acked + Age' <= clock'
    <3>1. Age \in 1 .. MaxSamp /\ CopyingAt(Age)
      BY <2>1, CopyingNow
    <3>2. Age + Len(copied) <= 2 * nsamp - 1 + lag /\ lag < MaxCopyLag
      BY <1>1, <2>1, <3>1 DEF CopyingAt, Busy, LagBound
    <3>3. Age \in RingRows
      <4>1. 2 * nsamp + MaxCopyLag <= MaxSamp + 1 /\ MaxCopyLag \in Nat /\ lag \in Nat
        BY EngineAssumption DEF FreeRunningClients, TypeInv, TypeOK
      <4> QED
        BY <3>1, <3>2, <4>1, Stamps DEF RingRows
    <3>4. Age' = Age + 1
      <4>1. row \in RingRows
        BY <1>3, <3>1, BackInRing DEF CopyingAt
      <4>2. MaxSamp \in Nat \ {0}
        BY EngineAssumption
      <4> QED
        BY <1>1, <1>3, <3>3, <4>1, <4>2 DEF Age, NextRow, RingRows
    <3>5. want + frame_idx <= Age + Len(copied) /\ acked + Age <= clock
      BY <2>1 DEF NewerInv, DeliverInv
    <3>6. frame_idx' <= frame_idx + 1 /\ frame_idx' \in Nat
      BY <1>2, Stamps
    <3>7. /\ want \in Nat /\ frame_idx \in Nat /\ Age \in Nat /\ Len(copied) \in Nat
          /\ acked \in Int /\ clock \in Nat
      BY <3>3, Stamps DEF TypeInv, TypeOK, RingRows
    <3>8. clock' = clock + 1
      BY <1>1
    <3>9. want + frame_idx' <= Age' + Len(copied)
      BY <3>4, <3>5, <3>6, <3>7
    <3>10. acked + Age' <= clock'
      BY <3>4, <3>5, <3>7, <3>8
    <3> QED
      BY <3>9, <3>10
  <2> QED
    BY <1>1, <2>1 DEF NewerInv, DeliverInv
<1> QED
  BY <1>4, <1>5, <1>6, <1>7 DEF NewerInv

\* What the commands do with what the client has and has acknowledged.
Acknowledges ==
  \/ UNCHANGED << copied, acked >>
  \/ copied' = << >> /\ acked' = acked
  \/ /\ Len(copied) > 0 /\ copied' = << >> /\ acked' = copied[Len(copied)]
     /\ pc' = "read"

LEMMA CommandAcknowledges ==
  ASSUME TypeInv, Command
  PROVE  Acknowledges
<1> USE DEF Acknowledges, copyVars
<1>1. CASE SayReady
  <2>1. copied # << >> => Len(copied) > 0
    BY DEF TypeInv, TypeOK
  <2> QED
    BY <1>1, <2>1 DEF SayReady
<1>2. CASE CheckData \/ TriggerOff \/ StopAcq
  BY <1>2 DEF CheckData, TriggerOff, StopAcq
<1>3. ASSUME NEW n \in Frames, GetData(n) \/ SetNsamp(n) PROVE Acknowledges
  BY <1>3 DEF GetData, SetNsamp
<1>4. ASSUME NEW n \in Downs, SetNdown(n) PROVE Acknowledges
  BY <1>4 DEF SetNdown
<1>5. ASSUME NEW p \in {0, 1}, Pause(p) \/ Link2Meas(p) PROVE Acknowledges
  BY <1>5 DEF Pause, Link2Meas
<1>6. ASSUME NEW p \in Prerolls, TriggerOn(p) PROVE Acknowledges
  BY <1>6 DEF TriggerOn
<1> QED
  BY <1>1, <1>2, <1>3, <1>4, <1>5, <1>6 DEF Command

LEMMA BeginsNewer ==
  ASSUME TypeInv, Parts, FreeRunningClients, NewerInv, Begins, Acknowledges
  PROVE  NewerInv'
<1>1. /\ UNCHANGED << data, buffer_idx, frame_idx, data_idx, valid, nsamp, clock >>
      /\ pc = "idle"
      /\ pc' \in {"idle", "copy", "read", "buffer_idx", "idown", "exited"}
  BY DEF Begins, ringVars, rateVars
<1>2. /\ go' = 1 => go = 1 \/ pc' = "buffer_idx"
      /\ pc' = "read" => op' = "say_ready"
      /\ pc' = "copy" <=> op' = "get_data"
  BY DEF Begins
<1>3. acked <= clock /\ (\A k \in 1 .. Len(copied) : copied[k] <= clock)
  BY DEF NewerInv, StampInv
<1>4. StampInv'
  <2>1. CASE UNCHANGED << copied, acked >>
    BY <1>1, <2>1 DEF NewerInv, StampInv
  <2>2. CASE copied' = << >>
    <3>1. acked' <= clock
      BY <1>3, <2>2, Stamps DEF Acknowledges
    <3>2. Len(copied') = 0
      BY <2>2
    <3> QED
      BY <1>1, <3>1, <3>2 DEF NewerInv, StampInv
  <2> QED
    BY <2>1, <2>2 DEF Acknowledges
<1>5. go = 1 => /\ acked + frame_idx <= clock
                /\ Len(copied) > 0 => copied[Len(copied)] + frame_idx <= clock
  BY <1>1 DEF NewerInv, AheadInv
<1>6. AheadInv'
  <2>1. CASE UNCHANGED << copied, acked >>
    BY <1>1, <1>2, <1>5, <2>1 DEF AheadInv
  <2>2. CASE copied' = << >>
    <3>1. go = 1 => acked' + frame_idx <= clock
      BY <1>5, <2>2 DEF Acknowledges
    <3>2. Len(copied') = 0
      BY <2>2
    <3> QED
      BY <1>1, <1>2, <3>1, <3>2 DEF AheadInv
  <2> QED
    BY <2>1, <2>2 DEF Acknowledges
<1>7. pc' # "read" => acked' = acked
  BY DEF Acknowledges
\* What the poll finds valid lies in the ring.
<1>8. valid = 1 => data_idx >= 0
  BY <1>1 DEF Parts, PublishedInv
<1>9. go = 1 /\ valid = 1 => acked + nsamp + frame_idx <= clock
  BY <1>1, <1>8 DEF NewerInv, UnreadInv
<1>10. UnreadInv'
  <2>1. op' = "check_data" /\ retval' = 0 => valid = 1
    BY DEF Begins
  <2> QED
    BY <1>1, <1>2, <1>7, <1>9, <2>1 DEF UnreadInv
<1>11. DeliverInv'
  <2>1. ASSUME go' = 1, op' = "get_data"
        PROVE  /\ Len(copied') = 0
               /\ want' + frame_idx' <= Age' + Len(copied') /\ acked' + Age' <= clock'
    <3>1. /\ op = "check_data" /\ retval = 0 /\ go = 1
          /\ want' \in 1 .. nsamp /\ row' = data_idx /\ copied' = << >>
          /\ pc' # "read"
      BY <1>1, <1>2, <2>1 DEF Begins
    <3>2. acked + nsamp + frame_idx <= clock
      BY <1>1, <3>1 DEF NewerInv, UnreadInv
    <3>3. data_idx = Back(buffer_idx, nsamp + frame_idx)
      BY <1>1, <3>1 DEF Parts, PublishedInv
    <3>4. nsamp + frame_idx \in 1 .. MaxSamp
      <4>1. 2 * nsamp <= MaxSamp /\ frame_idx < nsamp
        BY <1>1 DEF FreeRunningClients, TypeInv, TypeOK, Parts, FrameInv
      <4> QED
        BY <4>1, Stamps
    <3>5. Age' = nsamp + frame_idx
      BY <1>1, <3>1, <3>3, <3>4, EngineAssumption
         DEF TypeInv, TypeOK, Age, Back
    <3>6. Len(copied') = 0
      BY <3>1
    <3> QED
      BY <1>1, <1>7, <3>1, <3>2, <3>5, <3>6, Stamps
  <2> QED
    BY <1>2, <2>1 DEF DeliverInv
<1> QED
  BY <1>4, <1>6, <1>10, <1>11 DEF NewerInv

\* A row is copied from the published frame, so that it is newer than what the
\* client has acknowledged and older than the frame being filled.
LEMMA CopyNewer ==
  ASSUME TypeInv, Parts, NewerInv, CopyRow
  PROVE  NewerInv'
<1> DEFINE x == Fetch(row)
<1>1. /\ UNCHANGED << data, buffer_idx, frame_idx, data_idx, valid, nsamp, clock,
                      op, go, retval, want, acked >>
      /\ pc = "copy" /\ pc' \in {"copy", "return"} /\ op = "get_data"
      /\ copied' = Append(copied, x) /\ row' = NextRow(row)
      /\ pc' = "copy" <=> Len(copied) + 1 # want
  BY DEF CopyRow, TypeInv, Handlers, ringVars, rateVars, runVars, trigVars
<1>2. x \in Nat \cup {Garbage} /\ copied \in Seq(Nat \cup {Garbage})
  BY DEF Fetch, TypeInv, TypeOK
<1>3. x \in Int /\ x <= clock
  <2>1. x = Garbage \/ (row \in 0 .. MaxSamp - 1 /\ x = data[row])
    BY DEF Fetch
  <2> QED
    BY <2>1, Stamps DEF Garbage, NewerInv, StampInv, RingRows
<1>4. go = 1 => /\ Age \in 1 .. MaxSamp /\ row = Back(buffer_idx, Age)
                /\ x = clock + 1 - Age
  <2> SUFFICES ASSUME go = 1
               PROVE  /\ Age \in 1 .. MaxSamp /\ row = Back(buffer_idx, Age)
                      /\ x = clock + 1 - Age
    OBVIOUS
  <2>1. Age \in 1 .. MaxSamp /\ CopyingAt(Age)
    BY <1>1, CopyingNow
  <2>2. row = Back(buffer_idx, Age) /\ row \in RingRows
    BY <2>1, BackInRing DEF CopyingAt, TypeInv, TypeOK, RingRows
  <2>3. data[Back(buffer_idx, Age)] = clock + 1 - Age
    BY <2>1 DEF CopyingAt, Rows
  <2> QED
    BY <2>1, <2>2, <2>3 DEF Fetch, RingRows
<1> HIDE DEF x
<1>5. /\ Len(copied) \in Nat /\ Len(copied') = Len(copied) + 1
      /\ copied'[Len(copied) + 1] = x
      /\ \A k \in 1 .. Len(copied) : copied'[k] = copied[k]
  BY <1>1, <1>2
<1>6. Len(copied) < want
  BY <1>1 DEF Parts, CopyInv
<1>7. go = 1 => want + frame_idx <= Age + Len(copied) /\ acked + Age <= clock
  BY <1>1 DEF NewerInv, DeliverInv
<1>8. StampInv'
  <2>1. \A k \in 1 .. Len(copied') : copied'[k] <= clock
    <3> TAKE k \in 1 .. Len(copied')
    <3>1. CASE k = Len(copied) + 1
      BY <1>3, <1>5, <3>1
    <3>2. CASE k # Len(copied) + 1
      <4>1. k \in 1 .. Len(copied)
        BY <1>5, <3>2
      <4> QED
        BY <1>5, <4>1 DEF NewerInv, StampInv
    <3> QED
      BY <3>1, <3>2
  <2> QED
    BY <1>1, <2>1 DEF NewerInv, StampInv
<1>9. AheadInv'
  <2>1. go = 1 => x + frame_idx <= clock
    BY <1>3, <1>4, <1>5, <1>6, <1>7, Stamps
  <2> QED
    BY <1>1, <1>5, <2>1 DEF NewerInv, AheadInv
<1>10. UnreadInv'
  BY <1>1 DEF NewerInv, UnreadInv
<1>11. DeliverInv'
  <2>1. go = 1 => x > acked
    BY <1>3, <1>4, <1>7, Stamps
  <2>2. ASSUME go = 1, pc' = "copy"
        PROVE  want + frame_idx <= Age' + Len(copied') /\ acked + Age' <= clock
    <3>1. Age - 1 \in 1 .. MaxSamp
      <4>1. Len(copied) + 1 # want
        BY <1>1, <2>2
      <4>2. want + frame_idx <= Age + Len(copied) /\ Age \in 1 .. MaxSamp
        BY <1>4, <1>7, <2>2
      <4> QED
        BY <1>5, <1>6, <4>1, <4>2, Stamps
    <3>2. buffer_idx \in RingRows
      BY DEF TypeInv, TypeOK, RingRows
    <3>3. row' = Back(buffer_idx, Age - 1)
      BY <1>1, <1>4, <2>2, <3>2, NextBack
    <3>4. Age' = Age - 1
      BY <1>1, <3>1, <3>2, <3>3, EngineAssumption DEF Age, Back, RingRows
    <3> QED
      BY <1>5, <1>7, <2>2, <3>4, Stamps
  <2> QED
    BY <1>1, <1>5, <2>1, <2>2 DEF DeliverInv
<1> QED
  BY <1>8, <1>9, <1>10, <1>11 DEF NewerInv

LEMMA ReturnNewer ==
  ASSUME TypeInv, NewerInv, ReturnData
  PROVE  NewerInv'
<1>1. /\ UNCHANGED << data, buffer_idx, frame_idx, data_idx, valid, nsamp, clock,
                      op, go, copied, acked >>
      /\ pc = "return" /\ pc' = "idle" /\ op = "get_data"
  BY DEF ReturnData, TypeInv, Handlers, ringVars, rateVars, runVars, trigVars
<1> QED
  BY <1>1 DEF NewerInv, StampInv, AheadInv, UnreadInv, DeliverInv

\* A handler that restarts the buffer withdraws the frame before it lets
\* frame_idx count for a new one.
LEMMA StoreNewer ==
  ASSUME TypeInv, Parts, FreeRunningClients, NewerInv, Store
  PROVE  NewerInv'
<1>1. /\ UNCHANGED << data, go, op, row, copied, acked >>
      /\ pc \in Stores /\ op \in {"pause", "set_nsamp", "set_ndown", "say_ready"}
      /\ pc' = NextStore /\ NextStore \in Stores \cup {"idle"}
      /\ clock' \in {clock, clock + 1}
      /\ frame_idx' = IF pc = "frame_idx" THEN 0 ELSE frame_idx
      /\ data_idx' = IF pc = "data_idx" THEN -1 ELSE data_idx
      /\ valid' = IF pc = "valid" THEN 0 ELSE valid
      /\ pc # "nsamp" => nsamp' = nsamp
  BY DEF Store, Stores, NextStore, StoreAfter, TypeInv, Handlers, Parts, FreeRun, copyVars
<1>2. clock' >= clock /\ clock' \in Nat
  BY <1>1, Stamps
<1>3. StampInv'
  <2>1. acked <= clock'
    BY <1>1, Stamps DEF NewerInv, StampInv
  <2>2. \A i \in RingRows : data[i] <= clock'
    BY <1>1, Stamps DEF NewerInv, StampInv, RingRows
  <2>3. \A k \in 1 .. Len(copied) : copied[k] <= clock'
    BY <1>1, Stamps DEF NewerInv, StampInv
  <2> QED
    BY <1>1, <2>1, <2>2, <2>3 DEF StampInv, RingRows
<1>4. AheadInv'
  <2> SUFFICES ASSUME go = 1, pc # "buffer_idx"
               PROVE  /\ acked + frame_idx' <= clock'
                      /\ Len(copied) > 0 => copied[Len(copied)] + frame_idx' <= clock'
    <3>1. pc = "buffer_idx" => pc' \in {"frame_idx", "trigger"}
      BY <1>1 DEF NextStore, StoreAfter
    <3>2. pc = "buffer_idx" => pc' = "frame_idx"
      BY <1>1 DEF NextStore, StoreAfter
    <3> QED
      BY <1>1, <3>2 DEF AheadInv
  <2>1. Len(copied) > 0 => copied[Len(copied)] \in Int /\ copied[Len(copied)] <= clock
    BY Stamps DEF NewerInv, StampInv
  <2>2. CASE pc = "frame_idx"
    BY <1>1, <1>2, <2>1, <2>2, Stamps DEF NewerInv, StampInv
  <2>3. CASE pc # "frame_idx"
    <3>1. /\ acked + frame_idx <= clock
          /\ Len(copied) > 0 => copied[Len(copied)] + frame_idx <= clock
      BY <1>1, <2>3 DEF NewerInv, AheadInv
    <3> QED
      BY <1>1, <1>2, <2>1, <2>3, <3>1, Stamps
  <2> QED
    BY <2>2, <2>3
<1>5. UnreadInv'
  <2> SUFFICES ASSUME go = 1, valid' = 1, data_idx' >= 0,
                      pc' \notin {"buffer_idx", "frame_idx", "data_idx"},
                      ~(op = "say_ready" /\ pc' \in {"read", "valid"})
               PROVE  acked + nsamp' + frame_idx' <= clock'
    BY <1>1 DEF UnreadInv
  <2>1. valid = 1 /\ data_idx >= 0 /\ pc \notin {"valid", "data_idx"}
    BY <1>1
  <2>2. pc \notin {"buffer_idx", "frame_idx"}
    BY <1>1 DEF NextStore, StoreAfter
  <2>3. ~Restarted
    BY <1>1, <2>1, <2>2 DEF Parts, RestartInv
  <2>4. pc # "nsamp" /\ ~(op = "say_ready" /\ pc \in {"read", "valid"})
    BY <1>1, <2>1, <2>3 DEF Restarted, TypeInv, Handlers, NextStore, StoreAfter
  <2>5. acked + nsamp + frame_idx <= clock
    BY <2>1, <2>2, <2>4 DEF NewerInv, UnreadInv
  <2> QED
    BY <1>1, <1>2, <2>2, <2>4, <2>5, Stamps
<1>6. DeliverInv'
  BY <1>1 DEF DeliverInv, Stores
<1> QED
  BY <1>3, <1>4, <1>5, <1>6 DEF NewerInv

LEMMA StepNewer ==
  ASSUME TypeInv, Parts, FreeRunningClients, NewerInv, [Next]_vars
  PROVE  NewerInv'
<1>1. CASE Timer
  BY <1>1, TimerEffect, QuietNewer, SampleNewer DEF Parts
<1>2. CASE Command
  BY <1>2, CommandEffect, CommandAcknowledges, BeginsNewer DEF Parts
<1>3. CASE CopyRow \/ ReturnData
  BY <1>3, CopyNewer, ReturnNewer
<1>4. CASE TriggerWake
  BY <1>4 DEF TriggerWake, TypeInv, Handlers, Parts, FreeRun
<1>5. CASE Store
  BY <1>5, StoreNewer
<1>6. CASE UNCHANGED vars
  <2>1. Age' = Age
    BY <1>6 DEF vars, Age, ringVars, copyVars
  <2> QED
    BY <1>6, <2>1 DEF vars, NewerInv, StampInv, AheadInv, UnreadInv, DeliverInv, ringVars,
       runVars, serverVars, copyVars
<1> QED
  BY <1>1, <1>2, <1>3, <1>4, <1>5, <1>6 DEF Next, Server, Ended

----------------------------------------------------------------------------
(* The theorems. *)

\* With clients that poll before they copy, arm no trigger and change the rate
\* only while paused, FreeInv always holds.
THEOREM FreeRunningInvariant ==
  ASSUME FreeRunningClients
  PROVE  Spec => []FreeInv
<1>1. Init => TypeInv /\ Parts
  BY InitType, InitParts
<1>2. TypeInv /\ Parts /\ [Next]_vars => (TypeInv /\ Parts)'
  BY StepType, StepParts
<1>3. TypeInv /\ Parts => FreeInv
  BY DEF TypeInv, Parts, FreeInv
<1>4. QED
  BY <1>1, <1>2, <1>3, PTL DEF Spec

\* Every frame that a poll reports holds successive samples (tde_timer_fun,
\* tde_check_data).
THEOREM FramesAreConsecutive ==
  ASSUME FreeRunningClients
  PROVE  Spec => []FrameConsecutive
<1>1. FreeInv => FrameConsecutive
  <2> SUFFICES ASSUME FreeInv, pc = "idle", go = 1, valid = 1, NEW k \in 1 .. nsamp - 1
               PROVE  data[FrameRow(k)] = data[FrameRow(k - 1)] + 1
    BY DEF FrameConsecutive
  <2> DEFINE m == nsamp + frame_idx
  <2>1. data_idx = Back(buffer_idx, m) /\ Rows(m)
    BY DEF FreeInv, TypeOK, PublishedInv, Restarted, Stores
  <2>2. /\ buffer_idx \in RingRows /\ nsamp \in 1 .. MaxSamp /\ 2 * nsamp <= MaxSamp
        /\ frame_idx \in Nat /\ frame_idx < nsamp /\ clock \in Nat /\ MaxSamp \in Nat
    BY EngineAssumption DEF FreeInv, TypeOK, FreeRunningClients, FrameInv, RingRows
  <2>3. m \in 1 .. MaxSamp /\ k \in 0 .. m - 1 /\ k - 1 \in 0 .. m - 1
    BY <2>2
  <2> HIDE DEF m
  <2>4. FrameRow(k) = Back(buffer_idx, m - k) /\ FrameRow(k - 1) = Back(buffer_idx, m - (k - 1))
    BY <2>1, <2>2, <2>3, FrameRowBack
  <2>5. m - k \in 1 .. m /\ m - (k - 1) \in 1 .. m
    BY <2>3
  <2>6. /\ data[Back(buffer_idx, m - k)] = clock + 1 - (m - k)
        /\ data[Back(buffer_idx, m - (k - 1))] = clock + 1 - (m - (k - 1))
    BY <2>1, <2>5 DEF Rows
  <2>7. QED
    BY <2>2, <2>3, <2>4, <2>6
<1>2. QED
  BY <1>1, FreeRunningInvariant, PTL

\* What tde_get_data copies after a poll are successive samples.
THEOREM CopiesAreConsecutive ==
  ASSUME FreeRunningClients
  PROVE  Spec => []CopyConsecutive
<1>1. FreeInv => CopyConsecutive
  <2> SUFFICES ASSUME FreeInv, pc = "idle", op = "get_data", go = 1
               PROVE  /\ copied # << >> /\ copied[1] # Garbage
                      /\ \A k \in 2 .. Len(copied) : copied[k] = copied[k - 1] + 1
    BY DEF CopyConsecutive
  <2>1. Len(copied) > 0 /\ Successive(copied) /\ copied[1] # Garbage
    BY DEF FreeInv, CopyInv
  <2>2. copied # << >>
    BY <2>1
  <2>3. QED
    BY <2>1, <2>2 DEF Successive
<1>2. QED
  BY <1>1, FreeRunningInvariant, PTL

\* The downsampling counter stays within its limit.
THEOREM RateIsKept ==
  ASSUME FreeRunningClients
  PROVE  Spec => []RateKept
<1>1. FreeInv => RateKept
  BY DEF FreeInv, RateInv, RateKept
<1>2. QED
  BY <1>1, FreeRunningInvariant, PTL

\* No frame is delivered again once the client has acknowledged it: the callback
\* may publish, withdraw or overwrite a frame between any two of the calls that
\* poll, copy and acknowledge (tde_check_data, tde_get_data, tde_say_ready).
THEOREM DeliveriesAdvance ==
  ASSUME FreeRunningClients
  PROVE  Spec => []DeliveryAdvances
<1>1. Init => TypeInv /\ Parts /\ NewerInv
  BY InitType, InitParts, InitNewer
<1>2. TypeInv /\ Parts /\ NewerInv /\ [Next]_vars => (TypeInv /\ Parts /\ NewerInv)'
  BY StepType, StepParts, StepNewer
<1>3. TypeInv /\ Parts /\ NewerInv => DeliveryAdvances
  BY DEF Parts, CopyInv, NewerInv, DeliverInv, DeliveryAdvances
<1>4. QED
  BY <1>1, <1>2, <1>3, PTL DEF Spec
====
