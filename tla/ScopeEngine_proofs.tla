------------------------- MODULE ScopeEngine_proofs -------------------------
(***************************************************************************)
(* Proofs about ScopeEngine for every size of the ring, every set of frame *)
(* lengths and every mix of commands the theorems name: the types and the  *)
(* link to the function generator in every mode, the halt under Simulink,  *)
(* and of the trigger its preroll, its place in the frame, and that frames *)
(* and the copies of them are whole.                                       *)
(***************************************************************************)
EXTENDS ScopeInvariant, TLAPS

TypeInv == TypeOK /\ Handlers

LEMMA Quotient ==
  ASSUME NEW a \in Nat, NEW d \in Nat \ {0}
  PROVE  a \div d \in Nat
OBVIOUS

LEMMA InitType == Init => TypeInv
  BY EngineAssumption, ClientAssumption
     DEF Init, TypeInv, TypeOK, Handlers, ServerPlaces, Stores, Garbage

LEMMA TimerType == TypeInv /\ Timer => TypeInv'
<1> SUFFICES ASSUME TypeInv, Timer PROVE TypeInv'
  OBVIOUS
<1> USE EngineAssumption, ClientAssumption DEF TypeInv, TypeOK, Handlers, ringVars, rateVars,
        trigVars, runVars, copyVars, serverVars, sinceVars, Completes, InTime, LagBound,
        NextDown
<1>1. CASE TimerStop
  BY <1>1 DEF TimerStop
<1>2. CASE TimerPaused
  BY <1>2 DEF TimerPaused
<1>3. CASE TimerSkip
  BY <1>3 DEF TimerSkip
<1>4. CASE TimerReceive
  BY <1>4 DEF TimerReceive
<1>5. ASSUME NEW crossed \in BOOLEAN, TimerSample(crossed) PROVE TypeInv'
  <2>1. PrerollRows + (ntaps \div 2) \in Nat
    <3>1. trig_preroll * nsamp \in Nat
      OBVIOUS
    <3>2. PrerollRows \in Nat
      <4> PrerollDen \in Nat \ {0}
        BY EngineAssumption, ClientAssumption DEF EngineAssumption, ClientAssumption
      <4> QED
        BY ONLY <3>1, PrerollDen \in Nat \ {0}, Quotient DEF PrerollRows
    <3>3. ntaps \div 2 \in Nat
      OBVIOUS
    <3>4. QED
      BY <3>2, <3>3
  <2>2. FrameStart(buffer_idx, nsamp) \in 0 .. MaxSamp - 1
    BY DEF FrameStart
  <2>3. NextRow(buffer_idx) \in 0 .. MaxSamp - 1
    BY DEF NextRow
  <2>4. TypeOK'
    <3>1. data' \in [0 .. MaxSamp - 1 -> Nat]
      BY <1>5 DEF TimerSample
    <3>2. buffer_idx' \in 0 .. MaxSamp - 1 /\ data_idx' \in -1 .. MaxSamp - 1
      BY <1>5, <2>2, <2>3 DEF TimerSample
    <3>3. frame_idx' \in Nat
      BY <1>5, <2>1 DEF TimerSample
    <3>4. valid' \in {0, 1} /\ read' \in {0, 1} /\ triggered' \in {0, 1}
      BY <1>5 DEF TimerSample
    <3>5. trig_state' \in {"WAIT", "GO", "DONE"} /\ tick' = "wait"
      BY <1>5 DEF TimerSample
    <3>6. clock' \in Nat /\ lag' \in Nat /\ fired' \in Nat
          /\ published' \in Nat /\ newer' \in BOOLEAN
      BY <1>5 DEF TimerSample
    <3>7. UNCHANGED << rateVars, ndown, nsamp, trigger, trig_preroll, ntaps,
                       runVars, serverVars, copyVars, acked, restart >>
      BY <1>5 DEF TimerSample
    <3>8. /\ started' \in {0, 1} /\ idown' \in Nat /\ ndown' \in Nat /\ dac_idown' \in Nat
          /\ nsamp' \in Frames /\ trigger' \in {0, 1}
          /\ trig_preroll' \in Nat /\ ntaps' \in {0, Taps}
          /\ go' \in {-1, 0, 1} /\ linked' \in {0, 1} /\ fg_link' \in {0, 1}
      BY <3>7
    <3>9. /\ op' \in Commands \cup {"none"} /\ pc' \in ServerPlaces /\ arg' \in Nat
          /\ (op' = "set_nsamp" /\ pc' # "idle" => arg' \in Frames)
          /\ go_bak' \in {-1, 0, 1} /\ retval' \in {0, 1}
          /\ want' \in 0 .. MaxSamp /\ row' \in -1 .. MaxSamp - 1
          /\ copied' \in Seq(Nat \cup {Garbage}) /\ acked' \in Nat \cup {Garbage}
          /\ restart' \in Nat
      BY <3>7
    <3>10. QED
      BY ONLY <3>1, <3>2, <3>3, <3>4, <3>5, <3>6, <3>8, <3>9 DEF TypeOK
  <2>5. Handlers'
    BY <1>5 DEF TimerSample
  <2>6. QED
    BY <2>4, <2>5
<1>6. QED
  BY <1>1, <1>2, <1>3, <1>4, <1>5 DEF Timer

LEMMA CopyType == TypeInv /\ (CopyRow \/ ReturnData) => TypeInv'
<1> SUFFICES ASSUME TypeInv, CopyRow \/ ReturnData PROVE TypeInv'
  OBVIOUS
<1> USE EngineAssumption, ClientAssumption DEF TypeInv, TypeOK, Handlers, ringVars, rateVars,
        trigVars, runVars, serverVars, sinceVars
<1>1. CASE CopyRow
  <2>1. Fetch(row) \in Nat \cup {Garbage}
    BY DEF Fetch
  <2>2. copied' \in Seq(Nat \cup {Garbage})
    BY <1>1, <2>1 DEF CopyRow
  <2>3. row' \in -1 .. MaxSamp - 1
    BY <1>1 DEF CopyRow, NextRow
  <2>4. QED
    BY <1>1, <2>2, <2>3 DEF CopyRow, ServerPlaces, Stores
<1>2. CASE ReturnData
  <2>1. newer' \in BOOLEAN
    BY <1>2 DEF ReturnData
  <2>2. retval' \in {0, 1} /\ pc' \in ServerPlaces /\ want' \in 0 .. MaxSamp
        /\ row' \in -1 .. MaxSamp - 1 /\ lag' \in Nat
    BY <1>2 DEF ReturnData, ServerPlaces
  <2>3. Handlers'
    BY <1>2 DEF ReturnData
  <2>4. TypeOK'
    BY <1>2, <2>1, <2>2 DEF ReturnData
  <2>5. QED
    BY <2>3, <2>4
<1>3. QED
  BY <1>1, <1>2

\* A command starts a handler or completes in one step.
LEMMA CommandType == TypeInv /\ Command => TypeInv'
<1> SUFFICES ASSUME TypeInv, Command PROVE TypeInv'
  OBVIOUS
<1> USE EngineAssumption, ClientAssumption DEF TypeInv, TypeOK, Handlers, ServerPlaces, Stores,
        Accept, Notified, ringVars, rateVars, trigVars, runVars, serverVars,
        copyVars, sinceVars
<1>1. CASE CheckData
  BY <1>1 DEF CheckData
<1>2. CASE SayReady
  <2>1. copied # << >> => copied[Len(copied)] \in Nat \cup {Garbage}
    OBVIOUS
  <2>2. acked' \in Nat \cup {Garbage} /\ copied' \in Seq(Nat \cup {Garbage})
    BY <1>2, <2>1 DEF SayReady
  <2>3. QED
    BY <1>2, <2>2 DEF SayReady
<1>3. CASE TriggerOff
  BY <1>3 DEF TriggerOff
<1>4. CASE StopAcq
  BY <1>4 DEF StopAcq
<1>5. ASSUME NEW n \in Frames, GetData(n) PROVE TypeInv'
  <2>1. newer' \in BOOLEAN
    BY <1>5 DEF GetData
  <2>2. want' \in 0 .. MaxSamp /\ copied' \in Seq(Nat \cup {Garbage})
    BY <1>5 DEF GetData
  <2>3. QED
    BY <1>5, <2>1, <2>2 DEF GetData
<1>6. ASSUME NEW n \in Frames, SetNsamp(n) PROVE TypeInv'
  BY <1>6 DEF SetNsamp
<1>7. ASSUME NEW n \in Downs, SetNdown(n) PROVE TypeInv'
  BY <1>7 DEF SetNdown
<1>8. ASSUME NEW p \in {0, 1}, Pause(p) PROVE TypeInv'
  BY <1>8 DEF Pause
<1>9. ASSUME NEW l \in {0, 1}, Link2Meas(l) PROVE TypeInv'
  BY <1>9 DEF Link2Meas
<1>10. ASSUME NEW p \in Prerolls, TriggerOn(p) PROVE TypeInv'
  BY <1>10 DEF TriggerOn
<1>11. QED
  BY <1>1, <1>2, <1>3, <1>4, <1>5, <1>6, <1>7, <1>8, <1>9, <1>10 DEF Command

LEMMA StoreType == TypeInv /\ Store => TypeInv'
<1> SUFFICES ASSUME TypeInv, Store PROVE TypeInv'
  OBVIOUS
<1> USE EngineAssumption, ClientAssumption DEF TypeInv, TypeOK, Handlers, copyVars
<1>1. NextStore \in ServerPlaces
  BY DEF NextStore, StoreAfter, ServerPlaces, Stores, Store
<1>2. nsamp' \in Frames
  BY DEF Store
<1>3. op = "set_nsamp" /\ NextStore # "idle" => arg' \in Frames
  BY DEF Store, Stores
<1>4. arg' \in Nat /\ ndown' \in Nat /\ trig_preroll' \in Nat /\ clock' \in Nat
      /\ restart' \in Nat
  BY DEF Store
<1>5. TypeOK'
  BY <1>1, <1>2, <1>3, <1>4 DEF Store, Notified
<1>6. Handlers'
  <2>1. pc \in Stores /\ pc' = NextStore /\ op' = op
    BY DEF Store
  <2>2. QED
    BY ONLY <2>1, Handlers DEF Handlers, Stores, NextStore, StoreAfter
<1>7. QED
  BY <1>5, <1>6

LEMMA StepType == TypeInv /\ [Next]_vars => TypeInv'
<1> SUFFICES ASSUME TypeInv, [Next]_vars PROVE TypeInv'
  OBVIOUS
<1>1. CASE Timer
  BY <1>1, TimerType
<1>2. CASE Command
  BY <1>2, CommandType
<1>3. CASE CopyRow \/ ReturnData
  BY <1>3, CopyType
<1>4. CASE TriggerWake
  BY <1>4 DEF TriggerWake, TypeInv, TypeOK, Handlers, ServerPlaces, Stores, ringVars,
       rateVars, trigVars, runVars, copyVars, sinceVars
<1>5. CASE Store
  BY <1>5, StoreType
<1>6. CASE UNCHANGED vars
  BY <1>6 DEF vars, TypeInv, TypeOK, Handlers, ServerPlaces, Stores, ringVars,
       rateVars, trigVars, runVars, serverVars, copyVars, sinceVars
<1>7. QED
  BY <1>1, <1>2, <1>3, <1>4, <1>5, <1>6 DEF Next, Server, Ended

THEOREM AlwaysTypeInv == Spec => []TypeInv
  BY InitType, StepType, PTL DEF Spec

\* The globals keep their types, whatever the clients send and however the threads
\* interleave; data_idx and row may be -1.
THEOREM TypeCorrect == Spec => []TypeOK
  BY AlwaysTypeInv, PTL DEF TypeInv

----------------------------------------------------------------------------
(* Arithmetic of the ring. *)

RingRows == 0 .. MaxSamp - 1

LEMMA BackInRing ==
  ASSUME NEW i \in RingRows, NEW k \in 0 .. MaxSamp
  PROVE  Back(i, k) \in RingRows
  BY EngineAssumption, ClientAssumption DEF RingRows, Back

\* A row is one sample further back after the next sample.
LEMMA BackNext ==
  ASSUME NEW i \in RingRows, NEW k \in RingRows
  PROVE  Back(NextRow(i), k + 1) = Back(i, k)
  BY EngineAssumption, ClientAssumption DEF RingRows, Back, NextRow

LEMMA NextBack ==
  ASSUME NEW i \in RingRows, NEW k \in 1 .. MaxSamp
  PROVE  NextRow(Back(i, k)) = Back(i, k - 1)
  BY EngineAssumption, ClientAssumption DEF RingRows, Back, NextRow

LEMMA BackOther ==
  ASSUME NEW i \in RingRows, NEW k \in 1 .. MaxSamp - 1
  PROVE  Back(i, k) # i
  BY EngineAssumption, ClientAssumption DEF RingRows, Back

LEMMA FrameStartBack ==
  ASSUME NEW i \in RingRows, NEW n \in 1 .. MaxSamp
  PROVE  FrameStart(i, n) = Back(NextRow(i), n)
  BY EngineAssumption, ClientAssumption DEF RingRows, Back, NextRow, FrameStart

LEMMA FrameRowBack ==
  ASSUME NEW i \in RingRows, NEW m \in 1 .. MaxSamp, NEW k \in 0 .. m - 1,
         data_idx = Back(i, m)
  PROVE  FrameRow(k) = Back(i, m - k)
  BY EngineAssumption, ClientAssumption DEF RingRows, Back, FrameRow

\* Rows after the step, for an m before it.
NextRows(m) == \A k \in 1 .. m : data'[Back(buffer_idx', k)] = clock' + 1 - k

\* A sample extends the rows known to hold the last samples by one.
LEMMA RowsStep ==
  ASSUME TypeOK, NEW m \in 0 .. MaxSamp - 1, Rows(m),
         data' = [data EXCEPT ![buffer_idx] = clock + 1],
         buffer_idx' = NextRow(buffer_idx), clock' = clock + 1
  PROVE  NextRows(m + 1)
<1> USE EngineAssumption, ClientAssumption
<1>1. buffer_idx \in RingRows /\ data \in [RingRows -> Nat] /\ clock \in Nat
  BY DEF TypeOK, RingRows
<1>2. ASSUME NEW k \in 1 .. m + 1
      PROVE  data'[Back(buffer_idx', k)] = clock' + 1 - k
  <2>1. Back(buffer_idx', k) = Back(buffer_idx, k - 1)
    BY <1>1, BackNext DEF RingRows
  <2>2. CASE k = 1
    <3>1. Back(buffer_idx, 0) = buffer_idx
      BY <1>1 DEF RingRows, Back
    <3>2. QED
      BY <1>1, <2>1, <2>2, <3>1
  <2>3. CASE k # 1
    <3>1. k - 1 \in 1 .. m /\ k - 1 \in 1 .. MaxSamp - 1
      BY <2>3
    <3>2. Back(buffer_idx, k - 1) \in RingRows /\ Back(buffer_idx, k - 1) # buffer_idx
      BY <1>1, <3>1, BackInRing, BackOther
    <3>3. data[Back(buffer_idx, k - 1)] = clock + 1 - (k - 1)
      BY <3>1 DEF Rows
    <3>4. QED
      BY <1>1, <2>1, <3>2, <3>3
  <2>4. QED
    BY <2>2, <2>3
<1>3. QED
  BY <1>2 DEF NextRows

----------------------------------------------------------------------------
(* The link of the function generator. *)

LEMMA CommandLink == TypeInv /\ LinkInv /\ Command => LinkInv'
<1> SUFFICES ASSUME TypeInv, LinkInv, Command PROVE LinkInv'
  OBVIOUS
<1> USE DEF LinkInv, Accept, Notified, runVars
<1>1. CASE CheckData
  BY <1>1 DEF CheckData
<1>2. CASE SayReady
  BY <1>2 DEF SayReady
<1>3. CASE TriggerOff
  BY <1>3 DEF TriggerOff
<1>4. CASE StopAcq
  BY <1>4 DEF StopAcq
<1>5. ASSUME NEW n \in Frames, GetData(n) \/ SetNsamp(n) PROVE LinkInv'
  BY <1>5 DEF GetData, SetNsamp
<1>6. ASSUME NEW n \in Downs, SetNdown(n) PROVE LinkInv'
  BY <1>6 DEF SetNdown
<1>7. ASSUME NEW p \in {0, 1}, Pause(p) PROVE LinkInv'
  BY <1>7 DEF Pause
<1>8. ASSUME NEW l \in {0, 1}, Link2Meas(l) PROVE LinkInv'
  BY <1>8 DEF Link2Meas
<1>9. ASSUME NEW p \in Prerolls, TriggerOn(p) PROVE LinkInv'
  BY <1>9 DEF TriggerOn
<1>10. QED
  BY <1>1, <1>2, <1>3, <1>4, <1>5, <1>6, <1>7, <1>8, <1>9 DEF Command

LEMMA StepLink == TypeInv /\ LinkInv /\ [Next]_vars => LinkInv'
<1> SUFFICES ASSUME TypeInv, LinkInv, [Next]_vars PROVE LinkInv'
  OBVIOUS
<1> USE DEF LinkInv, runVars
<1>1. CASE Timer
  BY <1>1 DEF Timer, TimerStop, TimerPaused, TimerSkip, TimerReceive, TimerSample
<1>2. CASE Command
  BY <1>2, CommandLink
<1>3. CASE CopyRow \/ ReturnData \/ TriggerWake
  BY <1>3 DEF CopyRow, ReturnData, TriggerWake
<1>4. CASE Store
  BY <1>4 DEF Store
<1>5. CASE UNCHANGED vars
  BY <1>5 DEF vars
<1>6. QED
  BY <1>1, <1>2, <1>3, <1>4, <1>5 DEF Next, Server, Ended

\* Between two commands the function generator is linked to the measurement
\* exactly when that runs and the client asked for the link: whatever commands
\* came in which order, each tells it (fg_notify in tde_pause, tde_trigger_on,
\* tde_link2meas and tde_stop_acq).
THEOREM LinkIsKept == Spec => []LinkFollowsMeasurement
<1>1. Init => LinkInv
  BY DEF Init, LinkInv, Notified
<1>2. LinkInv => LinkFollowsMeasurement
  BY DEF LinkInv, Notified, LinkFollowsMeasurement
<1>3. QED
  BY <1>1, <1>2, InitType, StepType, StepLink, PTL DEF Spec

----------------------------------------------------------------------------
(* The halt under Simulink. *)

LEMMA StepHalt == TypeInv /\ HaltInv /\ [Next]_vars => HaltInv'
<1> SUFFICES ASSUME TypeInv, HaltInv, [Next]_vars, IsSimulink, tick' = "receive"
             PROVE  go' = 1
  BY DEF HaltInv
<1> USE DEF HaltInv, runVars
<1>1. CASE Timer
  BY <1>1 DEF Timer, TimerStop, TimerPaused, TimerSkip, TimerReceive, TimerSample,
     Measures, TypeInv, TypeOK
<1>2. CASE Server
  <2>1. tick' = tick
    BY <1>2
       DEF Server, Command, CheckData, SayReady, TriggerOff, StopAcq, GetData, SetNsamp,
       SetNdown, Pause, Link2Meas, TriggerOn, CopyRow, ReturnData, TriggerWake, Store
  <2>2. QED
    BY <1>2, <2>1 DEF Server
<1>3. CASE UNCHANGED vars
  BY <1>3 DEF vars
<1>4. QED
  BY <1>1, <1>2, <1>3 DEF Next, Ended

\* Only a sample writes a row.
LEMMA OnlySamplesWrite ==
  ASSUME [Next]_vars, data' # data
  PROVE  tick = "receive"
<1> USE DEF ringVars
<1>1. CASE Timer
  BY <1>1 DEF Timer, TimerStop, TimerPaused, TimerSkip, TimerReceive, TimerSample
<1>2. CASE Server
  BY <1>2
     DEF Server, Command, CheckData, SayReady, TriggerOff, StopAcq, GetData, SetNsamp,
     SetNdown, Pause, Link2Meas, TriggerOn, CopyRow, ReturnData, TriggerWake, Store
<1>3. CASE UNCHANGED vars
  BY <1>3 DEF vars
<1>4. QED
  BY <1>1, <1>2, <1>3 DEF Next, Ended

\* Under Simulink no row is written from where tde_trigger_on halts the measurement
\* until it lets it go on: its stores never meet a callback that samples.
THEOREM HaltIsKept ==
  ASSUME IsSimulink
  PROVE  Spec => HaltStopsSampling
<1>1. Init => HaltInv
  BY DEF Init, HaltInv
<1>2. TypeInv /\ HaltInv /\ [Next]_vars
      => [op = "trigger_on" /\ pc # "idle" /\ go = 0 => data' = data]_vars
  BY OnlySamplesWrite DEF HaltInv
<1>3. QED
  BY <1>1, <1>2, InitType, StepType, StepHalt, PTL DEF Spec, HaltStopsSampling

----------------------------------------------------------------------------
(* The trigger. *)

Busy == pc \notin {"idle", "sleep", "exited"}

LEMMA QuotientAtLeast ==
  ASSUME NEW a \in Nat, NEW n \in Nat, NEW d \in Nat \ {0}, a >= n * d
  PROVE  a \div d >= n
<1> DEFINE q == a \div d
<1>1. q \in Nat /\ a < (q + 1) * d
  OBVIOUS
<1> HIDE DEF q
<1>2. q < n => (q + 1) * d <= n * d
  BY <1>1
<1>3. n * d \in Nat /\ (q + 1) * d \in Nat
  BY <1>1
<1> QED
  BY <1>1, <1>2, <1>3 DEF q

\* The trigger is not enabled before the buffer holds a frame, and it leaves at
\* most a frame before it.
LEMMA TriggerRows ==
  ASSUME TypeInv
  PROVE  /\ nsamp \in 1 .. MaxSamp /\ MaxSamp \in Nat \ {0}
         /\ TriggerRow \in Nat /\ RowsBefore \in 0 .. nsamp - 1
         /\ GoRow \in Nat /\ GoRow >= nsamp
<1>1. /\ nsamp \in 1 .. MaxSamp /\ MaxSamp \in Nat \ {0} /\ trig_preroll \in Nat
      /\ ntaps \in Nat /\ PrerollDen \in Nat \ {0}
  BY EngineAssumption, ClientAssumption DEF TypeInv, TypeOK
<1>2. trig_preroll * nsamp \in Nat /\ (trig_preroll + PrerollDen) * nsamp \in Nat
  BY <1>1
<1>3. PrerollRows \in Nat
  BY <1>1, <1>2, Quotient DEF PrerollRows
<1>4. TriggerRow \in Nat
  BY <1>1, <1>3 DEF TriggerRow
<1>5. RowsBefore \in 0 .. nsamp - 1
  BY <1>1, <1>4 DEF RowsBefore, TriggerRow
<1>6. (trig_preroll + PrerollDen) * nsamp >= nsamp * PrerollDen
  BY <1>1
<1> DEFINE rows == ((trig_preroll + PrerollDen) * nsamp) \div PrerollDen
<1>7. rows \in Nat
  BY <1>1, <1>2, Quotient
<1>8. rows >= nsamp
  BY <1>1, <1>2, <1>6, QuotientAtLeast
<1> HIDE DEF rows
<1>9. GoRow = IF rows > ntaps THEN rows ELSE ntaps
  BY DEF GoRow, rows
<1> QED
  BY <1>1, <1>4, <1>5, <1>7, <1>8, <1>9

\* The trigger is enabled, now or before.
Ready == trigger = 1 /\ (trig_state = "GO" \/ (trig_state = "WAIT" /\ buffer_idx >= GoRow))

\* What a sample does to the trigger and its frame.
LEMMA SampleTrigger ==
  ASSUME TypeInv, NEW crossed \in BOOLEAN, TimerSample(crossed)
  PROVE  /\ UNCHANGED << nsamp, trigger, trig_preroll, ntaps, op, pc, go, restart >>
         /\ published' \in {published, clock + 1} /\ fired' \in {fired, clock + 1}
         /\ tick = "receive" /\ tick' = "wait"
         /\ clock' = clock + 1 /\ buffer_idx' = NextRow(buffer_idx)
         /\ data' = [data EXCEPT ![buffer_idx] = clock + 1]
         /\ Busy => lag < LagBound /\ lag' = lag + 1
         /\ trig_state' # "WAIT" => trig_state # "WAIT" \/ Ready
         /\ triggered' = 1 => triggered = 1 \/ trigger = 1
         /\ fired' # fired => Ready /\ buffer_idx # 0
         /\ \/ /\ Ready /\ fired' = clock + 1 /\ TriggerRow >= nsamp - 1
               /\ triggered' = 0 /\ frame_idx' = 0 /\ data_idx' = FrameStart(buffer_idx, nsamp)
               /\ published' = clock + 1
            \/ /\ Ready /\ fired' = clock + 1 /\ ~(TriggerRow >= nsamp - 1)
               /\ triggered' = 1 /\ trig_state' = "DONE" /\ frame_idx' = TriggerRow + 1
            \/ /\ triggered = 1 /\ trigger = 1 /\ fired' = fired /\ frame_idx >= nsamp - 1
               /\ triggered' = 0 /\ frame_idx' = 0 /\ data_idx' = FrameStart(buffer_idx, nsamp)
               /\ published' = clock + 1
            \/ /\ triggered = 1 /\ fired' = fired /\ ~(frame_idx >= nsamp - 1)
               /\ triggered' = 1 /\ frame_idx' = frame_idx + 1
               /\ trig_state = "DONE" => trig_state' = "DONE"
            \/ triggered = 1 /\ trigger # 1
            \/ /\ triggered # 1 /\ triggered' # 1 /\ fired' = fired
               /\ frame_idx' \in {0, frame_idx + 1}
               /\ trigger = 1 => frame_idx' = frame_idx + 1
<1> USE DEF TypeInv, TypeOK
<1>1. /\ UNCHANGED << nsamp, trigger, trig_preroll, ntaps, op, pc, go, restart >>
      /\ tick = "receive" /\ tick' = "wait"
      /\ clock' = clock + 1 /\ buffer_idx' = NextRow(buffer_idx)
      /\ data' = [data EXCEPT ![buffer_idx] = clock + 1]
  BY DEF TimerSample, runVars, serverVars
<1>2. Busy => lag < LagBound /\ lag' = lag + 1
  BY DEF TimerSample, Busy, Completes, InTime
<1> DEFINE state == IF trigger = 1 /\ trig_state = "WAIT" /\ buffer_idx >= GoRow
                    THEN "GO" ELSE trig_state
           fires == trigger = 1 /\ state = "GO" /\ crossed /\ buffer_idx # 0
           frame == IF fires THEN TriggerRow ELSE frame_idx
           hit   == IF fires THEN 1 ELSE triggered
           full  == frame >= nsamp - 1
           publish == full /\ (trigger = 0 \/ hit = 1)
           rearm == full /\ trigger = 1 /\ hit = 1
<1>3. /\ trig_state' = IF rearm THEN "WAIT" ELSE IF fires THEN "DONE" ELSE state
      /\ triggered' = IF rearm THEN 0 ELSE hit
      /\ fired' = IF fires THEN clock + 1 ELSE fired
      /\ published' = IF publish THEN clock + 1 ELSE published
      /\ data_idx' = IF publish THEN FrameStart(buffer_idx, nsamp) ELSE data_idx
      /\ frame_idx' = IF publish THEN 0 ELSE frame + 1
  BY DEF TimerSample, TriggerRow
<1>4. state # "WAIT" => trig_state # "WAIT" \/ Ready
  BY DEF Ready
<1>5. fires => Ready /\ buffer_idx # 0 /\ trigger = 1
  BY DEF Ready
<1>6. trig_state = "DONE" => state = "DONE"
  OBVIOUS
<1>7. trigger \in {0, 1} /\ triggered \in {0, 1}
  OBVIOUS
<1> HIDE DEF TypeInv, TypeOK, state, fires
<1>8. CASE fires
  BY <1>1, <1>2, <1>3, <1>4, <1>5, <1>6, <1>7, <1>8
<1>9. CASE ~fires
  BY <1>1, <1>2, <1>3, <1>4, <1>5, <1>6, <1>7, <1>9
<1> QED
  BY <1>8, <1>9

\* The steps that leave the ring and the trigger alone, or disarm it.
Still ==
  /\ UNCHANGED << data, buffer_idx, frame_idx, nsamp, trig_state, trig_preroll, ntaps,
                  clock, fired, restart, published >>
  /\ UNCHANGED << trigger, triggered >> \/ (trigger' = 0 /\ triggered' = 0)
  /\ \/ pc' = pc /\ op' = op /\ lag' >= lag /\ (pc \in Stores => lag' <= MaxStoreLag)
     \/ /\ pc \notin Stores
        /\ pc' \notin Arming \cup {"trig_preroll", "ntaps", "go"}
        /\ pc' \in Stores => lag' = 0
        /\ op' \in {"pause", "set_nsamp", "set_ndown"} /\ pc' \in Stores => trigger' = 0

LEMMA TimerStill ==
  ASSUME TypeInv, UnarmedInv, TimerStop \/ TimerPaused \/ TimerSkip \/ TimerReceive
  PROVE  Still
<1> USE DEF Still, ringVars, trigVars, serverVars, sinceVars
<1>0. lag \in Nat /\ (pc \in Stores => lag <= MaxStoreLag)
  BY DEF TypeInv, TypeOK, UnarmedInv
<1>1. CASE TimerStop \/ TimerReceive
  <2>1. lag' = lag /\ lag' >= lag
    BY <1>0, <1>1 DEF TimerStop, TimerReceive
  <2> QED
    BY <1>0, <1>1, <2>1 DEF TimerStop, TimerReceive
<1>2. CASE TimerPaused \/ TimerSkip
  <2>1. lag' = lag \/ (lag' = lag + 1 /\ lag < LagBound)
    BY <1>2 DEF TimerPaused, TimerSkip, Completes, InTime
  <2>2. pc \in Stores => LagBound = MaxStoreLag
    BY DEF Stores, LagBound
  <2>3. lag' >= lag /\ (pc \in Stores => lag' <= MaxStoreLag)
    BY <2>1, <2>2, EngineAssumption DEF TypeInv, TypeOK, UnarmedInv
  <2> QED
    BY <1>2, <2>3 DEF TimerPaused, TimerSkip
<1> QED
  BY <1>1, <1>2

LEMMA CommandStill ==
  ASSUME TypeInv, ArmingClients, Command
  PROVE  Still
<1> USE DEF Still, Accept, ringVars, trigVars, sinceVars, Stores, Arming, ArmingClients
<1>1. CASE CheckData \/ SayReady
  BY <1>1 DEF CheckData, SayReady
<1>2. CASE TriggerOff
  BY <1>2 DEF TriggerOff
<1>3. CASE StopAcq
  BY <1>3 DEF StopAcq
<1>4. ASSUME NEW n \in Frames, GetData(n) PROVE Still
  BY <1>4 DEF GetData
<1>5. ASSUME NEW n \in Frames, SetNsamp(n) PROVE Still
  BY <1>5 DEF SetNsamp
<1>6. ASSUME NEW n \in Downs, SetNdown(n) PROVE Still
  BY <1>6 DEF SetNdown
<1>7. ASSUME NEW p \in {0, 1}, Pause(p) PROVE Still
  BY <1>7 DEF Pause
<1>8. ASSUME NEW l \in {0, 1}, Link2Meas(l) PROVE Still
  BY <1>8 DEF Link2Meas
<1>9. ASSUME NEW p \in Prerolls, TriggerOn(p) PROVE Still
  BY <1>9 DEF TriggerOn
<1> QED
  BY <1>1, <1>2, <1>3, <1>4, <1>5, <1>6, <1>7, <1>8, <1>9 DEF Command

LEMMA CopyStill ==
  ASSUME TypeInv, CopyRow \/ ReturnData \/ TriggerWake
  PROVE  Still
<1> USE DEF Still, ringVars, trigVars, sinceVars, Stores, Arming, TypeInv, Handlers
<1>1. CASE CopyRow
  BY <1>1 DEF CopyRow
<1>2. CASE ReturnData
  BY <1>2 DEF ReturnData
<1>3. CASE TriggerWake
  BY <1>3 DEF TriggerWake
<1> QED
  BY <1>1, <1>2, <1>3

LEMMA StutterStill == TypeInv /\ UnarmedInv /\ UNCHANGED vars => Still
  BY
     DEF vars, Still, UnarmedInv, TypeInv, TypeOK, ringVars, trigVars, serverVars, sinceVars

\* A step is a sample, a store or leaves all this alone.
LEMMA StepKinds ==
  ASSUME TypeInv, UnarmedInv, ArmingClients, [Next]_vars
  PROVE  (\E crossed \in BOOLEAN : TimerSample(crossed)) \/ Store \/ Still
  BY TimerStill, CommandStill, CopyStill, StutterStill DEF Next, Timer, Server, Ended

LEMMA InitTrigger == Init => UnarmedInv /\ ArmedInv /\ PastInv /\ PlacedInv
  BY
     DEF Init, UnarmedInv, ArmedInv, PastInv, PlacedInv, SinceRows, Rows, Arming, Armed, Stores

LEMMA ArmingStores == Arming \cup Armed \subseteq Stores /\ "idle" \notin Arming \cup Armed
  BY DEF Arming, Armed, Stores

LEMMA SumGrows ==
  ASSUME NEW a \in Nat, NEW b \in Nat, NEW c \in Nat, NEW d \in Nat, a <= b + c, c <= d
  PROVE  a <= b + d
  OBVIOUS

LEMMA StillArmed ==
  ASSUME TypeInv, TypeInv', UnarmedInv, ArmedInv, PastInv, Still
  PROVE  UnarmedInv' /\ ArmedInv' /\ PastInv'
<1>1. /\ UNCHANGED << buffer_idx, frame_idx, nsamp, trig_state, clock, fired, restart, published >>
      /\ (trigger' = 1 => trigger = 1) /\ \A m : Rows(m)' <=> Rows(m)
  BY DEF Still, Rows
<1>2. pc' \in Arming \cup Armed => pc' = pc /\ lag' >= lag
  BY DEF Still, Arming, Armed, Stores
<1>3. UnarmedInv'
  BY EngineAssumption DEF Still, UnarmedInv
<1>4. ArmedInv'
  <2>1. pc' \in Arming \cup Armed => buffer_idx' <= lag' /\ clock' <= restart' + lag'
    <3>1. /\ buffer_idx \in Nat /\ lag \in Nat /\ lag' \in Nat /\ clock \in Nat
          /\ restart \in Nat
      BY EngineAssumption DEF TypeInv, TypeOK
    <3>2. pc \in Arming \cup Armed => buffer_idx <= lag /\ clock <= restart + lag
      BY DEF ArmedInv
    <3> SUFFICES ASSUME pc' \in Arming \cup Armed
                 PROVE  buffer_idx' <= lag' /\ clock' <= restart' + lag'
      OBVIOUS
    <3>3. buffer_idx <= lag /\ clock <= restart + lag /\ lag <= lag'
      BY <1>2, <3>1, <3>2
    <3>4. buffer_idx' = buffer_idx /\ clock' = clock /\ restart' = restart
      BY <1>1
    <3>5. clock <= restart + lag'
      BY <3>1, <3>3, SumGrows
    <3>6. buffer_idx <= lag'
      BY <3>1, <3>3
    <3> QED
      BY <3>4, <3>5, <3>6
  <2>2. trigger' = 1 \/ pc' = "trigger" =>
          restart' + buffer_idx' <= clock' /\ SinceRows'
    BY <1>1, <1>2 DEF ArmedInv, Arming, SinceRows
  <2>3. pc' \notin Arming => pc \notin Arming
    BY DEF Still, Arming, Stores
  <2>4. trigger' = 1 /\ trig_state' # "WAIT" /\ pc' \notin Arming =>
          restart' + nsamp' - 1 <= clock'
    BY <1>1, <2>3 DEF ArmedInv
  <2> QED
    BY <2>1, <2>2, <2>4 DEF ArmedInv
<1>5. PastInv'
  BY <1>1 DEF PastInv
<1> QED
  BY <1>3, <1>4, <1>5

\* While tde_trigger_on arms the trigger the one callback it lets in writes the first
\* row, on which nothing triggers.
LEMMA SampleArming ==
  ASSUME TypeInv, ArmedInv, ArmingClients, NEW crossed \in BOOLEAN, TimerSample(crossed),
         pc \in Arming \cup Armed
  PROVE  buffer_idx = 0 /\ clock <= restart /\ MaxStoreLag = 1
<1>1. lag < MaxStoreLag
  BY SampleTrigger DEF Busy, LagBound, Arming, Armed
<1>2. /\ lag \in Nat /\ MaxStoreLag \in Nat /\ MaxStoreLag <= 1 /\ buffer_idx \in Nat
      /\ clock \in Nat /\ restart \in Nat
  BY EngineAssumption DEF TypeInv, TypeOK, ArmingClients
<1>3. buffer_idx <= lag /\ clock <= restart + lag
  BY DEF ArmedInv
<1> QED
  BY <1>1, <1>2, <1>3

\* When the trigger is enabled the ring holds a frame, unless tde_trigger_on has
\* just restarted it.
LEMMA ReadySince ==
  ASSUME TypeInv, ArmedInv, ArmingClients, NEW crossed \in BOOLEAN, TimerSample(crossed),
         Ready, buffer_idx # 0 \/ pc \notin Arming
  PROVE  restart + nsamp - 1 <= clock
<1>1. pc \notin Arming
  BY SampleArming
<1>2. CASE trig_state = "GO"
  BY <1>1, <1>2 DEF Ready, ArmedInv
<1>3. CASE trig_state = "WAIT" /\ buffer_idx >= GoRow
  <2>1. restart + buffer_idx <= clock
    BY DEF Ready, ArmedInv
  <2>2. /\ buffer_idx \in Nat /\ buffer_idx >= nsamp /\ nsamp \in Nat /\ clock \in Nat
        /\ restart \in Nat
    BY <1>3, TriggerRows, EngineAssumption DEF TypeInv, TypeOK
  <2> QED
    BY <2>1, <2>2
<1> QED
  BY <1>2, <1>3 DEF Ready

LEMMA ReadyRows ==
  ASSUME TypeInv, ArmedInv, ArmingClients, NEW crossed \in BOOLEAN, TimerSample(crossed),
         Ready, buffer_idx # 0 \/ pc \notin Arming
  PROVE  Rows(nsamp - 1)
<1>1. restart + nsamp - 1 <= clock
  BY ReadySince
<1>2. nsamp - 1 \in 0 .. MaxSamp /\ restart + (nsamp - 1) <= clock
  BY <1>1, TriggerRows DEF TypeInv, TypeOK
<1>3. SinceRows
  BY DEF Ready, ArmedInv
<1> QED
  BY <1>2, <1>3 DEF SinceRows

LEMMA SampleArmed ==
  ASSUME TypeInv, UnarmedInv, ArmedInv, PastInv, ArmingClients,
         NEW crossed \in BOOLEAN, TimerSample(crossed)
  PROVE  UnarmedInv' /\ ArmedInv' /\ PastInv'
<1>1. /\ UNCHANGED << nsamp, trigger, op, pc, restart >>
      /\ clock' = clock + 1 /\ buffer_idx' = NextRow(buffer_idx)
      /\ data' = [data EXCEPT ![buffer_idx] = clock + 1]
      /\ Busy => lag < LagBound /\ lag' = lag + 1
      /\ trig_state' # "WAIT" => trig_state # "WAIT" \/ Ready
      /\ triggered' = 1 => triggered = 1 \/ trigger = 1
      /\ published' \in {published, clock + 1} /\ fired' \in {fired, clock + 1}
  BY SampleTrigger
<1>2. /\ buffer_idx \in 0 .. MaxSamp - 1 /\ nsamp \in 1 .. MaxSamp
      /\ MaxSamp \in Nat \ {0} /\ lag \in Nat /\ MaxStoreLag \in Nat
      /\ clock \in Nat /\ restart \in Nat /\ frame_idx \in Nat /\ TriggerRow \in Nat
      /\ published \in Nat /\ fired \in Nat
  BY EngineAssumption, TriggerRows DEF TypeInv, TypeOK
<1>3. ASSUME NEW m \in 0 .. MaxSamp - 1, Rows(m) PROVE NextRows(m + 1)
  BY <1>1, <1>3, RowsStep DEF TypeInv
<1>4. pc \in Stores => Busy /\ LagBound = MaxStoreLag
  BY DEF Busy, Stores, LagBound
<1>5. UnarmedInv'
  BY <1>1, <1>2, <1>4 DEF UnarmedInv
<1>6. pc \in Arming \cup Armed => buffer_idx' <= lag' /\ clock' <= restart + lag'
  <2>1. pc \in Arming \cup Armed => lag' = lag + 1
    BY <1>1, <1>4, ArmingStores
  <2> QED
    BY <1>1, <1>2, <2>1 DEF ArmedInv, NextRow
<1>7. trigger = 1 \/ pc = "trigger" => restart + buffer_idx' <= clock' /\ SinceRows'
  <2> SUFFICES ASSUME trigger = 1 \/ pc = "trigger"
               PROVE  restart + buffer_idx' <= clock' /\ SinceRows'
    OBVIOUS
  <2>1. restart + buffer_idx <= clock /\ SinceRows
    BY DEF ArmedInv
  <2>2. restart + buffer_idx' <= clock'
    BY <1>1, <1>2, <2>1 DEF NextRow
  <2>3. ASSUME NEW m \in 0 .. MaxSamp, restart + m <= clock' PROVE NextRows(m)
    <3>1. CASE m = 0
      BY <3>1 DEF NextRows
    <3>2. CASE m # 0
      <4>1. m - 1 \in 0 .. MaxSamp - 1 /\ m - 1 \in 0 .. MaxSamp /\ (m - 1) + 1 = m
            /\ restart + (m - 1) <= clock
        BY <1>1, <1>2, <2>3, <3>2
      <4>2. NextRows((m - 1) + 1)
        BY <1>3, <2>1, <4>1 DEF SinceRows
      <4> QED
        BY <4>1, <4>2
    <3> QED
      BY <3>1, <3>2
  <2> QED
    BY <1>1, <2>2, <2>3 DEF SinceRows, Rows, NextRows
<1>8. trigger = 1 /\ trig_state' # "WAIT" /\ pc \notin Arming => restart + nsamp - 1 <= clock'
  BY <1>1, <1>2, ReadySince DEF ArmedInv
<1>9. ArmedInv'
  BY <1>1, <1>6, <1>7, <1>8 DEF ArmedInv
<1>10. PastInv'
  <2>1. restart <= clock' /\ published' <= clock' /\ fired' <= clock'
    BY <1>1, <1>2 DEF PastInv
  <2>2. fired' = fired => frame_idx' \in {0, frame_idx + 1} \/ fired = clock + 1
    BY SampleTrigger DEF UnarmedInv
  <2>3. CASE fired' = fired
    BY <1>1, <1>2, <2>1, <2>2, <2>3 DEF PastInv
  <2>4. CASE fired' # fired
    <3>1. Ready /\ buffer_idx # 0
      BY <2>4, SampleTrigger
    <3>2. restart + nsamp - 1 <= clock
      BY <3>1, ReadySince
    <3>3. frame_idx' = 0 \/ (frame_idx' = TriggerRow + 1 /\ ~(TriggerRow >= nsamp - 1))
      BY <2>4, SampleTrigger DEF UnarmedInv
    <3> QED
      BY <1>1, <1>2, <2>1, <3>2, <3>3 DEF PastInv
  <2> QED
    BY <2>3, <2>4
<1> QED
  BY <1>5, <1>9, <1>10

\* What a store does to the ring and the trigger: of the handlers only
\* tde_trigger_on and tde_say_ready find one armed.
LEMMA StoreTrigger ==
  ASSUME TypeInv, UnarmedInv, Store
  PROVE  /\ UNCHANGED << data, op, fired, published >> /\ pc \in Stores /\ pc' = NextStore
         /\ frame_idx' \in {0, frame_idx} /\ clock' \in {clock, clock + 1}
         /\ restart' = IF pc = "buffer_idx" /\ op = "trigger_on" THEN clock ELSE restart
         /\ pc' # "idle" => lag' = lag
         /\ buffer_idx' = IF pc = "buffer_idx" THEN 0 ELSE buffer_idx
         /\ trigger' = IF pc = "trigger" THEN 1 ELSE trigger
         /\ triggered' = IF pc = "triggered" THEN 0 ELSE triggered
         /\ trig_state' = IF pc = "trig_state" THEN "WAIT" ELSE trig_state
         /\ trigger = 1 \/ pc = "trigger" =>
              /\ op \in {"trigger_on", "say_ready"} /\ pc # "frame_idx"
              /\ UNCHANGED << nsamp, clock, frame_idx >>
         /\ pc \notin {"trig_preroll", "ntaps"} => UNCHANGED << trig_preroll, ntaps >>
<1>1. /\ UNCHANGED << data, op, fired, published >> /\ pc \in Stores /\ pc' = NextStore
      /\ frame_idx' \in {0, frame_idx} /\ clock' \in {clock, clock + 1}
      /\ restart' = IF pc = "buffer_idx" /\ op = "trigger_on" THEN clock ELSE restart
      /\ pc' # "idle" => lag' = lag
      /\ buffer_idx' = IF pc = "buffer_idx" THEN 0 ELSE buffer_idx
      /\ trigger' = IF pc = "trigger" THEN 1 ELSE trigger
      /\ triggered' = IF pc = "triggered" THEN 0 ELSE triggered
      /\ trig_state' = IF pc = "trig_state" THEN "WAIT" ELSE trig_state
      /\ pc \notin {"trig_preroll", "ntaps"} => UNCHANGED << trig_preroll, ntaps >>
  BY DEF Store
<1>2. trigger = 1 \/ pc = "trigger" =>
        op \in {"trigger_on", "say_ready"} /\ pc \notin {"frame_idx", "nsamp", "idown", "ndown"}
  BY <1>1 DEF TypeInv, Handlers, UnarmedInv, Stores
<1>3. trigger = 1 \/ pc = "trigger" => UNCHANGED << nsamp, clock, frame_idx >>
  BY <1>2 DEF Store, BreaksRhythm
<1> QED
  BY <1>1, <1>2, <1>3

\* The way of tde_trigger_on through its stores.
LEMMA ArmingWay ==
  ASSUME TypeInv
  PROVE  /\ NextStore = "trigger" => pc = "buffer_idx" /\ op = "trigger_on"
         /\ NextStore = "triggered" => pc = "trigger"
         /\ NextStore = "trig_state" => pc = "triggered"
         /\ NextStore = "trig_preroll" => pc = "trig_state"
         /\ NextStore = "ntaps" => pc = "trig_preroll"
         /\ NextStore = "go" => pc = "ntaps"
         /\ pc = "trigger" => NextStore = "triggered"
         /\ pc = "triggered" => NextStore = "trig_state"
         /\ pc = "buffer_idx" /\ op = "trigger_on" => NextStore = "trigger"
         /\ pc = "buffer_idx" => op # "say_ready"
  BY DEF NextStore, StoreAfter, TypeInv, Handlers

LEMMA StoreArmed ==
  ASSUME TypeInv, UnarmedInv, ArmedInv, PastInv, Store
  PROVE  UnarmedInv' /\ ArmedInv' /\ PastInv'
<1>0. /\ clock \in Nat /\ lag \in Nat /\ restart \in Nat /\ fired \in Nat /\ published \in Nat
      /\ frame_idx \in Nat
  BY DEF TypeInv, TypeOK
<1>1. UnarmedInv'
  <2>1. pc' \in Stores => pc' # "idle"
    BY DEF Stores
  <2>2. pc = "trigger" => op = "trigger_on"
    BY DEF TypeInv, Handlers
  <2> QED
    BY <2>1, <2>2, StoreTrigger DEF UnarmedInv
<1>2. pc' \in Arming \cup Armed => buffer_idx' <= lag' /\ clock' <= restart' + lag'
  <2> SUFFICES ASSUME pc' \in Arming \cup Armed
               PROVE  buffer_idx' <= lag' /\ clock' <= restart' + lag'
    OBVIOUS
  <2>1. lag' = lag
    BY StoreTrigger, ArmingStores
  <2>2. CASE pc = "buffer_idx"
    <3>1. op = "trigger_on"
      BY <2>2, StoreTrigger, ArmingWay DEF Arming, Armed
    <3>2. clock' = clock
      BY <2>2 DEF Store, BreaksRhythm
    <3> QED
      BY <1>0, <2>1, <2>2, <3>1, <3>2, StoreTrigger
  <2>3. CASE pc # "buffer_idx"
    <3>1. pc \in Arming \cup Armed
      BY <2>3, StoreTrigger, ArmingWay DEF Arming, Armed
    <3>2. clock' = clock
      BY <3>1 DEF Store, BreaksRhythm, Arming, Armed
    <3> QED
      BY <2>1, <2>3, <3>1, <3>2, StoreTrigger DEF ArmedInv
  <2> QED
    BY <2>2, <2>3
<1>3. trigger' = 1 \/ pc' = "trigger" => restart' + buffer_idx' <= clock' /\ SinceRows'
  <2> SUFFICES ASSUME trigger' = 1 \/ pc' = "trigger"
               PROVE  restart' + buffer_idx' <= clock' /\ SinceRows'
    OBVIOUS
  <2>1. CASE pc = "buffer_idx"
    <3>1. op = "trigger_on"
      BY <2>1, StoreTrigger, ArmingWay
    <3>2. buffer_idx' = 0 /\ restart' = clock
      BY <2>1, <3>1, StoreTrigger
    <3>3. clock' = clock
      BY <2>1 DEF Store, BreaksRhythm
    <3>4. ASSUME NEW m \in 0 .. MaxSamp, restart' + m <= clock' PROVE m = 0
      BY <1>0, <3>2, <3>3, <3>4
    <3>5. Rows(0)'
      BY DEF Rows
    <3> QED
      BY <1>0, <3>2, <3>3, <3>4, <3>5 DEF SinceRows
  <2>2. CASE pc # "buffer_idx"
    <3>1. trigger = 1 \/ pc = "trigger"
      BY <2>2, StoreTrigger, ArmingWay
    <3>2. UNCHANGED << data, buffer_idx, clock, restart >>
      BY <2>2, <3>1, StoreTrigger
    <3>3. restart + buffer_idx <= clock /\ SinceRows
      BY <3>1 DEF ArmedInv
    <3> QED
      BY <3>2, <3>3 DEF SinceRows, Rows
  <2> QED
    BY <2>1, <2>2
<1>4. trigger' = 1 /\ trig_state' # "WAIT" /\ pc' \notin Arming =>
        restart' + nsamp' - 1 <= clock'
  <2> SUFFICES ASSUME trigger' = 1, trig_state' # "WAIT", pc' \notin Arming
               PROVE  restart' + nsamp' - 1 <= clock'
    OBVIOUS
  <2>1. pc \notin Arming /\ trigger = 1 /\ trig_state # "WAIT"
    BY StoreTrigger, ArmingWay DEF Arming
  <2>2. pc # "buffer_idx"
    BY <2>1, StoreTrigger, ArmingWay DEF Arming
  <2>3. UNCHANGED << clock, nsamp, restart >>
    BY <2>1, <2>2, StoreTrigger
  <2> QED
    BY <2>1, <2>3 DEF ArmedInv
<1>5. PastInv'
  BY <1>0, StoreTrigger DEF PastInv
<1> QED
  BY <1>1, <1>2, <1>3, <1>4, <1>5 DEF ArmedInv

LEMMA StepArmed ==
  ASSUME TypeInv, TypeInv', UnarmedInv, ArmedInv, PastInv, ArmingClients, [Next]_vars
  PROVE  UnarmedInv' /\ ArmedInv' /\ PastInv'
  BY StepKinds, StillArmed, SampleArmed, StoreArmed

\* Only a sample triggers.
LEMMA OnlySamplesFire ==
  ASSUME TypeInv, UnarmedInv, ArmingClients, [Next]_vars, fired' # fired
  PROVE  \E crossed \in BOOLEAN : TimerSample(crossed)
  BY StepKinds, StoreTrigger DEF Still

\* The rows that the preroll asks for before the trigger are the samples just before
\* it, for every preroll, frame length and filter (tde_timer_fun enables the trigger
\* by tde_buffer_idx), when the buffer is restarted only while no trigger is armed:
\* tde_trigger_on itself may let a callback in between its stores.
THEOREM PrerollIsPassed ==
  ASSUME ArmingClients
  PROVE  Spec => PrerollPassed
<1> DEFINE Before == \A k \in 1 .. RowsBefore : data'[Back(buffer_idx, k)] = clock' - k
<1>1. TypeInv /\ UnarmedInv /\ ArmedInv /\ [Next]_vars => [fired' # fired => Before]_vars
  <2> SUFFICES ASSUME TypeInv, UnarmedInv, ArmedInv, [Next]_vars, fired' # fired,
                      NEW k \in 1 .. RowsBefore
               PROVE  data'[Back(buffer_idx, k)] = clock' - k
    OBVIOUS
  <2>1. PICK crossed \in BOOLEAN : TimerSample(crossed)
    BY OnlySamplesFire
  <2>2. /\ Ready /\ buffer_idx # 0 /\ clock' = clock + 1
        /\ data' = [data EXCEPT ![buffer_idx] = clock + 1]
    BY <2>1, SampleTrigger
  <2>3. Rows(nsamp - 1)
    BY <2>1, <2>2, ReadyRows
  <2>4. k \in 1 .. nsamp - 1 /\ k \in 1 .. MaxSamp - 1 /\ k \in 0 .. MaxSamp
    BY TriggerRows
  <2>5. data[Back(buffer_idx, k)] = clock + 1 - k
    BY <2>3, <2>4 DEF Rows
  <2>6. buffer_idx \in RingRows /\ data \in [RingRows -> Nat] /\ clock \in Nat
    BY DEF TypeInv, TypeOK, RingRows
  <2>7. Back(buffer_idx, k) \in RingRows /\ Back(buffer_idx, k) # buffer_idx
    BY <2>4, <2>6, BackInRing, BackOther
  <2> QED
    BY <2>2, <2>5, <2>6, <2>7
<1>2. Init => TypeInv /\ UnarmedInv /\ ArmedInv /\ PastInv
  BY InitType, InitTrigger
<1>3. TypeInv /\ UnarmedInv /\ ArmedInv /\ PastInv /\ [Next]_vars
      => (TypeInv /\ UnarmedInv /\ ArmedInv /\ PastInv)'
  BY StepType, StepArmed
<1> QED
  BY <1>1, <1>2, <1>3, PTL DEF Spec, PrerollPassed

----------------------------------------------------------------------------
(* Where a triggered frame shows its trigger. *)

LEMMA StillPlaced ==
  ASSUME TypeInv, PlacedInv, Still
  PROVE  PlacedInv'
<1>1. UNCHANGED << frame_idx, nsamp, trig_state, trig_preroll, ntaps, clock, fired >>
      /\ (triggered' = 1 => triggered = 1) /\ (triggered = 0 => triggered' = 0)
  BY DEF Still
<1>2. pc' \notin Arming => pc \notin Arming
  BY DEF Still, Arming, Stores
<1>3. pc' \in Armed => pc' = pc
  BY DEF Still, Arming, Armed
<1>4. TriggerRow' = TriggerRow
  BY <1>1 DEF TriggerRow, PrerollRows
<1>5. pc' \in Armed \ {"trig_state"} => pc \in Armed \ {"trig_state"}
  BY <1>3
<1> QED
  BY <1>1, <1>2, <1>3, <1>4, <1>5 DEF PlacedInv

LEMMA StorePlaced ==
  ASSUME TypeInv, UnarmedInv, PlacedInv, Store
  PROVE  PlacedInv'
<1>1. pc' \in Armed => triggered' = 0
  <2>1. pc' = NextStore /\ (triggered' = IF pc = "triggered" THEN 0 ELSE triggered)
    BY StoreTrigger
  <2>2. pc \in Armed => triggered = 0
    BY DEF PlacedInv, Armed
  <2>3. pc' \in Armed => pc = "triggered" \/ pc \in Armed
    BY <2>1, ArmingWay DEF Armed
  <2> QED
    BY <2>1, <2>2, <2>3
<1>2. ASSUME triggered' = 1, pc' \notin Arming
      PROVE  /\ triggered = 1 /\ pc \notin Arming
             /\ UNCHANGED << trig_state, frame_idx, nsamp, clock, fired >>
             /\ UNCHANGED << trig_preroll, ntaps >>
  <2>1. pc # "triggered" /\ triggered = 1
    BY <1>2, StoreTrigger
  <2>2. trigger = 1 /\ pc \notin Armed
    BY <2>1 DEF UnarmedInv, PlacedInv, Armed
  <2>3. pc # "trigger"
    BY <1>2, StoreTrigger, ArmingWay DEF Arming
  <2>4. pc \notin Arming
    BY <2>1, <2>2, <2>3 DEF Arming, Armed
  <2>5. UNCHANGED << nsamp, clock, frame_idx >>
    BY <2>2, StoreTrigger
  <2>6. trig_state' = trig_state /\ fired' = fired
    BY <2>4, StoreTrigger DEF Arming
  <2>7. UNCHANGED << trig_preroll, ntaps >>
    BY <2>2, StoreTrigger DEF Armed
  <2> QED
    BY <2>1, <2>4, <2>5, <2>6, <2>7
<1>3. ASSUME triggered' = 1, pc' \notin Arming
      PROVE  /\ trig_state' = "DONE"
             /\ TriggerRow' < frame_idx' /\ frame_idx' < nsamp'
             /\ fired' = clock' + 1 + TriggerRow' - frame_idx'
  <2>1. TriggerRow' = TriggerRow
    BY <1>2, <1>3 DEF TriggerRow, PrerollRows
  <2> QED
    BY <1>2, <1>3, <2>1 DEF PlacedInv
<1>4. pc' \in Armed \ {"trig_state"} => trig_state' = "WAIT"
  <2>1. pc' \in Armed \ {"trig_state"} => pc \in Armed
    BY StoreTrigger, ArmingWay DEF Armed
  <2>2. pc \in Armed => trig_state' = "WAIT"
    BY StoreTrigger DEF PlacedInv, Armed
  <2> QED
    BY <2>1, <2>2
<1> QED
  BY <1>1, <1>3, <1>4 DEF PlacedInv

\* On the first row nothing triggers, and nothing enables the trigger.
LEMMA FirstRow ==
  ASSUME TypeInv, PastInv, NEW crossed \in BOOLEAN, TimerSample(crossed), buffer_idx = 0
  PROVE  /\ fired' = fired /\ (trig_state' # "WAIT" => trig_state # "WAIT")
         /\ triggered' = 1 => triggered = 1
         /\ trigger = 1 /\ frame_idx' = 0 => triggered = 1 /\ published' = clock + 1
<1>1. fired \in Nat /\ clock \in Nat /\ fired <= clock /\ frame_idx \in Nat
  BY DEF TypeInv, TypeOK, PastInv
<1>2. trig_state = "WAIT" => ~Ready
  <2>1. GoRow >= nsamp /\ nsamp \in Nat /\ GoRow \in Nat /\ nsamp > 0
    BY TriggerRows
  <2> QED
    BY <2>1 DEF Ready
<1>3. fired' = fired /\ fired' # clock + 1 /\ frame_idx + 1 # 0
  BY <1>1, SampleTrigger
<1> QED
  BY <1>2, <1>3, SampleTrigger

LEMMA SamplePlaced ==
  ASSUME TypeInv, TypeInv', UnarmedInv, ArmedInv, PastInv, PlacedInv, ArmingClients,
         NEW crossed \in BOOLEAN, TimerSample(crossed)
  PROVE  PlacedInv'
<1>1. UNCHANGED << nsamp, trig_preroll, ntaps, op, pc >> /\ clock' = clock + 1
  BY SampleTrigger
<1>2. TriggerRow' = TriggerRow
  BY <1>1 DEF TriggerRow, PrerollRows
<1>3. CASE pc \in Arming \cup Armed
  <2>1. buffer_idx = 0
    BY <1>3, SampleArming
  <2>2. (trig_state' # "WAIT" => trig_state # "WAIT") /\ (triggered' = 1 => triggered = 1)
    BY <2>1, FirstRow
  <2>3. triggered' \in {0, 1}
    BY DEF TypeInv, TypeOK
  <2>4. pc \in Armed => triggered' = 0
    BY <2>2, <2>3 DEF PlacedInv
  <2>5. pc \in Armed \ {"trig_state"} => trig_state' = "WAIT"
    BY <2>2 DEF PlacedInv
  <2>6. pc \notin Arming => triggered' # 1
    BY <1>3, <2>4
  <2>7. pc' = pc /\ Armed' = Armed /\ Arming' = Arming
    BY <1>1 DEF Arming, Armed
  <2> QED
    BY <2>4, <2>5, <2>6, <2>7 DEF PlacedInv
<1>4. CASE pc \notin Arming \cup Armed
  <2>1. nsamp \in Nat /\ TriggerRow \in Nat /\ clock \in Nat /\ frame_idx \in Nat
    <3>1. clock \in Nat /\ frame_idx \in Nat
      BY DEF TypeInv, TypeOK
    <3>2. nsamp \in 1 .. MaxSamp /\ MaxSamp \in Nat /\ TriggerRow \in Nat
      BY TriggerRows
    <3> QED
      BY <3>1, <3>2
  <2>2. triggered = 1 =>
          /\ trig_state = "DONE" /\ trigger = 1
          /\ TriggerRow < frame_idx /\ fired = clock + 1 + TriggerRow - frame_idx
    BY <1>4 DEF PlacedInv, UnarmedInv
  <2>3. triggered' = 1 =>
           \/ /\ fired' = clock + 1 /\ ~(TriggerRow >= nsamp - 1)
              /\ trig_state' = "DONE" /\ frame_idx' = TriggerRow + 1
           \/ /\ triggered = 1 /\ fired' = fired /\ ~(frame_idx >= nsamp - 1)
              /\ frame_idx' = frame_idx + 1 /\ trig_state' = "DONE"
    BY <2>2, SampleTrigger
  <2>4. triggered' = 1 =>
           /\ trig_state' = "DONE" /\ TriggerRow < frame_idx' /\ frame_idx' < nsamp
           /\ fired' = clock' + 1 + TriggerRow - frame_idx'
    BY <1>1, <2>1, <2>2, <2>3
  <2> QED
    BY <1>1, <1>2, <1>4, <2>4 DEF PlacedInv
<1> QED
  BY <1>3, <1>4

LEMMA StepPlaced ==
  ASSUME TypeInv, TypeInv', UnarmedInv, ArmedInv, PastInv, PlacedInv, ArmingClients,
         [Next]_vars
  PROVE  PlacedInv'
  BY StepKinds, StillPlaced, SamplePlaced, StorePlaced

\* Row k of the frame that ends at the row just written.
LEMMA NextFrameRow ==
  ASSUME TypeInv, TypeInv', buffer_idx' = NextRow(buffer_idx), nsamp' = nsamp,
         data_idx' = FrameStart(buffer_idx, nsamp), NEW k \in 0 .. nsamp - 1
  PROVE  (IF data_idx' + k < MaxSamp THEN data_idx' + k ELSE data_idx' + k - MaxSamp)
         = Back(buffer_idx', nsamp - k)
<1>1. /\ buffer_idx \in 0 .. MaxSamp - 1 /\ nsamp \in 1 .. MaxSamp /\ MaxSamp \in Nat \ {0}
      /\ buffer_idx' \in 0 .. MaxSamp - 1
  BY TriggerRows DEF TypeInv, TypeOK
<1>2. data_idx' = Back(buffer_idx', nsamp)
  BY <1>1, FrameStartBack DEF RingRows
<1> QED
  BY <1>1, <1>2 DEF Back

\* A callback that completes a frame while tde_trigger_on arms counted it before the
\* restart of the ring.
LEMMA ArmingPublishes ==
  ASSUME TypeInv, ArmedInv, PastInv, TriggeredClients, NEW crossed \in BOOLEAN,
         TimerSample(crossed), trigger = 1, frame_idx' = 0, pc \in Arming
  PROVE  ~SinceRestart'
<1>1. buffer_idx = 0 /\ clock <= restart /\ MaxStoreLag = 1
  BY SampleArming DEF TriggeredClients
<1>2. /\ nsamp \in Frames /\ nsamp \in Nat /\ clock \in Nat /\ restart \in Nat
      /\ fired \in Nat
  BY TriggerRows DEF TypeInv, TypeOK
<1>3. 1 < nsamp
  BY <1>1, <1>2 DEF TriggeredClients
<1>4. fired' = fired /\ published' = clock + 1
  BY <1>1, FirstRow
<1>5. nsamp' = nsamp /\ restart' = restart
  BY SampleTrigger
<1>6. restart <= clock /\ fired <= clock
  BY DEF PastInv
<1>7. published' \in restart .. restart + nsamp - 1 /\ ~(restart < fired)
  BY <1>1, <1>2, <1>3, <1>4, <1>6
<1> QED
  BY <1>4, <1>5, <1>7 DEF SinceRestart

\* A sample that completes a triggered frame: the trigger is where the preroll puts it.
LEMMA SampleShows ==
  ASSUME TypeInv, TypeInv', UnarmedInv, ArmedInv, PastInv, PlacedInv, TriggeredClients,
         NEW crossed \in BOOLEAN, TimerSample(crossed), trigger = 1, frame_idx' = 0,
         SinceRestart'
  PROVE  data'[FrameRow(RowsBefore)'] = fired'
<1>1. /\ UNCHANGED << nsamp, trig_preroll, ntaps, pc >> /\ clock' = clock + 1
      /\ buffer_idx' = NextRow(buffer_idx)
      /\ data' = [data EXCEPT ![buffer_idx] = clock + 1]
  BY SampleTrigger
<1>2. /\ nsamp \in 1 .. MaxSamp /\ MaxSamp \in Nat \ {0} /\ TriggerRow \in Nat
      /\ RowsBefore \in 0 .. nsamp - 1 /\ clock \in Nat /\ frame_idx \in Nat
      /\ RowsBefore = IF TriggerRow < nsamp THEN TriggerRow ELSE nsamp - 1
  BY TriggerRows DEF TypeInv, TypeOK, RowsBefore, TriggerRow
<1>3. pc \notin Arming
  BY ArmingPublishes
<1>4. \/ /\ Ready /\ fired' = clock + 1 /\ TriggerRow >= nsamp - 1
         /\ data_idx' = FrameStart(buffer_idx, nsamp)
      \/ /\ triggered = 1 /\ fired' = fired /\ frame_idx >= nsamp - 1
         /\ data_idx' = FrameStart(buffer_idx, nsamp)
  <2>1. TriggerRow + 1 # 0 /\ frame_idx + 1 # 0
    BY <1>2
  <2> QED
    BY <2>1, SampleTrigger
<1>5. triggered = 1 =>
        /\ trig_state = "DONE" /\ TriggerRow < frame_idx /\ frame_idx < nsamp
        /\ fired = clock + 1 + TriggerRow - frame_idx
  BY <1>3 DEF PlacedInv
<1>6. Rows(nsamp - 1)
  <2>1. CASE Ready
    BY <1>3, <2>1, ReadyRows DEF TriggeredClients
  <2>2. CASE triggered = 1
    <3>1. restart + nsamp - 1 <= clock /\ SinceRows
      BY <1>3, <1>5, <2>2 DEF ArmedInv
    <3>2. nsamp - 1 \in 0 .. MaxSamp /\ restart + (nsamp - 1) <= clock
      BY <1>2, <3>1 DEF TypeInv, TypeOK
    <3> QED
      BY <3>1, <3>2 DEF SinceRows
  <2> QED
    BY <1>4, <2>1, <2>2
<1>7. fired' = clock' + 1 - (nsamp - RowsBefore)
  BY <1>1, <1>2, <1>4, <1>5
<1>8. NextRows(nsamp)
  <2>1. nsamp - 1 \in 0 .. MaxSamp - 1 /\ (nsamp - 1) + 1 = nsamp
    BY <1>2
  <2> QED
    BY <1>1, <1>6, <2>1, RowsStep DEF TypeInv
<1>9. data'[Back(buffer_idx', nsamp - RowsBefore)] = clock' + 1 - (nsamp - RowsBefore)
  BY <1>2, <1>8 DEF NextRows
<1>10. FrameRow(RowsBefore)' = Back(buffer_idx', nsamp - RowsBefore)
  <2>1. RowsBefore' = RowsBefore
    BY <1>1 DEF RowsBefore, PrerollRows
  <2>2. (IF data_idx' + RowsBefore < MaxSamp THEN data_idx' + RowsBefore
         ELSE data_idx' + RowsBefore - MaxSamp) = Back(buffer_idx', nsamp - RowsBefore)
    BY <1>1, <1>2, <1>4, NextFrameRow
  <2>3. FrameRow(RowsBefore)' = IF data_idx' + RowsBefore' < MaxSamp
                               THEN data_idx' + RowsBefore'
                               ELSE data_idx' + RowsBefore' - MaxSamp
    BY DEF FrameRow, RowsBefore, PrerollRows
  <2> QED
    BY <2>1, <2>2, <2>3
<1> QED
  BY <1>7, <1>9, <1>10

\* Only the end of a callback that measured brings it back.
LEMMA OnlySamplesEnd ==
  ASSUME [Next]_vars, tick = "receive", tick' = "wait"
  PROVE  \E crossed \in BOOLEAN : TimerSample(crossed)
<1>1. CASE Timer
  BY <1>1 DEF Timer, TimerStop, TimerPaused, TimerSkip, TimerReceive, Measures
<1>2. CASE Server
  BY <1>2
     DEF Server, Command, CheckData, SayReady, TriggerOff, StopAcq, GetData, SetNsamp,
     SetNdown, Pause, Link2Meas, TriggerOn, CopyRow, ReturnData, TriggerWake, Store
<1>3. CASE UNCHANGED vars
  BY <1>3 DEF vars
<1> QED
  BY <1>1, <1>2, <1>3 DEF Next, Ended

\* A triggered frame shows the trigger in the row where the preroll puts it, half the
\* filter's length later (frame_idx in tde_timer_fun counts from there), for every
\* preroll, frame length and filter, although tde_trigger_on arms in stores between
\* which a callback may trigger, publish or count.
THEOREM TriggerIsPlaced ==
  ASSUME TriggeredClients
  PROVE  Spec => TriggerPlaced
<1> DEFINE Inv == TypeInv /\ UnarmedInv /\ ArmedInv /\ PastInv /\ PlacedInv
<1>1. Init => Inv
  BY InitType, InitTrigger
<1>2. Inv /\ [Next]_vars => Inv'
  BY StepType, StepArmed, StepPlaced DEF TriggeredClients
<1>3. Inv /\ [Next]_vars
      => [/\ tick = "receive" /\ tick' = "wait" /\ trigger = 1 /\ frame_idx' = 0
          /\ SinceRestart'
          =>
            data'[FrameRow(RowsBefore)'] = fired']_vars
  BY StepType, OnlySamplesEnd, SampleShows
<1> QED
  BY <1>1, <1>2, <1>3, PTL DEF Spec, TriggerPlaced

----------------------------------------------------------------------------
(* Whole frames while a trigger is armed. *)

WholeInv == ResetInv /\ FillInv /\ KeptInv /\ FlaggedInv

wholeVars == << data, buffer_idx, frame_idx, data_idx, valid, read, nsamp, clock, fired,
                restart, published >>

\* What depends on the ring and its past alone stays as it is.
LEMMA RingKept ==
  ASSUME UNCHANGED wholeVars
  PROVE  /\ \A m : Rows(m)' <=> Rows(m)
         /\ \A m : KeptAt(m)' <=> KeptAt(m)
         /\ \A k : FrameRow(k)' = FrameRow(k)
         /\ SinceRestart' <=> SinceRestart
  BY DEF wholeVars, Rows, KeptAt, FrameRow, SinceRestart

\* The callbacks that take no sample.
Steady ==
  /\ UNCHANGED << wholeVars, trigger, go, go_bak, op, pc, want, row, copied, newer, ndown >>
  /\ lag' >= lag
  /\ pc \in Stores /\ lag > 0 => idown' = idown

\* The start of a command but tde_get_data.
Opens ==
  /\ pc = "idle" /\ UNCHANGED wholeVars /\ op' # "get_data"
  /\ trigger' \in {trigger, 0}
  /\ Live' => Live \/ (pc' = "buffer_idx" /\ op' \in {"pause", "set_nsamp"})
  /\ pc' \in {"idle", "read", "buffer_idx", "idown", "sleep", "exited"}
  /\ pc' = "read" => op' = "say_ready"
  /\ pc' = "buffer_idx" => op' \in {"pause", "set_nsamp"}
  /\ pc' = "idown" => op' = "set_ndown" /\ go' # 1

Fetches ==
  /\ pc = "idle" /\ UNCHANGED << wholeVars, trigger, go >>
  /\ op' = "get_data" /\ pc' = "copy"
  /\ want' \in 1 .. nsamp /\ row' = data_idx /\ copied' = << >>

LEMMA CommandOpens ==
  ASSUME TypeInv, TriggeredClients, Command
  PROVE  Opens \/ Fetches
<1> USE DEF Opens, wholeVars, Accept, ringVars, trigVars, runVars, sinceVars, serverVars, Live,
        TriggeredClients
<1>1. CASE CheckData \/ SayReady
  BY <1>1 DEF CheckData, SayReady
<1>2. CASE TriggerOff
  BY <1>2 DEF TriggerOff
<1>3. CASE StopAcq
  BY <1>3 DEF StopAcq
<1>4. ASSUME NEW n \in Frames, GetData(n) PROVE Fetches
  <2>1. n \in 1 .. MaxSamp /\ nsamp \in 1 .. MaxSamp /\ MaxSamp \in Nat
    BY EngineAssumption, ClientAssumption DEF TypeInv, TypeOK
  <2>2. want' \in 1 .. nsamp
    BY <1>4, <2>1 DEF GetData
  <2> QED
    BY <1>4, <2>2 DEF GetData, Fetches
<1>5. ASSUME NEW n \in Frames, SetNsamp(n) PROVE Opens
  BY <1>5 DEF SetNsamp
<1>6. ASSUME NEW n \in Downs, SetNdown(n) PROVE Opens
  BY <1>6 DEF SetNdown
<1>7. ASSUME NEW p \in {0, 1}, Pause(p) PROVE Opens
  BY <1>7 DEF Pause
<1>8. ASSUME NEW l \in {0, 1}, Link2Meas(l) PROVE Opens
  BY <1>8 DEF Link2Meas
<1>9. ASSUME NEW p \in Prerolls, TriggerOn(p) PROVE Opens
  BY <1>9 DEF TriggerOn
<1> QED
  BY <1>1, <1>2, <1>3, <1>4, <1>5, <1>6, <1>7, <1>8, <1>9 DEF Command

LEMMA TimerSteady ==
  ASSUME TypeInv, ArmingClients, TimerStop \/ TimerPaused \/ TimerSkip \/ TimerReceive
  PROVE  Steady
<1>1. UNCHANGED << wholeVars, trigger, go, go_bak, op, pc, want, row, copied, newer, ndown >>
  BY DEF TimerStop, TimerPaused, TimerSkip, TimerReceive, wholeVars, ringVars, trigVars,
     runVars, serverVars, copyVars, sinceVars
<1>2. lag \in Nat /\ MaxStoreLag \in Nat /\ MaxStoreLag <= 1
  BY EngineAssumption DEF TypeInv, TypeOK, ArmingClients
<1>3. lag' \in {lag, lag + 1}
  BY DEF TimerStop, TimerPaused, TimerSkip, TimerReceive, Completes
<1>4. pc \in Stores => LagBound = MaxStoreLag /\ pc \notin {"idle", "sleep", "exited"}
  BY DEF Stores, LagBound
<1>5. TimerSkip \/ TimerReceive => InTime
  BY DEF TimerSkip, TimerReceive, Completes
<1>6. TimerStop \/ TimerPaused => idown' = idown
  BY DEF TimerStop, TimerPaused, rateVars
<1>7. pc \in Stores /\ lag > 0 => idown' = idown
  BY <1>2, <1>4, <1>5, <1>6 DEF InTime
<1> QED
  BY <1>1, <1>2, <1>3, <1>7 DEF Steady

LEMMA InitWhole == Init => WholeInv
<1> SUFFICES ASSUME Init PROVE WholeInv
  OBVIOUS
<1>1. \A m \in 0 .. MaxSamp : m <= frame_idx => Rows(m)
  BY EngineAssumption DEF Init, Rows
<1> QED
  BY <1>1 DEF Init, WholeInv, ResetInv, FillInv, KeptInv, FlaggedInv, Stores, Armed

\* What the invariants say does not change with the ring left alone.
LEMMA SteadyWhole == TypeInv /\ TypeInv' /\ WholeInv /\ Steady => WholeInv'
<1> SUFFICES ASSUME TypeInv, TypeInv', WholeInv, Steady PROVE WholeInv'
  OBVIOUS
<1>1. /\ UNCHANGED << go, go_bak, op, pc, want, row, copied, newer, ndown, trigger >>
      /\ UNCHANGED << data, frame_idx, valid, read, nsamp, clock, restart, published >>
      /\ lag' >= lag /\ (pc \in Stores /\ lag > 0 => idown' = idown)
  BY DEF Steady, wholeVars
<1>2. /\ \A m : Rows(m)' <=> Rows(m)
      /\ \A m : KeptAt(m)' <=> KeptAt(m)
      /\ \A k : FrameRow(k)' = FrameRow(k)
      /\ SinceRestart' <=> SinceRestart
  BY RingKept DEF Steady
<1>3. ResetInv'
  <2>1. lag \in Nat /\ lag' \in Nat /\ frame_idx \in Nat
    BY DEF TypeInv, TypeOK
  <2>2. frame_idx <= lag => frame_idx' <= lag'
    BY <1>1, <2>1
  <2>3. frame_idx <= lag /\ frame_idx > 0 => lag > 0
    BY <2>1
  <2>4. lag > 0 => lag' > 0
    BY <1>1, <2>1
  <2>5. ResetInv
    BY DEF WholeInv
  <2>6. op \in {"pause", "set_nsamp"} /\ pc \in Stores \ {"buffer_idx", "frame_idx"} =>
          frame_idx' <= lag' /\ (frame_idx' > 0 => idown' = 0 \/ ndown' = 0)
    BY <1>1, <2>2, <2>3, <2>5 DEF ResetInv
  <2> QED
    BY <1>1, <2>4, <2>5, <2>6 DEF ResetInv, Stores, Withdrawing, Armed
<1>4. Live' <=> Live
  BY <1>1 DEF Live
<1>5. FillInv'
  BY <1>1, <1>2, <1>4 DEF WholeInv, FillInv, Restarting
<1>6. KeptInv'
  BY <1>1, <1>2, <1>4 DEF WholeInv, KeptInv, Withdrawing
<1>7. FlaggedInv'
  BY <1>1, <1>2 DEF WholeInv, FlaggedInv
<1> QED
  BY <1>3, <1>5, <1>6, <1>7 DEF WholeInv

LEMMA OpensWhole == TypeInv /\ ArmedInv /\ WholeInv /\ Opens => WholeInv'
<1> SUFFICES ASSUME TypeInv, ArmedInv, WholeInv, Opens PROVE WholeInv'
  OBVIOUS
<1>1. UNCHANGED << data, buffer_idx, clock, frame_idx, valid, read, nsamp, restart, published >>
  BY DEF Opens, wholeVars
<1>2. /\ \A m : Rows(m)' <=> Rows(m)
      /\ \A m : KeptAt(m)' <=> KeptAt(m)
      /\ SinceRestart' <=> SinceRestart
  BY RingKept DEF Opens
<1>3. ResetInv'
  BY <1>1 DEF WholeInv, ResetInv, Opens, Stores, Withdrawing, Armed
<1>4. FillInv'
  <2> SUFFICES ASSUME trigger' = 0, Live', ~Restarting', NEW m \in 0 .. MaxSamp,
                      m <= frame_idx, restart + m <= clock
               PROVE  Rows(m)
    BY <1>1, <1>2 DEF FillInv
  <2>1. Live /\ ~Restarting
    BY DEF Opens, Restarting
  <2>2. CASE trigger = 0
    BY <2>1, <2>2 DEF WholeInv, FillInv
  <2>3. CASE trigger = 1
    BY <2>3 DEF ArmedInv, SinceRows
  <2> QED
    BY <2>2, <2>3 DEF TypeInv, TypeOK
<1>5. KeptInv'
  BY <1>1, <1>2 DEF WholeInv, KeptInv, Opens, Withdrawing
<1>6. FlaggedInv'
  BY DEF FlaggedInv, Opens
<1> QED
  BY <1>3, <1>4, <1>5, <1>6 DEF WholeInv

LEMMA FetchesWhole == TypeInv /\ WholeInv /\ Fetches => WholeInv'
<1> SUFFICES ASSUME TypeInv, WholeInv, Fetches PROVE WholeInv'
  OBVIOUS
<1>1. UNCHANGED << data, buffer_idx, clock, frame_idx, data_idx, valid, read, nsamp,
                   trigger, go, restart >>
  BY DEF Fetches, wholeVars
<1>2. /\ \A m : Rows(m)' <=> Rows(m)
      /\ \A m : KeptAt(m)' <=> KeptAt(m)
      /\ \A k : FrameRow(k)' = FrameRow(k)
      /\ SinceRestart' <=> SinceRestart
  BY RingKept DEF Fetches
<1>3. ResetInv'
  BY <1>1 DEF WholeInv, ResetInv, Fetches, Stores, Withdrawing, Armed
<1>4. (Live' <=> Live) /\ ~Restarting
  BY <1>1 DEF Live, Fetches, Restarting
<1>5. FillInv'
  BY <1>1, <1>2, <1>4 DEF WholeInv, FillInv
<1>6. KeptInv'
  BY <1>1, <1>2, <1>4 DEF WholeInv, KeptInv, Fetches, Withdrawing
<1>7. FlaggedInv'
  <2>1. /\ nsamp \in 1 .. MaxSamp /\ MaxSamp \in Nat \ {0}
        /\ data_idx \in -1 .. MaxSamp - 1
    BY TriggerRows DEF TypeInv, TypeOK
  <2>2. Len(copied') = 0 /\ want' <= nsamp /\ 0 < want' /\ 0 <= want'
    BY <2>1 DEF Fetches
  <2>3. FrameRow(0) = data_idx
    BY <1>1, <2>1 DEF FrameRow
  <2> QED
    BY <1>1, <1>2, <2>2, <2>3 DEF FlaggedInv, Fetches
<1> QED
  BY <1>3, <1>5, <1>6, <1>7 DEF WholeInv

\* A published frame holds successive samples.
LEMMA KeptRows ==
  ASSUME TypeInv, NEW m \in nsamp .. MaxSamp, KeptAt(m)
  PROVE  /\ data_idx \in RingRows
         /\ \A k \in 0 .. nsamp - 1 :
              FrameRow(k) \in RingRows /\ data[FrameRow(k)] = clock + 1 - m + k
<1>1. /\ buffer_idx \in RingRows /\ nsamp \in 1 .. MaxSamp /\ MaxSamp \in Nat \ {0}
      /\ m \in 1 .. MaxSamp /\ clock \in Nat
  BY TriggerRows DEF TypeInv, TypeOK, RingRows
<1>2. data_idx = Back(buffer_idx, m)
  BY DEF KeptAt
<1>3. ASSUME NEW k \in 0 .. nsamp - 1
      PROVE  FrameRow(k) \in RingRows /\ data[FrameRow(k)] = clock + 1 - m + k
  <2>1. k \in 0 .. m - 1 /\ m - k \in 1 .. m /\ m - k \in 0 .. MaxSamp
    BY <1>1
  <2>2. FrameRow(k) = Back(buffer_idx, m - k)
    BY <1>1, <1>2, <2>1, FrameRowBack
  <2>3. data[Back(buffer_idx, m - k)] = clock + 1 - (m - k)
    BY <2>1 DEF KeptAt, Rows
  <2>4. Back(buffer_idx, m - k) \in RingRows
    BY <1>1, <2>1, BackInRing
  <2> QED
    BY <1>1, <2>1, <2>2, <2>3, <2>4
<1> QED
  BY <1>1, <1>2, <1>3, BackInRing

LEMMA CopyRowWhole == TypeInv /\ WholeInv /\ CopyRow => WholeInv'
<1> SUFFICES ASSUME TypeInv, WholeInv, CopyRow PROVE WholeInv'
  OBVIOUS
<1>1. /\ UNCHANGED wholeVars
      /\ UNCHANGED << data, buffer_idx, clock, frame_idx, data_idx, valid, read, nsamp,
                      trigger, go, op, want, newer, restart >>
      /\ pc = "copy" /\ pc' = IF Len(copied) + 1 = want THEN "return" ELSE "copy"
      /\ copied' = Append(copied, Fetch(row)) /\ row' = NextRow(row)
  BY DEF CopyRow, wholeVars, ringVars, trigVars, runVars, sinceVars
<1>2. /\ \A m : Rows(m)' <=> Rows(m)
      /\ \A m : KeptAt(m)' <=> KeptAt(m)
      /\ \A k : FrameRow(k)' = FrameRow(k)
      /\ SinceRestart' <=> SinceRestart
  BY <1>1, RingKept
<1>3. ResetInv'
  BY <1>1 DEF WholeInv, ResetInv, Stores, Withdrawing, Armed
<1>4. (Live' <=> Live) /\ ~Restarting
  BY <1>1 DEF Live, Restarting, TypeInv, Handlers
<1>5. FillInv' /\ KeptInv'
  BY <1>1, <1>2, <1>4 DEF WholeInv, FillInv, KeptInv, Withdrawing
<1>6. ASSUME valid = 1, go = 1, ~newer, SinceRestart
      PROVE  /\ want <= nsamp /\ Len(copied') <= want
             /\ \A k \in 1 .. Len(copied') : copied'[k] = data[FrameRow(k - 1)]
             /\ pc' = "copy" => Len(copied') < want /\ row' = FrameRow(Len(copied'))
  <2>1. /\ want <= nsamp /\ Len(copied) < want /\ row = FrameRow(Len(copied))
        /\ \A k \in 1 .. Len(copied) : copied[k] = data[FrameRow(k - 1)]
    BY <1>1, <1>6 DEF WholeInv, FlaggedInv
  <2>2. PICK m \in nsamp .. MaxSamp : KeptAt(m)
    BY <1>1, <1>6 DEF WholeInv, KeptInv, Live, Withdrawing
  <2>3. /\ copied \in Seq(Nat \cup {Garbage}) /\ Len(copied) \in Nat
        /\ nsamp \in 1 .. MaxSamp /\ MaxSamp \in Nat \ {0} /\ want \in 0 .. MaxSamp
    BY TriggerRows DEF TypeInv, TypeOK
  <2>4. Len(copied) \in 0 .. nsamp - 1
    BY <2>1, <2>3
  <2>5. row \in RingRows /\ data_idx \in RingRows
    BY <2>1, <2>2, <2>4, KeptRows
  <2>6. Fetch(row) = data[FrameRow(Len(copied))]
    BY <2>1, <2>5 DEF Fetch, RingRows
  <2>7. Len(copied') = Len(copied) + 1
    BY <1>1, <2>3
  <2>8. ASSUME NEW k \in 1 .. Len(copied')
        PROVE  copied'[k] = data[FrameRow(k - 1)]
    <3>1. CASE k = Len(copied) + 1
      <4>1. copied'[k] = Fetch(row) /\ k - 1 = Len(copied)
        BY <1>1, <2>3, <3>1
      <4> QED
        BY <2>6, <4>1
    <3>2. CASE k # Len(copied) + 1
      <4>1. k \in 1 .. Len(copied)
        BY <2>3, <2>7, <3>2
      <4>2. copied'[k] = copied[k]
        BY <1>1, <2>3, <4>1
      <4> QED
        BY <2>1, <4>1, <4>2
    <3> QED
      BY <3>1, <3>2
  <2>9. NextRow(row) = FrameRow(Len(copied) + 1)
    BY <2>1, <2>3, <2>4, <2>5 DEF FrameRow, NextRow, RingRows
  <2> QED
    BY <1>1, <2>1, <2>3, <2>7, <2>8, <2>9
<1>7. FlaggedInv'
  BY <1>1, <1>2, <1>6 DEF FlaggedInv
<1> QED
  BY <1>3, <1>5, <1>7 DEF WholeInv

LEMMA ReturnWhole == TypeInv /\ WholeInv /\ ReturnData => WholeInv'
<1> SUFFICES ASSUME TypeInv, WholeInv, ReturnData PROVE WholeInv'
  OBVIOUS
<1>1. /\ UNCHANGED wholeVars
      /\ UNCHANGED << clock, frame_idx, valid, read, nsamp, trigger, go, op, restart >>
      /\ pc = "return" /\ pc' = "idle"
  BY DEF ReturnData, wholeVars, ringVars, trigVars, runVars
<1>2. /\ \A m : Rows(m)' <=> Rows(m)
      /\ \A m : KeptAt(m)' <=> KeptAt(m)
      /\ SinceRestart' <=> SinceRestart
  BY <1>1, RingKept
<1>3. ResetInv'
  BY <1>1 DEF WholeInv, ResetInv, Stores, Withdrawing, Armed
<1>4. (Live' <=> Live) /\ ~Restarting
  BY <1>1 DEF Live, Restarting, TypeInv, Handlers
<1>5. FillInv' /\ KeptInv'
  BY <1>1, <1>2, <1>4 DEF WholeInv, FillInv, KeptInv, Withdrawing
<1>6. FlaggedInv'
  BY <1>1 DEF FlaggedInv
<1> QED
  BY <1>3, <1>5, <1>6 DEF WholeInv

\* What tde_get_data has copied when it returns 1.
LEMMA ReturnFlags ==
  ASSUME TypeInv, WholeInv, pc = "return", valid = 1, go = 1, ~newer, SinceRestart,
         NEW k \in 2 .. Len(copied)
  PROVE  copied[k] = copied[k - 1] + 1
<1>1. PICK m \in nsamp .. MaxSamp : KeptAt(m)
  BY DEF WholeInv, KeptInv, Live, Withdrawing
<1>2. /\ want <= nsamp /\ Len(copied) <= want
      /\ \A j \in 1 .. Len(copied) : copied[j] = data[FrameRow(j - 1)]
  BY DEF WholeInv, FlaggedInv
<1>3. /\ Len(copied) \in Nat /\ want \in Nat /\ nsamp \in Nat /\ m \in Nat /\ clock \in Nat
      /\ MaxSamp \in Nat
  BY EngineAssumption, ClientAssumption, TriggerRows DEF TypeInv, TypeOK
<1>4. /\ k \in 1 .. Len(copied) /\ k - 1 \in 1 .. Len(copied)
      /\ k - 1 \in 0 .. nsamp - 1 /\ (k - 1) - 1 \in 0 .. nsamp - 1
  BY <1>2, <1>3
<1>5. copied[k] = clock + 1 - m + (k - 1) /\ copied[k - 1] = clock + 1 - m + ((k - 1) - 1)
  BY <1>1, <1>2, <1>4, KeptRows
<1> QED
  BY <1>3, <1>4, <1>5

LEMMA WakeWhole == TypeInv /\ WholeInv /\ TriggerWake => WholeInv'
<1> SUFFICES ASSUME TypeInv, WholeInv, TriggerWake PROVE WholeInv'
  OBVIOUS
<1>1. /\ UNCHANGED wholeVars
      /\ UNCHANGED << clock, frame_idx, valid, read, trigger, go, go_bak, op, restart >>
      /\ pc = "sleep" /\ pc' = "valid" /\ op = "trigger_on"
  BY
     DEF TriggerWake, wholeVars, ringVars, trigVars, runVars, serverVars, sinceVars, TypeInv,
     Handlers
<1>2. \A m : Rows(m)' <=> Rows(m)
  BY <1>1, RingKept
<1>3. ResetInv'
  BY <1>1 DEF WholeInv, ResetInv, Stores, Withdrawing, Armed
<1>4. (Live' <=> Live) /\ ~Restarting
  BY <1>1 DEF Live, Restarting
<1>5. FillInv'
  BY <1>1, <1>2, <1>4 DEF WholeInv, FillInv
<1>6. KeptInv' /\ FlaggedInv'
  BY <1>1 DEF KeptInv, FlaggedInv, Withdrawing
<1> QED
  BY <1>3, <1>5, <1>6 DEF WholeInv

\* While a handler restarts the buffer no frame that it has withdrawn comes back, and
\* what it resets stays reset but for the one callback it lets in.
LEMMA StoreWhole ==
  ASSUME TypeInv, TypeInv', UnarmedInv, ArmedInv, PastInv, WholeInv, Store
  PROVE  WholeInv'
<1>1. /\ pc \in Stores /\ pc' = NextStore /\ UNCHANGED << data, op, fired, published, newer >>
      /\ buffer_idx' = IF pc = "buffer_idx" THEN 0 ELSE buffer_idx
      /\ frame_idx' = IF pc = "frame_idx" THEN 0 ELSE frame_idx
      /\ data_idx' = IF pc = "data_idx" THEN -1 ELSE data_idx
      /\ valid' = IF pc = "valid" THEN 0 ELSE valid
      /\ read' = IF pc = "read" THEN IF op = "say_ready" THEN 1 ELSE 0 ELSE read
      /\ nsamp' = IF pc = "nsamp" THEN arg ELSE nsamp
      /\ idown' = IF pc = "idown" THEN 0 ELSE idown
      /\ ndown' = IF pc = "ndown" THEN arg ELSE ndown
      /\ trigger' = IF pc = "trigger" THEN 1 ELSE trigger
      /\ go' = IF pc = "go" THEN go_bak ELSE go
      /\ restart' = IF pc = "buffer_idx" /\ op = "trigger_on" THEN clock ELSE restart
      /\ clock' = IF BreaksRhythm THEN clock + 1 ELSE clock
      /\ pc' # "idle" => lag' = lag /\ go_bak' = go_bak
  BY DEF Store
<1>2. ResetInv /\ FillInv /\ KeptInv /\ Handlers
  BY DEF WholeInv, TypeInv
<1>3. /\ frame_idx \in Nat /\ clock \in Nat /\ restart \in Nat /\ lag \in Nat
      /\ fired \in Nat /\ published \in Nat /\ restart <= clock /\ fired <= clock
  BY DEF TypeInv, TypeOK, PastInv
<1>4. Live' => Live
  BY <1>1, <1>2 DEF Live, Handlers, NextStore, StoreAfter, Stores
<1>5. ResetInv'
  <2>1. op \in {"pause", "set_nsamp"} /\ pc' \in Stores \ {"buffer_idx", "frame_idx"} =>
          frame_idx' <= lag' /\ (frame_idx' > 0 => idown' = 0 \/ ndown' = 0)
    <3> SUFFICES ASSUME op \in {"pause", "set_nsamp"},
                        pc' \in Stores \ {"buffer_idx", "frame_idx"}
                 PROVE  frame_idx' <= lag' /\ (frame_idx' > 0 => idown' = 0 \/ ndown' = 0)
      OBVIOUS
    <3>1. lag' = lag /\ pc # "ndown" /\ pc # "buffer_idx"
      BY <1>1, <1>2 DEF Handlers, NextStore, StoreAfter, Stores
    <3>2. CASE pc = "frame_idx"
      BY <1>1, <1>3, <3>1, <3>2
    <3>3. CASE pc # "frame_idx"
      <4>1. frame_idx <= lag /\ (frame_idx > 0 => idown = 0 \/ ndown = 0)
        BY <1>1, <1>2, <3>1, <3>3 DEF ResetInv
      <4> QED
        BY <1>1, <3>1, <3>3, <4>1
    <3> QED
      BY <3>2, <3>3
  <2>2. op \in {"pause", "set_nsamp"} /\ pc' \in Stores \ Withdrawing => valid' = 0
    BY <1>1, <1>2 DEF ResetInv, Handlers, NextStore, StoreAfter, Stores, Withdrawing
  <2>3. op = "trigger_on" /\ pc' = "buffer_idx" => valid' = 0
    BY <1>1, <1>2 DEF Handlers, NextStore, StoreAfter
  <2>4. op = "set_ndown" /\ pc' \in {"idown", "ndown"} => go' # 1
    BY <1>1, <1>2 DEF ResetInv, Handlers, NextStore, StoreAfter
  <2>5. pc' \in Armed \cup {"triggered"} => trigger' = 1
    BY <1>1, <1>2 DEF ResetInv, Handlers, NextStore, StoreAfter, Armed
  <2>6. valid' = 1 /\ ~(op = "say_ready" /\ pc' = "valid") => read' = 0
    <3>1. CASE op = "say_ready"
      BY <1>1, <1>2, <3>1 DEF Handlers, NextStore, StoreAfter, Stores
    <3>2. CASE op # "say_ready"
      BY <1>1, <1>2, <3>2 DEF ResetInv
    <3> QED
      BY <3>1, <3>2
  <2> QED
    BY <1>1, <2>1, <2>2, <2>3, <2>4, <2>5, <2>6 DEF ResetInv
<1>6. FillInv'
  <2> SUFFICES ASSUME trigger' = 0, Live', ~Restarting', NEW m \in 0 .. MaxSamp,
                      m <= frame_idx', restart' + m <= clock'
               PROVE  Rows(m)'
    BY DEF FillInv
  <2>1. pc # "trigger" /\ trigger = 0 /\ Live
    BY <1>1, <1>4
  <2>2. CASE m = 0
    BY <2>2 DEF Rows
  <2>3. CASE m > 0
    <3>1. ~BreaksRhythm
      <4>1. pc = "ndown" \/ (pc = "idown" /\ op = "set_ndown") => ~Live
        BY <1>2 DEF ResetInv, Handlers, Live
      <4>2. pc = "idown" /\ op = "pause" => idown = 0 \/ ndown = 0
        BY <1>1, <1>2, <1>3, <2>3 DEF ResetInv, Stores
      <4> QED
        BY <1>2, <2>1, <4>1, <4>2 DEF BreaksRhythm, Handlers
    <3>2. pc # "frame_idx" /\ ~(pc = "buffer_idx" /\ op = "trigger_on")
      BY <1>1, <1>3, <2>3, <3>1
    <3>3. ~Restarting /\ pc # "buffer_idx"
      BY <1>1, <1>2, <3>2 DEF Restarting, Handlers, NextStore, StoreAfter
    <3>4. UNCHANGED << data, buffer_idx, frame_idx, restart, clock >>
      BY <1>1, <3>1, <3>2, <3>3
    <3>5. Rows(m)
      BY <1>2, <2>1, <3>3, <3>4 DEF FillInv
    <3> QED
      BY <3>4, <3>5 DEF Rows
  <2> QED
    BY <2>2, <2>3
<1>7. KeptInv'
  <2> SUFFICES ASSUME valid' = 1, Live', SinceRestart', pc' \notin Withdrawing
               PROVE  \E m \in nsamp' .. MaxSamp : KeptAt(m)'
    BY DEF KeptInv
  <2>1. pc # "valid" /\ valid = 1 /\ Live
    BY <1>1, <1>4
  <2>2. op \notin {"pause", "set_nsamp"}
    BY <1>1, <1>2, <2>1 DEF ResetInv, Withdrawing, NextStore, StoreAfter
  <2>3. ~(op = "set_ndown" /\ pc \in {"idown", "ndown"})
    BY <1>2, <2>1 DEF ResetInv, Live
  <2>4. op = "trigger_on"
    BY <1>1, <1>2, <2>1, <2>2, <2>3
       DEF Handlers, Stores, NextStore, StoreAfter, Withdrawing
  <2>5. nsamp' = nsamp /\ clock' = clock /\ nsamp \in 1 .. MaxSamp
    BY <1>1, <1>2, <2>4, TriggerRows DEF Handlers, BreaksRhythm
  <2>6. CASE pc = "buffer_idx"
    <3>1. published = clock /\ restart' = clock
      BY <1>1, <1>2, <2>1, <2>4, <2>6 DEF ResetInv
    <3>2. published' = clock /\ fired' = fired
      BY <1>1, <3>1
    <3>3. published' \in restart' .. restart' + nsamp' - 1 /\ ~(restart' < fired')
      BY <1>3, <2>5, <3>1, <3>2, EngineAssumption
    <3> QED
      BY <3>3 DEF SinceRestart
  <2>7. CASE pc # "buffer_idx"
    <3>1. /\ UNCHANGED << data, buffer_idx, data_idx, restart, clock, nsamp, fired, published >>
          /\ pc \notin Withdrawing
      BY <1>1, <1>2, <2>1, <2>4, <2>5, <2>7 DEF Handlers, Withdrawing
    <3>2. SinceRestart
      BY <3>1 DEF SinceRestart
    <3>3. PICK m \in nsamp .. MaxSamp : KeptAt(m)
      BY <1>2, <2>1, <3>1, <3>2 DEF KeptInv
    <3>4. KeptAt(m)'
      BY <3>1, <3>3 DEF KeptAt, Rows
    <3> QED
      BY <3>1, <3>3, <3>4
  <2> QED
    BY <2>6, <2>7
<1>8. FlaggedInv'
  <2>1. pc' \notin {"copy", "return"} /\ op # "get_data"
    BY <1>1, <1>2 DEF Handlers, Stores, NextStore, StoreAfter
  <2> QED
    BY <1>1, <2>1 DEF FlaggedInv
<1> QED
  BY <1>5, <1>6, <1>7, <1>8 DEF WholeInv

\* The downsampling counter: nobody moves its limit below it while it counts.
LEMMA InitRate == Init => RateInv
  BY EngineAssumption DEF Init, RateInv

LEMMA TimerRate ==
  ASSUME TypeInv, UnarmedInv, ArmingClients, RateInv, Timer
  PROVE  RateInv'
<1>1. /\ lag \in Nat /\ idown \in Nat /\ ndown \in Nat /\ MaxStoreLag \in Nat
      /\ MaxStoreLag <= 1
  BY EngineAssumption DEF TypeInv, TypeOK, ArmingClients
<1>2. UNCHANGED << pc, ndown >>
  BY DEF Timer, TimerStop, TimerPaused, TimerSkip, TimerReceive, TimerSample, serverVars
<1>3. pc = "ndown" => LagBound = MaxStoreLag /\ pc \notin {"idle", "sleep", "exited"}
  BY DEF LagBound
<1>4. CASE TimerStop \/ TimerPaused \/ \E crossed \in BOOLEAN : TimerSample(crossed)
  <2>1. idown' = idown /\ tick' # "receive"
    BY <1>4 DEF TimerStop, TimerPaused, TimerSample, rateVars
  <2>2. lag' \in {lag, lag + 1}
    BY <1>4 DEF TimerStop, TimerPaused, TimerSample, Completes
  <2> QED
    BY <1>1, <1>2, <2>1, <2>2 DEF RateInv
<1>5. CASE TimerSkip
  <2>1. idown < ndown /\ idown' = idown + 1 /\ tick' # "receive"
    BY <1>5 DEF TimerSkip, Skips, NextDown, Measures
  <2>2. pc = "ndown" => lag' = lag + 1
    BY <1>3, <1>5 DEF TimerSkip, Completes
  <2> QED
    BY <1>1, <1>2, <2>1, <2>2 DEF RateInv
<1>6. CASE TimerReceive
  <2>1. ~(idown < ndown) /\ idown' = (IF idown = ndown THEN 0 ELSE idown) /\ lag' = lag
    BY <1>1, <1>6 DEF TimerReceive, Skips, NextDown
  <2>2. idown = ndown \/ ndown = 0
    BY <1>1, <2>1 DEF RateInv
  <2> QED
    BY <1>1, <1>2, <2>1, <2>2 DEF RateInv
<1> QED
  BY <1>4, <1>5, <1>6 DEF Timer

LEMMA StoreRate ==
  ASSUME TypeInv, UnarmedInv, ArmingClients, RateInv, Store
  PROVE  RateInv'
<1>1. /\ lag \in Nat /\ idown \in Nat /\ ndown \in Nat /\ MaxStoreLag \in Nat
      /\ MaxStoreLag <= 1 /\ arg \in Nat
  BY EngineAssumption DEF TypeInv, TypeOK, ArmingClients
<1>2. /\ pc \in Stores /\ tick' = tick /\ pc' = NextStore
      /\ idown' = IF pc = "idown" THEN 0 ELSE idown
      /\ ndown' = IF pc = "ndown" THEN arg ELSE ndown
  BY DEF Store
<1>3. pc' = "ndown" <=> pc = "idown" /\ op = "set_ndown"
  BY <1>2 DEF TypeInv, Handlers, NextStore, StoreAfter
<1>4. CASE pc = "idown"
  <2>1. pc' = "ndown" => lag' = lag
    BY DEF Store
  <2> QED
    BY <1>1, <1>2, <1>4, <2>1 DEF RateInv
<1>5. CASE pc = "ndown"
  <2>1. idown <= lag /\ idown <= ndown /\ lag <= MaxStoreLag
    BY <1>2, <1>5 DEF RateInv, UnarmedInv
  <2>2. idown' <= 1 /\ (tick = "receive" => idown' = 0)
    BY <1>1, <1>2, <1>5, <2>1 DEF RateInv
  <2> QED
    BY <1>1, <1>2, <1>3, <1>5, <2>2 DEF RateInv
<1>6. CASE pc \notin {"idown", "ndown"}
  BY <1>2, <1>3, <1>6 DEF RateInv
<1> QED
  BY <1>4, <1>5, <1>6

LEMMA StepRate ==
  ASSUME TypeInv, UnarmedInv, ArmingClients, RateInv, [Next]_vars
  PROVE  RateInv'
<1>1. CASE Command \/ CopyRow \/ ReturnData \/ TriggerWake
  <2>1. UNCHANGED << idown, ndown, tick >> /\ pc # "ndown" /\ pc' # "ndown"
    BY <1>1
       DEF Command, CheckData, SayReady, TriggerOff, StopAcq, GetData, SetNsamp, SetNdown,
       Pause, Link2Meas, TriggerOn, Accept, CopyRow, ReturnData, TriggerWake, rateVars
  <2> QED
    BY <2>1 DEF RateInv
<1>2. CASE UNCHANGED vars
  BY <1>2 DEF vars, rateVars, serverVars, RateInv
<1> QED
  BY <1>1, <1>2, TimerRate, StoreRate DEF Next, Server, Ended

\* What a sample does to the published frame.
LEMMA SamplePublishes ==
  ASSUME TypeInv, NEW crossed \in BOOLEAN, TimerSample(crossed)
  PROVE  /\ UNCHANGED << nsamp, trigger, op, pc, go, go_bak, want, row, copied, restart,
                         idown, ndown >>
         /\ clock' = clock + 1 /\ buffer_idx' = NextRow(buffer_idx)
         /\ data' = [data EXCEPT ![buffer_idx] = clock + 1]
         /\ \/ /\ valid' = 1 /\ read' = 0 /\ frame_idx' = 0 /\ published' = clock + 1
               /\ data_idx' = FrameStart(buffer_idx, nsamp)
               /\ pc \in {"copy", "return"} => newer'
               /\ \/ trigger = 0 /\ frame_idx >= nsamp - 1 /\ fired' = fired
                  \/ trigger = 1 /\ Ready /\ buffer_idx # 0
                  \/ trigger = 1 /\ triggered = 1
            \/ /\ UNCHANGED << data_idx, read, published >> /\ fired' \in {fired, clock + 1}
               /\ pc \in {"copy", "return"} /\ newer => newer'
               /\ valid' = IF buffer_idx = data_idx /\ read = 0 THEN 0 ELSE valid
               /\ trigger = 0 => frame_idx' = frame_idx + 1 /\ ~(frame_idx >= nsamp - 1)
<1>1. /\ UNCHANGED << nsamp, trigger, op, pc, go, go_bak, want, row, copied, restart,
                      idown, ndown >>
      /\ clock' = clock + 1 /\ buffer_idx' = NextRow(buffer_idx)
      /\ data' = [data EXCEPT ![buffer_idx] = clock + 1]
  BY DEF TimerSample, runVars, serverVars, copyVars, rateVars
<1> DEFINE state == IF trigger = 1 /\ trig_state = "WAIT" /\ buffer_idx >= GoRow
                    THEN "GO" ELSE trig_state
           fires == trigger = 1 /\ state = "GO" /\ crossed /\ buffer_idx # 0
           frame == IF fires THEN TriggerRow ELSE frame_idx
           hit   == IF fires THEN 1 ELSE triggered
           full  == frame >= nsamp - 1
           publish == full /\ (trigger = 0 \/ hit = 1)
           overrun == buffer_idx = data_idx /\ read = 0
<1>2. /\ data_idx' = IF publish THEN FrameStart(buffer_idx, nsamp) ELSE data_idx
      /\ valid' = IF publish THEN 1 ELSE IF overrun THEN 0 ELSE valid
      /\ read' = IF publish THEN 0 ELSE read
      /\ frame_idx' = IF publish THEN 0 ELSE frame + 1
      /\ published' = IF publish THEN clock + 1 ELSE published
      /\ fired' = IF fires THEN clock + 1 ELSE fired
  BY DEF TimerSample, TriggerRow
<1>3. pc \in {"copy", "return"} /\ (publish \/ newer) => newer'
  BY DEF TimerSample, TriggerRow
<1>4. fires => Ready /\ trigger = 1 /\ buffer_idx # 0
  BY DEF Ready
<1>5. trigger \in {0, 1}
  BY DEF TypeInv, TypeOK
<1> HIDE DEF fires
<1>6. CASE publish
  <2>1. \/ trigger = 0 /\ frame_idx >= nsamp - 1 /\ fired' = fired
        \/ trigger = 1 /\ Ready /\ buffer_idx # 0
        \/ trigger = 1 /\ triggered = 1
    BY <1>2, <1>4, <1>5, <1>6
  <2> HIDE DEF publish
  <2> QED
    BY <1>1, <1>2, <1>3, <1>6, <2>1
<1>7. CASE ~publish
  <2>1. trigger = 0 => ~(frame_idx >= nsamp - 1) /\ frame = frame_idx
    BY <1>4, <1>5, <1>7
  <2> HIDE DEF publish, frame
  <2> QED
    BY <1>1, <1>2, <1>3, <1>7, <2>1
<1> QED
  BY <1>6, <1>7

\* A frame that is published holds the last samples: counted from a trigger, or in a
\* ring that has not been restarted since they were counted.
LEMMA PublishedRows ==
  ASSUME TypeInv, UnarmedInv, ArmedInv, PastInv, PlacedInv, FillInv, TriggeredClients,
         NEW crossed \in BOOLEAN, TimerSample(crossed), Live, SinceRestart', ~Restarting,
         published' = clock + 1, frame_idx' = 0,
         \/ trigger = 0 /\ frame_idx >= nsamp - 1 /\ fired' = fired
         \/ trigger = 1 /\ Ready /\ buffer_idx # 0
         \/ trigger = 1 /\ triggered = 1
  PROVE  Rows(nsamp - 1)
<1>1. /\ nsamp \in 1 .. MaxSamp /\ MaxSamp \in Nat \ {0} /\ frame_idx \in Nat /\ clock \in Nat
      /\ restart \in Nat /\ fired \in Nat
  BY TriggerRows DEF TypeInv, TypeOK
<1>2. nsamp' = nsamp /\ restart' = restart
  BY SampleTrigger
<1>3. nsamp - 1 \in 0 .. MaxSamp /\ restart + (nsamp - 1) = restart + nsamp - 1
  BY <1>1
<1>4. CASE trigger = 0 /\ frame_idx >= nsamp - 1 /\ fired' = fired
  <2>1. restart <= clock /\ (restart < fired => restart + frame_idx <= clock)
    BY DEF PastInv
  <2>2. clock + 1 \notin restart .. restart + nsamp - 1 \/ restart < fired
    BY <1>2, <1>4 DEF SinceRestart
  <2>3. restart + (nsamp - 1) <= clock
    BY <1>1, <1>4, <2>1, <2>2
  <2>4. nsamp - 1 <= frame_idx
    BY <1>1, <1>4
  <2> QED
    BY <1>3, <1>4, <2>3, <2>4 DEF FillInv
<1>5. CASE trigger = 1 /\ Ready /\ buffer_idx # 0
  BY <1>5, ReadyRows DEF TriggeredClients
<1>6. CASE trigger = 1 /\ triggered = 1
  <2>1. pc \notin Arming
    BY <1>6, ArmingPublishes
  <2>2. trig_state = "DONE"
    BY <1>6, <2>1 DEF PlacedInv
  <2>3. restart + nsamp - 1 <= clock /\ SinceRows
    BY <1>6, <2>1, <2>2 DEF ArmedInv
  <2> QED
    BY <1>3, <2>3 DEF SinceRows
<1> QED
  BY <1>4, <1>5, <1>6

\* A sample leaves a published frame whole, or withdraws it.
LEMMA AdvancedKeeps ==
  ASSUME TypeInv, NEW m \in nsamp .. MaxSamp, KeptAt(m), buffer_idx # data_idx,
         NEW crossed \in BOOLEAN, TimerSample(crossed), data_idx' = data_idx
  PROVE  /\ m + 1 \in nsamp .. MaxSamp
         /\ data_idx' = Back(buffer_idx', m + 1) /\ NextRows(m + 1)
         /\ \A k \in 0 .. nsamp - 1 : /\ FrameRow(k)' = FrameRow(k)
                                      /\ data'[FrameRow(k)] = data[FrameRow(k)]
<1>1. /\ clock' = clock + 1 /\ buffer_idx' = NextRow(buffer_idx)
      /\ data' = [data EXCEPT ![buffer_idx] = clock + 1]
  BY SampleTrigger
<1>2. /\ nsamp \in 1 .. MaxSamp /\ MaxSamp \in Nat \ {0}
      /\ buffer_idx \in RingRows /\ clock \in Nat /\ data \in [RingRows -> Nat]
  BY TriggerRows DEF TypeInv, TypeOK, RingRows
<1>3. m # MaxSamp
  <2>1. Back(buffer_idx, MaxSamp) = buffer_idx
    BY <1>2 DEF RingRows, Back
  <2> QED
    BY <2>1 DEF KeptAt
<1>4. m \in RingRows /\ m \in 0 .. MaxSamp - 1 /\ m + 1 \in nsamp .. MaxSamp
  BY <1>2, <1>3 DEF RingRows
<1>5. NextRows(m + 1)
  BY <1>1, <1>4, RowsStep DEF KeptAt, TypeInv
<1>6. data_idx' = Back(buffer_idx', m + 1)
  BY <1>1, <1>2, <1>4, BackNext DEF KeptAt
<1>7. ASSUME NEW k \in 0 .. nsamp - 1
      PROVE  FrameRow(k)' = FrameRow(k) /\ data'[FrameRow(k)] = data[FrameRow(k)]
  <2>1. /\ m \in 1 .. MaxSamp /\ k \in 0 .. m - 1 /\ m - k \in 1 .. MaxSamp - 1
    BY <1>2, <1>3
  <2>2. FrameRow(k) = Back(buffer_idx, m - k)
    BY <1>2, <2>1, FrameRowBack DEF KeptAt
  <2>3. FrameRow(k) # buffer_idx
    BY <1>2, <2>1, <2>2, BackOther
  <2>4. FrameRow(k)' = FrameRow(k)
    BY DEF FrameRow
  <2> QED
    BY <1>1, <1>2, <2>3, <2>4
<1> QED
  BY <1>4, <1>5, <1>6, <1>7

\* A callback in a handler finds what that has reset, and takes one sample.
LEMMA SampleResets ==
  ASSUME TypeInv, TypeInv', UnarmedInv, ResetInv, RateInv, TriggeredClients,
         NEW crossed \in BOOLEAN, TimerSample(crossed)
  PROVE  ResetInv'
<1>1. /\ UNCHANGED << nsamp, trigger, op, pc, go, idown, ndown >> /\ clock' = clock + 1
  BY SamplePublishes
<1>2. /\ nsamp \in Frames /\ nsamp \in Nat /\ lag \in Nat /\ frame_idx \in Nat
      /\ MaxStoreLag \in Nat /\ MaxStoreLag <= 1 /\ lag' \in Nat
  BY TriggerRows, EngineAssumption DEF TypeInv, TypeOK, TriggeredClients, ArmingClients
<1>3. pc \in Stores => lag = 0 /\ lag' = 1 /\ 1 < nsamp
  <2>1. pc \in Stores => Busy /\ LagBound = MaxStoreLag
    BY DEF Busy, Stores, LagBound
  <2>2. pc \in Stores => lag < MaxStoreLag /\ lag' = lag + 1
    BY <2>1, SampleTrigger
  <2>3. MaxStoreLag < nsamp
    BY <1>2 DEF TriggeredClients
  <2> QED
    BY <1>2, <2>2, <2>3
<1>4. tick = "receive" /\ (idown = 0 \/ ndown = 0)
  BY SampleTrigger DEF RateInv
<1>5. ASSUME op \in {"pause", "set_nsamp"}, pc \in Stores \ {"buffer_idx", "frame_idx"}
      PROVE  frame_idx' = 1 /\ valid' \in {0, valid}
  <2>1. frame_idx = 0 /\ trigger = 0
    BY <1>2, <1>3, <1>5 DEF ResetInv, UnarmedInv
  <2>2. ~(frame_idx >= nsamp - 1)
    BY <1>2, <1>3, <1>5, <2>1
  <2> QED
    BY <2>1, <2>2, SamplePublishes
<1>6. op = "trigger_on" /\ pc = "buffer_idx" /\ valid' = 1 => published' = clock'
  <2>1. op = "trigger_on" /\ pc = "buffer_idx" => valid # 1
    BY <1>2, <1>3 DEF ResetInv, Stores
  <2> QED
    BY <1>1, <2>1, SamplePublishes
<1>7. valid' = 1 /\ ~(op = "say_ready" /\ pc = "valid") => read' = 0
  <2>1. valid' = 1 => read' = 0 \/ (valid = 1 /\ read' = read)
    BY SamplePublishes
  <2> QED
    BY <2>1 DEF ResetInv
<1>8. pc \in Stores => lag' > 0 /\ 1 <= lag'
  BY <1>3
<1>9. "buffer_idx" \in Stores
  BY DEF Stores
<1>10. op \in {"pause", "set_nsamp"} /\ pc \in Stores \ {"buffer_idx", "frame_idx"} =>
         frame_idx' <= lag' /\ (frame_idx' > 0 => idown' = 0 \/ ndown' = 0)
  BY <1>1, <1>4, <1>5, <1>8
<1>11. op \in {"pause", "set_nsamp"} /\ pc \in Stores \ Withdrawing => valid' = 0
  BY <1>5 DEF ResetInv, Withdrawing
<1> QED
  BY <1>1, <1>6, <1>7, <1>8, <1>9, <1>10, <1>11 DEF ResetInv

LEMMA SampleWhole ==
  ASSUME TypeInv, TypeInv', UnarmedInv, ArmedInv, PastInv, PlacedInv, RateInv, WholeInv,
         TriggeredClients, NEW crossed \in BOOLEAN, TimerSample(crossed)
  PROVE  WholeInv'
<1> DEFINE publishes ==
             /\ valid' = 1 /\ read' = 0 /\ frame_idx' = 0 /\ published' = clock + 1
             /\ data_idx' = FrameStart(buffer_idx, nsamp)
             /\ pc \in {"copy", "return"} => newer'
             /\ \/ trigger = 0 /\ frame_idx >= nsamp - 1 /\ fired' = fired
                \/ trigger = 1 /\ Ready /\ buffer_idx # 0
                \/ trigger = 1 /\ triggered = 1
           advances ==
             /\ UNCHANGED << data_idx, read, published >> /\ fired' \in {fired, clock + 1}
             /\ pc \in {"copy", "return"} /\ newer => newer'
             /\ valid' = IF buffer_idx = data_idx /\ read = 0 THEN 0 ELSE valid
             /\ trigger = 0 => frame_idx' = frame_idx + 1 /\ ~(frame_idx >= nsamp - 1)
<1>1. /\ UNCHANGED << nsamp, trigger, op, pc, go, go_bak, want, row, copied, restart >>
      /\ clock' = clock + 1 /\ buffer_idx' = NextRow(buffer_idx)
      /\ data' = [data EXCEPT ![buffer_idx] = clock + 1]
      /\ publishes \/ advances
  BY SamplePublishes
<1>2. /\ nsamp \in 1 .. MaxSamp /\ MaxSamp \in Nat \ {0} /\ frame_idx \in Nat
      /\ buffer_idx \in RingRows /\ buffer_idx' \in RingRows /\ clock \in Nat
      /\ restart \in Nat /\ published \in Nat /\ fired \in Nat
  BY TriggerRows DEF TypeInv, TypeOK, RingRows
<1>3. ASSUME NEW m \in 0 .. MaxSamp - 1, Rows(m) PROVE NextRows(m + 1)
  BY <1>1, <1>3, RowsStep DEF TypeInv
<1>4. (Live' <=> Live) /\ (Restarting' <=> Restarting)
  BY <1>1 DEF Live, Restarting
<1>5. advances /\ SinceRestart' => SinceRestart
  <2>1. published <= clock
    BY DEF PastInv
  <2> QED
    BY <1>1, <1>2, <2>1 DEF SinceRestart
<1>6. ResetInv'
  BY SampleResets DEF WholeInv
<1>7. FillInv'
  <2> SUFFICES ASSUME trigger = 0, Live, ~Restarting, NEW m \in 0 .. MaxSamp,
                      m <= frame_idx', restart + m <= clock + 1
               PROVE  NextRows(m)
    BY <1>1, <1>4 DEF FillInv, Rows, NextRows
  <2>1. CASE m = 0
    BY <2>1 DEF NextRows
  <2>2. CASE m # 0
    <3>1. frame_idx' # 0
      BY <2>2
    <3>2. frame_idx' = frame_idx + 1
      BY <1>1, <3>1
    <3>3. /\ m - 1 \in 0 .. MaxSamp - 1 /\ m - 1 \in 0 .. MaxSamp /\ (m - 1) + 1 = m
          /\ m - 1 <= frame_idx /\ restart + (m - 1) <= clock
      BY <1>2, <2>2, <3>2
    <3>4. Rows(m - 1)
      BY <3>3 DEF WholeInv, FillInv
    <3> QED
      BY <1>3, <3>3, <3>4
  <2> QED
    BY <2>1, <2>2
<1>8. advances /\ valid' = 1 => valid = 1 /\ data_idx' = data_idx /\
                               (~(op = "say_ready" /\ pc = "valid") => buffer_idx # data_idx)
  BY DEF WholeInv, ResetInv
<1>9. KeptInv'
  <2> SUFFICES ASSUME valid' = 1, Live, SinceRestart', pc \notin Withdrawing
               PROVE  \E m \in nsamp .. MaxSamp :
                        data_idx' = Back(buffer_idx', m) /\ NextRows(m)
    BY <1>1, <1>4 DEF KeptInv, KeptAt, Rows, NextRows
  <2>1. CASE publishes
    <3>1. ~Restarting
      BY DEF Restarting, Withdrawing
    <3>2. Rows(nsamp - 1)
      BY <2>1, <3>1, PublishedRows DEF WholeInv
    <3>3. nsamp - 1 \in 0 .. MaxSamp - 1 /\ (nsamp - 1) + 1 = nsamp
          /\ nsamp \in nsamp .. MaxSamp
      BY <1>2
    <3>4. NextRows(nsamp)
      BY <1>3, <3>2, <3>3
    <3>5. data_idx' = Back(buffer_idx', nsamp)
      BY <1>1, <1>2, <2>1, FrameStartBack
    <3> QED
      BY <3>3, <3>4, <3>5
  <2>2. CASE advances
    <3>1. valid = 1 /\ data_idx' = data_idx /\ buffer_idx # data_idx
      BY <1>8, <2>2 DEF Withdrawing
    <3>2. PICK m \in nsamp .. MaxSamp : KeptAt(m)
      BY <1>5, <2>2, <3>1 DEF WholeInv, KeptInv
    <3> QED
      BY <3>1, <3>2, AdvancedKeeps
  <2> QED
    BY <1>1, <2>1, <2>2
<1>10. FlaggedInv'
  <2> SUFFICES ASSUME pc \in {"copy", "return"}, valid' = 1, go = 1, ~newer', SinceRestart'
               PROVE  /\ want <= nsamp /\ Len(copied) <= want
                      /\ \A k \in 1 .. Len(copied) : copied[k] = data'[FrameRow(k - 1)']
                      /\ pc = "copy" => Len(copied) < want /\ row = FrameRow(Len(copied))'
    BY <1>1 DEF FlaggedInv
  <2>1. advances /\ ~newer
    BY <1>1
  <2>2. valid = 1 /\ data_idx' = data_idx /\ buffer_idx # data_idx /\ SinceRestart
    BY <1>5, <1>8, <2>1
  <2>3. PICK m \in nsamp .. MaxSamp : KeptAt(m)
    BY <2>2 DEF WholeInv, KeptInv, Live, Withdrawing
  <2>4. \A k \in 0 .. nsamp - 1 : /\ FrameRow(k)' = FrameRow(k)
                                  /\ data'[FrameRow(k)] = data[FrameRow(k)]
    BY <2>2, <2>3, AdvancedKeeps
  <2>5. /\ want <= nsamp /\ Len(copied) <= want
        /\ \A k \in 1 .. Len(copied) : copied[k] = data[FrameRow(k - 1)]
        /\ pc = "copy" => Len(copied) < want /\ row = FrameRow(Len(copied))
    BY <2>1, <2>2 DEF WholeInv, FlaggedInv
  <2>6. Len(copied) \in Nat /\ want \in Nat
    BY EngineAssumption DEF TypeInv, TypeOK
  <2>7. ASSUME NEW k \in 1 .. Len(copied) PROVE copied[k] = data'[FrameRow(k - 1)']
    <3>1. k - 1 \in 0 .. nsamp - 1
      BY <1>2, <2>5, <2>6
    <3> QED
      BY <2>4, <2>5, <3>1
  <2>8. pc = "copy" => Len(copied) < want /\ row = FrameRow(Len(copied))'
    <3>1. pc = "copy" => Len(copied) \in 0 .. nsamp - 1
      BY <1>2, <2>5, <2>6
    <3>2. copied' = copied
      BY <1>1
    <3> QED
      BY <2>4, <2>5, <3>1, <3>2
  <2> QED
    BY <2>5, <2>7, <2>8
<1> QED
  BY <1>6, <1>7, <1>9, <1>10 DEF WholeInv

\* The invariant of the engine whose clients arm the trigger.
TriggerInv ==
  TypeInv /\ UnarmedInv /\ ArmedInv /\ PastInv /\ PlacedInv /\ RateInv /\ WholeInv

LEMMA StepWhole ==
  ASSUME TypeInv', TriggerInv, TriggeredClients, [Next]_vars
  PROVE  WholeInv'
<1> USE DEF TriggerInv
<1>0. ArmingClients
  BY DEF TriggeredClients
<1>1. CASE TimerStop \/ TimerPaused \/ TimerSkip \/ TimerReceive
  BY <1>0, <1>1, TimerSteady, SteadyWhole
<1>2. ASSUME NEW crossed \in BOOLEAN, TimerSample(crossed) PROVE WholeInv'
  BY <1>2, SampleWhole
<1>3. CASE Command
  BY <1>3, CommandOpens, OpensWhole, FetchesWhole
<1>4. CASE CopyRow \/ ReturnData \/ TriggerWake
  BY <1>4, CopyRowWhole, ReturnWhole, WakeWhole
<1>5. CASE Store
  BY <1>5, StoreWhole
<1>6. CASE UNCHANGED vars
  <2>1. lag \in Nat
    BY DEF TypeInv, TypeOK
  <2>2. Steady
    BY <1>6, <2>1 DEF vars, Steady, wholeVars, ringVars, rateVars, trigVars, runVars,
       serverVars, copyVars, sinceVars
  <2> QED
    BY <2>2, SteadyWhole
<1> QED
  BY <1>1, <1>2, <1>3, <1>4, <1>5, <1>6 DEF Next, Timer, Server, Ended

LEMMA TriggerInvariant ==
  ASSUME TriggeredClients
  PROVE  Spec => []TriggerInv
<1>1. Init => TriggerInv
  BY InitType, InitTrigger, InitRate, InitWhole DEF TriggerInv
<1>2. TriggerInv /\ [Next]_vars => TriggerInv'
  <2> SUFFICES ASSUME TriggerInv, [Next]_vars PROVE TriggerInv'
    OBVIOUS
  <2>1. ArmingClients
    BY DEF TriggeredClients
  <2>2. TypeInv'
    BY StepType DEF TriggerInv
  <2>3. (UnarmedInv /\ ArmedInv /\ PastInv)'
    BY <2>1, <2>2, StepArmed DEF TriggerInv
  <2>4. PlacedInv'
    BY <2>1, <2>2, StepPlaced DEF TriggerInv
  <2>5. RateInv'
    BY <2>1, StepRate DEF TriggerInv
  <2>6. WholeInv'
    BY <2>2, StepWhole
  <2> QED
    BY <2>2, <2>3, <2>4, <2>5, <2>6 DEF TriggerInv
<1> QED
  BY <1>1, <1>2, PTL DEF Spec

\* A frame that a poll would report holds nsamp successive samples although triggers
\* leave it published while the ring goes on: the check at its first row in
\* tde_timer_fun withdraws it when the ring has come round, and no restart by
\* tde_pause, tde_set_nsamp or tde_trigger_on shows in it, although a callback may run
\* between any two of their stores; only the count that tde_trigger_on leaves as it is
\* may reach back behind its restart, which SinceRestart leaves out.
THEOREM TriggeredFramesAreConsecutive ==
  ASSUME TriggeredClients
  PROVE  Spec => []FrameConsecutive
<1>1. TriggerInv => FrameConsecutive
  <2> SUFFICES ASSUME TriggerInv, pc = "idle", go = 1, valid = 1, SinceRestart,
                      NEW k \in 1 .. nsamp - 1
               PROVE  data[FrameRow(k)] = data[FrameRow(k - 1)] + 1
    BY DEF FrameConsecutive
  <2>1. TypeInv /\ KeptInv
    BY DEF TriggerInv, WholeInv
  <2>2. PICK m \in nsamp .. MaxSamp : KeptAt(m)
    BY <2>1 DEF KeptInv, Live, Withdrawing
  <2>3. nsamp \in Nat /\ MaxSamp \in Nat /\ m \in Nat /\ clock \in Nat
    BY <2>1, TriggerRows DEF TypeInv, TypeOK
  <2>4. k \in 0 .. nsamp - 1 /\ k - 1 \in 0 .. nsamp - 1
    BY <2>3
  <2>5. data[FrameRow(k)] = clock + 1 - m + k /\ data[FrameRow(k - 1)] = clock + 1 - m + (k - 1)
    BY <2>1, <2>2, <2>4, KeptRows
  <2> QED
    BY <2>3, <2>4, <2>5
<1> QED
  BY <1>1, TriggerInvariant, PTL

\* What tde_get_data delivers with the answer 1 are successive samples of one frame, for
\* any number of callbacks before and in the copy: if the ring laps it the answer is 0,
\* unless the callback has published another frame since the copy began.
THEOREM CopiesAreFlagged ==
  ASSUME TriggeredClients
  PROVE  Spec => CopyFlagged
<1> DEFINE Flags == /\ pc = "return" /\ pc' = "idle" /\ retval' = 1
                    /\ go = 1 /\ ~newer /\ SinceRestart
                    => \A k \in 2 .. Len(copied) : copied[k] = copied[k - 1] + 1
<1>1. ASSUME [Next]_vars, pc = "return", pc' = "idle" PROVE retval' = valid
  <2>1. CASE Timer
    BY <1>1, <2>1 DEF Timer, TimerStop, TimerPaused, TimerSkip, TimerReceive, TimerSample,
       serverVars
  <2>2. CASE Server
    BY <1>1, <2>2 DEF Server, Command, CheckData, SayReady, TriggerOff, StopAcq, GetData,
       SetNsamp, SetNdown, Pause, Link2Meas, TriggerOn, Accept, CopyRow, ReturnData, TriggerWake,
       Store, Stores
  <2>3. CASE UNCHANGED vars
    BY <1>1, <2>3 DEF vars, serverVars
  <2> QED
    BY <1>1, <2>1, <2>2, <2>3 DEF Next, Ended
<1>2. TriggerInv /\ [Next]_vars => [Flags]_vars
  <2> SUFFICES ASSUME TriggerInv, [Next]_vars, pc = "return", pc' = "idle", retval' = 1,
                      go = 1, ~newer, SinceRestart, NEW k \in 2 .. Len(copied)
               PROVE  copied[k] = copied[k - 1] + 1
    OBVIOUS
  <2>1. valid = 1
    BY <1>1
  <2> QED
    BY <2>1, ReturnFlags DEF TriggerInv
<1> QED
  BY <1>2, TriggerInvariant, PTL DEF Spec, CopyFlagged

----------------------------------------------------------------------------
(* The rows that tde_get_data reads. *)

\* A frame is withdrawn before the index is gone, but within the restart.
IndexInv ==
  /\ valid = 1 => data_idx >= 0 \/ (op \in {"pause", "set_nsamp"} /\ pc = "valid")
  /\ pc = "idle" /\ op = "check_data" /\ retval = 0 => data_idx >= 0
  /\ pc = "copy" => row \in RingRows

LEMMA TimerIndex ==
  ASSUME TypeInv, TypeInv', IndexInv, Timer
  PROVE  IndexInv'
<1>1. UNCHANGED << op, pc, retval, row >>
  BY DEF Timer, TimerStop, TimerPaused, TimerSkip, TimerReceive, TimerSample, serverVars,
     copyVars
<1>2. data_idx' >= 0 \/ (UNCHANGED data_idx /\ (valid' = 1 => valid = 1))
  <2>1. CASE TimerStop \/ TimerPaused \/ TimerSkip \/ TimerReceive
    BY <2>1 DEF TimerStop, TimerPaused, TimerSkip, TimerReceive, ringVars
  <2>2. ASSUME NEW crossed \in BOOLEAN, TimerSample(crossed)
        PROVE  data_idx' >= 0 \/ (UNCHANGED data_idx /\ (valid' = 1 => valid = 1))
    <3>1. FrameStart(buffer_idx, nsamp) >= 0
      <4>1. /\ nsamp \in 1 .. MaxSamp /\ MaxSamp \in Nat
            /\ buffer_idx \in 0 .. MaxSamp - 1
        BY EngineAssumption, ClientAssumption DEF TypeInv, TypeOK
      <4> QED
        BY <4>1 DEF FrameStart
    <3>2. data_idx' = FrameStart(buffer_idx, nsamp)
          \/ (UNCHANGED data_idx /\ (valid' = 1 => valid = 1))
      BY <2>2, SamplePublishes
    <3> QED
      BY <3>1, <3>2
  <2> QED
    BY <2>1, <2>2 DEF Timer
<1> QED
  BY <1>1, <1>2 DEF IndexInv

LEMMA ServerIndex ==
  ASSUME PollFirst, TypeInv, TypeInv', IndexInv, Server
  PROVE  IndexInv'
<1> USE DEF IndexInv, Accept, ringVars
<1>0. data_idx \in -1 .. MaxSamp - 1 /\ MaxSamp \in Nat \ {0}
  BY EngineAssumption DEF TypeInv, TypeOK
<1>1. CASE CheckData
  BY <1>1 DEF CheckData
<1>2. CASE SayReady \/ TriggerOff \/ StopAcq
  BY <1>2 DEF SayReady, TriggerOff, StopAcq
<1>3. ASSUME NEW n \in Frames, GetData(n) PROVE IndexInv'
  BY <1>0, <1>3 DEF GetData, RingRows
<1>4. ASSUME NEW n \in Frames, SetNsamp(n) PROVE IndexInv'
  BY <1>4 DEF SetNsamp
<1>5. ASSUME NEW n \in Downs, SetNdown(n) PROVE IndexInv'
  BY <1>5 DEF SetNdown
<1>6. ASSUME NEW p \in {0, 1}, Pause(p) \/ Link2Meas(p) PROVE IndexInv'
  BY <1>6 DEF Pause, Link2Meas
<1>7. ASSUME NEW p \in Prerolls, TriggerOn(p) PROVE IndexInv'
  BY <1>7 DEF TriggerOn
<1>8. CASE CopyRow
  <2>1. NextRow(row) \in RingRows
    BY <1>0, <1>8 DEF CopyRow, NextRow, RingRows
  <2> QED
    BY <1>8, <2>1 DEF CopyRow
<1>9. CASE ReturnData \/ TriggerWake
  BY <1>9 DEF ReturnData, TriggerWake, TypeInv, Handlers
<1>10. CASE Store
  <2>1. /\ op' = op /\ pc' = NextStore /\ pc \in Stores
        /\ data_idx' = IF pc = "data_idx" THEN -1 ELSE data_idx
        /\ valid' = IF pc = "valid" THEN 0 ELSE valid
    BY <1>10 DEF Store
  <2>2. /\ pc = "data_idx" => pc' = "valid" /\ op \in {"pause", "set_nsamp"}
        /\ pc' # "copy" /\ op # "check_data"
    BY <2>1 DEF TypeInv, Handlers, NextStore, StoreAfter, Stores
  <2> QED
    BY <2>1, <2>2
<1> QED
  BY <1>1, <1>2, <1>3, <1>4, <1>5, <1>6, <1>7, <1>8, <1>9, <1>10 DEF Server, Command

\* "Index within buffer": every row that tde_get_data copies after a successful poll
\* lies in tde_data, for every ring and whatever commands and callbacks came before.  The
\* index becomes -1 only between two stores in which tde_data_valid is withdrawn.
THEOREM CopiesStayInRing ==
  ASSUME PollFirst
  PROVE  Spec => []CopyInRing
<1>1. Init => IndexInv
  BY DEF Init, IndexInv
<1>2. TypeInv /\ TypeInv' /\ IndexInv /\ [Next]_vars => IndexInv'
  <2>1. UNCHANGED vars /\ IndexInv => IndexInv'
    BY DEF vars, ringVars, serverVars, copyVars, IndexInv
  <2> QED
    BY <2>1, TimerIndex, ServerIndex DEF Next, Ended
<1>3. IndexInv => CopyInRing
  BY DEF IndexInv, CopyInRing, RingRows
<1> QED
  BY <1>1, <1>2, <1>3, InitType, StepType, PTL DEF Spec
====
