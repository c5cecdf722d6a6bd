------------------------------ MODULE RtTarget ------------------------------
(***************************************************************************)
(* The program that the ectarget generates from a Simulink model: main and *)
(* the timer's callback user_apc, which step the model and exchange its    *)
(* data with the slaves, and the External Mode thread, which may stop or   *)
(* pause the model.  The single-tasking step, with the I/O in user_apc     *)
(* (EC_GENERIC not defined).                                               *)
(*                                                                         *)
(* Time is counted in base steps.  A sample of the outputs carries the     *)
(* number of the step that computed it, a sample of the inputs the number  *)
(* of steps done when the slaves took it.  A frame takes outputs to the    *)
(* slaves and brings inputs back.                                          *)
(***************************************************************************)
EXTENDS Integers

CONSTANTS
  FinalTime,    \* rtmGetTFinal, in base steps
  Start,        \* istart: interrupts before the first callback
  ExtMode,      \* TRUE if built with EXT_MODE
  FramesLost,   \* TRUE if a frame may be lost
  ModelFails,   \* TRUE if the model may set its error status
  LogFails,     \* TRUE if logging a step may fail
  TimerFails,   \* TRUE if the process may lack the rights of a real-time one
  None

\* Who calls rt_OneStep, and what main reports when the program ends.
Callers == {"user_apc", "main"}
Reports == {"no devices", "not logged", "overrun", "model error", "success"}

ASSUME TargetAssumption ==
  /\ FinalTime \in Nat /\ Start \in Nat \ {0}
  /\ ExtMode \in BOOLEAN /\ FramesLost \in BOOLEAN
  /\ ModelFails \in BOOLEAN /\ LogFails \in BOOLEAN /\ TimerFails \in BOOLEAN
  /\ None \notin Int \cup Callers \cup Reports

VARIABLES
  pc,             \* what main does next
  caller,         \* who called rt_OneStep: "user_apc" or "main"
  icnt,           \* interrupts of the timer, counted from 1
  t,              \* rtmGetT
  isrOverrun, stopExecutionFlag,
  errmsg,         \* TRUE if a step could not be logged
  errorStatus,    \* TRUE if the model has set its error status
  stopRequested,  \* rtmGetStopRequested
  paused,         \* TRUE while External Mode holds the model
  ext,            \* the External Mode thread: "none", "test", "serve", "left"
  stopExtMode,
  outputs, inputs,  \* the samples in IOmap
  held,           \* the outputs that the slaves have
  flight,         \* the inputs on their way back, None if no frame is
  dropped,        \* history: the last frame sent was lost, going or coming
  exit            \* how the program ended

busVars == << outputs, inputs, held, flight, dropped >>
stepVars == << t, isrOverrun, stopExecutionFlag, errmsg, errorStatus >>
extVars == << paused, ext, stopExtMode >>

vars == << pc, caller, icnt, stepVars, stopRequested, extVars, busVars, exit >>

Init ==
  /\ pc = "MdlStart" /\ caller = None /\ icnt = 1 /\ t = 0
  /\ isrOverrun = 0 /\ stopExecutionFlag = FALSE
  /\ errmsg = FALSE /\ errorStatus = FALSE /\ stopRequested = FALSE
  /\ paused = FALSE /\ ext = "none" /\ stopExtMode = FALSE
  /\ outputs = 0 /\ inputs = None /\ held = None /\ flight = None /\ dropped = FALSE
  /\ exit = None

----------------------------------------------------------------------------
(* The bus.  ec_slave[0].state is operational from ec_start to ec_stop.    *)

\* ec_send_processdata: frames still on their way are forgotten.  A frame can be
\* lost before it reaches the slaves or after.
SendFrame ==
  \/ /\ held' = outputs /\ flight' = t /\ dropped' = FALSE
  \/ /\ FramesLost
     /\ held' \in {held, outputs} /\ flight' = None /\ dropped' = TRUE

\* Mutant: the callback does not receive.
ReceiveNothing == UNCHANGED << inputs, flight >>

\* ec_receive_processdata: without a frame the old inputs stay.
ReceiveFrame ==
  /\ inputs' = IF flight = None THEN inputs ELSE flight
  /\ flight' = None

\* Mutant: ec_io receives what was sent before and sends nothing.
ExchangeNothing ==
  /\ ReceiveFrame /\ UNCHANGED << held, dropped >>

\* ec_io: both, one after the other.
ExchangeFrame ==
  \/ held' = outputs /\ inputs' = t /\ flight' = None /\ dropped' = FALSE
  \/ /\ FramesLost
     /\ held' \in {held, outputs} /\ UNCHANGED inputs
     /\ flight' = None /\ dropped' = TRUE

----------------------------------------------------------------------------
(* main, up to the timer.                                                  *)

\* The model may set its error status as it starts.
MdlStart ==
  /\ pc = "MdlStart"
  /\ errorStatus' \in {FALSE, ModelFails}
  /\ stopExecutionFlag' = errorStatus'
  /\ ext' = IF ExtMode THEN "test" ELSE ext
  /\ pc' = "ec_start"
  /\ UNCHANGED << caller, icnt, t, isrOverrun, errmsg, stopRequested, paused,
                  stopExtMode, busVars, exit >>

\* ec_setop exchanges one frame before the slaves become operational.  rtc_timer
\* returns at once if it gets no real-time priority, which main does not notice.
EcStart ==
  /\ pc = "ec_start"
  /\ \/ pc' = "interrupt" /\ ExchangeFrame /\ UNCHANGED << outputs, exit >>
     \/ TimerFails /\ pc' = "last" /\ ExchangeFrame /\ UNCHANGED << outputs, exit >>
     \/ pc' = "exited" /\ exit' = "no devices" /\ UNCHANGED busVars
  /\ UNCHANGED << caller, icnt, stepVars, stopRequested, extVars >>

----------------------------------------------------------------------------
(* The timer's callback.                                                   *)

\* Mutant: one interrupt more.
WarmUpLonger == icnt <= Start

\* rtc_signalhandler calls the callback from interrupt istart on.
WarmUp == icnt < Start

\* rtc_rttask and rtc_signalhandler: one more period has begun.
Interrupt ==
  /\ pc = "interrupt"
  /\ IF WarmUp THEN icnt' = icnt + 1 /\ UNCHANGED pc
               ELSE pc' = "user_apc" /\ UNCHANGED icnt
  /\ UNCHANGED << caller, stepVars, stopRequested, extVars, busVars, exit >>

Return == icnt' = icnt + 1

\* Mutants: a flagged model goes on, and one at its final time does.
GoesOnFlagged == t < FinalTime
GoesOnLate == ~stopExecutionFlag /\ t <= FinalTime

GoesOn == ~stopExecutionFlag /\ t < FinalTime

UserApc ==
  /\ pc = "user_apc"
  /\ IF GoesOn
       THEN pc' = "pause" /\ UNCHANGED << icnt, busVars >>
       ELSE pc' = "last" /\ Return /\ ExchangeFrame /\ UNCHANGED outputs
  /\ UNCHANGED << caller, stepVars, stopRequested, extVars, exit >>

\* Mutant: a paused model is not stopped.
MayPassContinued == ~paused

\* rtExtModePauseIfNeeded waits as long as the model is paused.
MayPass == ~paused \/ stopRequested

PauseIfNeeded ==
  /\ pc = "pause" /\ MayPass
  /\ IF stopRequested
       THEN pc' = "last" /\ Return /\ ExchangeFrame /\ UNCHANGED outputs
       ELSE pc' = "ec_receive" /\ UNCHANGED << icnt, busVars >>
  /\ UNCHANGED << caller, stepVars, stopRequested, extVars, exit >>

EcReceive ==
  /\ pc = "ec_receive"
  /\ ReceiveFrame
  /\ pc' = "rt_OneStep" /\ caller' = "user_apc"
  /\ UNCHANGED << icnt, stepVars, stopRequested, extVars, outputs, held, dropped,
                  exit >>

\* user_apc returns 0: the next interrupt follows.
EcSend ==
  /\ pc = "ec_send"
  /\ SendFrame /\ Return
  /\ pc' = "interrupt"
  /\ UNCHANGED << caller, stepVars, stopRequested, extVars, outputs, inputs, exit >>

----------------------------------------------------------------------------
(* rt_OneStep.                                                             *)

AfterStep == pc' = IF caller = "user_apc" THEN "ec_send" ELSE "stop_ext"

OneStep ==
  /\ pc = "rt_OneStep"
  /\ isrOverrun' = isrOverrun + 1
  /\ IF isrOverrun # 0 \/ errorStatus
       THEN stopExecutionFlag' = TRUE /\ AfterStep
       ELSE pc' = "MdlOutputs" /\ UNCHANGED stopExecutionFlag
  /\ UNCHANGED << caller, icnt, t, errmsg, errorStatus, stopRequested, extVars,
                  busVars, exit >>

\* The blocks read their inputs and write their outputs; any of them may report
\* an error or, like the Stop block, ask for the end.
MdlOutputs ==
  /\ pc = "MdlOutputs"
  /\ outputs' = t + 1
  /\ errorStatus' \in {FALSE, ModelFails}
  /\ stopRequested' \in {stopRequested, TRUE}
  /\ pc' = "MdlUpdate"
  /\ UNCHANGED << caller, icnt, t, isrOverrun, stopExecutionFlag, errmsg, extVars,
                  inputs, held, flight, dropped, exit >>

\* The step is logged first; if that fails it ends there.
MdlUpdate ==
  /\ pc = "MdlUpdate"
  /\ \/ /\ t' = t + 1 /\ isrOverrun' = isrOverrun - 1
        /\ UNCHANGED << stopExecutionFlag, errmsg >>
     \/ /\ LogFails
        /\ errmsg' = TRUE /\ stopExecutionFlag' = TRUE
        /\ UNCHANGED << t, isrOverrun >>
  /\ AfterStep
  /\ UNCHANGED << caller, icnt, errorStatus, stopRequested, extVars, busVars, exit >>

----------------------------------------------------------------------------
(* main, after the timer.                                                  *)

\* Mutant: the loop's condition is taken for that of the last step.
LastStepMissed == GoesOn /\ ~stopRequested

\* A model that came to its final time has one more step to do.
LastStepDue == ~stopExecutionFlag /\ ~stopRequested

LastStep ==
  /\ pc = "last"
  /\ IF LastStepDue
       THEN /\ pc' = "rt_OneStep" /\ caller' = "main"
            /\ ExchangeFrame /\ UNCHANGED outputs
       ELSE pc' = "stop_ext" /\ UNCHANGED << caller, busVars >>
  /\ UNCHANGED << icnt, stepVars, stopRequested, extVars, exit >>

StopExtMode ==
  /\ pc = "stop_ext"
  /\ stopExtMode' = TRUE /\ pc' = "wait_ext"
  /\ UNCHANGED << caller, icnt, stepVars, stopRequested, paused, ext, busVars, exit >>

\* Mutant: it is not waited for.
ExtModeIgnored == TRUE

ExtModeLeft == ext \in {"none", "left"}

\* While it waits for the External Mode thread main keeps the frames going.
WaitExtMode ==
  /\ pc = "wait_ext"
  /\ pc' = IF ExtModeLeft THEN "ec_stop" ELSE pc
  /\ ExchangeFrame
  /\ UNCHANGED << caller, icnt, stepVars, stopRequested, extVars, outputs, exit >>

\* ec_stop, and rtExtModeShutdown.
EcStop ==
  /\ pc = "ec_stop"
  /\ pc' = "exit"
  /\ UNCHANGED << caller, icnt, stepVars, stopRequested, extVars, busVars, exit >>

\* What main reports, and MdlTerminate, which sets the outputs to zero.
Exit ==
  /\ pc = "exit"
  /\ pc' = "exited"
  /\ exit' = CASE errmsg          -> "not logged"
               [] isrOverrun # 0  -> "overrun"
               [] errorStatus     -> "model error"
               [] OTHER           -> "success"
  /\ outputs' = IF exit' = "success" THEN 0 ELSE outputs
  /\ UNCHANGED << caller, icnt, stepVars, stopRequested, extVars, inputs, held,
                  flight, dropped >>

----------------------------------------------------------------------------
(* The External Mode thread.                                               *)

ExtTest ==
  /\ ext = "test" /\ pc # "exited"
  /\ ext' = IF stopExtMode THEN "left" ELSE "serve"
  /\ UNCHANGED << pc, caller, icnt, stepVars, stopRequested, paused, stopExtMode,
                  busVars, exit >>

\* rtExtModeOneStep does what Simulink's user asks: nothing, pause, continue, stop.
ExtServe ==
  /\ ext = "serve" /\ pc # "exited"
  /\ \/ UNCHANGED << paused, stopRequested >>
     \/ paused' = ~paused /\ UNCHANGED stopRequested
     \/ stopRequested' = TRUE /\ UNCHANGED paused
  /\ ext' = "test"
  /\ UNCHANGED << pc, caller, icnt, stepVars, stopExtMode, busVars, exit >>

----------------------------------------------------------------------------
Main ==
  \/ MdlStart \/ EcStart
  \/ Interrupt \/ UserApc \/ PauseIfNeeded \/ EcReceive \/ EcSend
  \/ OneStep \/ MdlOutputs \/ MdlUpdate
  \/ LastStep \/ StopExtMode \/ WaitExtMode \/ EcStop \/ Exit

Ext == ExtTest \/ ExtServe

Exited == pc = "exited" /\ UNCHANGED vars

Next == Main \/ Ext \/ Exited

Spec == Init /\ [][Next]_vars

\* The timer waits between interrupts and main sleeps while it waits, so that
\* either thread gets its turn.
FairSpec == Spec /\ WF_vars(Main) /\ WF_vars(Ext)

----------------------------------------------------------------------------
\* Where main is in rt_OneStep.
Stepping == pc \in {"MdlOutputs", "MdlUpdate"}

Sample == {None} \cup 0 .. FinalTime + 1

PlaceType ==
  /\ pc \in {"MdlStart", "ec_start", "interrupt", "user_apc", "pause", "ec_receive",
             "rt_OneStep", "MdlOutputs", "MdlUpdate", "ec_send", "last", "stop_ext",
             "wait_ext", "ec_stop", "exit", "exited"}
  /\ caller \in {None} \cup Callers
  /\ ext \in {"none", "test", "serve", "left"}
  /\ exit \in {None} \cup Reports

CountType ==
  /\ icnt \in 1 .. Start + FinalTime + 1
  /\ t \in 0 .. FinalTime + 1
  /\ isrOverrun \in 0 .. 1

FlagType ==
  /\ stopExecutionFlag \in BOOLEAN /\ errmsg \in BOOLEAN /\ errorStatus \in BOOLEAN
  /\ stopRequested \in BOOLEAN /\ paused \in BOOLEAN /\ stopExtMode \in BOOLEAN

SampleType ==
  /\ outputs \in Sample /\ inputs \in Sample /\ held \in Sample /\ flight \in Sample
  /\ dropped \in BOOLEAN

\* The types of the variables.  The program counts no more steps than it was
\* asked for, and no more interrupts than it takes to call for them.
TypeOK == PlaceType /\ CountType /\ FlagType /\ SampleType

\* A step of the model works on inputs that the slaves took after they had got
\* the outputs of the step before, unless a frame was lost: the order of
\* ec_receive, rt_OneStep and ec_send, and of the ec_io before the last step.
FreshSamples == Stepping /\ ~dropped => inputs = t /\ (pc = "MdlOutputs" => held = t)

\* The timer's nominal time, which the callback is told, is the model's time:
\* a callback makes one step or is the last one.
InStep == pc \in {"user_apc", "pause", "ec_receive"} /\ ~stopExecutionFlag => t = icnt - Start

\* rt_OneStep is not called once a step was left before its end, neither by the
\* callback nor by main: its count of overruns is zero when it is called.
StepsEnd == pc = "rt_OneStep" => isrOverrun = 0

\* A program that was not stopped and ends with success has done every step to
\* the final time, the last one included, if the timer ran.
EveryStep == exit = "success" /\ ~stopRequested /\ icnt > Start => t = FinalTime + 1

\* When ec_stop closes the bus the slaves have the outputs of the last step,
\* wherever the program was when it was told to stop, unless that frame was lost.
LastOutputsSent == pc = "exit" /\ ~dropped => held = outputs

\* rtExtModeShutdown is called when the External Mode thread has left.
ExtModeOver == pc = "exit" => ext \notin {"test", "serve"}

\* The program ends when somebody stops the model, and by itself unless External
\* Mode holds the model again and again.
Ends == <>stopRequested \/ <>[]~paused => <>(pc = "exited")

\* main says that the base sampling rate is too fast when that is why it ended,
\* not when the model reported an error (ec_main.c:961-971).
OverrunReported == exit = "overrun" => ~errorStatus

=============================================================================
