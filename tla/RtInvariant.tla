----------------------------- MODULE RtInvariant -----------------------------
(***************************************************************************)
(* The inductive invariant of RtTarget.                                    *)
(***************************************************************************)
EXTENDS RtTarget

\* The callbacks that have returned, and in a callback the number of this one.
Calls == IF icnt <= Start THEN 0 ELSE icnt - Start

Between == {"interrupt", "user_apc"}
Before  == {"pause", "ec_receive"}
Steps   == {"rt_OneStep", "MdlOutputs", "MdlUpdate"}
Over    == {"stop_ext", "wait_ext", "ec_stop", "exit", "exited"}

\* Before the timer, and between two steps of the model: a step per callback, but
\* the last one if it was left before its end.
LoopInv ==
  /\ pc \in {"MdlStart", "ec_start"} => icnt = 1 /\ t = 0
  /\ pc = "MdlStart" => ~stopExecutionFlag
  /\ pc \in Between => Calls <= FinalTime /\ t <= Calls /\ (~stopExecutionFlag => t = Calls)
  /\ pc \in {"user_apc"} \cup Before => icnt >= Start
  /\ pc \in Before => t = Calls /\ t < FinalTime

\* In a step, and on the way out of one.
StepInv ==
  /\ pc \in Steps => caller \in Callers
  /\ pc \in Steps /\ caller = "user_apc" => icnt >= Start /\ t = Calls /\ t < FinalTime
  /\ pc \in Steps /\ caller = "main" => t <= FinalTime /\ (icnt > Start => t = FinalTime)
  /\ pc = "ec_send" => /\ icnt >= Start /\ Calls < FinalTime /\ t \in Calls .. Calls + 1
                       /\ ~stopExecutionFlag => t = Calls + 1

\* After the timer: every step was made unless there was a reason to stop.
LastInv ==
  /\ pc = "last" => t <= FinalTime
  /\ pc = "last" /\ ~stopExecutionFlag /\ ~stopRequested /\ icnt > Start => t = FinalTime
  /\ pc \in Over /\ ~stopExecutionFlag /\ ~stopRequested /\ icnt > Start => t = FinalTime + 1

\* A flag has a reason, which main finds when it exits.
FlagInv ==
  /\ stopExecutionFlag => errmsg \/ isrOverrun # 0 \/ errorStatus
  /\ pc \in Before \cup Steps => ~stopExecutionFlag
  /\ pc \in {"MdlOutputs", "MdlUpdate"} => isrOverrun = 1
  /\ pc \notin {"MdlOutputs", "MdlUpdate"} /\ ~stopExecutionFlag => isrOverrun = 0
  /\ pc = "MdlOutputs" => ~errorStatus
  /\ exit = "success" => pc = "exited" /\ ~stopExecutionFlag

\* The outputs in IOmap are those of the last step.
OutputInv ==
  /\ pc \notin {"MdlUpdate", "exited"} /\ ~stopExecutionFlag => outputs = t
  /\ pc = "MdlUpdate" => outputs = t + 1

\* The slaves have them, and have answered with their inputs.
BusInv ==
  /\ pc \in Between \cup Before /\ ~dropped /\ ~stopExecutionFlag =>
       held = t /\ (flight = t \/ (flight = None /\ inputs = t))
  /\ pc \in {"rt_OneStep", "MdlOutputs"} /\ ~dropped => held = t
  /\ pc \in Steps /\ ~dropped => inputs = t
  /\ pc \in {"ec_stop", "exit"} /\ ~dropped => held = outputs

\* External Mode is over when main says so.
ExtInv == pc \in {"ec_stop", "exit"} => ext \notin {"test", "serve"}

\* The inductive invariant: it gives every safety property of RtTarget.
TargetInv ==
  TypeOK /\ LoopInv /\ StepInv /\ LastInv /\ FlagInv /\ OutputInv /\ BusInv /\ ExtInv

=============================================================================
