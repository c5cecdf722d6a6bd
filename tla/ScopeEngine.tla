----------------------------- MODULE ScopeEngine -----------------------------
(***************************************************************************)
(* The acquisition core of the E-Scope engine (libengine.c): a real-time   *)
(* timer callback writes one row of samples per measurement into a ring of *)
(* MAXSAMP rows and publishes frames of nsamp rows, while the server       *)
(* thread executes the client's commands on the same unlocked globals.     *)
(*                                                                         *)
(* The callback runs at priority 75 and the server thread at 20, both      *)
(* SCHED_FIFO: the callback interrupts the server between any two stores,  *)
(* while the server runs inside a callback only where it blocks, in        *)
(* ec_receive().  So every store of a command handler is an action of its  *)
(* own, and the callback is two actions, before and after ec_receive().    *)
(***************************************************************************)
EXTENDS Integers, Sequences

CONSTANTS
  MaxSamp,      \* rows of the ring (MAXSAMP)
  Frames,       \* frame lengths the clients ask for
  Downs,        \* downsampling factors the clients ask for
  DacDown,      \* tde_dac_ndown, fixed when the engine starts
  Prerolls,     \* numerators of the prerolls the clients ask for
  PrerollDen,   \* their denominator
  Taps,         \* FIRNTAPS, the length of the trigger filter
  IsSimulink,   \* tde_is_simulink
  Commands,     \* the commands the clients send
  PausedOnly,   \* those they send only while the measurement is paused
  UnarmedOnly,  \* those they send only while no trigger is armed
  PollFirst,    \* TRUE if they get data only after a successful poll
  MaxStoreLag,  \* callbacks completed while a handler runs its stores
  MaxCopyLag,   \* callbacks completed while a frame is copied
  MaxSamples    \* bound on the samples taken in a behaviour

ASSUME EngineAssumption ==
  /\ MaxSamp \in Nat \ {0} /\ Frames \subseteq Nat \ {0}
  /\ Downs \subseteq Nat /\ DacDown \in Nat
  /\ Prerolls \subseteq Nat /\ PrerollDen \in Nat \ {0} /\ Taps \in Nat
  /\ IsSimulink \in BOOLEAN /\ PollFirst \in BOOLEAN
  /\ MaxStoreLag \in Nat /\ MaxCopyLag \in Nat /\ MaxSamples \in Nat

\* tde_set_nsamp stores any length.  It is the clients that ask for no more than
\* TDE_GET_INFO told them (MAXFRAME, half of the ring): qadscope.m:219, qlgui.m:420.
ASSUME ClientAssumption == Frames # {} /\ Frames \subseteq 1 .. MaxSamp

VARIABLES
  data,          \* tde_data: row -> stamp of the sample it holds
  buffer_idx, frame_idx, data_idx, valid, read,
  started, idown, ndown, dac_idown, nsamp,
  trigger, triggered, trig_state, trig_preroll, ntaps,
  go, linked,
  fg_link,       \* what fg_notify() last told the function generator
  tick,          \* the callback: between calls, in ec_receive, or ended
  op, pc, arg,   \* the server: its last command, its next store, argument
  go_bak, retval,
  want, row, copied,  \* tde_get_data: rows to copy, next row, rows copied
  clock,         \* history: stamp of the last sample
  lag,           \* history: callbacks completed during this handler
  acked,         \* history: last stamp of the frame the client acknowledged
  fired,         \* history: stamp of the last sample that triggered
  restart,       \* history: stamp before tde_trigger_on restarted the ring
  published,     \* history: stamp that ends the frame published last
  newer          \* history: another was published since tde_get_data began

ringVars   == << data, buffer_idx, frame_idx, data_idx, valid, read >>
rateVars   == << started, idown, dac_idown >>
trigVars   == << trigger, triggered, trig_state, trig_preroll, ntaps >>
runVars    == << go, linked, fg_link >>
copyVars   == << want, row, copied >>
serverVars == << op, pc, arg, go_bak, retval >>
sinceVars  == << restart, published, newer >>

vars == << ringVars, rateVars, ndown, nsamp, trigVars, runVars, tick,
           serverVars, copyVars, clock, lag, acked, fired, sinceVars >>

----------------------------------------------------------------------------
(* The ring. *)

\* The stamp found outside the ring, where index -1 leads.
Garbage == -1

NextRow(i) == IF i = MaxSamp - 1 THEN 0 ELSE i + 1

\* The row written k samples before row i.
Back(i, k) == IF k <= i THEN i - k ELSE i - k + MaxSamp

\* Mutant: the frame starts one row too early.
FrameStartEarly(i, n) == IF i - n < 0 THEN MaxSamp + (i - n) ELSE i - n

\* First row of the frame of n rows that ends at row i.
FrameStart(i, n) == IF i + 1 - n < 0 THEN MaxSamp + (i + 1 - n) ELSE i + 1 - n

\* What tde_get_data finds at row i.
Fetch(i) == IF i \in 0 .. MaxSamp - 1 THEN data[i] ELSE Garbage

(* Downsampling: a counter below its limit skips the measurement. *)
Skips(i, n) == i < n

NextDown(i, n) == IF i < n THEN i + 1 ELSE IF i = n THEN 0 ELSE i

(* The trigger. *)
PrerollRows == (trig_preroll * nsamp) \div PrerollDen
GoRow == LET rows == ((trig_preroll + PrerollDen) * nsamp) \div PrerollDen
         IN  IF rows > ntaps THEN rows ELSE ntaps

----------------------------------------------------------------------------
Init ==
  /\ data = [i \in 0 .. MaxSamp - 1 |-> 0]
  /\ buffer_idx = 0 /\ frame_idx = 0 /\ data_idx = -1 /\ valid = 0 /\ read = 0
  /\ started = 0 /\ idown = 0 /\ ndown = 0 /\ dac_idown = 0
  /\ nsamp \in Frames
  /\ trigger = 0 /\ triggered = 0 /\ trig_state = "WAIT"
  /\ trig_preroll = 0 /\ ntaps = 0
  /\ go = 0 /\ linked = 0 /\ fg_link = 0
  /\ tick = "wait"
  /\ op = "none" /\ pc = "idle" /\ arg = 0 /\ go_bak = 0 /\ retval = 0
  /\ want = 0 /\ row = 0 /\ copied = << >>
  /\ clock = 0 /\ lag = 0 /\ acked = 0 /\ fired = 0
  /\ restart = 0 /\ published = 0 /\ newer = FALSE

----------------------------------------------------------------------------
(* The timer callback. *)

\* Real time: how many callbacks complete while a handler is at work.
LagBound == IF pc \in {"copy", "return"} THEN MaxCopyLag ELSE MaxStoreLag

InTime == pc \in {"idle", "sleep", "exited"} \/ lag < LagBound

Completes ==
  /\ InTime
  /\ lag' = IF pc \in {"idle", "sleep", "exited"} THEN lag ELSE lag + 1

\* tde_go = -1: the callback returns 1 and the timer loop ends.
TimerStop ==
  /\ tick = "wait" /\ go = -1
  /\ tick' = "stopped"
  /\ dac_idown' = NextDown(dac_idown, DacDown)
  /\ UNCHANGED << ringVars, started, idown, ndown, nsamp, trigVars, runVars,
                  serverVars, copyVars, clock, lag, acked, fired, sinceVars >>

\* Under Simulink a paused callback only steers the outputs.
TimerPaused ==
  /\ tick = "wait" /\ IsSimulink /\ go = 0
  /\ dac_idown' = NextDown(dac_idown, DacDown)
  /\ Completes
  /\ UNCHANGED << ringVars, started, idown, ndown, nsamp, trigVars, runVars,
                  tick, serverVars, copyVars, clock, acked, fired, sinceVars >>

\* Mutant: the Simulink callback measures although it is paused.
MeasuresPaused == tick = "wait" /\ go # -1

Measures == tick = "wait" /\ go # -1 /\ ~(IsSimulink /\ go = 0)

\* A callback that downsampling ignores.
TimerSkip ==
  /\ Measures /\ Skips(idown, ndown)
  /\ started' = 1
  /\ idown' = NextDown(idown, ndown)
  /\ dac_idown' = NextDown(dac_idown, DacDown)
  /\ Completes
  /\ UNCHANGED << ringVars, ndown, nsamp, trigVars, runVars, tick,
                  serverVars, copyVars, clock, acked, fired, sinceVars >>

\* A callback that measures, up to its call of ec_receive().
TimerReceive ==
  /\ Measures /\ ~Skips(idown, ndown)
  /\ InTime /\ clock < MaxSamples
  /\ tick' = "receive"
  /\ started' = 1
  /\ idown' = NextDown(idown, ndown)
  /\ dac_idown' = NextDown(dac_idown, DacDown)
  /\ UNCHANGED << ringVars, ndown, nsamp, trigVars, runVars,
                  serverVars, copyVars, clock, lag, acked, fired, sinceVars >>

\* The rest of it: store the row, check that no unread frame is overwritten,
\* look for the trigger, publish a complete frame, advance.  crossed: the
\* filtered signal passes the level in the wanted direction (never on row 0,
\* which has no history).
TimerSample(crossed) ==
  LET armed    == trigger = 1
      state    == IF armed /\ trig_state = "WAIT" /\ buffer_idx >= GoRow
                  THEN "GO" ELSE trig_state
      fires    == armed /\ state = "GO" /\ crossed /\ buffer_idx # 0
      frame    == IF fires THEN PrerollRows + (ntaps \div 2) ELSE frame_idx
      hit      == IF fires THEN 1 ELSE triggered
      full     == frame >= nsamp - 1
      publish  == full /\ (trigger = 0 \/ hit = 1)
      rearm    == full /\ armed /\ hit = 1
      overrun  == buffer_idx = data_idx /\ read = 0
  IN
  /\ tick = "receive"
  /\ tick' = "wait"
  /\ clock' = clock + 1
  /\ data' = [data EXCEPT ![buffer_idx] = clock + 1]
  /\ trig_state' = IF rearm THEN "WAIT" ELSE IF fires THEN "DONE" ELSE state
  /\ triggered' = IF rearm THEN 0 ELSE hit
  /\ fired' = IF fires THEN clock + 1 ELSE fired
  /\ published' = IF publish THEN clock + 1 ELSE published
  /\ newer' = (pc \in {"copy", "return"} /\ (publish \/ newer))
  /\ data_idx' = IF publish THEN FrameStart(buffer_idx, nsamp) ELSE data_idx
  /\ valid' = IF publish THEN 1 ELSE IF overrun THEN 0 ELSE valid
  /\ read' = IF publish THEN 0 ELSE read
  /\ frame_idx' = IF publish THEN 0 ELSE frame + 1
  /\ buffer_idx' = NextRow(buffer_idx)
  /\ Completes
  /\ UNCHANGED << rateVars, ndown, nsamp, trigger, trig_preroll, ntaps,
                  runVars, serverVars, copyVars, acked, restart >>

Timer ==
  \/ TimerStop
  \/ TimerPaused
  \/ TimerSkip
  \/ TimerReceive
  \/ \E crossed \in BOOLEAN : TimerSample(crossed)

----------------------------------------------------------------------------
(* The server thread: commands arrive one at a time. *)

Accept(c) ==
  /\ pc = "idle" /\ c \in Commands
  /\ c \in PausedOnly => go # 1
  /\ c \in UnarmedOnly => trigger = 0
  /\ op' = c

\* Mutant: the link is told although the measurement is paused.
NotifiedPaused(g, l) == IF l = 1 THEN 1 ELSE 0

Notified(g, l) == IF g = 1 /\ l = 1 THEN 1 ELSE 0

\* tde_check_data: 0 means that a frame is ready.
CheckData ==
  /\ Accept("check_data")
  /\ retval' = IF valid = 1 THEN 0 ELSE 1
  /\ UNCHANGED << ringVars, rateVars, ndown, nsamp, trigVars, runVars, tick,
                  pc, arg, go_bak, copyVars, clock, lag, acked, fired, sinceVars >>

\* tde_get_data: the number of rows and the first one are fixed at the start.
GetData(n) ==
  /\ Accept("get_data")
  /\ PollFirst => op = "check_data" /\ retval = 0
  /\ want' = IF n < nsamp THEN n ELSE nsamp
  /\ row' = data_idx
  /\ copied' = << >>
  /\ pc' = "copy" /\ lag' = 0 /\ newer' = FALSE
  /\ UNCHANGED << ringVars, rateVars, ndown, nsamp, trigVars, runVars, tick,
                  arg, go_bak, retval, clock, acked, fired, restart, published >>

CopyRow ==
  /\ pc = "copy"
  /\ copied' = Append(copied, Fetch(row))
  /\ row' = NextRow(row)
  /\ pc' = IF Len(copied) + 1 = want THEN "return" ELSE "copy"
  /\ UNCHANGED << ringVars, rateVars, ndown, nsamp, trigVars, runVars, tick,
                  op, arg, go_bak, retval, want, clock, lag, acked, fired, sinceVars >>

\* Mutant: tde_get_data does not say that its rows were overwritten.
ReturnUnflagged ==
  /\ pc = "return"
  /\ retval' = 1
  /\ pc' = "idle" /\ want' = 0 /\ row' = 0 /\ lag' = 0 /\ newer' = FALSE
  /\ UNCHANGED << ringVars, rateVars, ndown, nsamp, trigVars, runVars, tick,
                  op, arg, go_bak, copied, clock, acked, fired, restart,
                  published >>

ReturnData ==
  /\ pc = "return"
  /\ retval' = valid
  /\ pc' = "idle" /\ want' = 0 /\ row' = 0 /\ lag' = 0 /\ newer' = FALSE
  /\ UNCHANGED << ringVars, rateVars, ndown, nsamp, trigVars, runVars, tick,
                  op, arg, go_bak, copied, clock, acked, fired, restart,
                  published >>

\* tde_say_ready, tde_set_nsamp and tde_set_ndown start with a store.
SayReady ==
  /\ Accept("say_ready")
  /\ pc' = "read" /\ lag' = 0
  /\ acked' = IF copied = << >> THEN acked ELSE copied[Len(copied)]
  /\ copied' = << >>
  /\ UNCHANGED << ringVars, rateVars, ndown, nsamp, trigVars, runVars, tick,
                  arg, go_bak, retval, want, row, clock, fired, sinceVars >>

SetNsamp(n) ==
  /\ Accept("set_nsamp")
  /\ arg' = n /\ pc' = "buffer_idx" /\ lag' = 0
  /\ UNCHANGED << ringVars, rateVars, ndown, nsamp, trigVars, runVars, tick,
                  go_bak, retval, copyVars, clock, acked, fired, sinceVars >>

\* Mutant: the running count goes on under the new limit.
SetNdownCounting(n) ==
  /\ Accept("set_ndown") /\ clock < MaxSamples
  /\ arg' = n /\ pc' = "ndown" /\ lag' = 0
  /\ UNCHANGED << ringVars, rateVars, ndown, nsamp, trigVars, runVars, tick,
                  go_bak, retval, copyVars, clock, acked, fired, sinceVars >>

SetNdown(n) ==
  /\ Accept("set_ndown") /\ clock < MaxSamples
  /\ arg' = n /\ pc' = "idown" /\ lag' = 0
  /\ UNCHANGED << ringVars, rateVars, ndown, nsamp, trigVars, runVars, tick,
                  go_bak, retval, copyVars, clock, acked, fired, sinceVars >>

\* tde_pause: continuing (p = 0) restarts the buffer.
Pause(p) ==
  /\ Accept("pause") /\ clock < MaxSamples
  /\ go' = 1 - p
  /\ fg_link' = Notified(1 - p, linked)
  /\ lag' = 0
  /\ IF p = 0 THEN pc' = "buffer_idx" /\ UNCHANGED retval
              ELSE pc' = "idle" /\ retval' = 0
  /\ UNCHANGED << ringVars, rateVars, ndown, nsamp, trigVars, linked, tick,
                  arg, go_bak, copyVars, clock, acked, fired, sinceVars >>

\* tde_trigger_on halts the measurement and sleeps 10 ms before its stores.
TriggerOn(p) ==
  /\ Accept("trigger_on")
  /\ go_bak' = go /\ go' = 0 /\ fg_link' = 0
  /\ arg' = p /\ pc' = "sleep"
  /\ UNCHANGED << ringVars, rateVars, ndown, nsamp, trigVars, linked, tick,
                  retval, copyVars, clock, lag, acked, fired, sinceVars >>

\* Mutant: the old frame stays published.
TriggerWakeKeeping ==
  /\ pc = "sleep"
  /\ pc' = "buffer_idx" /\ lag' = 0
  /\ UNCHANGED << ringVars, rateVars, ndown, nsamp, trigVars, runVars, tick,
                  op, arg, go_bak, retval, copyVars, clock, acked, fired, sinceVars >>

TriggerWake ==
  /\ pc = "sleep"
  /\ pc' = "valid" /\ lag' = 0
  /\ UNCHANGED << ringVars, rateVars, ndown, nsamp, trigVars, runVars, tick,
                  op, arg, go_bak, retval, copyVars, clock, acked, fired, sinceVars >>

TriggerOff ==
  /\ Accept("trigger_off")
  /\ trigger' = 0 /\ triggered' = 0 /\ retval' = 0
  /\ UNCHANGED << ringVars, rateVars, ndown, nsamp, trig_state, trig_preroll,
                  ntaps, runVars, tick, pc, arg, go_bak, copyVars, clock, lag,
                  acked, fired, sinceVars >>

Link2Meas(l) ==
  /\ Accept("link2meas")
  /\ linked' = l
  /\ fg_link' = Notified(go, l)
  /\ retval' = 0
  /\ UNCHANGED << ringVars, rateVars, ndown, nsamp, trigVars, go, tick, pc,
                  arg, go_bak, copyVars, clock, lag, acked, fired, sinceVars >>

\* tde_stop_acq ends both loops; under Simulink the server ignores it.
StopAcq ==
  /\ Accept("stop_acq")
  /\ IF IsSimulink
     THEN UNCHANGED << go, fg_link, pc, retval >>
     ELSE go' = -1 /\ fg_link' = 0 /\ pc' = "exited" /\ retval' = 0
  /\ UNCHANGED << ringVars, rateVars, ndown, nsamp, trigVars, linked, tick,
                  arg, go_bak, copyVars, clock, lag, acked, fired, sinceVars >>

(* The stores of the handlers, in the order of the source:                 *)
(*   set_nsamp   buffer_idx frame_idx data_idx valid read nsamp            *)
(*   pause(0)    buffer_idx frame_idx data_idx valid read started idown    *)
(*   set_ndown   idown ndown                                               *)
(*   say_ready   read valid                                                *)
(*   trigger_on  valid buffer_idx trigger triggered trig_state trig_preroll*)
(*               ntaps go                                                  *)

StoreAfter(o, at) ==
  CASE at = "buffer_idx"   -> IF o = "trigger_on" THEN "trigger" ELSE "frame_idx"
    [] at = "frame_idx"    -> "data_idx"
    [] at = "data_idx"     -> "valid"
    [] at = "valid"        -> IF o = "trigger_on" THEN "buffer_idx"
                              ELSE IF o = "say_ready" THEN "idle" ELSE "read"
    [] at = "read"         -> IF o = "say_ready" THEN "valid"
                              ELSE IF o = "pause" THEN "started" ELSE "nsamp"
    [] at = "started"      -> "idown"
    [] at = "idown"        -> IF o = "pause" THEN "idle" ELSE "ndown"
    [] at = "trigger"      -> "triggered"
    [] at = "triggered"    -> "trig_state"
    [] at = "trig_state"   -> "trig_preroll"
    [] at = "trig_preroll" -> "ntaps"
    [] at = "ntaps"        -> "go"
    [] OTHER               -> "idle"

\* Mutants: set_nsamp keeps the published frame; say_ready leaves it valid;
\* trigger_on keeps the state of the trigger it replaces; a restart withdraws the
\* frame before it resets the indices.
NextStoreKeepsFrame ==
  IF op = "set_nsamp" /\ pc = "frame_idx" THEN "nsamp" ELSE StoreAfter(op, pc)
NextStoreLeavesValid ==
  IF op = "say_ready" THEN "idle" ELSE StoreAfter(op, pc)
NextStoreKeepsState ==
  IF pc = "triggered" THEN "trig_preroll" ELSE StoreAfter(op, pc)

NextStoreValidFirst ==
  IF op \in {"pause", "set_nsamp"}
  THEN CASE pc = "buffer_idx" -> "valid"
         [] pc = "valid"      -> "data_idx"
         [] pc = "data_idx"   -> "frame_idx"
         [] pc = "frame_idx"  -> "read"
         [] OTHER             -> StoreAfter(op, pc)
  ELSE StoreAfter(op, pc)

NextStore == StoreAfter(op, pc)

Stores == { "buffer_idx", "frame_idx", "data_idx", "valid", "read", "nsamp",
            "started", "idown", "ndown", "trigger", "triggered", "trig_state",
            "trig_preroll", "ntaps", "go" }

\* Restarting a running count, or a new rate, breaks the rhythm of the
\* samples: the stamp of the next one does not follow that of the last.
BreaksRhythm == \/ pc = "idown" /\ idown # 0 /\ ndown # 0
                \/ pc = "ndown" /\ ndown # arg

\* One store of a handler; with the last one it returns 0 to the client and
\* its locals end.
Store ==
  /\ pc \in Stores
  /\ buffer_idx'   = IF pc = "buffer_idx" THEN 0 ELSE buffer_idx
  /\ frame_idx'    = IF pc = "frame_idx" THEN 0 ELSE frame_idx
  /\ data_idx'     = IF pc = "data_idx" THEN -1 ELSE data_idx
  /\ valid'        = IF pc = "valid" THEN 0 ELSE valid
  /\ read'         = IF pc = "read" THEN IF op = "say_ready" THEN 1 ELSE 0
                     ELSE read
  /\ nsamp'        = IF pc = "nsamp" THEN arg ELSE nsamp
  /\ started'      = IF pc = "started" THEN 0 ELSE started
  /\ idown'        = IF pc = "idown" THEN 0 ELSE idown
  /\ ndown'        = IF pc = "ndown" THEN arg ELSE ndown
  /\ trigger'      = IF pc = "trigger" THEN 1 ELSE trigger
  /\ triggered'    = IF pc = "triggered" THEN 0 ELSE triggered
  /\ trig_state'   = IF pc = "trig_state" THEN "WAIT" ELSE trig_state
  /\ trig_preroll' = IF pc = "trig_preroll" THEN arg ELSE trig_preroll
  /\ ntaps'        = IF pc = "ntaps" THEN Taps ELSE ntaps
  /\ go'           = IF pc = "go" THEN go_bak ELSE go
  /\ fg_link'      = IF pc = "go" THEN Notified(go_bak, linked) ELSE fg_link
  /\ restart'      = IF pc = "buffer_idx" /\ op = "trigger_on" THEN clock ELSE restart
  /\ clock'        = IF BreaksRhythm THEN clock + 1 ELSE clock
  /\ pc'           = NextStore
  /\ IF NextStore = "idle"
     THEN retval' = 0 /\ arg' = 0 /\ go_bak' = 0 /\ lag' = 0
     ELSE UNCHANGED << retval, arg, go_bak, lag >>
  /\ UNCHANGED << data, dac_idown, linked, tick, op, copyVars, acked, fired,
                  published, newer >>

Command ==
  \/ CheckData \/ SayReady \/ TriggerOff \/ StopAcq
  \/ \E n \in Frames : GetData(n) \/ SetNsamp(n)
  \/ \E n \in Downs : SetNdown(n)
  \/ \E p \in {0, 1} : Pause(p) \/ Link2Meas(p)
  \/ \E p \in Prerolls : TriggerOn(p)

\* The Simulink callback calls nothing that blocks: it runs to its end.
Server ==
  /\ ~(IsSimulink /\ tick = "receive")
  /\ Command \/ CopyRow \/ ReturnData \/ TriggerWake \/ Store

\* Both loops have ended.
Ended == pc = "exited" /\ tick = "stopped" /\ UNCHANGED vars

Next == Timer \/ Server \/ Ended

Spec == Init /\ [][Next]_vars

----------------------------------------------------------------------------
(* Properties. *)

ServerPlaces == Stores \cup { "idle", "copy", "return", "sleep", "exited" }

\* Types of the globals.  Index -1 is "no frame yet": a client that asks for data
\* without a poll makes tde_get_data read there, before tde_data.
TypeOK ==
  /\ data \in [0 .. MaxSamp - 1 -> Nat]
  /\ buffer_idx \in 0 .. MaxSamp - 1 /\ frame_idx \in Nat
  /\ data_idx \in -1 .. MaxSamp - 1 /\ valid \in {0, 1} /\ read \in {0, 1}
  /\ started \in {0, 1} /\ idown \in Nat /\ ndown \in Nat /\ dac_idown \in Nat
  /\ nsamp \in Frames
  /\ trigger \in {0, 1} /\ triggered \in {0, 1}
  /\ trig_state \in {"WAIT", "GO", "DONE"}
  /\ trig_preroll \in Nat /\ ntaps \in {0, Taps}
  /\ go \in {-1, 0, 1} /\ linked \in {0, 1} /\ fg_link \in {0, 1}
  /\ tick \in {"wait", "receive", "stopped"}
  /\ op \in Commands \cup {"none"} /\ pc \in ServerPlaces /\ arg \in Nat
  /\ op = "set_nsamp" /\ pc # "idle" => arg \in Frames
  /\ go_bak \in {-1, 0, 1} /\ retval \in {0, 1}
  /\ want \in 0 .. MaxSamp /\ row \in -1 .. MaxSamp - 1
  /\ copied \in Seq(Nat \cup {Garbage})
  /\ clock \in Nat /\ lag \in Nat /\ acked \in Nat \cup {Garbage} /\ fired \in Nat
  /\ restart \in Nat /\ published \in Nat /\ newer \in BOOLEAN

\* Row k of the published frame.
FrameRow(k) ==
  IF data_idx + k < MaxSamp THEN data_idx + k ELSE data_idx + k - MaxSamp

\* tde_trigger_on restarts the ring but not the count of the frame being filled.  A
\* frame published with that count may hold rows from before the restart: not one
\* published nsamp samples later, nor after a trigger has fired.
SinceRestart ==
  \/ published \notin restart .. restart + nsamp - 1
  \/ restart < fired /\ fired <= published

\* While the measurement runs, a frame that a poll would report holds nsamp
\* successive samples: no restart of the buffer, wrap around its end, change
\* of the frame length or overwriting shows in it, but the rows that
\* tde_trigger_on leaves in the count.
FrameConsecutive ==
  pc = "idle" /\ go = 1 /\ valid = 1 /\ SinceRestart =>
    \A k \in 1 .. nsamp - 1 : data[FrameRow(k)] = data[FrameRow(k - 1)] + 1

\* "Index within buffer", says tde_get_data: after a successful poll every row it
\* copies lies in tde_data, although restarts set the index to -1 and the callback
\* publishes between any two of their stores.
CopyInRing == pc = "copy" => row \in 0 .. MaxSamp - 1

\* The rows that tde_get_data copies after a successful poll are successive
\* samples, although the callback goes on writing while they are copied.
CopyConsecutive ==
  pc = "idle" /\ op = "get_data" /\ go = 1 =>
    /\ copied # << >> /\ copied[1] # Garbage
    /\ \A k \in 2 .. Len(copied) : copied[k] = copied[k - 1] + 1

\* A triggered frame stays published until the next trigger and the callback may
\* overwrite it, before the copy or in it.  tde_get_data then answers 0: an answer
\* 1 is for rows of one frame, unless the callback published another meanwhile.
CopyFlagged ==
  [][/\ pc = "return" /\ pc' = "idle" /\ retval' = 1
     /\ go = 1 /\ ~newer /\ SinceRestart
     =>
       \A k \in 2 .. Len(copied) : copied[k] = copied[k - 1] + 1]_vars

\* No frame is delivered again once the client has acknowledged it: what
\* tde_get_data delivers is newer than what tde_say_ready was sent for.
DeliveryAdvances ==
  pc = "idle" /\ op = "get_data" /\ go = 1 => copied[Len(copied)] > acked

\* The downsampling counter never passes its limit, where the equality test
\* that resets it would be missed for ever and every callback would measure.
RateKept == pc = "idle" => idown <= ndown \/ ndown = 0

\* Between two commands the function generator is linked to the measurement
\* exactly when that runs and the client asked for the link.
LinkFollowsMeasurement ==
  pc = "idle" => (fg_link = 1 <=> go = 1 /\ linked = 1)

\* "halt measurement", says tde_trigger_on: no row is written from there until
\* it lets the measurement go on.
HaltStopsSampling ==
  [][op = "trigger_on" /\ pc # "idle" /\ go = 0 => data' = data]_vars

\* Rows of a triggered frame before the one that triggered.
RowsBefore == LET rows == PrerollRows + (ntaps \div 2)
              IN  IF rows < nsamp THEN rows ELSE nsamp - 1

\* No triggering before the preroll has been passed: the rows that precede
\* the trigger in its frame are the samples just before it.
PrerollPassed ==
  [][fired' # fired =>
       \A k \in 1 .. RowsBefore : data'[Back(buffer_idx, k)] = clock' - k]_vars

\* A triggered frame shows the trigger where the preroll puts it, half the
\* filter's length later: all samples of the frame were counted from there.
TriggerPlaced ==
  [][/\ tick = "receive" /\ tick' = "wait" /\ trigger = 1 /\ frame_idx' = 0
     /\ SinceRestart'
     =>
       data'[FrameRow(RowsBefore)'] = fired']_vars
====
