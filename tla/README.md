# TLA+ models of the E-Scope software

E-Scope is a digital oscilloscope with a function generator, written in C for
EtherCAT hardware (the TUeES030 "E-box" and Beckhoff terminals) under Linux. Its
engine runs either on its own (`eseng`, "standalone") or inside a real-time
Simulink model. This directory holds its models, their TLC runs and their TLAPS
proofs. Paths below are relative to `src/` of the repository; `libengine.c` is
`Apps/E-Scope/engine/libengine.c`.

## 1. Inventory

| Part | Source | State | Operations | Talks to |
|---|---|---|---|---|
| Acquisition core | `libengine.c` | globals `tde_*`: sample ring, indices, `valid`/`read`, trigger, rate, `tde_go` | `tde_timer_fun`, `tde_timer_fun_simulink`, ~40 `tde_*` commands | called by the timer and the server; calls ec, fungen, fir |
| Command server | `libengine.c` `shm_thread`, `incomm/libincomm_server.c` | `cmd`, `copy_of_shm`, `copy_of_data`, `run`, the sockets | accept, read, dispatch, wait for delayed commands, write, close | clients by TCP 2039; the callback by `cmd.delayed` |
| Clients | `tde_gate/tde_gate.c` (MEX), `guiv25/*.m`, `gui/EscopeGTK` | `tde_gate_err`, the screen | one connection per command: open, write, read, close | the server |
| Function generator | `fungen/libfungen.c` | per channel: type, two amplitudes, two frequencies, power, phase | `fg_set_*`, `fg_start/stop`, `fg_notify`, `fg_get_val` | server (setters), callback (`fg_get_val`) |
| FIR filter | `fir/libfir.c` | taps and a circular history per filter | `fir_init`, `fir_design`, `fir_filter` | trigger, noise source |
| Real-time timer | `Libs/Timer_posix_AK`, `Libs/Timer_posix` | next tick, missed ticks, `istop` | `rtc_timer`, `rtc_signalhandler`, `rtc_usleep` | runs the callback |
| EtherCAT I/O | `Libs/ec/ec.c` | tables of slaves and ports, encoder counts and revolutions | `ec_start/stop`, `ec_send/receive`, port reads and writes | the SOEM master |
| Real-time target | `Targets/ectarget/ec_main.c` | overrun count, stop flags, the model's time, External Mode's flags | `user_apc`, `rt_OneStep`, start-up and shutdown in `main`, `ExtModeThread` | timer, model code, ec, External Mode |
| EtherCAT master | `Libs/soem` | frame buffers, the process image, slaves' mailboxes | `ec_getindex`, `ec_outframe`, `ec_inframe`, `ec_config_map_group`, `ec_send/receive_processdata_group`, `ec_SDOread/write` | ec; the bus |
| Simulink blocks, simulators, numerics, GUIs, installation | see `PROJECT.json` | - | - | not modelled |

How they interact. The main thread of the standalone engine runs the timer loop
at SCHED_FIFO priority 75 and, in it, `tde_timer_fun`: it steers the outputs,
executes a waiting delayed command, and, once in `ndown + 1` calls, receives from
the bus, writes a row of samples into the ring, looks for the trigger and
publishes complete frames. The server thread (priority 20) takes one command at a
time from a client and executes it at once, on the same globals, without a lock.
A client polls (`CHECK_DATA`), copies (`GET_DATA`) and acknowledges (`SAY_READY`)
frames, and changes the settings in between. Under Simulink the model's task
calls `tde_timer_fun_simulink` instead: it is the program of `ec_main.c`, whose `main` starts the bus, runs
`user_apc` from the timer's loop until the final time, a stop or an error, makes the last step itself, waits for the External Mode
thread and closes the bus.

What is hard: every command is a sequence of stores into globals that the callback
reads and writes between any two of them; a copy takes long enough for several
callbacks; the callback itself blocks in `ec_receive`; counters are reset by
equality tests; a delayed command needs a callback that will come; the server
ends on its first read error. `PROJECT.json` lists these hazards at their lines.

What makes the parts correct:

- *core*: a frame a client sees is a run of successive samples; a copy is that
  frame or is flagged, unless the next frame was published in it; the trigger lies where the preroll puts it, after the
  preroll has been recorded; the rate is the one that was set; the generator's
  link follows the measurement; no row outside the ring reaches a client that polls first; the engine can be stopped.
- *server*: each request is answered once, by its own handler's result; a delayed
  command is executed by the callback exactly once and is answered; after a stop
  both threads end. (A client that fails in the middle of a request does take the server with it, and the engine runs on: finding 26.)
- *timer*: ticks are equidistant and the late ones are counted.
- *EtherCAT I/O*: the unwrapped encoder position equals the true one while it
  moves less than half the counter's range between reads; every port number leads
  to one channel, also after a restart, and what is written to a port comes out there.
- *function generator*: the limits of a channel hold whatever the order of the setters.
- *FIR*: the output is the convolution with the last `ntaps` inputs.
- *byte stream*: an exchange that counts as a success gave the client the whole reply, and every exchange ends.
- *EtherCAT master*: an answer belongs to the request it is returned for; two threads never own one frame; slaves share no bit
  of the image and it travels whole; a read of an object returns that object, and every call ends while the slave answers.
- *target*: every step works on the inputs that answer the outputs of the step before; every step to the final time
  is made, unless the model is stopped or fails; no step follows one that failed; the last outputs reach the slaves; the program ends.

## 2. Modules

| Module | Models or shows |
|---|---|
| `ScopeEngine` | the acquisition core: callback and command handlers, store by store |
| `ScopeInvariant` | the parts of its inductive invariants, and what clients are assumed to do (`FreeRunningClients`, `ArmingClients`, `TriggeredClients`) |
| `MCScopeEngine` | command sets for TLC; one `.cfg` per question |
| `ScopeEngine_proofs` | types and the generator's link in every mode; halt, preroll, place and wholeness of triggered frames, their copies, and the rows that a copy reads |
| `FreeRunning_proofs` | `FreeInv` is inductive; frames, copies, the rate and deliveries follow |
| `CmdServer` | the command server, its clients, its sockets, the hand-over to the callback, the stop |
| `CmdService` | what clients may rely on: an abstract request/reply service |
| `CmdInvariant` | the inductive invariant `ServerInv` and the assumption `AllExecuted` |
| `MCCmdServer` | command sets for TLC |
| `CmdServer_proofs` | `ServerInv` is inductive; `CmdServer` implements `CmdService`; replies of `FrameStream` are whole |
| `RtTarget` | the program of a Simulink model: main, the timer's callback, the model's step, the bus, External Mode |
| `RtInvariant` | its inductive invariant `TargetInv` |
| `RtTimer` | the timer's times and its count of missed interrupts |
| `RealTime_proofs` | `TargetInv` is inductive and the target's safety properties follow; the timer's grid and its count |
| `Encoder` | the counters of the EL5101 and of the E-box |
| `EcPorts`, `EcPorts_proofs` | the port tables over start, failed start, stop and start again, until a start overruns them; what goes by them; both safety properties, for every bus |
| `FunGen` | one channel of the generator: its setters and the callback that rounds what they set |
| `ShiftRegister` | what a filter needs of its history |
| `FirFilter` | the filter's ring |
| `Signal_proofs` | filter, generator and encoders: the ring implements the shift register, the band is kept, positions are exact |
| `FrameStream` | one exchange of client and server as bytes that arrive in pieces |
| `EthFrames` | the frame buffers of the EtherCAT master: shared by two threads, or used by one that sends more often than it receives; lost and late frames |
| `IoMap`, `IoMap_proofs` | the layout of the process image and its exchange; channels of terminals in it; both safety properties, for every bus |
| `EcMailbox` | reading and writing a slave's objects by its mailbox; late, lost and repeated answers |
| `Master_proofs` | the frames of `EthFrames` and the calls of `EcMailbox` get their own answers |
| `MCDevices` | small instances of the ten for TLC |

### ScopeEngine and the code

The variables carry the names of the globals without `tde_` (`trigger`,
`trig_state`, ...); `data` maps a row of the ring to the number of the sample it
holds, which is all the properties need of the samples. `op`, `pc`, `arg`,
`go_bak`, `want`, `row`, `copied` and `retval` are the server's program counter and
the locals of its handlers; `tick` is where the callback is. History variables are `clock`, `lag`,
`acked` and `fired`, and of the frame published last: `published` (the stamp that ends it), `newer` (whether it came after `tde_get_data` began) and
`restart` (the stamp at which `tde_trigger_on` last restarted the ring). `data_idx` and `row` may be -1, as in the code; `Fetch` gives `Garbage` there.

*Granularity.* Both threads are SCHED_FIFO with a gap of 55 priorities: on one
processor the callback interrupts a handler between any two of its stores and the
handler only continues when the callback blocks, which is in `ec_receive()`. So
each store of a handler is an action (`Store`, whose order is `StoreAfter`), the copy goes row by
row (`CopyRow`), and the callback is two actions (`TimerReceive`, `TimerSample`), or one
where it returns early (`TimerStop`, `TimerPaused`, `TimerSkip`). Under Simulink
the callback receives nothing itself and is never interrupted: `Server` waits while
`tick = "receive"`. The models do not cover a second processor executing the server
truly in parallel with the body of the callback.

*Real time.* The timer is periodic and a handler lasts microseconds, so the number
of callbacks that complete during a handler is bounded: `MaxStoreLag` for the
stores, `MaxCopyLag` for a copy. During the 10 ms sleep of `tde_trigger_on` and
between commands there is no bound. These two bounds are the margins the code silently
relies on; the proofs state what they must satisfy.

*Rates.* The samples of one setting are numbered consecutively; when a handler
disturbs the rhythm (`BreaksRhythm`: restarting a running count, or a new
rate) a number is left out, so that a frame that mixes two rates or skips samples is not "successive".

*Clients.* `PollFirst`, `PausedOnly` and `UnarmedOnly` restrict the environment to
what the clients do: they get data after a successful poll
(`guiv25/qadscope.m` around 314-341, `Escope v1.0.c` 85-97) and change the rate between
pause and continue (`qlgui.m` 344-365). Each run says which it assumes; `ScopeAll` assumes none. `ClientAssumption` is that frame lengths are positive and no longer
than the ring, to which the clients keep (`qadscope.m` 219, `qlgui.m` 420) and which `tde_set_nsamp` does not test (finding 25).

*Abstracted.* Channels and values: a row is one sample, and whether the filtered
signal crosses the level is a free choice on every row but the first. Preroll is
`trig_preroll / PrerollDen`, with the code's truncation. The handler of a frame's
observation interval (`fg_put_obsiv`) and the tables of port states, offsets and ranges are left out.

### CmdServer and the code

Three kinds of process. A *client* (`Open`, `Send`, `Receive` and their failures) is
`tde_gate_cmd_wait`: one connection per command, a request, a reply, for `get_data` a second
message with the data; its four error codes are one answer, `Failed`. It may break off
(`HangUp`) whenever a connection is open. The *server* is `shm_thread` with the
socket library; `pc` is where it is, `conn` the call its `new_fd` belongs to, `delayed`, `retval` and
`run` are the C variables. Each call of the socket library is an action (`Accept`, `Read`, `Write`,
`WriteData`, `Close`), and so are a direct handler (`Perform`) and both sides of the wait for
a delayed one (`Delay`, `Await`). The *callback's thread* is `tde_start_engine`: `DevicesStart`, then
`Tick` (`perform_user_command_delayed` and the test for the stop, which is all of a callback
that matters here), then the two seconds' sleep and `ProcessExit`, which takes
the server with it. Under Simulink `Tick` does not exist and the model ends by itself (`ModelEnds`).

`Delay` stores the arguments, the command's number and the flag in one step: the code stores the flag last, and the callback looks at the others only once it is set.

What a handler computes is in `ScopeEngine`. Here its result is the call that it was executed for, so
that a reply with the result of another call is a wrong reply. A connection is
identified by its client and the number of the call. `executed` is history.

*Refinement.* `CmdService` has six steps: a call is asked or refused, served,
replied to, failed or broken off; serving is allowed once, between asking and the answer (or
after a break-off), and the reply is the result of this call. Opening maps to `Ask` or `Refuse`, the two
executions (`Perform`, `Tick`) to `Serve`, and everything between is a stutter: the
backlog, the request on the wire, the flag, the shared `cmd.retval`.

*Abstracted.* A message arrives in one piece; the backlog (10) is never full; `accept` and
`recv` fail only when the client has gone. The sleep after the timer's end (2 s) is taken to outlast
what the server has left to do after a stop: a reply and a `close`. For a Simulink model it is not, because
there the server may be waiting in `accept` or for a callback.

### RtTarget and the code

`pc` is where `main` is; the timer's loop and `user_apc` run in the same thread (`rtc_rttask` is called, not started).
The other thread is `ExtModeThread` (`ExtTest`, `ExtServe`); it shares `stopRequested`, `paused` and `stopExtMode` with the first.
`icnt`, `isrOverrun`, `stopExecutionFlag`, `errmsg` and `errorStatus` are the C variables; `t` is `rtmGetT`.

*Time* is counted in base steps: `FinalTime` is the number of steps that the test in `user_apc` (590) lets through. `RUN_FOREVER`
is left out: it is the same loop without its second exit.

*Data.* What the blocks compute is left out. Outputs carry the number of the step that computed them, inputs the number of steps done
when the slaves took them; `held` is what the slaves have, `flight` the inputs of a frame on its way back. That is enough to say
which outputs a step's inputs answer, and whether the last outputs got out. A frame may be lost before or after the slaves; SOEM
forgets older frames when a new one is sent. `dropped` is history: the last frame was lost.

*Failures.* `ec_start` may find no devices, `rtc_timer` may return at once because the process has no real-time rights (its result is
not looked at), the start or a step of the model may set the error status, and a step may not be logged.

*External Mode* pauses, continues and stops the model at any time. `rtExtModePauseIfNeeded`, which belongs to Simulink, waits while the model is paused and
serves the user itself meanwhile; `ExtServe` stands for both servers.

*Abstracted.* Single-tasking, `EC_GENERIC` not defined. The menu thread's start is commented out (872-880), so `StopRTA` stays 0.
`ec_slave[0].state` is operational from `ec_start` to `ec_stop`, as nothing in between writes it, so `ec_io` never takes its error branch.

### The devices and libraries

The ten modules below share no state; `MCDevices` puts a `part` in front of them, chosen in `Init`, and lets only that part move. Its state graph is the
sum of theirs, so that one run checks them all. History variables are marked in each module; `...Trusted`, `...Raced`,
`sdFresh` and the like record that something has happened after which the code gives no guarantee, and the properties say so.

`Encoder`. `El...` are the arrays of the EL5101, one entry each; `Eb...` those of the E-box for a slave's two channels. A
position is unbounded; what the counter shows of it is `ElShown` and `Wrap`. `EbReads` follows the code's indices to the letter: the count is compared with
the previous one of *this channel's* index, stored in that of the *slave*, the overflow is tested with the EL5101's array (`Neighbour`, which for channel 1 is memory
that nothing defines), and the revolutions are those of the slave. `EboxExact` holds only within half the bound; `ElExact` in the whole of it.

`EcPorts`. `epLinks` is what `in_X_[link]` points to, `epTable` the port tables, `Place` what a device function makes of link and channel. `EpStart` numbers
links on from the last start, because the counters of kinds are never reset. `ChannelsTo`, `LinksTo` and `PortsTo` are what the loop over the slaves
has counted and entered after each of them; they are recursive functions, not operators, so that they can be proved about. `EpDoutWrite` and `EpPwmWrite` look the channel up among the DACs, as the code does; beyond the end of that table
they find anything (`DacEntries`). A start whose links no longer fit (`Fits`) writes past an array that nobody tests: `EpStartOverruns` ends in a state of its own, after which nothing is said.

`RtTimer`. `TmTick` is one round of `rtc_rttask`: the wait (late by one of `Latencies`), the count of missed interrupts, the user's function (as long as one of
`Durations`), the next time. The estimate of the cycle is a fraction, so that nothing is rounded but what the code rounds.

`FunGen`. Setters are two steps (`FgBegin` turns the power off, `FgSetFreq1` and the like store and restore it) and the callback of a multisine three
(`FgGetVal`, `FgStore1`, `FgStore2`), for the frequencies it reads and writes back. Frequencies are integers in a unit that makes the rounding to spectral lines exact.

`FirFilter`. Samples are symbols, a coefficient is the name of its design; `Window` lists the samples in the order `fir_filter` meets them, and
`FirShifts` says that this is a shift register.

`FrameStream`. A message is a few numbered pieces; `recv` takes any number of those that have arrived, up to what it was asked for, which is the *whole* length
each time (71). It shows why that does not hurt a plain command and what happens to `get_data`.

`EthFrames`. Two threads: the real-time loop (`ec_send`, then `ec_receive` in the next callback) and the parameter calls (`ec_FPRD` and `ec_FPWR` in
`ec_srconfirm`). `Uses` says which of them run and how often the loop may send again before it receives (`EfTakeAgain`): never in `ec_main.c`; in the standalone scope, which has the bus
to itself, as often as the downsampling of measurement and DACs makes it. Each of these sends forgets the buffer of the one before. Frames come back in order or are lost; a wait may end at any poll.
`EfSend` and `EfMark` are two steps, because the code marks the buffer after it has sent, and so are `EfGiveUp` and `EfReleaseAgain`, because a wait that timed out releases it twice.

`IoMap`. The map is computed as the code does it (`PlaceSlave` slave by slave in `After`, `Align`, `Segments`), then the exchange runs over it: `IoWrite` (the byte of a slave, always
from its bit 0, at any time), `IoChange` (the world), `IoSend`, as often as one likes, and `IoReceive` with lost frames; a received frame overwrites the outputs in the image too.

`EcMailbox`. The master's steps follow `ec_SDOread` and `ec_mbxsend`/`ec_mbxreceive`: empty the box, send, wait, take, ask for the rest, repeat. The slave
(external, modelled as CoE prescribes it) takes a request when it likes and answers in order; what it repeats may come in time, after the master gave up, or never. `sdFresh` and `sdGap` tell calls made on a quiet mailbox.

### Runs

| Run | Question | Result |
|---|---|---|
| `ScopeFree` | frames, copies and the rows they read, acknowledgements and rate of the free-running scope | holds |
| `ScopeTrigger` | triggered frames, the flag of a lapped copy, preroll and position, with the trigger switched on and off | holds |
| `ScopeSimulink` | under Simulink: does `tde_trigger_on` halt the measurement? | holds |
| `ScopeAll` | the generator's link under all commands in every order; shutdown; deadlock | holds |
| `ScopePreroll` | "no triggering before preroll has been passed" (1242), with pauses? | no |
| `CmdServer` | standalone: right replies, each call once and to its end; a server that is told to stop, or has no port, stops the engine | holds |
| `CmdModel` | is every call answered in a Simulink model that ends by itself? | holds |
| `CmdSimulink` | "wait for asynchronous command to finish" (410) in a Simulink model? | for ever |
| `RtTarget` | samples in order, all steps made, none after a failure, an orderly end, an end at all | holds |
| `RtOverrun` | is "base sampling rate is too fast" (963) said only of an overrun? | no |
| `Devices` | the seventeen properties of the ten modules above | holds |
| `SharedByte` | "Set bit from module at ichan/ilink" (`ec.c` 219), when slaves share a byte? | no |

*Bounds.* A ring of two frames (`MAXSAMP = 2*MAXFRAME`) is the tightest the code
allows; frames of 2 to 4 rows are the smallest that have a first, an inner and a
last row, and let the preroll, the filter's delay and the frame's end come in
every order. `MaxSamples` (6 to 11) is more than the ring has rows (except in `ScopeAll`, where the two are equal), so that it wraps
at least once with a published, an acknowledged and a half-filled frame in it;
the rates begin with one that does not skip; `Downs = {1, 2}` in `ScopeFree` lets the limit fall below a running count, which `RateKept` is about. `Taps = 2` gives half
a filter of one row. `MaxStoreLag = MaxCopyLag = 1` lets one callback into any handler, in
`ScopeFree` and `ScopeTrigger`. The ring of `ScopeTrigger` has five rows for frames of three, so that one callback in the copy is enough to lap or to publish, and eight samples pass through it: the
preroll, a trigger, a frame and a second restart. (That is the shortest ring with a row of preroll, a row of delay and a row after the trigger; `tde_set_nsamp` would take such a frame, and the proofs are for every length.) Its clients do not acknowledge, for size: the
trigger does not wait for it, and `ScopeFree` has the acknowledgements. `ScopeAll` keeps the ring at two rows and lets no callback in between two stores, to afford all commands.

For the server: two clients, so that one waits in the backlog, breaks off or opens its
next connection while the other is served; two calls each (`MaxCalls`), so that a reply, a result or a
request of the first call could reach the second. `CmdModel` leaves out the commands that Simulink mode
does not execute (findings 4 and 5).

For the target: `FinalTime = 3` has a first, an inner and a last step in the loop and the one that `main` makes; `Start = 2` (10 in the code) has an
interrupt that calls nothing and one that calls. All faults are enabled together, so that any two of them may meet.

For the devices: a counter of 16 steps on an axle that goes 20 either way (`ElReach`), so that it wraps twice from one end to the other, with jumps up to, at and past the bound; an E-box of 6 steps
that starts one step before its wrap. Buses with a DAC before an E-box, two E-boxes with a slave that `ec.h` does not know, and two slaves of a kind; two starts, so that links go on from the first and
some pairs of buses fit one after the other (`MaxLinks = 3`) and some overrun the arrays. A second of 8 ns with
a cycle of 5, which from some starts reaches the exact second and from others passes it; latencies below and above a third of a cycle and a function longer than a cycle.
Frequencies on a line and between two, which the callback rounds and writes back, for a band of 2; the types are the multisine and the whistle, about which the properties are (the chirp is in the model, and the proofs cover it). Three taps, three samples and two designs: the ring comes round. Messages of three pieces. Four frame buffers (16 in the
code) with one time-out: late answers may lie about, but buffers do not run out; with no bound they do (findings). The scope's loop makes ten requests, so that the buffers it leaves behind use up all four and the indices come
round more than twice. `MaxLife = 2`: while a frame of a target is on its way, or a thread is between its two releases, no more than two indices are handed out (`Recent`). Layouts of 4, 5, 8, 13 and 16 bits over frames of 2 bytes: slaves that share a byte,
cross one, and fill a frame. Objects of one index with two subindices, and one of three parts; two calls, two late waits and one lost frame.

*Fairness.* `ScopeEngine` has safety properties only. In `FairSpec` of `CmdServer` the server thread, the devices'
start, the timer's callbacks and the end of the process after its sleep are weakly fair: they are
threads of a preemptive scheduler, none of which can be kept from running by the others for ever. (`shm_thread` has the lower
priority, and a callback lasts less than its period or the timer could not keep its rate.) A client that has opened a
connection goes on with its call, weakly fair per client; nothing makes it start a call, break off, or the devices
fail. The end of a Simulink model is not fair: a model may run for ever, its two seconds after the end may not.
In `FairSpec` of `RtTarget` each of the two threads is weakly fair as a whole: `main` blocks between interrupts and sleeps in its wait, and the
External Mode thread sleeps between two services. The user is not fair: `Ends` asks for a stop or for pauses that come to an end.
In `MCDevices` both ends of a connection are weakly fair together (blocking reads and writes of two running processes; beginning an exchange is not what
`ExchangeEnds` waits for), and so are the master's calls and the slave. Fair steps may still be late or lost, within the bounds: `CallsEnd` promises an end only with a slave that goes on answering.

*Deadlock* is checked in every run but `Devices` and `SharedByte`, whose components stop when their counters are used up. The quiet states are `Ended` of `ScopeEngine`, where both loops have ended, and
`Ended` of `CmdServer`, where the process has. A server that died of a failed read is none: the timer runs on, which is why `EngineFollows` does not speak of this end. That of `RtTarget` is `Exited`.

### Findings

1. `tde_trigger_on` does not halt a standalone measurement: `tde_timer_fun` tests
   `tde_go` for -1 only. The callback fills and publishes frames during the sleep
   and the stores. (`ScopeSimulink` has the property for the mode in which it holds; standalone `HaltStopsSampling` fails.)
2. `tde_pause(0)` and `tde_set_nsamp` restart the buffer and leave `tde_trig_state` at
   GO, so an armed trigger fires without a recorded preroll (`ScopePreroll`);
   `qlgui.m` 412-429 sends that sequence.
3. `tde_trigger_on` resets `tde_buffer_idx` and not `tde_frame_idx`; trigger on, then off,
   publishes a frame of rows from before and after the restart (`SinceRestart` leaves it out of `FrameConsecutive`; no run of its own).
4. In a Simulink model nothing executes delayed commands (`TDE_INIT_ENC`, `TD_AAFILTER_*`, `TD_SET_RANGE`,
   `FG_SET_HOLD_ORDER`): the server waits at 412 for ever and no client is served again (`CmdSimulink`).
5. In a Simulink model `TDE_STOP_ACQ` is passed over (422) and its reply carries what an
   earlier command, of any client, returned (no run).
6. The comment at 1509 has the return value of `tde_check_data` the wrong way round (no run).
7. A model's error is reported as "ISR overrun - base sampling rate is too fast": `rt_OneStep` increments `isrOverrun` (228) and returns at the error
   status (239) without decrementing it; `main` tests the count (961) before the error status (968), whose message never appears
   once the error came from a step (`RtOverrun`).
8. `MdlTerminate` (986), in which `ec_Ebox.c` 144-149 sets the outputs to zero, is called after `ec_stop` (942): the zeros never reach the
   slaves, which keep the last step's outputs. On an error it is not called at all (no run; `Exit` models it).
9. A digital output of an EL2004 is set in bit 0 to 3 of its slave's first byte, where another slave's bits are if they share it: `Ostartbit` is never read (`SharedByte`).

What the other modules turned up and no run of its own shows; each is modelled as the code has it, and the properties name what they exempt:

10. `ec_outframe` marks a buffer as sent after sending (`nicdrv.c` 339) and may overwrite the mark of an answer that another thread has stored already.
11. `ec_srconfirm` retries on no frame only, not "WKC=0" (`nicdrv.c` 606-607, 648).
12. An answer after its time-out marks a free buffer as received for good (468); `ec_getindex` runs out of buffers and hands out used ones.
13. `ec_SDOread` compares no session counter (`ethercatcoe.c` 200, 227): a late answer of the same index is taken for the new one.
14. Its loop over segments has no time-out and compares no toggle bit (265).
15. `ec_start` does not reset the counters of slaves (`ec.c` 83, 907), which index the E-boxes' parameter structures, of which there are as many as boxes on the bus (1617): a second start with an
    E-box writes past their end (1812, 1053).
16. `ec_dout_write_chan` and `ec_pwm_write_chan` use the DACs' links and channels (1533, 1545).
17. `rtc_add_timespec` does not carry at exactly one second (177).
18. `fg_set_type` designs the noise filter with a frequency that is not relative (605), unlike `fg_set_freq1` (477).
19. The limit of 256 lines is passed over by a change of type or interval, and the callback's write-back may undo a setter (`libfungen.c` 465, 282, 285).
20. `fir_design` leaves out the first coefficient (127).
21. A callback that publishes the next frame while `tde_get_data` (1548) copies sets `tde_valid` again: the copy mixes two frames and still returns 1
    (this is what `newer` leaves out of `CopyFlagged`).
22. `tde_trigger_on` of a standalone engine resets `tde_buffer_idx` and the trigger in separate stores; a sample between them, or the count that it leaves standing, may publish a frame of the restarted ring with the
    trigger in the wrong row and rows from before (this is what `SinceRestart` leaves out).
23. `incomm_client_read` may swallow the beginning of the next message (71); the exchange then fails.
24. `tde_get_data` tests neither `tde_data_idx` nor `tde_valid`: without a successful poll the first row may be row -1, before `tde_data` (1548).
25. `tde_set_nsamp` stores any length (987), although frames past the ring, or past half of it, break the arithmetic of the ring.
26. A failed read ends the server thread and nothing else (252): the engine, with its outputs, runs on and nobody can reach it.
27. `ec_send` forgets the buffers of frames that were not received (`ethercatmain.c` 1396). The standalone callback sends on every DAC tick (1138) and receives once in `ndown + 1` calls (1168): buffers leak without a
    time-out, and one index may be handed out twice between two receives, so that the answer taken is that of an earlier send. With four buffers this takes two sends ahead (`AnswerIsOwn` fails with `ahead = 2`), with the
    code's 16 four (indices 0, 5, 10, 15, 0 in the fourth round) or, in the first round, sixteen.
28. A wait that timed out releases its buffer twice, in `ec_waitinframe` or `ec_srconfirm` (598, 652) and in the caller (`ethercatmain.c` 1539, `ethercatbase.c`), the second time possibly under another thread.

## 3. Proofs

The theorems hold for every value of the constants that the named assumptions of the modules admit. A theorem that
needs more says so in its ASSUME; those conditions are explained here. Each proof has an inductive invariant, whose parts are named, and a lemma per action
or per part. `PROJECT.json` lists the theorems.

### The core

`ScopeEngine_proofs` proves `Spec => []TypeOK` in every mode: types only, index -1 included. `TypeOK` is not inductive: the pair (`op`, `pc`) must be
one a handler reaches, or `StoreAfter` would leave the program; and a copy's `row` and
`want` depend on each other. `TypeInv` adds this; each of `Timer`, `Command`, `CopyRow`,
`ReturnData` and `Store` has its lemma. On `TypeInv` rest, in the same module:

- `LinkIsKept`, without conditions. `LinkInv` says what each store has done to the link so far.
- `HaltIsKept`, under Simulink (standalone it is false, finding 1): a callback in its sampling part has found `tde_go = 1`, and nothing changes it before the callback ends (`HaltInv`).
- `CopiesStayInRing`, for clients that poll first: every row that `tde_get_data` reads lies in the ring. `IndexInv` says that the index is -1 only while no frame is valid, but for the stores of a restart, in which no poll can fall.
- `PrerollIsPassed`, with `ArmingClients`: pause, frame length and rate are changed only while no trigger is armed, and at most one callback enters a handler's stores.
  Without the first condition it is false: that is run `ScopePreroll`. The trigger itself may be switched on and off at any time. `ArmedInv` says that since `tde_trigger_on` restarted the ring it holds
  every sample, as many as `buffer_idx` says, and that the trigger is not enabled before there is a frame of them; between the stores the one callback may have added a row.
- `TriggerIsPlaced`, `TriggeredFramesAreConsecutive` and `CopiesAreFlagged`, with `TriggeredClients`: moreover the rate changes while the measurement is paused, and the callbacks in a handler's stores are fewer than a frame has samples. Nothing is
  assumed of the callbacks in a copy. `PastInv` orders the stamps of the last restart, trigger and frame, and `PlacedInv` ties `frame_idx` to the row of the trigger while a triggered frame fills. `WholeInv` has four parts: what each handler has
  reset at each of its stores and what a callback may have done since (`ResetInv`), the frame being filled (`FillInv`), the published frame, `m` rows back and not yet overwritten, for some `m` from `nsamp` to the ring's
  length (`KeptInv`, which the check at the frame's first row keeps up), and the copy, whose rows are those of the published frame unless it was withdrawn or another has been published (`FlaggedInv`).

What the properties leave out is false in the code. `SinceRestart` leaves out one frame: `tde_trigger_on` restarts the ring and not the count of the frame being filled, so that a frame published within `nsamp` samples of the restart, before a trigger
has fired, holds rows from before (findings 3 and 22). `newer` leaves out a copy in which the callback published the next frame (finding 21).

These are the conditions under which `ScopeTrigger` runs. The theorems are about every ring, frame length, preroll and filter length.

`FreeRunning_proofs` assumes `FreeRunningClients`: no trigger is armed, the rate
is changed only while paused, data is got after a poll, a frame fills at most half of the ring, at most one
callback enters a handler's stores and fewer than a frame has rows, and a copy is
over before the callback has come round (`2n + MaxCopyLag <= MaxSamp + 1`). Under these
`FreeInv` is inductive. Its parts: `FrameInv`, the last `frame_idx` rows hold the last
samples; `PublishedInv`, the published frame lies just before them; `RestartInv`, what a half-done restart
has already reset and what the one callback that came in between did to it; `CopyInv`,
the next row to copy is `age` samples old and will not be overwritten before it is
read; `RateInv`, the counter is within its limit. All are stated with `Back(i, k)`, the row
`k` samples before row `i`, and the module starts with the arithmetic of `Back`, so that
wrap-around is dealt with once. `FramesAreConsecutive`, `CopiesAreConsecutive` and
`RateIsKept` follow from it. `DeliveriesAdvance` needs `NewerInv` besides: what is filled, published, reported by a poll or half copied is
newer than the last sample that the client has acknowledged, although the callback may withdraw a frame between poll, copy and acknowledgement.

`FreeInv`, `ServerInv` and `TargetInv` were checked by TLC on these instances before they were proved; no run repeats it. The theorems hold for every set of frame
lengths, so no run is spent on free-running scopes whose length changes; `ScopeAll` has the resizing itself.

### The server

`CmdServer_proofs` assumes `AllExecuted`: in a Simulink model nobody asks for `stop_acq` (finding 5). It proves
`Spec => []ServerInv` and, from it, `TypeCorrect`, `NoCommandStrays` and `CallsAreServed`
(`Spec => ServesCalls`, the refinement). The promise alone is not inductive: that a reply is right rests on where the
call is. `Queue`: the calls in the backlog are untouched, distinct and not the one in hand. `Current`: the call in hand is its
client's last one, and for each `pc` whether it has been executed and what has been sent. `Received`: from dispatch to
`close` the client has sent its request, so it cannot be in a new call that is not yet seen. `Handshake`: `delayed` is 1
only in the wait, before the execution. `Replies`: what lies in an inbox is the result of the current call, and a client
that is through with its call has no request left on the wire. The lemmas go action by action; `EndInv` and
`SendToInv` serve two actions each; `StepServes` maps each step to a step of `CmdService` or a stutter.

`RepliesAreWhole`, in the same module, is about `FrameStream`, for every length of head and data and every cut. `StreamInv` says that what the client has read as head, what it has read as data and what
is still in the stream are, put together, what the server has written (`InPlace`): a `recv` moves a piece over but loses none. A call that succeeds has at
least its length of each, so the head cannot have taken pieces of the data without the second read falling short.

### The target and the timer

`RealTime_proofs` proves `Spec => []TargetInv` for every final time and warm-up, and from it every safety property of `RtTarget`:
`TargetTypes`, `SamplesAreFresh`, `TimeInStep`, `NoStepAfterFailure`, `SuccessIsComplete`, `OutputsReachSlaves` and `OrderlyEnd`. The invariant goes along the program. `LoopInv`: between
two steps there were as many steps as callbacks (`Calls`), or one less if the last one was left. `StepInv`: in a step the time is still the callback's number, and in
main's step the final time. `LastInv`: after the timer, what is missing has a reason. `FlagInv`: the stop flag has one of the reasons that `main`
looks for when it exits, and the count of overruns is 1 just in a step. `OutputInv` and `BusInv`: whose outputs the IOmap and
the slaves hold, and whose inputs are under way. `ExtInv`: the External Mode thread has left before the bus is closed. There is a lemma per action with a step per conjunct.

Of `RtTimer` it proves `TicksOnGrid` for every length of the second and every cycle: `AddsCycle` says that `rtc_add_timespec` adds the cycle and leaves at
most a second of nanoseconds, `WaitsLongEnough` that the wait does not end before the time, but for the exact second. And `MissedJustified`: no interrupt is counted as missed while every call
comes within a third of a cycle of its time. The code compares the distance of two calls with a cycle that it *estimates* as the mean of the distances so far. `PromptInv` keeps the first and the last call
prompt: their latencies, not those of all the calls between, are what the estimate is off by, so its error shrinks with the number of calls and the quotient of the test stays below the one that counts as a miss.

### Signals

`Signal_proofs` has three parts. *Filter*: the refinement `FirSpec => FirShifts` for every number of taps; the index stays in the ring (`RingInv`), and storing a sample
shifts what `Walk` meets by one place. *Generator*: `BandIsLimited`, for all frequencies, intervals and band widths; `BandInv` adds to the property what the callback of a multisine has read and not yet stored.
`LineStaysInBand` is the action property of the whistle. Both rest on lemmas about `Line` and `Freq`, the rounding to spectral lines. *Encoders*: `ElExact` for every half period and every bound below it. The invariant says what the number of revolutions counts: the raw
count and `elRevol` periods make up the position at the last read (`Counted`), the previous count is what the counter showed then (`PrevShown`), and zeroing keeps both up to the same shift. `UnwrapCounts`
is the heart: with a move within the bound, one of the code's two tests applies just when the counter has wrapped. `EboxIsExact` is true for another reason than the code's own: `EbSteady` says that within half the bound
the revolutions never count, since the previous count that the two channels share is a displacement of either that is small enough for any test.

### The master and the bus

`Master_proofs` proves `IndicesAreOwned` and `AnswersAreOwn` with `EnoughBuffers`, for the two programs that `Orderly` names. In a target (`FrameInv`) the time-outs and the indices that may be handed out while a frame is on its way (`MaxLife`) are together fewer than the buffers, and so are the time-outs
plus one. Late answers come home before their index is handed out again, and each thread that takes an index finds a free one. The condition is nearly tight: beyond it TLC finds `IndexOwned` violated (finding 12). `StrayInv` counts: the buffers that a late
answer has spoilt and the frames on the bus are no more than the time-outs and what the two threads are still owed (`Credit`). `OwnInv` says that whatever comes for an index a thread holds answers its request.
A scope that sends at most one frame ahead of the one it receives (`SoloInv`, `LastSent`) leaves buffers behind until none is free; from then on `ec_getindex` goes round, and the proof is that the frames still on the bus are the last two
sent, in order, with the last two indices, so that the frame found for an index is never an older one. It ends at the first time-out (finding 12), and with more frames ahead it is false in general (finding 27).

`CallsAreExact` is about `EcMailbox`, without conditions on losses, parts or repeats. All that is on its way to the master, the slave's repeat, its outbox and what it has still to answer, is one sequence (`Coming`). `FirstInv`: for a
call on a quiet mailbox it holds nothing, or the answer to this request. `PartsInv`: in a read by parts it holds the next parts in order and then only aborts, although the master compares no toggle bit.

`IoMap_proofs` proves `MapIsExact` and `ImageIsFollowed` for every bus. The first assumes `SlavesFit`: no slave has more data either way than a frame carries, which EtherCAT slaves
of this program are far from, and without which a slave *must* be cut. `Layout` says of the slaves placed so far that they lie one after the other without a gap but for alignment, and share no bit; `Segmented`, `Uncut` and `Counted` that the segments add up
to the bytes passed, and that none ends inside a slave of whole bytes. `Stage` puts them together and `PlaceSlave` and `Align` keep it. `IoInv` is the invariant of the exchange: a slave that shares no byte has in the image what was last written to it, whatever
is under way, and frames on their way hold the image of `ec_send` with the slaves' inputs.

`EcPorts_proofs` proves `PortsAreResolved` and `PwmsLand` for every bus and every history of starts, failed starts and stops, until a start overruns the arrays. `EpInv` says of entry `i` of a table that it stands for a channel whose number on the bus is `i - 1` (`Numbered`) and
that its link leads to the slave of this channel (`Leads`). `TableFacts` shows this of the table that a start makes, `LinksHold` and `LinksLead` that a slave keeps the link it was given although links go on from earlier starts, and `ChansSize` and `RankIs` count channels. Marks
(`clipped`, `enabled`) and writes do not touch it. `PwmsLand` is about the writes that go through the wrong table (finding 16): with E-boxes as the only outputs, the entries of pwm ports and DACs agree in link and channel, as both count two to a box,
and the digital output that is asked for the device is one of the boxes', of which there are more. With any other terminal with outputs the property is false.

What these two modules compute by recursion, over the slaves and over segments, is reasoned about without the library's induction principles, which need an operator as a parameter: `Least` and `Induct` are induction over a *set* of numbers, and
`Recursion` gives the function that a start and a step function make.

### Only model-checked

The liveness properties: `Answered` and `EngineFollows` of the server, `Ends` of the target, `ExchangeEnds` and `CallsEnd`. They hold under fairness, which is out of the prover's reach. Every invariant and every action property that a passing run checks has
a theorem; where its conditions are narrower than the run's, this section says so: the properties of `ScopeTrigger` have theorems under `TriggeredClients` or `ArmingClients`, which hold in their run, `CopyInRing` under `PollFirst`, and
`DeliveryAdvances` and `CopyConsecutive` under the clients of `ScopeFree`.

## 4. Plan

Modelled: the core, the server, the target's program, and the devices and libraries under them. What is left, in this order:

1. The abstract stream of frames that `ScopeEngine` implements, with the frames that `SinceRestart` and `newer` leave out as its own faults.
2. The refinement of `EthFrames` and `EcMailbox` to an abstract request/reply service, as `CmdServer` has it; `MapExact` for slaves whose data exceed a frame.
3. The multitasking step and the sub-rates of `RtTarget`; `ScopeEngine` composed with `CmdServer`.
4. The start-up of the slaves (`ec_config`, `ec_statecheck`) and the cache of the EEPROM.

### Not modelled

Much of the repository holds no state that an order of events could spoil. Screens and their older versions (`gui/EscopeGTK`, `junk`, `libu1.c`) draw what a command returned. The
simulators (`ec_sim.c`, `libtdqad_sim.c`) and the older gates (`test01.c`) stand in for hardware: the first repeats `ec.c` with frames replaced by an array, the others drive or call an older device.
Filter design, FFT and matrix helpers are floating point; TLC has no reals, and TLAPS' integers say nothing of rounding. Of the EtherCAT master the second network card, FoE, SoE,
distributed clocks, the object dictionary lists and the EEPROM's layout are not used by this program, or before its threads exist. Installation, templates and wrappers
have no running state. The share of the lines that `map` names stays far below a third for this reason; the code that runs concurrently, fails or counts is in it.
