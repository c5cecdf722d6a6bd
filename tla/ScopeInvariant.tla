--------------------------- MODULE ScopeInvariant ---------------------------
(***************************************************************************)
(* The parts of the engine's inductive invariants, and the assumptions on  *)
(* its clients and on the margins of time under which they are inductive:  *)
(* none for the link, the mode of Simulink for the halt, ArmingClients for *)
(* the trigger's preroll, TriggeredClients for its place and the frames it *)
(* makes, FreeRunningClients for those of a scope without a trigger.       *)
(***************************************************************************)
EXTENDS ScopeEngine

\* The modes and the margins under which a frame stays whole: a frame fills
\* at most half of the ring (MAXFRAME), a handler lets at most one callback in,
\* fewer than a frame has samples, and a copy is over before the callback comes
\* round to the frame.
FreeRunningClients ==
  /\ "trigger_on" \notin Commands
  /\ "set_ndown" \in PausedOnly
  /\ PollFirst
  /\ MaxStoreLag <= 1
  /\ \A n \in Frames : /\ MaxStoreLag < n
                       /\ 2 * n <= MaxSamp
                       /\ 2 * n + MaxCopyLag <= MaxSamp + 1

\* The last m rows before the next one to write hold the last m samples.
Rows(m) == \A k \in 1 .. m : data[Back(buffer_idx, k)] = clock + 1 - k

Successive(s) == \A k \in 2 .. Len(s) : s[k] = s[k - 1] + 1

\* Which handler the server is in at each store.
Handlers ==
  /\ pc = "buffer_idx" => op \in {"pause", "set_nsamp", "trigger_on"}
  /\ pc \in {"frame_idx", "data_idx"} => op \in {"pause", "set_nsamp"}
  /\ pc = "valid" => op \in {"pause", "set_nsamp", "say_ready", "trigger_on"}
  /\ pc = "read" => op \in {"pause", "set_nsamp", "say_ready"}
  /\ pc = "nsamp" => op = "set_nsamp"
  /\ pc = "started" => op = "pause"
  /\ pc = "idown" => op \in {"pause", "set_ndown"}
  /\ pc = "ndown" => op = "set_ndown"
  /\ pc \in {"sleep", "trigger", "triggered", "trig_state", "trig_preroll",
             "ntaps", "go"} => op = "trigger_on"
  /\ pc \in {"copy", "return"} => op = "get_data"
  /\ pc = "exited" => op = "stop_acq"

\* Whoever changes go or linked tells the function generator in the same breath,
\* and a handler that halts the measurement has told it so.
LinkInv == fg_link = Notified(go, linked)

\* The Simulink callback calls ec_receive only while the measurement runs, and
\* nobody can halt it in there.
HaltInv == IsSimulink /\ tick = "receive" => go = 1

\* Clients that restart the buffer or change the rate only while no trigger is
\* armed.
ArmingClients ==
  /\ {"pause", "set_nsamp", "set_ndown"} \cap Commands \subseteq UnarmedOnly
  /\ MaxStoreLag <= 1

\* What those handlers find, and that a handler lets in as much as it may.
UnarmedInv ==
  /\ op \in {"pause", "set_nsamp", "set_ndown"} /\ pc \in Stores => trigger = 0
  /\ triggered = 1 => trigger = 1
  /\ pc \in Stores => lag <= MaxStoreLag

\* tde_trigger_on has restarted the buffer; until trig_state is stored the state of
\* the trigger is that of the one before.
Arming == {"trigger", "triggered", "trig_state"}

\* Its stores from there on.
Armed == {"trig_state", "trig_preroll", "ntaps", "go"}

\* The samples since tde_trigger_on restarted the ring, as many as it holds.
SinceRows == \A m \in 0 .. MaxSamp : restart + m <= clock => Rows(m)

\* From the restart on the ring fills without a gap, and the trigger is enabled when
\* it holds a frame.
ArmedInv ==
  /\ pc \in Arming \cup Armed => buffer_idx <= lag /\ clock <= restart + lag
  /\ trigger = 1 \/ pc = "trigger" => restart + buffer_idx <= clock /\ SinceRows
  /\ trigger = 1 /\ trig_state # "WAIT" /\ pc \notin Arming => restart + nsamp - 1 <= clock

\* The stamps of the past; a frame counted from a trigger is from after the restart.
PastInv ==
  /\ restart <= clock /\ published <= clock /\ fired <= clock
  /\ restart < fired => restart + frame_idx <= clock

\* The rows of a triggered frame before the trigger, as frame_idx counts them.
TriggerRow == PrerollRows + (ntaps \div 2)

\* After the trigger frame_idx counts from where the preroll puts it, and the
\* preroll does not change before the frame is published or forgotten.
PlacedInv ==
  /\ triggered = 1 /\ pc \notin Arming =>
       /\ trig_state = "DONE"
       /\ TriggerRow < frame_idx /\ frame_idx < nsamp
       /\ fired = clock + 1 + TriggerRow - frame_idx
  /\ pc \in Armed => triggered = 0
  /\ pc \in Armed \ {"trig_state"} => trig_state = "WAIT"

\* Clients that change the rate only while the measurement is paused, and a callback
\* at most between the stores of a handler, fewer than a frame has samples.
TriggeredClients ==
  /\ ArmingClients
  /\ {"set_ndown"} \cap Commands \subseteq PausedOnly
  /\ \A n \in Frames : MaxStoreLag < n

\* The measurement runs, or is halted by tde_trigger_on alone.
Live == go = 1 \/ (op = "trigger_on" /\ pc # "idle" /\ go_bak = 1)

\* Until a handler has withdrawn the frame.
Withdrawing == {"buffer_idx", "frame_idx", "data_idx", "valid"}

\* What the handlers have reset at each store, and find; the one callback that a
\* handler lets in may have counted a sample or published a frame since.
ResetInv ==
  /\ op \in {"pause", "set_nsamp"} /\ pc \in Stores \ {"buffer_idx", "frame_idx"} =>
       frame_idx <= lag /\ (frame_idx > 0 => idown = 0 \/ ndown = 0)
  /\ op \in {"pause", "set_nsamp"} /\ pc \in Stores \ Withdrawing => valid = 0
  /\ op = "trigger_on" /\ pc = "buffer_idx" /\ valid = 1 => published = clock /\ lag > 0
  /\ op = "set_ndown" /\ pc \in {"idown", "ndown"} => go # 1
  /\ pc \in Armed \cup {"triggered"} => trigger = 1
  /\ valid = 1 /\ ~(op = "say_ready" /\ pc = "valid") => read = 0

Restarting == op \in {"pause", "set_nsamp"} /\ pc \in {"buffer_idx", "frame_idx"}

\* Without a trigger the samples counted are the last ones, as far back as the last
\* restart of tde_trigger_on, which leaves the count as it is.
FillInv ==
  trigger = 0 /\ Live /\ ~Restarting =>
    \A m \in 0 .. MaxSamp : m <= frame_idx /\ restart + m <= clock => Rows(m)

\* A published frame lies m rows back, and nothing since has been overwritten.
KeptAt(m) == data_idx = Back(buffer_idx, m) /\ Rows(m)

\* The check for an overrun withdraws it at its first row.
KeptInv ==
  valid = 1 /\ Live /\ SinceRestart /\ pc \notin Withdrawing =>
    \E m \in nsamp .. MaxSamp : KeptAt(m)

\* What is copied are the rows of the frame, unless it has been withdrawn.
FlaggedInv ==
  pc \in {"copy", "return"} /\ valid = 1 /\ go = 1 /\ ~newer /\ SinceRestart =>
    /\ want <= nsamp /\ Len(copied) <= want
    /\ \A k \in 1 .. Len(copied) : copied[k] = data[FrameRow(k - 1)]
    /\ pc = "copy" => Len(copied) < want /\ row = FrameRow(Len(copied))

\* With FreeRunningClients no trigger is armed, and a handler that changes the
\* rate finds the measurement paused.
FreeRun ==
  /\ trigger = 0 /\ triggered = 0 /\ op # "trigger_on"
  /\ op = "set_ndown" /\ pc \in {"idown", "ndown"} => go # 1
  /\ pc \in Stores => lag <= MaxStoreLag
  /\ pc \in {"copy", "return"} => lag <= MaxCopyLag

\* The counter stays within its limit; at a sample it has just restarted.
RateInv ==
  /\ pc # "ndown" => idown <= ndown \/ ndown = 0
  /\ pc = "ndown" => idown <= lag /\ idown <= ndown
  /\ tick = "receive" => idown = 0 \/ ndown = 0

Restarted == op \in {"pause", "set_nsamp"} /\ pc \in Stores

\* A handler that restarts the buffer: at each store what it has already reset
\* and what the one callback it may have let in did since.
RestartInv ==
  Restarted =>
    /\ pc \notin {"buffer_idx", "frame_idx"} => frame_idx <= lag
    /\ pc \notin {"buffer_idx", "frame_idx", "data_idx"} => data_idx = -1
    /\ pc \notin {"buffer_idx", "frame_idx", "data_idx", "valid"} => valid = 0
    /\ pc \notin {"buffer_idx", "frame_idx"} /\ frame_idx > 0 =>
         lag = MaxStoreLag /\ (idown = 0 \/ ndown = 0)

\* The samples of the frame being filled are the last frame_idx ones.
FrameInv ==
  pc \notin {"buffer_idx", "frame_idx"} =>
    /\ frame_idx < nsamp
    /\ go = 1 => Rows(frame_idx)

\* The published frame lies just before them.
PublishedInv ==
  /\ valid = 1 => data_idx >= 0 \/ (Restarted /\ pc = "valid")
  /\ /\ go = 1 /\ data_idx >= 0
     /\ pc \notin {"buffer_idx", "frame_idx", "data_idx"}
     => /\ data_idx = Back(buffer_idx, nsamp + frame_idx)
        /\ Rows(nsamp + frame_idx)
  /\ pc = "idle" /\ op = "check_data" /\ retval = 0 => data_idx >= 0

\* The next row to copy was written age samples ago, and nothing since then
\* has been overwritten; the rows already copied lead up to it.
CopyingAt(age) ==
  /\ row = Back(buffer_idx, age)
  /\ Rows(age)
  /\ age + Len(copied) <= 2 * nsamp - 1 + lag
  /\ want <= age + Len(copied)
  /\ Len(copied) > 0 => copied[Len(copied)] = clock - age

CopyInv ==
  /\ pc = "copy" => Len(copied) < want
  /\ go = 1 /\ pc = "copy" => \E age \in 1 .. MaxSamp : CopyingAt(age)
  /\ go = 1 /\ op = "get_data" /\ pc \in {"copy", "return", "idle"} =>
       /\ Successive(copied)
       /\ Len(copied) > 0 => copied[1] # Garbage
  /\ op = "get_data" /\ pc \in {"return", "idle"} => Len(copied) > 0

\* How many samples ago the next row to copy was written.
Age == IF row < buffer_idx THEN buffer_idx - row ELSE buffer_idx - row + MaxSamp

\* No stamp is ahead of the clock.
StampInv ==
  /\ acked <= clock
  /\ \A i \in 0 .. MaxSamp - 1 : data[i] <= clock
  /\ \A k \in 1 .. Len(copied) : copied[k] <= clock

\* The frame being filled is newer than what the client has acknowledged, and than
\* what it may still acknowledge.
AheadInv ==
  go = 1 /\ pc \notin {"buffer_idx", "frame_idx"} =>
    /\ acked + frame_idx <= clock
    /\ Len(copied) > 0 => copied[Len(copied)] + frame_idx <= clock

\* So is a published frame, until the client acknowledges it; a poll that
\* reported it stays true although the callback may meanwhile withdraw it.
UnreadInv ==
  /\ /\ go = 1 /\ valid = 1 /\ data_idx >= 0
     /\ pc \notin {"buffer_idx", "frame_idx", "data_idx"}
     /\ ~(op = "say_ready" /\ pc \in {"read", "valid"})
     => acked + nsamp + frame_idx <= clock
  /\ go = 1 /\ pc = "idle" /\ op = "check_data" /\ retval = 0 =>
       acked + nsamp + frame_idx <= clock

\* And so is every row of it that is copied.
DeliverInv ==
  /\ go = 1 /\ pc = "copy" =>
       want + frame_idx <= Age + Len(copied) /\ acked + Age <= clock
  /\ go = 1 /\ op = "get_data" /\ pc \in {"copy", "return", "idle"} /\ Len(copied) > 0 =>
       copied[Len(copied)] > acked

NewerInv == StampInv /\ AheadInv /\ UnreadInv /\ DeliverInv

FreeInv ==
  /\ TypeOK /\ Handlers /\ FreeRun /\ RateInv /\ RestartInv /\ FrameInv /\ PublishedInv
  /\ CopyInv
====
