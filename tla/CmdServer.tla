------------------------------ MODULE CmdServer ------------------------------
(***************************************************************************)
(* The command server of the engine (shm_thread and the socket library),   *)
(* its clients (tde_gate) and the thread that runs the timer callback.     *)
(*                                                                         *)
(* A client opens a connection per command, writes its request and reads   *)
(* the reply.  The server takes one connection at a time.  It executes a   *)
(* direct command itself and hands a delayed one to the callback through   *)
(* cmd.delayed, for which it waits.                                        *)
(*                                                                         *)
(* A handler is one step here; ScopeEngine has its stores.                 *)
(***************************************************************************)
EXTENDS Integers, Sequences

CONSTANTS
  Clients,
  Commands,    \* what they ask: "direct", "get_data", "delayed", "stop_acq"
  IsSimulink,  \* tde_is_simulink
  HangUps,     \* TRUE if a client may break off
  StartFails,  \* TRUE if the port may be taken or the devices missing
  MaxCalls,    \* bound on the calls of a client
  Failed, NoAnswer, None

ASSUME ServerAssumption ==
  /\ Commands \subseteq {"direct", "get_data", "delayed", "stop_acq"}
  /\ IsSimulink \in BOOLEAN /\ HangUps \in BOOLEAN /\ StartFails \in BOOLEAN
  /\ MaxCalls \in Nat
  /\ None \notin {"direct", "get_data", "delayed", "stop_acq"} \cup (Clients \X Nat)
  /\ Failed # NoAnswer
  /\ Failed \notin Clients \X Nat /\ NoAnswer \notin Clients \X Nat

VARIABLES
  client,     \* client -> "quiet", "connected", "sent" or "gone"
  asks,       \* client -> the command of its last call
  calls,      \* client -> number of calls it has made
  answer,     \* client -> retval that its last call gave
  wire,       \* client -> TRUE if its request waits to be received
  inbox,      \* client -> what the server has sent it
  link,       \* client -> its connection: "none", "open", "reset" or "shut"
  backlog,    \* connections not yet accepted
  listening,
  pc,         \* the server's next step
  conn,       \* new_fd: the call it belongs to
  delayed,    \* cmd.delayed
  retval,     \* cmd.retval: the call whose handler returned it
  run,
  go,         \* tde_go, as far as it is -1
  main,       \* the thread of the callback: "start", "run", "stopped", "exited"
  executed    \* history: client -> executions of its last call

clientVars == << client, asks, calls, answer >>
socketVars == << wire, inbox, link, backlog, listening >>
serverVars == << pc, conn, delayed, retval, run >>

vars == << clientVars, socketVars, serverVars, go, main, executed >>

Call(c) == << c, calls[c] >>

\* The client that is being served.
Caller == conn[1]

Init ==
  /\ client = [c \in Clients |-> "quiet"]
  /\ asks = [c \in Clients |-> None]
  /\ calls = [c \in Clients |-> 0]
  /\ answer = [c \in Clients |-> NoAnswer]
  /\ wire = [c \in Clients |-> FALSE]
  /\ inbox = [c \in Clients |-> << >>]
  /\ link = [c \in Clients |-> "none"]
  /\ backlog = << >> /\ listening = FALSE
  /\ pc = "open" /\ conn = None /\ delayed = 0 /\ retval = NoAnswer /\ run = 1
  /\ go = 0 /\ main = "start"
  /\ executed = [c \in Clients |-> 0]

----------------------------------------------------------------------------
(* The clients: tde_gate_cmd_wait. *)

\* incomm_client_open: a connection is complete once it is in the backlog.
Open(c, command) ==
  /\ client[c] = "quiet" /\ calls[c] < MaxCalls
  /\ calls' = [calls EXCEPT ![c] = @ + 1]
  /\ asks' = [asks EXCEPT ![c] = command]
  /\ executed' = [executed EXCEPT ![c] = 0]
  /\ IF listening
     THEN /\ client' = [client EXCEPT ![c] = "connected"]
          /\ answer' = [answer EXCEPT ![c] = NoAnswer]
          /\ link' = [link EXCEPT ![c] = "open"]
          /\ inbox' = [inbox EXCEPT ![c] = << >>]
          /\ backlog' = Append(backlog, c)
     ELSE /\ answer' = [answer EXCEPT ![c] = Failed]
          /\ UNCHANGED << client, link, inbox, backlog >>
  /\ UNCHANGED << wire, listening, serverVars, go, main >>

Fails(c) ==
  /\ client' = [client EXCEPT ![c] = "quiet"]
  /\ answer' = [answer EXCEPT ![c] = Failed]
  /\ UNCHANGED << asks, calls, socketVars, serverVars, go, main, executed >>

Send(c) ==
  /\ client[c] = "connected" /\ link[c] = "open"
  /\ client' = [client EXCEPT ![c] = "sent"]
  /\ wire' = [wire EXCEPT ![c] = TRUE]
  /\ UNCHANGED << asks, calls, answer, inbox, link, backlog, listening,
                  serverVars, go, main, executed >>

SendFails(c) == client[c] = "connected" /\ link[c] = "shut" /\ Fails(c)

\* A reply is a header, and for get_data the data after it.
Complete(c) == Len(inbox[c]) = IF asks[c] = "get_data" THEN 2 ELSE 1

Receive(c) ==
  /\ client[c] = "sent" /\ Complete(c)
  /\ client' = [client EXCEPT ![c] = "quiet"]
  /\ answer' = [answer EXCEPT ![c] = Head(inbox[c])]
  /\ UNCHANGED << asks, calls, socketVars, serverVars, go, main, executed >>

\* Mutant: the client does not take the end of the stream for a failure.
ReceiveSpins(c) ==
  client[c] = "sent" /\ ~Complete(c) /\ link[c] = "reset" /\ Fails(c)

ReceiveFails(c) ==
  client[c] = "sent" /\ ~Complete(c) /\ link[c] = "shut" /\ Fails(c)

\* The client's process ends in the middle of a call.
HangUp(c) ==
  /\ HangUps /\ client[c] \in {"connected", "sent"}
  /\ client' = [client EXCEPT ![c] = "gone"]
  /\ UNCHANGED << asks, calls, answer, socketVars, serverVars, go, main, executed >>

Client(c) ==
  \/ \E command \in Commands : Open(c, command)
  \/ Send(c) \/ SendFails(c) \/ Receive(c) \/ ReceiveFails(c)

----------------------------------------------------------------------------
(* The server: shm_thread. *)

\* Closing the listening socket also ends the connections of the backlog.
Shut(who) == [c \in Clients |-> IF c \in who /\ link[c] # "none"
                                THEN "shut" ELSE link[c]]

Waiting == { backlog[i] : i \in 1 .. Len(backlog) }

\* The client may have closed its end already and be in its next call.
Closing == { c \in Clients : conn = Call(c) }

ServerOpens ==
  /\ pc = "open" /\ pc' = "accept" /\ listening' = TRUE
  /\ UNCHANGED << clientVars, wire, inbox, link, backlog, conn, delayed, retval,
                  run, go, main, executed >>

\* Mutant: the engine goes on without a server.
OpenFailsSilently ==
  /\ StartFails /\ pc = "open" /\ pc' = "exited"
  /\ UNCHANGED << clientVars, socketVars, conn, delayed, retval, run, go, main,
                  executed >>

\* The port is taken: the server stops the engine.
OpenFails ==
  /\ StartFails /\ pc = "open" /\ pc' = "exited"
  /\ run' = 0 /\ go' = -1
  /\ UNCHANGED << clientVars, socketVars, conn, delayed, retval, main, executed >>

Accept ==
  /\ pc = "accept" /\ backlog # << >>
  /\ pc' = "read" /\ conn' = Call(Head(backlog)) /\ backlog' = Tail(backlog)
  /\ UNCHANGED << clientVars, wire, inbox, link, listening, delayed, retval, run,
                  go, main, executed >>

Read ==
  /\ pc = "read" /\ wire[Caller]
  /\ pc' = "dispatch" /\ wire' = [wire EXCEPT ![Caller] = FALSE]
  /\ UNCHANGED << clientVars, inbox, link, backlog, listening, conn, delayed,
                  retval, run, go, main, executed >>

\* A client that broke off ends the thread; its sockets stay open and the engine
\* runs on.
ReadFails ==
  /\ pc = "read" /\ ~wire[Caller] /\ client[Caller] = "gone"
  /\ pc' = "dead"
  /\ UNCHANGED << clientVars, socketVars, conn, delayed, retval, run, go, main,
                  executed >>

Execute ==
  /\ retval' = conn
  /\ executed' = [executed EXCEPT ![Caller] = @ + 1]

\* A direct command: perform_user_command_direct.  Under Simulink stop_acq is
\* passed over, and the reply carries the retval of an earlier command.
Perform ==
  /\ pc = "dispatch" /\ asks[Caller] # "delayed"
  /\ pc' = "write"
  /\ IF asks[Caller] = "stop_acq" /\ IsSimulink
     THEN UNCHANGED << retval, executed >> ELSE Execute
  /\ IF asks[Caller] = "stop_acq" /\ ~IsSimulink
     THEN run' = 0 /\ go' = -1 ELSE UNCHANGED << run, go >>
  /\ UNCHANGED << clientVars, socketVars, conn, delayed, main >>

\* The identifier, the arguments and last the flag are stored one after another; the
\* callback looks at none of the others before the flag is set.
Delay ==
  /\ pc = "dispatch" /\ asks[Caller] = "delayed"
  /\ pc' = "wait" /\ delayed' = 1
  /\ UNCHANGED << clientVars, socketVars, conn, retval, run, go, main, executed >>

\* Mutant: the server does not wait for the callback.
AwaitNothing ==
  /\ pc = "wait"
  /\ pc' = "write"
  /\ UNCHANGED << clientVars, socketVars, conn, delayed, retval, run, go, main,
                  executed >>

Await ==
  /\ pc = "wait" /\ delayed = 0
  /\ pc' = "write"
  /\ UNCHANGED << clientVars, socketVars, conn, delayed, retval, run, go, main,
                  executed >>

\* What is sent to a client that is gone is lost and resets the connection.
SendTo(c, message) ==
  IF client[c] = "gone"
  THEN link' = [link EXCEPT ![c] = "reset"] /\ UNCHANGED inbox
  ELSE inbox' = [inbox EXCEPT ![c] = Append(@, message)] /\ UNCHANGED link

Write ==
  /\ pc = "write"
  /\ pc' = IF asks[Caller] = "get_data" THEN "write_data" ELSE "close"
  /\ SendTo(Caller, retval)
  /\ UNCHANGED << clientVars, wire, backlog, listening, conn, delayed, retval,
                  run, go, main, executed >>

WriteData ==
  /\ pc = "write_data"
  /\ pc' = "close"
  /\ SendTo(Caller, retval)
  /\ UNCHANGED << clientVars, wire, backlog, listening, conn, delayed, retval,
                  run, go, main, executed >>

\* clear_user_command and, once run is 0, the end of the loop.
Close ==
  /\ pc = "close"
  /\ conn' = None /\ delayed' = 0
  /\ IF run = 1
     THEN /\ pc' = "accept" /\ link' = Shut(Closing)
          /\ UNCHANGED << backlog, listening >>
     ELSE /\ pc' = "exited" /\ link' = Shut(Closing \cup Waiting)
          /\ backlog' = << >> /\ listening' = FALSE
  /\ UNCHANGED << clientVars, wire, inbox, retval, run, go, main, executed >>

Server ==
  /\ main # "exited"
  /\ \/ ServerOpens \/ Accept \/ Read \/ ReadFails \/ Perform \/ Delay
     \/ Await \/ Write \/ WriteData \/ Close

----------------------------------------------------------------------------
(* The thread of the callback: tde_start_engine and tde_timer_fun. *)

DevicesStart ==
  /\ main = "start" /\ main' = "run"
  /\ UNCHANGED << clientVars, socketVars, serverVars, go, executed >>

\* The process ends, and with it the server and every connection.
Exit ==
  /\ main' = "exited" /\ pc' = "exited"
  /\ link' = Shut(Clients) /\ backlog' = << >> /\ listening' = FALSE
  /\ UNCHANGED << clientVars, wire, inbox, conn, delayed, retval, run, go, executed >>

DevicesFail == StartFails /\ ~IsSimulink /\ main = "start" /\ Exit

\* Mutant: the callback looks for no command.
TickDeaf ==
  /\ main = "run" /\ ~IsSimulink
  /\ main' = IF go = -1 THEN "stopped" ELSE "run"
  /\ UNCHANGED << clientVars, socketVars, serverVars, go, executed >>

\* A callback: perform_user_command_delayed, then the test for the stop.
\* Under Simulink it does neither.
Tick ==
  /\ main = "run" /\ ~IsSimulink
  /\ main' = IF go = -1 THEN "stopped" ELSE "run"
  /\ IF delayed = 1 THEN Execute /\ delayed' = 0
                    ELSE UNCHANGED << retval, executed, delayed >>
  /\ UNCHANGED << clientVars, socketVars, pc, conn, run, go >>

\* tde_stop_acq_simulink: a model ends by itself.
ModelEnds ==
  /\ IsSimulink /\ main = "run" /\ main' = "stopped"
  /\ run' = 0
  /\ UNCHANGED << clientVars, socketVars, pc, conn, delayed, retval, go, executed >>

\* The process sleeps two seconds before it ends.  They outlast what the server
\* has left to do, unless it waits in accept or for a callback of a model.
ProcessExit ==
  main = "stopped" /\ (IsSimulink \/ pc = "exited") /\ Exit

\* SIGPIPE: sending the data after the connection was reset.
BrokenPipe == pc = "write_data" /\ link[Caller] = "reset" /\ Exit

Main == DevicesStart \/ Tick \/ ModelEnds \/ ProcessExit

Ended == main = "exited" /\ UNCHANGED vars

Next ==
  \/ \E c \in Clients : Client(c) \/ HangUp(c)
  \/ Server \/ OpenFails
  \/ Main \/ DevicesFail \/ BrokenPipe \/ Ended

\* The two threads are scheduled for ever, and a client that has opened a
\* connection goes on with its call; whether it makes another one is its choice.
Fairness ==
  /\ WF_vars(Server)
  /\ WF_vars(DevicesStart) /\ WF_vars(Tick) /\ WF_vars(ProcessExit)
  /\ \A c \in Clients :
       WF_vars(Send(c) \/ SendFails(c) \/ Receive(c) \/ ReceiveFails(c))

Spec == Init /\ [][Next]_vars

FairSpec == Spec /\ Fairness

----------------------------------------------------------------------------
(* Properties. *)

Answers == (Clients \X Nat) \cup {NoAnswer, Failed}

\* Types; a call is executed at most once.
TypeOK ==
  /\ client \in [Clients -> {"quiet", "connected", "sent", "gone"}]
  /\ asks \in [Clients -> Commands \cup {None}]
  /\ calls \in [Clients -> Nat] /\ answer \in [Clients -> Answers]
  /\ wire \in [Clients -> BOOLEAN] /\ inbox \in [Clients -> Seq(Answers)]
  /\ link \in [Clients -> {"none", "open", "reset", "shut"}]
  /\ backlog \in Seq(Clients) /\ listening \in BOOLEAN
  /\ pc \in {"open", "accept", "read", "dispatch", "wait", "write",
             "write_data", "close", "exited", "dead"}
  /\ conn \in (Clients \X Nat) \cup {None}
  /\ delayed \in {0, 1} /\ retval \in Answers /\ run \in {0, 1}
  /\ go \in {-1, 0} /\ main \in {"start", "run", "stopped", "exited"}
  /\ executed \in [Clients -> {0, 1}]

\* The callback finds a delayed command only while the server waits for it,
\* so it never executes one on the arguments of another.
NoStrayCommand ==
  delayed = 1 => pc \in {"wait", "exited"} /\ executed[Caller] = 0

\* The server does its calls as CmdService promises: at most once each, while
\* they are under way, and answered with their own result.
Service ==
  INSTANCE CmdService WITH
    phase <- [c \in Clients |-> IF client[c] \in {"connected", "sent"}
                                THEN "asking" ELSE client[c]],
    served <- executed

ServesCalls == Service!Spec

\* Every call comes to an end, unless a client that broke off took the server
\* with it.
Answered ==
  \A c \in Clients : client[c] \in {"connected", "sent"} ~>
                       (client[c] \in {"quiet", "gone"} \/ pc = "dead")

\* "wait for asynchronous command to finish": the callback gets round to it.
DelayedFinishes == pc = "wait" ~> pc # "wait"

\* A server that ends because the port is taken or on tde_stop_acq takes the engine with
\* it: the timer's loop and the process end too.  One that a failed read ends does not:
\* shm_thread just returns ("dead"), and the timer runs on with nobody to stop it.
EngineFollows == pc = "exited" ~> main = "exited"
====
