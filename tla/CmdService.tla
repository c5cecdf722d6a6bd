----------------------------- MODULE CmdService -----------------------------
(***************************************************************************)
(* What the command server promises its clients: a call is served at most  *)
(* once, between its start and its end, and a client that gets an answer   *)
(* gets the result of its own call.  A call may fail, served or not, and a *)
(* client may break off; its call may still be served.                     *)
(***************************************************************************)
EXTENDS Naturals

CONSTANTS Clients,
          Failed,    \* the answer of a call that failed
          NoAnswer   \* the answer while a call is under way

VARIABLES
  phase,    \* client -> "quiet", "asking" or "gone"
  calls,    \* client -> number of calls it has made
  served,   \* client -> how often its last call was served
  answer    \* client -> what its last call gave

vars == << phase, calls, served, answer >>

\* The result of a client's current call.
Result(c) == << c, calls[c] >>

Init ==
  /\ phase = [c \in Clients |-> "quiet"]
  /\ calls = [c \in Clients |-> 0]
  /\ served = [c \in Clients |-> 0]
  /\ answer = [c \in Clients |-> NoAnswer]

Begin(c) ==
  /\ phase[c] = "quiet"
  /\ calls' = [calls EXCEPT ![c] = @ + 1]
  /\ served' = [served EXCEPT ![c] = 0]

Ask(c) ==
  /\ Begin(c)
  /\ phase' = [phase EXCEPT ![c] = "asking"]
  /\ answer' = [answer EXCEPT ![c] = NoAnswer]

Refuse(c) ==
  /\ Begin(c)
  /\ answer' = [answer EXCEPT ![c] = Failed]
  /\ UNCHANGED phase

Serve(c) ==
  /\ phase[c] # "quiet" /\ served[c] = 0
  /\ served' = [served EXCEPT ![c] = 1]
  /\ UNCHANGED << phase, calls, answer >>

Reply(c) ==
  /\ phase[c] = "asking" /\ served[c] = 1
  /\ phase' = [phase EXCEPT ![c] = "quiet"]
  /\ answer' = [answer EXCEPT ![c] = Result(c)]
  /\ UNCHANGED << calls, served >>

Fail(c) ==
  /\ phase[c] = "asking"
  /\ phase' = [phase EXCEPT ![c] = "quiet"]
  /\ answer' = [answer EXCEPT ![c] = Failed]
  /\ UNCHANGED << calls, served >>

BreakOff(c) ==
  /\ phase[c] = "asking"
  /\ phase' = [phase EXCEPT ![c] = "gone"]
  /\ UNCHANGED << calls, served, answer >>

Next ==
  \E c \in Clients :
    Ask(c) \/ Refuse(c) \/ Serve(c) \/ Reply(c) \/ Fail(c) \/ BreakOff(c)

Spec == Init /\ [][Next]_vars
====
