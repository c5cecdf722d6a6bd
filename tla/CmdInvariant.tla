---------------------------- MODULE CmdInvariant ----------------------------
(***************************************************************************)
(* The inductive invariant of the command server.                          *)
(***************************************************************************)
EXTENDS CmdServer

\* Every command that clients ask for is executed by someone.
AllExecuted == IsSimulink => "stop_acq" \notin Commands

\* Where the server is when it has a call in hand, and until it hangs up.
Serving == {"read", "dispatch", "wait", "write", "write_data"}

Threads ==
  /\ main = "exited" => pc = "exited"
  /\ listening <=> pc \notin {"open", "exited"}
  /\ pc \in {"open", "exited"} => backlog = << >>
  /\ pc \in Serving \cup {"close"} => conn # None /\ conn[2] <= calls[Caller]

\* The calls in the backlog are under way, untouched, and none is there twice
\* or being served as well.
Queue ==
  /\ \A i \in 1 .. Len(backlog) :
       /\ client[backlog[i]] # "quiet" /\ link[backlog[i]] = "open"
       /\ executed[backlog[i]] = 0 /\ inbox[backlog[i]] = << >>
       /\ pc \in Serving \cup {"close"} => conn # Call(backlog[i])
  /\ \A i, j \in 1 .. Len(backlog) : backlog[i] = backlog[j] => i = j

\* The call in hand is its client's current one, and this is how far it is.
Current ==
  pc \in Serving =>
    /\ conn = Call(Caller) /\ client[Caller] # "quiet"
    /\ link[Caller] = "open" \/ (link[Caller] = "reset" /\ client[Caller] = "gone")
    /\ pc \in {"read", "dispatch"} => executed[Caller] = 0
    /\ pc = "wait" => executed[Caller] = 1 - delayed
    /\ pc \in {"write", "write_data"} => executed[Caller] = 1
    /\ pc \in {"wait", "write", "write_data"} /\ delayed = 0 => retval = conn
    /\ pc # "write_data" => inbox[Caller] = << >>
    /\ pc = "write_data" => asks[Caller] = "get_data" /\ Len(inbox[Caller]) <= 1

\* A request is received before its handler runs.
Received ==
  pc \in (Serving \ {"read"}) \cup {"close"} /\ conn = Call(Caller) =>
    ~wire[Caller] /\ client[Caller] # "connected"

Handshake ==
  delayed = 1 => /\ pc = "wait" \/ (pc = "exited" /\ main = "exited")
                 /\ executed[Caller] = 0

\* What a client has been sent is the result of its current call.
Replies ==
  \A c \in Clients :
    /\ client[c] = "connected" => ~wire[c] /\ inbox[c] = << >>
    /\ pc # "exited" /\ (client[c] = "quiet" \/ link[c] = "shut") => ~wire[c]
    /\ client[c] # "quiet" /\ inbox[c] # << >> =>
         ~wire[c] /\ executed[c] = 1 /\ Head(inbox[c]) = Call(c)

ServerInv ==
  /\ TypeOK /\ Threads /\ Queue /\ Current /\ Received /\ Handshake /\ Replies
====
