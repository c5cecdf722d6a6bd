---------------------------- MODULE FrameStream ----------------------------
(***************************************************************************)
(* The bytes of one exchange between tde_gate and the command server:      *)
(* TCP delivers them in order but in pieces of any size, and both sides    *)
(* read in a loop until they have a whole message.  The request and the    *)
(* header of the reply are one structure, tde_shm; the data that           *)
(* CALL_TDE_GET_DATA returns follow in a second write.                     *)
(*                                                                         *)
(* A piece is a few bytes.  The connections, their order and who may hang  *)
(* up are the matter of CmdServer.                                         *)
(***************************************************************************)
EXTENDS Naturals, Sequences

CONSTANTS
  FsHead,   \* pieces of a tde_shm
  FsData    \* pieces of the data

ASSUME StreamAssumption == FsHead \in Nat \ {0} /\ FsData \in Nat \ {0}

\* The pieces of a message of n pieces.
Message(kind, n) == [i \in 1 .. n |-> << kind, i >>]

VARIABLES
  fsCall,    \* "plain" or "data": whether the command is CALL_TDE_GET_DATA
  fsClient,  \* what the client does: "idle", "read head", "read data", "close",
             \* "done" or "failed"
  fsServer,  \* what the server does: "accept", "read", "write", "write data", "close"
  fsUp,      \* the pieces on their way to the server
  fsDown,    \* the pieces on their way to the client
  fsShut,    \* TRUE once the server closed the connection
  fsGot,     \* pieces of the request that the server has
  fsShm,     \* what the client's first read wrote from pthe_shm on
  fsBuf      \* what its second read wrote from pdata on

fsVars == << fsCall, fsClient, fsServer, fsUp, fsDown, fsShut, fsGot, fsShm, fsBuf >>

FsInit ==
  /\ fsCall = "plain" /\ fsClient = "idle" /\ fsServer = "accept"
  /\ fsUp = << >> /\ fsDown = << >> /\ fsShut = FALSE
  /\ fsGot = 0 /\ fsShm = << >> /\ fsBuf = << >>

\* What one recv for at most len pieces may return.
Recv(stream, len) == {n \in 1 .. Len(stream) : n <= len}

\* The pieces it returns, and those it leaves.
Taken(stream, n) == SubSeq(stream, 1, n)
Dropped(stream, n) == SubSeq(stream, n + 1, Len(stream))

\* tde_gate_cmd_wait: incomm_client_open and incomm_client_write.
FsRequest(call) ==
  /\ fsClient \in {"idle", "done", "failed"} /\ fsServer = "accept"
  /\ fsCall' = call /\ fsClient' = "read head"
  /\ fsServer' = "read" /\ fsUp' = Message("request", FsHead)
  /\ fsDown' = << >> /\ fsShut' = FALSE /\ fsGot' = 0 /\ fsShm' = << >> /\ fsBuf' = << >>

\* incomm_server_read: each recv asks for the whole length again.
FsServerRead ==
  /\ fsServer = "read" /\ fsGot < FsHead
  /\ \E n \in Recv(fsUp, FsHead) :
       fsUp' = Dropped(fsUp, n) /\ fsGot' = fsGot + n
  /\ UNCHANGED << fsCall, fsClient, fsServer, fsDown, fsShut, fsShm, fsBuf >>

\* The command is done, and the reply written: incomm_server_write of copy_of_shm.
FsReply ==
  /\ fsServer = "read" /\ fsGot >= FsHead
  /\ fsDown' = fsDown \o Message("shm", FsHead)
  /\ fsServer' = IF fsCall = "data" THEN "write data" ELSE "close"
  /\ UNCHANGED << fsCall, fsClient, fsUp, fsShut, fsGot, fsShm, fsBuf >>

\* The second write, of CALL_TDE_GET_DATA.
FsReplyData ==
  /\ fsServer = "write data"
  /\ fsDown' = fsDown \o Message("data", FsData)
  /\ fsServer' = "close"
  /\ UNCHANGED << fsCall, fsClient, fsUp, fsShut, fsGot, fsShm, fsBuf >>

\* Mutant: the connection is left open.
FsCloseNot ==
  /\ fsServer = "close" /\ fsServer' = "accept"
  /\ UNCHANGED << fsCall, fsClient, fsUp, fsDown, fsShut, fsGot, fsShm, fsBuf >>

\* incomm_server_close2: the connection of the command.
FsClose ==
  /\ fsServer = "close" /\ fsServer' = "accept"
  /\ fsShut' = TRUE
  /\ UNCHANGED << fsCall, fsClient, fsUp, fsDown, fsGot, fsShm, fsBuf >>

\* Mutant: one recv is taken for the message.
EnoughAny(buffer, len) == Len(buffer) > 0

\* incomm_client_read: the loop ends once enough has come.
Enough(buffer, len) == Len(buffer) >= len

\* One recv of the first read.  Each asks for the whole length, however much has
\* come, and writes behind it.
FsReadHead ==
  /\ fsClient = "read head" /\ ~Enough(fsShm, FsHead)
  /\ \E n \in Recv(fsDown, FsHead) :
       /\ fsShm' = fsShm \o Taken(fsDown, n)
       /\ fsDown' = Dropped(fsDown, n)
  /\ UNCHANGED << fsCall, fsClient, fsServer, fsUp, fsShut, fsGot, fsBuf >>

FsHeadRead ==
  /\ fsClient = "read head" /\ Enough(fsShm, FsHead)
  /\ fsClient' = IF fsCall = "data" THEN "read data" ELSE "close"
  /\ UNCHANGED << fsCall, fsServer, fsUp, fsDown, fsShut, fsGot, fsShm, fsBuf >>

\* The second read, of the data.
FsReadData ==
  /\ fsClient = "read data" /\ ~Enough(fsBuf, FsData)
  /\ \E n \in Recv(fsDown, FsData) :
       /\ fsBuf' = fsBuf \o Taken(fsDown, n)
       /\ fsDown' = Dropped(fsDown, n)
  /\ UNCHANGED << fsCall, fsClient, fsServer, fsUp, fsShut, fsGot, fsShm >>

FsDataRead ==
  /\ fsClient = "read data" /\ Enough(fsBuf, FsData)
  /\ fsClient' = "close"
  /\ UNCHANGED << fsCall, fsServer, fsUp, fsDown, fsShut, fsGot, fsShm, fsBuf >>

\* A recv of nothing: the server has closed, and more was expected.
FsDisconnected ==
  /\ \/ fsClient = "read head" /\ ~Enough(fsShm, FsHead)
     \/ fsClient = "read data" /\ ~Enough(fsBuf, FsData)
  /\ fsShut /\ fsDown = << >>
  /\ fsClient' = "failed"
  /\ UNCHANGED << fsCall, fsServer, fsUp, fsDown, fsShut, fsGot, fsShm, fsBuf >>

\* incomm_client_close.
FsHangUp ==
  /\ fsClient = "close"
  /\ fsClient' = "done"
  /\ UNCHANGED << fsCall, fsServer, fsUp, fsDown, fsShut, fsGot, fsShm, fsBuf >>

FsNext ==
  \/ \E call \in {"plain", "data"} : FsRequest(call)
  \/ FsServerRead \/ FsReply \/ FsReplyData \/ FsClose
  \/ FsReadHead \/ FsHeadRead \/ FsReadData \/ FsDataRead \/ FsDisconnected
  \/ FsHangUp

FsSpec == FsInit /\ [][FsNext]_fsVars

----------------------------------------------------------------------------
\* An exchange that succeeds for the client gave it the reply, whole, in order and
\* in its place, in however many pieces it came (incomm_client_read); a read that
\* took pieces of the next message never passes for a success.
ReplyWhole ==
  fsClient = "done" =>
    /\ fsShm = Message("shm", FsHead)
    /\ fsBuf = IF fsCall = "data" THEN Message("data", FsData) ELSE << >>

\* Every exchange ends, also one whose second read misses what the first one took.
ExchangeEnds == fsClient = "read head" ~> fsClient \in {"done", "failed"}
=============================================================================
