----------------------------- MODULE EthFrames -----------------------------
(***************************************************************************)
(* The frame buffers of the EtherCAT master (SOEM, nicdrv.c), shared by    *)
(* the threads that talk to the bus: the real-time loop, which sends the   *)
(* process data and receives it (ec_send, ec_receive), and in a target the *)
(* thread that reads and writes parameters of the slaves with the blocking *)
(* primitives (ec_FPRD and its like under ec_SDOread and ec_SDOwrite).     *)
(*                                                                         *)
(* A target's loop sends once for each time it receives.  The scope's has  *)
(* the bus to itself and may send several times, as the DACs and the       *)
(* measurement have downsampling factors of their own: each ec_send        *)
(* forgets the index of the one before, which is never released.           *)
(*                                                                         *)
(* A thread takes an index, sends the frame of that index and polls the    *)
(* one socket: a frame of another index is put in the buffer of that index *)
(* for whoever asked for it.  The bus returns frames in the order they     *)
(* were sent, or loses them.  The time-outs of ec_waitinframe and          *)
(* ec_srconfirm may expire at any poll.                                    *)
(*                                                                         *)
(* One network card (ec_init; the program never calls ec_init_redundant)   *)
(* and process data of one frame.  The working counter is left out.        *)
(***************************************************************************)
EXTENDS Naturals, Sequences, FiniteSetsExt, SequencesExt

CONSTANTS
  MaxBuf,       \* EC_MAXBUF
  Uses,         \* programs: [threads, ahead, requests], the frames that the loop may send
                \* before the one it receives, and the bound of TLC on the requests
                \* of each thread
  MaxTimeouts,  \* waits that end without the frame
  MaxLife       \* indices handed out while a target's frame is on its way, or while a
                \* thread releases an index

Threads == {"loop", "command"}
Indices == 0..(MaxBuf - 1)

ASSUME FramesAssumption ==
  /\ MaxBuf \in Nat \ {0} /\ MaxTimeouts \in Nat /\ MaxLife \in Nat
  /\ Uses \subseteq [threads: SUBSET Threads, ahead: Nat, requests: Nat]

\* A request is a thread and a number, or none yet (number 0).
NoRequest == [thread |-> "loop", number |-> 0]

VARIABLES
  efUse,       \* the program
  efStat,      \* ec_rxbufstat
  efRx,        \* ec_rxbuf: the request whose answer is in the buffer
  efLast,      \* ec_lastidx
  efWire,      \* frames on the bus and in the socket: [idx, request]
  efPc,        \* "idle", "ready", "sent", "out" (sent, and ec_receive not yet called),
               \* "wait", "late" (nothing came, and released once) or "got", for each
               \* thread
  efIdx,       \* the index each thread has taken (idx; ec_idxstack for the loop)
  efNumber,    \* requests made by each thread
  efAhead,     \* frames the loop has sent that it will not receive
  efTimeouts,  \* waits that ended without the frame
  efAnswers    \* history: [asked, answered] of the requests that were answered

efVars == << efUse, efStat, efRx, efLast, efWire, efPc, efIdx, efNumber, efAhead,
             efTimeouts, efAnswers >>

EfInit ==
  /\ efUse \in Uses
  /\ efStat = [i \in Indices |-> "EMPTY"] /\ efRx = [i \in Indices |-> NoRequest]
  /\ efLast = 0 /\ efWire = << >>
  /\ efPc = [t \in Threads |-> "idle"] /\ efIdx = [t \in Threads |-> 0]
  /\ efNumber = [t \in Threads |-> 0] /\ efAhead = 0 /\ efTimeouts = 0 /\ efAnswers = {}

\* The request a thread is waiting for: what it put in ec_txbuf[idx].
Asked(t) == [thread |-> t, number |-> efNumber[t]]

\* Mutants of NextIndex and Allocate.
NextIndexLowest(stat, last) ==
  LET free == {i \in Indices : stat[i] = "EMPTY"}
  IN  IF free = {} THEN (last + 1) % MaxBuf ELSE Min(free)
AllocateNot(stat, i) == stat

\* ec_getindex's search: the first free index after the last one handed out;
\* with none free the search comes round to where it began.
NextIndex(stat, last) ==
  LET free == {k \in 1..MaxBuf : stat[(last + k) % MaxBuf] = "EMPTY"}
  IN  (last + (IF free = {} THEN 1 ELSE Min(free))) % MaxBuf

Allocate(stat, i) == [stat EXCEPT ![i] = "ALLOC"]

\* How far the search has come since index i was handed out.
Age(i) == (efLast + MaxBuf - i) % MaxBuf

\* Frames do not stay away while the search goes round, where two threads take
\* indices, nor does a thread that releases an index.
Recent ==
  /\ efUse.ahead = 0 => \A p \in 1..Len(efWire) : Age(efWire[p].idx) < MaxLife
  /\ \A t \in Threads : efPc[t] = "late" => Age(efIdx[t]) < MaxLife

\* ec_getindex, under its mutex, and ec_setupdatagram.
TakeIndex(t) ==
  /\ t \in efUse.threads /\ efNumber[t] < efUse.requests /\ Recent
  /\ LET i == NextIndex(efStat, efLast)
     IN  /\ efStat' = Allocate(efStat, i)
         /\ efLast' = i
         /\ efIdx' = [efIdx EXCEPT ![t] = i]
  /\ efNumber' = [efNumber EXCEPT ![t] = @ + 1]
  /\ efPc' = [efPc EXCEPT ![t] = "ready"]
  /\ UNCHANGED << efUse, efRx, efWire, efTimeouts, efAnswers >>

EfTake(t) ==
  /\ efPc[t] = "idle"
  /\ TakeIndex(t)
  /\ UNCHANGED efAhead

\* ec_send again, before ec_receive: the stack of indices is cleared, and the buffer
\* of the last frame stays as it is.
EfTakeAgain ==
  /\ efPc["loop"] = "out" /\ efAhead < efUse.ahead
  /\ TakeIndex("loop")
  /\ efAhead' = efAhead + 1

\* ec_outframe: send, and only then the mark.
EfSend(t) ==
  /\ efPc[t] = "ready"
  /\ efWire' = Append(efWire, [idx |-> efIdx[t], request |-> Asked(t)])
  /\ efPc' = [efPc EXCEPT ![t] = "sent"]
  /\ UNCHANGED << efUse, efStat, efRx, efLast, efIdx, efNumber, efAhead, efTimeouts,
                  efAnswers >>

EfMark(t) ==
  /\ efPc[t] = "sent"
  /\ efStat' = [efStat EXCEPT ![efIdx[t]] = "TX"]
  /\ efPc' = [efPc EXCEPT ![t] = IF t = "loop" THEN "out" ELSE "wait"]
  /\ UNCHANGED << efUse, efRx, efLast, efWire, efIdx, efNumber, efAhead, efTimeouts,
                  efAnswers >>

\* ec_receive, for the last frame the loop sent.
EfEnter ==
  /\ efPc["loop"] = "out"
  /\ efPc' = [efPc EXCEPT !["loop"] = "wait"]
  /\ efAhead' = 0
  /\ UNCHANGED << efUse, efStat, efRx, efLast, efWire, efIdx, efNumber, efTimeouts,
                  efAnswers >>

\* ec_inframe: the frame was received by the other thread ...
EfFind(t) ==
  /\ efPc[t] = "wait" /\ efStat[efIdx[t]] = "RCVD"
  /\ efStat' = [efStat EXCEPT ![efIdx[t]] = "COMPLETE"]
  /\ efPc' = [efPc EXCEPT ![t] = "got"]
  /\ UNCHANGED << efUse, efRx, efLast, efWire, efIdx, efNumber, efAhead, efTimeouts,
                  efAnswers >>

\* ... or is taken from the socket, under the mutex.
EfReceive(t) ==
  /\ efPc[t] = "wait" /\ efStat[efIdx[t]] # "RCVD" /\ efWire # << >>
  /\ efWire' = Tail(efWire)
  /\ LET f == Head(efWire)
         own == f.idx = efIdx[t]
     IN  /\ efRx' = [efRx EXCEPT ![f.idx] = f.request]
         /\ efStat' = [efStat EXCEPT ![f.idx] = IF own THEN "COMPLETE" ELSE "RCVD"]
         /\ efPc' = [efPc EXCEPT ![t] = IF own THEN "got" ELSE "wait"]
  /\ UNCHANGED << efUse, efLast, efIdx, efNumber, efAhead, efTimeouts, efAnswers >>

\* The data is copied and the index released with ec_setbufstat.
EfRelease(t) ==
  /\ efPc[t] = "got"
  /\ efAnswers' = efAnswers \cup {[asked |-> Asked(t), answered |-> efRx[efIdx[t]]]}
  /\ efStat' = [efStat EXCEPT ![efIdx[t]] = "EMPTY"]
  /\ efPc' = [efPc EXCEPT ![t] = "idle"]
  /\ UNCHANGED << efUse, efRx, efLast, efWire, efIdx, efNumber, efAhead, efTimeouts >>

\* ec_srconfirm sends the frame again when EC_TIMEOUTRET has passed ...
EfRetry ==
  /\ efPc["command"] = "wait" /\ efTimeouts < MaxTimeouts
  /\ efPc' = [efPc EXCEPT !["command"] = "ready"]
  /\ efTimeouts' = efTimeouts + 1
  /\ UNCHANGED << efUse, efStat, efRx, efLast, efWire, efIdx, efNumber, efAhead,
                  efAnswers >>

\* ... and it and ec_waitinframe give up when the whole time has, and release the
\* index, ...
EfGiveUp(t) ==
  /\ efPc[t] = "wait" /\ efTimeouts < MaxTimeouts
  /\ efStat' = [efStat EXCEPT ![efIdx[t]] = "EMPTY"]
  /\ efPc' = [efPc EXCEPT ![t] = "late"]
  /\ efTimeouts' = efTimeouts + 1
  /\ UNCHANGED << efUse, efRx, efLast, efWire, efIdx, efNumber, efAhead, efAnswers >>

\* ... which ec_receive_processdata and ec_FPRD do once more.
EfReleaseAgain(t) ==
  /\ efPc[t] = "late"
  /\ efStat' = [efStat EXCEPT ![efIdx[t]] = "EMPTY"]
  /\ efPc' = [efPc EXCEPT ![t] = "idle"]
  /\ UNCHANGED << efUse, efRx, efLast, efWire, efIdx, efNumber, efAhead, efTimeouts,
                  efAnswers >>

\* The bus loses a frame.
EfLose ==
  /\ \E i \in 1..Len(efWire) : efWire' = RemoveAt(efWire, i)
  /\ UNCHANGED << efUse, efStat, efRx, efLast, efPc, efIdx, efNumber, efAhead, efTimeouts,
                  efAnswers >>

EfNext ==
  \/ \E t \in Threads : \/ EfTake(t) \/ EfSend(t) \/ EfMark(t) \/ EfFind(t)
                        \/ EfReceive(t) \/ EfRelease(t) \/ EfGiveUp(t)
                        \/ EfReleaseAgain(t)
  \/ EfTakeAgain
  \/ EfEnter
  \/ EfRetry
  \/ EfLose

EfSpec == EfInit /\ [][EfNext]_efVars

-----------------------------------------------------------------------------

\* The loop sends once for each time it receives; or at most twice, alone on the bus,
\* and every frame has come in time so far.  A loop that sends more often may come round
\* to the index of a frame that it has not read yet, once the buffers that it forgets
\* have used up the free ones.
Orderly ==
  efUse.ahead = 0 \/ (efUse.ahead = 1 /\ efUse.threads = {"loop"} /\ efTimeouts = 0)

(***************************************************************************)
(* An answer is the answer to the request it is returned for: an answer    *)
(* that comes after its time-out is not taken for that of a later request  *)
(* with the same index (ec_inframe goes by the index alone), whichever     *)
(* thread receives it, as long as fewer waits time out than there are      *)
(* buffers to spare; nor is that of a frame that ec_send has forgotten,    *)
(* as long as it forgets no more than one before each ec_receive.          *)
(***************************************************************************)
AnswerIsOwn == Orderly => \A a \in efAnswers : a.answered = a.asked

(***************************************************************************)
(* The threads never hold one index at the same time.  Late answers mark   *)
(* free buffers as received for good, ec_getindex with no free buffer      *)
(* hands out one that may be in use, and a thread whose wait has timed out *)
(* releases its index twice, the second time when another may have it.     *)
(***************************************************************************)
IndexOwned ==
  Orderly /\ (\A t \in Threads : efPc[t] # "idle") => efIdx["loop"] # efIdx["command"]
=============================================================================
