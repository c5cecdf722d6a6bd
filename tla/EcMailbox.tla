----------------------------- MODULE EcMailbox -----------------------------
(***************************************************************************)
(* The mailboxes of a slave and the SDO calls of the EtherCAT master       *)
(* (SOEM) over them: ec_SDOread and ec_SDOwrite, with which                *)
(* ec_Ebox_get_parameters, ec_Ebox_set_parameters and ec_config read and   *)
(* write the objects of the slaves.  An object that does not fit into the  *)
(* mailbox is read in parts, each asked for by a request of its own.       *)
(*                                                                         *)
(* A slave takes a request out of its IN mailbox and puts the answer into  *)
(* its OUT mailbox when it is empty, sooner or later than the master       *)
(* waits.  Frames may get lost.  The counter of the mailbox header is left *)
(* out: nothing compares it.  So are emergencies, writes of more than a    *)
(* mailbox, and buffers that are too small.                                *)
(***************************************************************************)
EXTENDS Naturals, Sequences

CONSTANTS
  Objects,   \* [index, sub, parts] of the objects of the slave
  MaxCalls,  \* bounds of TLC: calls,
  MaxLate,   \* waits that end without an answer,
  MaxLost    \* and frames that get lost

ASSUME MailboxAssumption ==
  /\ Objects \subseteq [index : Nat, sub : Nat, parts : Nat \ {0}]
  /\ MaxCalls \in Nat /\ MaxLate \in Nat /\ MaxLost \in Nat

Calls == [write : BOOLEAN, object : Objects]

NoUpload == << >>

VARIABLES
  sdPc,       \* "idle", "empty", "send", "wait", "take" or "repeat"
  sdCall,     \* the call that is made or was made last
  sdSegment,  \* FALSE for its first request, TRUE for those of further parts
  sdToggle,   \* toggle
  sdParts,    \* parameter buffer: the parts copied so far
  sdResult,   \* "none", "ok" (wkc > 0) or "failed", of the last call
  sdIn,       \* IN mailbox (SM0): at most one request
  sdOut,      \* OUT mailbox (SM1): at most one answer
  sdReplies,  \* slave: answers that wait for the OUT mailbox
  sdLast,     \* slave: the answer that was taken from it last
  sdUpload,   \* slave: << object, next part, toggle >> of a read in parts
  sdStored,   \* slave: objects written
  sdFresh,    \* history: no answer was on its way when the call was made
  sdGap,      \* history: the call gave up an answer that was lost
  sdCalls, sdLate, sdLost   \* bounded counters

sdMaster == << sdPc, sdCall, sdSegment, sdToggle, sdParts, sdResult >>
sdSlave == << sdUpload, sdStored >>
sdBoxes == << sdIn, sdOut, sdReplies, sdLast >>
sdVars == << sdMaster, sdSlave, sdBoxes, sdFresh, sdGap, sdCalls, sdLate, sdLost >>

SdInit ==
  /\ sdPc = "idle" /\ sdCall = [write |-> FALSE, object |-> CHOOSE o \in Objects : TRUE]
  /\ sdSegment = FALSE /\ sdToggle = 0 /\ sdParts = << >> /\ sdResult = "none"
  /\ sdIn = << >> /\ sdOut = << >> /\ sdReplies = << >> /\ sdLast = << >>
  /\ sdUpload = NoUpload /\ sdStored = {}
  /\ sdFresh = TRUE /\ sdGap = FALSE
  /\ sdCalls = 0 /\ sdLate = 0 /\ sdLost = 0

Late == sdLate < MaxLate /\ sdLate' = sdLate + 1
Lost == sdLost < MaxLost /\ sdLost' = sdLost + 1

----------------------------------------------------------------------------
(* The master.                                                             *)

SdBegin(call) ==
  /\ sdPc = "idle" /\ sdCalls < MaxCalls
  /\ sdPc' = "empty" /\ sdCall' = call /\ sdCalls' = sdCalls + 1
  /\ sdSegment' = FALSE /\ sdToggle' = 0 /\ sdParts' = << >> /\ sdResult' = "none"
  /\ sdGap' = FALSE
  /\ UNCHANGED << sdSlave, sdBoxes, sdFresh, sdLate, sdLost >>

\* Mutant: what an earlier call left in the OUT mailbox stays there.
SdEmptyNot ==
  /\ sdPc = "empty"
  /\ sdPc' = "send"
  /\ sdFresh' = (sdIn = << >> /\ sdReplies = << >>)
  /\ UNCHANGED << sdCall, sdSegment, sdToggle, sdParts, sdResult, sdSlave, sdBoxes,
                  sdGap, sdCalls, sdLate, sdLost >>

\* ec_mbxreceive with a time-out of 0 takes what is in the OUT mailbox at this moment.
SdEmpty ==
  /\ sdPc = "empty"
  /\ sdPc' = "send"
  /\ sdOut' = << >>
  /\ sdLast' = IF sdOut = << >> THEN sdLast ELSE sdOut
  /\ sdFresh' = (sdIn = << >> /\ sdReplies = << >>)
  /\ UNCHANGED << sdCall, sdSegment, sdToggle, sdParts, sdResult, sdSlave, sdIn,
                  sdReplies, sdGap, sdCalls, sdLate, sdLost >>

\* The answer is lost on its way, and the slave is asked to put it there again.
SdEmptyLost ==
  /\ sdPc = "empty" /\ sdOut # << >> /\ Lost
  /\ sdPc' = "send"
  /\ sdFresh' = FALSE
  /\ UNCHANGED << sdCall, sdSegment, sdToggle, sdParts, sdResult, sdSlave, sdBoxes,
                  sdGap, sdCalls, sdLate >>

Request ==
  IF sdSegment THEN [kind |-> "segment", toggle |-> sdToggle]
  ELSE [kind |-> IF sdCall.write THEN "down" ELSE "up", object |-> sdCall.object]

\* The request is in the IN mailbox (ec_mbxsend).
SdSend ==
  /\ sdPc = "send" /\ sdIn = << >>
  /\ sdIn' = << Request >>
  /\ sdPc' = "wait"
  /\ UNCHANGED << sdCall, sdSegment, sdToggle, sdParts, sdResult, sdSlave, sdOut,
                  sdReplies, sdLast, sdFresh, sdGap, sdCalls, sdLate, sdLost >>

NextToggle(toggle) == 1 - toggle

\* Without an answer the first request ends the call; one for a part is followed by the
\* next, with the other toggle bit.
NoAnswer ==
  /\ sdPc' = IF sdSegment THEN "send" ELSE "idle"
  /\ sdResult' = IF sdSegment THEN sdResult ELSE "failed"
  /\ sdToggle' = IF sdSegment THEN NextToggle(sdToggle) ELSE sdToggle
  /\ UNCHANGED << sdCall, sdSegment, sdParts >>

\* The IN mailbox stays full as long as ec_mbxempty waits ...
SdSendLate ==
  /\ sdPc = "send" /\ sdIn # << >> /\ Late
  /\ NoAnswer
  /\ UNCHANGED << sdSlave, sdBoxes, sdFresh, sdGap, sdCalls, sdLost >>

\* ... or the frame is lost before it comes to the slave or on its way back.
SdSendLost ==
  /\ sdPc = "send" /\ sdIn = << >> /\ Lost
  /\ sdIn' \in {sdIn, << Request >>}
  /\ NoAnswer
  /\ UNCHANGED << sdSlave, sdOut, sdReplies, sdLast, sdFresh, sdGap, sdCalls, sdLate >>

\* ec_mbxreceive: something is in the OUT mailbox, or the time is over.
SdAvailable ==
  /\ sdPc = "wait" /\ sdOut # << >>
  /\ sdPc' = "take"
  /\ UNCHANGED << sdCall, sdSegment, sdToggle, sdParts, sdResult, sdSlave, sdBoxes,
                  sdFresh, sdGap, sdCalls, sdLate, sdLost >>

SdWaitLate ==
  /\ sdPc = "wait" /\ sdOut = << >> /\ Late
  /\ NoAnswer
  /\ UNCHANGED << sdSlave, sdBoxes, sdFresh, sdGap, sdCalls, sdLost >>

Finish(result, parts) ==
  /\ sdPc' = "idle" /\ sdResult' = result /\ sdParts' = parts
  /\ UNCHANGED << sdCall, sdSegment, sdToggle >>

AskOn(parts, toggle) ==
  /\ sdPc' = "send" /\ sdSegment' = TRUE /\ sdToggle' = toggle /\ sdParts' = parts
  /\ UNCHANGED << sdCall, sdResult >>

\* The answer to the first request.  A read looks at its index, a write at the subindex
\* as well; a read takes the answer to a write for one without data.
FirstAnswer(m) ==
  LET asked == sdCall.object
      mine == /\ m.kind \in {"first", "down"}
              /\ m.object.index = asked.index
              /\ sdCall.write => m.object.sub = asked.sub
      parts == IF m.kind = "first" THEN << << m.object, 1 >> >> ELSE << >>
  IN IF ~mine THEN Finish("failed", << >>)
     ELSE IF sdCall.write THEN Finish("ok", << >>)
     ELSE IF m.kind = "first" /\ m.object.parts > 1 THEN AskOn(parts, 0)
     ELSE Finish("ok", parts)

\* Mutant: a read in parts goes on after an answer that is no part.
PartAnswerInsists(m) ==
  IF m.kind # "part" THEN AskOn(sdParts, NextToggle(sdToggle))
  ELSE LET parts == Append(sdParts, << m.object, m.part >>)
       IN IF m.part = m.object.parts THEN Finish("ok", parts)
          ELSE AskOn(parts, NextToggle(sdToggle))

\* The answer to a request for a part.
PartAnswer(m) ==
  IF m.kind # "part" THEN Finish("failed", sdParts)
  ELSE LET parts == Append(sdParts, << m.object, m.part >>)
       IN IF m.part = m.object.parts THEN Finish("ok", parts)
          ELSE AskOn(parts, NextToggle(sdToggle))

SdTake ==
  /\ sdPc = "take" /\ sdOut # << >>
  /\ IF sdSegment THEN PartAnswer(sdOut[1]) ELSE FirstAnswer(sdOut[1])
  /\ sdOut' = << >> /\ sdLast' = sdOut
  /\ UNCHANGED << sdSlave, sdIn, sdReplies, sdFresh, sdGap, sdCalls, sdLate, sdLost >>

\* The frame with the answer is lost: the master asks for it again (repeat request) ...
SdTakeLost ==
  /\ sdPc = "take" /\ sdOut # << >> /\ Lost
  /\ sdPc' = "repeat"
  /\ sdOut' = << >> /\ sdLast' = sdOut
  /\ UNCHANGED << sdCall, sdSegment, sdToggle, sdParts, sdResult, sdSlave, sdIn,
                  sdReplies, sdFresh, sdGap, sdCalls, sdLate >>

\* ... the slave acknowledges and puts it there again ...
SdRepeat ==
  /\ sdPc = "repeat"
  /\ sdPc' = "take"
  /\ sdOut' = sdLast /\ sdReplies' = sdOut \o sdReplies
  /\ UNCHANGED << sdCall, sdSegment, sdToggle, sdParts, sdResult, sdSlave, sdIn,
                  sdLast, sdFresh, sdGap, sdCalls, sdLate, sdLost >>

\* ... or does not do so in time, and the answer is given up; it comes later or never.
SdRepeatLate ==
  /\ sdPc = "repeat" /\ Late
  /\ NoAnswer
  /\ sdReplies' \in {sdReplies, sdLast \o sdReplies}
  /\ sdGap' = TRUE
  /\ UNCHANGED << sdSlave, sdIn, sdOut, sdLast, sdFresh, sdCalls, sdLost >>

MasterStep ==
  \/ SdEmpty \/ SdEmptyLost \/ SdSend \/ SdSendLate \/ SdSendLost \/ SdAvailable
  \/ SdWaitLate \/ SdTake \/ SdTakeLost \/ SdRepeat \/ SdRepeatLate

----------------------------------------------------------------------------
(* The slave.                                                              *)

Answer(m) == sdReplies' = Append(sdReplies, m)

\* A part is only sent for the toggle bit that is due.
AnswerPart(toggle) ==
  IF sdUpload # NoUpload /\ sdUpload[3] = toggle
  THEN LET o == sdUpload[1]
           k == sdUpload[2]
       IN /\ Answer([kind |-> "part", object |-> o, part |-> k])
          /\ sdUpload' = IF k = o.parts THEN NoUpload ELSE << o, k + 1, 1 - toggle >>
  ELSE Answer([kind |-> "abort"]) /\ sdUpload' = NoUpload

SlaveServe ==
  /\ sdIn # << >>
  /\ sdIn' = << >>
  /\ LET r == sdIn[1]
     IN \/ /\ r.kind = "up"
           /\ Answer([kind |-> "first", object |-> r.object])
           /\ sdUpload' = IF r.object.parts > 1 THEN << r.object, 2, 0 >> ELSE NoUpload
           /\ UNCHANGED sdStored
        \/ /\ r.kind = "down"
           /\ Answer([kind |-> "down", object |-> r.object])
           /\ sdStored' = sdStored \cup {r.object}
           /\ UNCHANGED sdUpload
        \/ r.kind = "segment" /\ AnswerPart(r.toggle) /\ UNCHANGED sdStored
  /\ UNCHANGED << sdMaster, sdOut, sdLast, sdFresh, sdGap, sdCalls, sdLate, sdLost >>

SlaveAnswer ==
  /\ sdOut = << >> /\ sdReplies # << >>
  /\ sdOut' = << Head(sdReplies) >> /\ sdReplies' = Tail(sdReplies)
  /\ UNCHANGED << sdMaster, sdSlave, sdIn, sdLast, sdFresh, sdGap, sdCalls, sdLate,
                  sdLost >>

SlaveStep == SlaveServe \/ SlaveAnswer

SdNext ==
  \/ \E call \in Calls : SdBegin(call)
  \/ MasterStep
  \/ SlaveStep

SdSpec == SdInit /\ [][SdNext]_sdVars /\ WF_sdVars(MasterStep) /\ WF_sdVars(SlaveStep)

----------------------------------------------------------------------------
(***************************************************************************)
(* A read that succeeds returns all parts of its object, each once and in  *)
(* order, and what a write that succeeds wrote is in the slave, whichever  *)
(* answers come late or are lost: nothing but the toggle bit numbers the   *)
(* parts, and the master does not look at it (ec_SDOread).  This is if no  *)
(* answer to an earlier call was on its way when the call was made, and    *)
(* none was given up while it was repeated.                                *)
(***************************************************************************)
CallExact ==
  sdResult = "ok" /\ sdFresh /\ ~sdGap =>
    IF sdCall.write THEN sdCall.object \in sdStored
    ELSE sdParts = [k \in 1 .. sdCall.object.parts |-> << sdCall.object, k >>]

(***************************************************************************)
(* Every call ends, as long as the slave answers requests (the loop of     *)
(* ec_SDOread over the parts, which has no end of its own).                *)
(***************************************************************************)
CallsEnd == (sdPc # "idle") ~> (sdPc = "idle")
============================================================================
