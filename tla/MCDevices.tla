----------------------------- MODULE MCDevices -----------------------------
(***************************************************************************)
(* Small instances of the components around the scope and the target, for  *)
(* TLC: one run that chooses a component and lets it take its steps while  *)
(* the others rest where they begin.  They share no state.                 *)
(***************************************************************************)
EXTENDS Encoder, EcPorts, RtTimer, FunGen, FirFilter, FrameStream, EthFrames,
        IoMap, EcMailbox

\* Buses with a DAC before an E-box, two E-boxes and a slave that ec.h does not know,
\* and two slaves of a kind; some pairs fit one after the other and some do not.
MCBuses == { << "EL4132", "Ebox" >>, << "Ebox", "unknown", "Ebox" >>,
             << "EL3102", "EL4132", "EL2004", "EL3102" >> }

Terminal(outBits, inBits) == [out |-> outBits, in |-> inBits]

\* Two EL2004; EL2004s and an EL1014 behind a coupler; inputs of 13 bits; outputs
\* across the end of a byte.
MCIoBuses ==
  { << Terminal(4, 0), Terminal(4, 0) >>,
    << Terminal(0, 0), Terminal(4, 0), Terminal(0, 4), Terminal(0, 4) >>,
    << Terminal(16, 16), Terminal(0, 8), Terminal(0, 5) >>,
    << Terminal(5, 0), Terminal(5, 0), Terminal(8, 0) >> }

\* A target, and the scope whose DACs are written twice as often as it measures.
MCUses ==
  { [threads |-> {"loop", "command"}, ahead |-> 0, requests |-> 3],
    [threads |-> {"loop"}, ahead |-> 1, requests |-> 10] }

\* Two objects of an index, and one that is read in three parts.
MCObjects ==
  { [index |-> 1, sub |-> 1, parts |-> 1], [index |-> 1, sub |-> 2, parts |-> 1],
    [index |-> 2, sub |-> 0, parts |-> 3] }

VARIABLE part   \* the component that takes steps

Parts == {"el5101", "ebox", "ports", "timer", "fungen", "fir", "stream", "frames",
          "image", "mailbox"}

Init ==
  /\ part \in Parts
  /\ ElInit /\ EbInit /\ EpInit /\ FgInit /\ FsInit /\ EfInit /\ SdInit
  /\ part # "frames" => efUse = CHOOSE u \in Uses : TRUE
  /\ IF part = "timer" THEN TmInit ELSE TmBegin(0)
  /\ IF part = "fir" THEN FirInit ELSE FirBegin(1)
  /\ IF part = "image" THEN IoInit ELSE IoBegin(<< >>)

StreamStep ==
  /\ part = "stream" /\ FsNext
  /\ UNCHANGED << part, elVars, ebVars, epVars, tmVars, fgVars, firVars, efVars,
                  ioVars, sdVars >>

CallStep ==
  /\ part = "mailbox" /\ MasterStep
  /\ UNCHANGED << part, elVars, ebVars, epVars, tmVars, fgVars, firVars, fsVars,
                  efVars, ioVars >>

ServeStep ==
  /\ part = "mailbox" /\ SlaveStep
  /\ UNCHANGED << part, elVars, ebVars, epVars, tmVars, fgVars, firVars, fsVars,
                  efVars, ioVars >>

Next ==
  \/ /\ part = "el5101" /\ ElNext
     /\ UNCHANGED << part, ebVars, epVars, tmVars, fgVars, firVars, fsVars,
                     efVars, ioVars, sdVars >>
  \/ /\ part = "ebox" /\ EbNext
     /\ UNCHANGED << part, elVars, epVars, tmVars, fgVars, firVars, fsVars,
                     efVars, ioVars, sdVars >>
  \/ /\ part = "ports" /\ EpNext
     /\ UNCHANGED << part, elVars, ebVars, tmVars, fgVars, firVars, fsVars,
                     efVars, ioVars, sdVars >>
  \/ /\ part = "timer" /\ TmNext
     /\ UNCHANGED << part, elVars, ebVars, epVars, fgVars, firVars, fsVars,
                     efVars, ioVars, sdVars >>
  \/ /\ part = "fungen" /\ FgNext
     /\ UNCHANGED << part, elVars, ebVars, epVars, tmVars, firVars, fsVars,
                     efVars, ioVars, sdVars >>
  \/ /\ part = "fir" /\ FirNext
     /\ UNCHANGED << part, elVars, ebVars, epVars, tmVars, fgVars, fsVars,
                     efVars, ioVars, sdVars >>
  \/ StreamStep
  \/ /\ part = "frames" /\ EfNext
     /\ UNCHANGED << part, elVars, ebVars, epVars, tmVars, fgVars, firVars,
                     fsVars, ioVars, sdVars >>
  \/ /\ part = "image" /\ IoNext
     /\ UNCHANGED << part, elVars, ebVars, epVars, tmVars, fgVars, firVars,
                     fsVars, efVars, sdVars >>
  \/ /\ part = "mailbox" /\ \E call \in Calls : SdBegin(call)
     /\ UNCHANGED << part, elVars, ebVars, epVars, tmVars, fgVars, firVars,
                     fsVars, efVars, ioVars >>
  \/ CallStep
  \/ ServeStep

vars == << part, elVars, ebVars, epVars, tmVars, fgVars, firVars, fsVars, efVars, ioVars,
           sdVars >>

\* Both ends of a connection go on while they can, and so do a mailbox's master and slave.
Spec ==
  /\ Init /\ [][Next]_vars
  /\ WF_fsVars(StreamStep) /\ WF_sdVars(CallStep) /\ WF_sdVars(ServeStep)
============================================================================
