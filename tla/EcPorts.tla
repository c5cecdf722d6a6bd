------------------------------ MODULE EcPorts ------------------------------
(***************************************************************************)
(* The port tables of the EtherCAT library: ec_start finds the slaves,     *)
(* numbers the channels of each type in the order of the bus, and keeps    *)
(* for each port the kind of slave, its link (its number among those of    *)
(* its kind) and its channel.  Reads and writes go by these tables.        *)
(*                                                                         *)
(* A slave is its place on the bus: the process image of slave p is what   *)
(* in_X_[link] and out_X_[link] point to.                                  *)
(***************************************************************************)
EXTENDS Integers, Sequences, FiniteSets

CONSTANTS
  Buses,      \* the sequences of slaves that ec_config may find
  MaxLinks,   \* MAX_NUMBER_OF_SLAVES
  MaxStarts,  \* bound of TLC: times ec_start finds slaves
  MaxPort,    \* bound of TLC: ports whose marks (clipped, enabled) change
  Volts       \* values read and written: "low", "high", and "over" the range

Types == {"adc", "dac", "enc", "din", "dout", "pwm"}

\* The kinds of slaves with an entry in ec.h; any other is "unknown".  The
\* E-boxes of both device ids are one kind.
Kinds == {"EK1100", "EL1008", "EL1018", "EL1014", "EL2004", "EL2008", "EL3102",
          "EL3104", "EL4132", "EL4038", "EL5101", "Ebox", "unknown"}

ASSUME PortsAssumption ==
  /\ Buses \subseteq Seq(Kinds) /\ MaxLinks \in Nat /\ MaxStarts \in Nat /\ MaxPort \in Nat

\* EL1008_NCHAN and the like: the channels of each type of a kind of slave.
NChan(ty, k) ==
  CASE ty = "din" -> (CASE k \in {"EL1008", "EL1018", "Ebox"} -> 8
                        [] k = "EL1014" -> 4 [] OTHER -> 0)
    [] ty = "dout" -> (CASE k \in {"EL2008", "Ebox"} -> 8
                         [] k = "EL2004" -> 4 [] OTHER -> 0)
    [] ty = "adc" -> (CASE k \in {"EL3102", "Ebox"} -> 2
                        [] k = "EL3104" -> 4 [] OTHER -> 0)
    [] ty = "dac" -> (CASE k \in {"EL4132", "Ebox"} -> 2
                        [] k = "EL4038" -> 8 [] OTHER -> 0)
    [] ty = "enc" -> (CASE k = "EL5101" -> 1 [] k = "Ebox" -> 2 [] OTHER -> 0)
    [] ty = "pwm" -> IF k = "Ebox" THEN 2 ELSE 0

VARIABLES
  epBus,      \* the slaves found: ec_slave[1..ec_slavecount].eep_id
  epState,    \* "closed", "failed" (ec_start returned an error), "op", or "overrun":
              \* ec_start wrote past an array, and what follows is undefined
  epStarts,   \* times slaves were found
  epCount,    \* n: ports of each type
  epNpar,     \* npar: E-box parameter structures allocated
  epLinks,    \* in_X_ and out_X_: the slaves of each kind, by link
  epTable,    \* ppadc, ppdac, ...: [dev, link, chan, enabled, clipped] of each port
  epPar,      \* ppebox: link |-> [slave, mode]
  epMode,     \* encoder_mode in the E-box at each place
  epWritten   \* history: the last write and its place, << >> if it was refused

epVars == << epBus, epState, epStarts, epCount, epNpar, epLinks, epTable, epPar,
             epMode, epWritten >>

EpInit ==
  /\ epBus = << >> /\ epState = "closed" /\ epStarts = 0
  /\ epCount = [ty \in Types |-> 0] /\ epNpar = 0
  /\ epLinks = [k \in Kinds |-> << >>]
  /\ epTable = [ty \in Types |-> << >>]
  /\ epPar = << >> /\ epMode = << >> /\ epWritten = {}

----------------------------------------------------------------------------
(* ec_start.                                                               *)

SlavesOf(bus, k) == {p \in 1 .. Len(bus) : bus[p] = k}

\* ec_count_ports: the channels of a type at the first p slaves.
ChannelsTo(ty, bus) ==
  LET n[p \in 0 .. Len(bus)] == IF p = 0 THEN 0 ELSE n[p - 1] + NChan(ty, bus[p])
  IN n

CountPorts(bus) == [ty \in Types |-> ChannelsTo(ty, bus)[Len(bus)]]

\* The slaves of a kind among the first p, in the order of their links.
LinksTo(k, bus) ==
  LET links[p \in 0 .. Len(bus)] ==
        IF p = 0 THEN << >>
        ELSE IF bus[p] = k THEN Append(links[p - 1], p) ELSE links[p - 1]
  IN links

\* The slaves of each kind, in the order of their links.
AddLinks(bus) ==
  [k \in Kinds |->
    IF k = "unknown" THEN epLinks[k] ELSE epLinks[k] \o LinksTo(k, bus)[Len(bus)]]

\* Mutant: one counter for all kinds.
LinkOfAny(bus, p) == p - 1

\* The link that ec_start gives the slave at p: the counters of connected slaves
\* (nEL1008, ...) are not reset, so links go on from the last start.
LinkOf(bus, p) == Len(epLinks[bus[p]]) + Len(LinksTo(bus[p], bus)[p - 1])

\* The ports that ec_set_adc_port_capabilities and the like enter for the slave
\* at p.
PortsOf(ty, bus, p) ==
  [c \in 1 .. NChan(ty, bus[p]) |->
    [dev |-> bus[p], link |-> LinkOf(bus, p), chan |-> c - 1,
     enabled |-> 1, clipped |-> 0]]

\* The ports of the first p slaves.
PortsTo(ty, bus) ==
  LET ports[p \in 0 .. Len(bus)] ==
        IF p = 0 THEN << >> ELSE ports[p - 1] \o PortsOf(ty, bus, p)
  IN ports

MakeTable(ty, bus) == PortsTo(ty, bus)[Len(bus)]

\* ec_Ebox_initialize_parameters, for each E-box.  encoder_mode is not read from
\* the box.
InitParameters(bus) ==
  LET boxes == SlavesOf(bus, "Ebox")
  IN [l \in {LinkOf(bus, p) : p \in boxes} |->
       [slave |-> CHOOSE p \in boxes : LinkOf(bus, p) = l, mode |-> 0]]

\* The links of the slaves found fit into in_X_ and out_X_ (a coupler has none), and
\* those of the E-boxes into the parameter structures, of which there are as many as
\* boxes were found now.
Fits(bus) ==
  /\ \A k \in Kinds \ {"EK1100"} : Len(AddLinks(bus)[k]) <= MaxLinks
  /\ SlavesOf(bus, "Ebox") = {} \/ epLinks["Ebox"] = << >>

\* ec_start that finds slaves; up says whether they reach the operational state
\* (ec_setop).  What it allocated before is not freed, and E-boxes come up in either
\* mode.
EpStart(bus, up) ==
  /\ epState \in {"closed", "failed"} /\ epStarts < MaxStarts
  /\ Fits(bus)
  /\ epBus' = bus
  /\ epState' = IF up THEN "op" ELSE "failed"
  /\ epStarts' = epStarts + 1
  /\ epCount' = CountPorts(bus)
  /\ epNpar' = Cardinality(SlavesOf(bus, "Ebox"))
  /\ epLinks' = AddLinks(bus)
  /\ epTable' = [ty \in Types |-> MakeTable(ty, bus)]
  /\ epPar' = InitParameters(bus)
  /\ epMode' \in [SlavesOf(bus, "Ebox") -> {0, 1}]
  /\ epWritten' = {}

\* ec_start whose links do not fit: nothing tests it, and it writes past the end of an
\* array (ppebox + link_id, for one).
EpStartOverruns(bus) ==
  /\ epState \in {"closed", "failed"} /\ epStarts < MaxStarts
  /\ ~Fits(bus)
  /\ epState' = "overrun"
  /\ UNCHANGED << epBus, epStarts, epCount, epNpar, epLinks, epTable, epPar, epMode,
                  epWritten >>

\* ec_start that finds no interface or no slaves: nothing of the above is done.
EpStartFails ==
  /\ epState \in {"closed", "failed"}
  /\ epState' = "failed"
  /\ UNCHANGED << epBus, epStarts, epCount, epNpar, epLinks, epTable, epPar,
                  epMode, epWritten >>

\* ec_stop: the tables are freed.
EpStop ==
  /\ epState = "op"
  /\ epState' = "closed"
  /\ epTable' = [ty \in Types |-> << >>] /\ epPar' = << >>
  /\ UNCHANGED << epBus, epStarts, epCount, epNpar, epLinks, epMode, epWritten >>

----------------------------------------------------------------------------
(* Ports.  Port i of the code is entry i + 1 of its table.                 *)

\* The place that link and chan of a kind of slave stand for: the device functions
\* (ec_EL3102_adc_read_chan, ...) refuse a link or a channel that is not there.
Place(ty, port) ==
  IF port.link < Len(epLinks[port.dev]) /\ port.chan < NChan(ty, port.dev)
  THEN << epLinks[port.dev][port.link + 1], port.chan >>
  ELSE << >>

\* A write, at its place.
Write(ty, i, place, value) ==
  epWritten' = {[type |-> ty, port |-> i, place |-> place, value |-> value]}

\* The EL4132 and EL4038 and the E-box convert to 16 bits without limiting: a voltage
\* over the range comes out with the other sign.
ToDac(v) == IF v = "over" THEN "wrapped" ELSE v

\* ec_Ebox_pwm_write_chan limits.
ToPwm(v) == IF v = "over" THEN "high" ELSE v

\* ec_dac_write_chan.
EpDacWrite(i, v) ==
  /\ epState = "op" /\ i \in DOMAIN epTable["dac"]
  /\ Write("dac", i, Place("dac", epTable["dac"][i]), ToDac(v))
  /\ UNCHANGED << epBus, epState, epStarts, epCount, epNpar, epLinks, epTable,
                  epPar, epMode >>

\* Mutant: the entry of ppdout.
DoutEntries(i) == {epTable["dout"][i]}

\* The entry of ppdac that ec_dout_write_chan and ec_pwm_write_chan take link and
\* channel from; beyond its end, whatever is there.
DacEntries(i) ==
  IF i \in DOMAIN epTable["dac"] THEN {epTable["dac"][i]}
  ELSE [link : 0 .. 1, chan : {0, 7}]

\* ec_dout_write_chan: the device is that of the digital output.  Values other than 0
\* and 1 do nothing.
EpDoutWrite(i, v) ==
  /\ epState = "op" /\ i \in DOMAIN epTable["dout"] /\ v # "over"
  /\ \E d \in DacEntries(i) :
       Write("dout", i, Place("dout", [dev |-> epTable["dout"][i].dev, link |-> d.link,
                                       chan |-> d.chan]), v)
  /\ UNCHANGED << epBus, epState, epStarts, epCount, epNpar, epLinks, epTable,
                  epPar, epMode >>

\* ec_pwm_write_chan: the device is that of the digital output with the same number,
\* and it is refused if that is not an E-box.
EpPwmWrite(i, v) ==
  /\ epState = "op" /\ i \in DOMAIN epTable["pwm"]
  /\ \E d \in DacEntries(i) :
       Write("pwm", i,
             IF epTable["dout"][i].dev = "Ebox"
             THEN Place("pwm", [dev |-> "Ebox", link |-> d.link, chan |-> d.chan])
             ELSE << >>,
             ToPwm(v))
  /\ UNCHANGED << epBus, epState, epStarts, epCount, epNpar, epLinks, epTable,
                  epPar, epMode >>

\* ec_adc_read_chan: a value at the end of the range is limited, and the port marked.
EpAdcRead(i, v) ==
  /\ epState = "op" /\ i \in DOMAIN epTable["adc"]
  /\ Place("adc", epTable["adc"][i]) # << >>
  /\ epTable' = [epTable EXCEPT !["adc"][i].clipped = IF v = "over" THEN 1 ELSE 0]
  /\ UNCHANGED << epBus, epState, epStarts, epCount, epNpar, epLinks, epPar, epMode,
                  epWritten >>

\* ec_adc_set_state, ec_enc_set_state.  No read looks at the state.
EpSetState(ty, i, on) ==
  /\ epState = "op" /\ i <= epCount[ty]
  /\ epTable' = [epTable EXCEPT ![ty][i].enabled = on]
  /\ UNCHANGED << epBus, epState, epStarts, epCount, epNpar, epLinks, epPar, epMode,
                  epWritten >>

\* ec_Ebox_get_parameters: the mode is read from the box.
EpGetParameters(l) ==
  /\ epState = "op" /\ l \in DOMAIN epPar
  /\ epPar' = [epPar EXCEPT ![l].mode = epMode[epPar[l].slave]]
  /\ UNCHANGED << epBus, epState, epStarts, epCount, epNpar, epLinks, epTable, epMode,
                  epWritten >>

\* ec_Ebox_set_parameters, with the parameters that ec_Ebox_get_parameters gave for
\* this link.  Whether the box accepts the mode is not looked at.
EpSetParameters(l, mode, accepted) ==
  /\ epState = "op" /\ l \in DOMAIN epPar
  /\ epMode' = IF accepted THEN [epMode EXCEPT ![epPar[l].slave] = mode] ELSE epMode
  /\ epPar' = [epPar EXCEPT ![l].mode = mode]
  /\ UNCHANGED << epBus, epState, epStarts, epCount, epNpar, epLinks, epTable,
                  epWritten >>

EpNext ==
  \/ \E bus \in Buses, up \in BOOLEAN : EpStart(bus, up)
  \/ \E bus \in Buses : EpStartOverruns(bus)
  \/ EpStartFails
  \/ EpStop
  \/ \E i \in 1 .. epCount["dac"], v \in Volts : EpDacWrite(i, v)
  \/ \E i \in 1 .. epCount["dout"], v \in Volts : EpDoutWrite(i, v)
  \/ \E i \in 1 .. epCount["pwm"], v \in Volts : EpPwmWrite(i, v)
  \/ \E i \in 1 .. MaxPort, v \in Volts : EpAdcRead(i, v)
  \/ \E ty \in {"adc", "enc"}, i \in 1 .. MaxPort, on \in {0, 1} : EpSetState(ty, i, on)
  \/ \E l \in DOMAIN epPar : EpGetParameters(l)
  \/ \E l \in DOMAIN epPar, m \in {0, 1}, accepted \in BOOLEAN :
       EpSetParameters(l, m, accepted)

EpSpec == EpInit /\ [][EpNext]_epVars

----------------------------------------------------------------------------
\* The channels of a type on the bus, and how many come before one.
ChannelsOf(ty) ==
  {pc \in (1 .. Len(epBus)) \X (0 .. 7) : pc[2] < NChan(ty, epBus[pc[1]])}

Rank(ty, pc) ==
  Cardinality({o \in ChannelsOf(ty) : o[1] < pc[1] \/ (o[1] = pc[1] /\ o[2] < pc[2])})

\* Every channel on the bus has exactly one port, and ports are numbered in the
\* order of the bus, also after ec_start was tried or used before and other slaves
\* were found (ec_start, whose counters of slaves go on counting), until it overruns
\* its arrays.
PortsResolve ==
  epState # "overrun" =>
    \A ty \in Types : epTable[ty] # << >> =>
      /\ Len(epTable[ty]) = epCount[ty]
      /\ epCount[ty] = Cardinality(ChannelsOf(ty))
      /\ \A i \in DOMAIN epTable[ty] :
           LET place == Place(ty, epTable[ty][i])
           IN place \in ChannelsOf(ty) /\ Rank(ty, place) = i - 1

\* No slave has outputs but E-boxes.
BoxOutputs ==
  \A p \in 1 .. Len(epBus) : epBus[p] \notin {"EL2004", "EL2008", "EL4132", "EL4038"}

\* If only E-boxes have outputs, a write to a pwm port is not refused and comes out on
\* the pwm channel with the port's number, although ec_pwm_write_chan asks the table of
\* the digital outputs for the device and that of the DACs for link and channel: an
\* E-box has as many DACs as pwm channels, and they are numbered alike.
PwmLands ==
  epState # "overrun" /\ BoxOutputs =>
    \A w \in epWritten : w.type = "pwm" =>
      /\ w.place \in ChannelsOf("pwm") /\ Rank("pwm", w.place) = w.port - 1
=============================================================================
