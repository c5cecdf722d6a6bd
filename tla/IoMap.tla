------------------------------- MODULE IoMap -------------------------------
(***************************************************************************)
(* The process image: where ec_config_map_group (ethercatconfig.c) puts    *)
(* the data of each slave, how ec_send_processdata_group and               *)
(* ec_receive_processdata_group (ethercatmain.c) exchange it in frames,    *)
(* and how the functions of ec.c find a channel in it.                     *)
(*                                                                         *)
(* A slave has one sync manager for its outputs and one for its inputs, as *)
(* the terminals of ec.h have.  A bit of the image is known by its number; *)
(* the channels of a slave are the bits of its data.  No slave forbids     *)
(* frames that read and write (blockLRW), and 64 frames are enough.        *)
(***************************************************************************)
EXTENDS Integers, Sequences, FiniteSets

CONSTANTS
  IoBuses,      \* sequences of slaves [out, in]: bits of their data
  MaxSegment,   \* EC_MAXLRWDATA - EC_FIRSTDCDATAGRAM: bytes in a frame
  IoChannels    \* bound of TLC: channels that are written and that change

ASSUME IoAssumption ==
  /\ IoBuses \subseteq Seq([out : Nat, in : Nat])
  /\ MaxSegment \in Nat \ {0}
  /\ IoChannels \subseteq Nat

----------------------------------------------------------------------------
(* The map.  addr, bit and done are LogAddr, BitPos and oLogAddr, size is  *)
(* segmentsize; places are the bytes and start bits of the slaves so far.  *)

EmptyMap == [ addr |-> 0, bit |-> 0, done |-> 0, size |-> 0, segments |-> << >>,
              places |-> << >> ]

\* LogAddr and BitPos move on, and slaves get their places.
Move(m, addr, bit, places) ==
  [ addr |-> addr, bit |-> bit, done |-> m.done, size |-> m.size,
    segments |-> m.segments, places |-> places ]

\* Mutant: a slave of whole bytes starts where the bits before it end.
PlaceBytesUnaligned(m, bits) ==
  Move(m, m.addr + (bits + 7) \div 8, 0, Append(m.places, << m.addr, 0 >>))

\* A slave of more than 7 bits starts on a byte ...
PlaceBytes(m, bits) ==
  LET start == IF m.bit > 0 THEN m.addr + 1 ELSE m.addr
  IN Move(m, start + (bits + 7) \div 8, 0, Append(m.places, << start, 0 >>))

\* ... and one of 7 or less goes on at the next bit.
PlaceBits(m, bits) ==
  Move(m, m.addr + (m.bit + bits) \div 8, (m.bit + bits) % 8,
       Append(m.places, << m.addr, m.bit >>))

\* The bytes passed since the last slave go into the segment or begin a new one.
Account(m) ==
  LET diff == m.addr - m.done
      full == m.size + diff > MaxSegment
  IN [ addr |-> m.addr, bit |-> m.bit, done |-> m.addr,
       size |-> IF full THEN diff ELSE m.size + diff,
       segments |-> IF full THEN Append(m.segments, m.size) ELSE m.segments,
       places |-> m.places ]

PlaceSlave(m, bits) ==
  IF bits = 0 THEN Move(m, m.addr, m.bit, Append(m.places, << m.addr, 0 >>))
  ELSE Account(IF bits > 7 THEN PlaceBytes(m, bits) ELSE PlaceBits(m, bits))

\* Outputs and inputs end on a whole byte.
Align(m) == IF m.bit = 0 THEN m ELSE Account(Move(m, m.addr + 1, 0, m.places))

\* The map after the first n slaves, from map m on; bits are those of each slave.
After(m, bits) ==
  LET after[n \in 0 .. Len(bits)] ==
        IF n = 0 THEN m ELSE PlaceSlave(after[n - 1], bits[n])
  IN after

PlaceAll(m, bits) == Align(After(m, bits)[Len(bits)])

OutBits(bus) == [p \in 1 .. Len(bus) |-> bus[p].out]
InBits(bus) == [p \in 1 .. Len(bus) |-> bus[p].in]

MapOutputs(bus) == PlaceAll(EmptyMap, OutBits(bus))

MapInputs(bus) ==
  LET m == MapOutputs(bus)
  IN PlaceAll(Move(m, m.addr, m.bit, << >>), InBits(bus))

\* IOsegment: the bytes of each frame.
Segments(bus) == LET m == MapInputs(bus) IN Append(m.segments, m.size)

----------------------------------------------------------------------------
VARIABLES
  ioBus,       \* the slaves found
  ioOutputs,   \* outputs and Ostartbit of each slave, as a byte and a bit
  ioInputs,    \* inputs and Istartbit
  ioSegments,  \* IOsegment
  ioImage,     \* IOmap: the bits that are 1
  ioPc,        \* "sent" after ec_send, until ec_receive or a write; else "free"
  ioFrames,    \* frames of the last ec_send that come back: their bits that are 1, by
               \* segment
  ioOut, ioIn, \* channels that are on at each slave
  ioWritten,   \* history: channels of each slave that the program switched on
  ioWhole      \* history: the last exchange lost nothing and nothing changed since

ioMap == << ioBus, ioOutputs, ioInputs, ioSegments >>
ioVars == << ioMap, ioImage, ioPc, ioFrames, ioOut, ioIn, ioWritten, ioWhole >>

Slaves == DOMAIN ioBus

\* The program has found these slaves; all outputs and inputs are off.
IoBegin(bus) ==
  /\ ioBus = bus
  /\ ioOutputs = MapOutputs(bus).places /\ ioInputs = MapInputs(bus).places
  /\ ioSegments = Segments(bus)
  /\ ioImage = {} /\ ioPc = "free" /\ ioFrames = << >>
  /\ ioOut = [p \in DOMAIN bus |-> {}] /\ ioIn = [p \in DOMAIN bus |-> {}]
  /\ ioWritten = [p \in DOMAIN bus |-> {}]
  /\ ioWhole = FALSE

IoInit == \E bus \in IoBuses : IoBegin(bus)

\* The bit that the slave (its FMMU) takes for a channel.
SlaveBit(place, c) == 8 * place[1] + place[2] + c

\* Mutant: the first channel is the last bit of the byte.
CodeBitReversed(place, c) == 8 * place[1] + 7 - c

\* The bit that ec.c takes for it: inputs and outputs are bytes there, and the
\* start bit is not looked at.
CodeBit(place, c) == 8 * place[1] + c

\* LogAdr of ec_send_processdata_group: the bytes before and after each segment.
Ends(segments) ==
  LET end[k \in 0 .. Len(segments)] == IF k = 0 THEN 0 ELSE end[k - 1] + segments[k]
  IN end

\* The segment that byte b is in.
SegmentOf(b) ==
  CHOOSE k \in DOMAIN ioSegments : Ends(ioSegments)[k - 1] <= b /\ b < Ends(ioSegments)[k]

InSegment(k, bits) == {b \in bits : SegmentOf(b \div 8) = k}

\* ec_EL2004_do_write_chan and the like.  A program that writes when it has sent sends
\* again before it receives: the frames on their way are forgotten.
IoWrite(p, c, on) ==
  /\ c < ioBus[p].out
  /\ ioPc' = "free" /\ ioFrames' = << >>
  /\ LET b == CodeBit(ioOutputs[p], c)
     IN  ioImage' = IF on THEN ioImage \cup {b} ELSE ioImage \ {b}
  /\ ioWritten' = [ioWritten EXCEPT ![p] = IF on THEN @ \cup {c} ELSE @ \ {c}]
  /\ ioWhole' = FALSE
  /\ UNCHANGED << ioMap, ioOut, ioIn >>

\* What is at the inputs of a slave changes; frames on their way have passed it.
IoChange(p, c) ==
  /\ ioPc = "free" /\ c < ioBus[p].in
  /\ ioIn' = [ioIn EXCEPT ![p] = IF c \in @ THEN @ \ {c} ELSE @ \cup {c}]
  /\ ioWhole' = FALSE
  /\ UNCHANGED << ioMap, ioImage, ioPc, ioFrames, ioOut, ioWritten >>

\* The bits of a slave's data in the image.
DataBits(place, bits) == {SlaveBit(place, c) : c \in 0 .. bits - 1}

\* A frame's bits when it has passed the slaves, which put their inputs into it.
Passed(image) ==
  (image \ UNION {DataBits(ioInputs[p], ioBus[p].in) : p \in Slaves})
    \cup UNION {{SlaveBit(ioInputs[p], c) : c \in ioIn[p]} : p \in Slaves}

\* ec_send: a frame for each segment.  Frames that arrive set the outputs of the
\* slaves and take their inputs along; some of them do not come back.  Those of an
\* ec_send before it that have not been received are forgotten.
IoSend ==
  /\ ioPc' = "sent"
  /\ \E arrived \in SUBSET DOMAIN ioSegments : \E back \in SUBSET arrived :
       /\ ioOut' = [p \in Slaves |->
            {c \in 0 .. ioBus[p].out - 1 :
               LET b == SlaveBit(ioOutputs[p], c)
               IN IF SegmentOf(b \div 8) \in arrived THEN b \in ioImage ELSE c \in ioOut[p]}]
       /\ ioFrames' = [k \in back |-> InSegment(k, Passed(ioImage))]
       /\ ioWhole' = (back = DOMAIN ioSegments)
  /\ UNCHANGED << ioMap, ioImage, ioIn, ioWritten >>

\* ec_receive: each frame that came back is copied over its part of the image, the
\* outputs included.
IoReceive ==
  /\ ioPc = "sent"
  /\ ioPc' = "free"
  /\ ioImage' = {b \in ioImage : SegmentOf(b \div 8) \notin DOMAIN ioFrames}
                  \cup UNION {ioFrames[k] : k \in DOMAIN ioFrames}
  /\ ioFrames' = << >>
  /\ UNCHANGED << ioMap, ioOut, ioIn, ioWritten, ioWhole >>

IoNext ==
  \/ \E p \in Slaves, c \in IoChannels, on \in BOOLEAN : IoWrite(p, c, on)
  \/ \E p \in Slaves, c \in IoChannels : IoChange(p, c)
  \/ IoSend
  \/ IoReceive

IoSpec == IoInit /\ [][IoNext]_ioVars

----------------------------------------------------------------------------
\* The data of all slaves each way.
OutData == [p \in Slaves |-> DataBits(ioOutputs[p], ioBus[p].out)]
InData == [p \in Slaves |-> DataBits(ioInputs[p], ioBus[p].in)]

BytesOf(bits) == {b \div 8 : b \in bits}

(***************************************************************************)
(* No two slaves share a bit and outputs come before inputs; the frames    *)
(* carry all of the image and no more than fits into one (a byte shared by *)
(* small slaves may be added), and the data of a slave of whole bytes      *)
(* travels in one frame (ec_config_map_group).                             *)
(***************************************************************************)
MapExact ==
  LET total == Ends(ioSegments)[Len(ioSegments)]
      data == {OutData[p] : p \in Slaves} \cup {InData[p] : p \in Slaves}
  IN /\ \A p, q \in Slaves :
          /\ p # q => OutData[p] \cap OutData[q] = {} /\ InData[p] \cap InData[q] = {}
          /\ \A b \in BytesOf(OutData[p]), d \in BytesOf(InData[q]) : b < d
     /\ UNION {BytesOf(d) : d \in data} = 0 .. total - 1
     /\ \A k \in DOMAIN ioSegments : ioSegments[k] <= MaxSegment + 1
     /\ \A d \in data : Cardinality(d) > 7 =>
          \A b, e \in BytesOf(d) : SegmentOf(b) = SegmentOf(e)

\* What the program last wrote to a slave is on, and what it would read is what
\* the slave has at its inputs.
Follows(p) ==
  /\ \A c \in IoChannels : (c \in ioOut[p]) = (c \in ioWritten[p])
  /\ \A c \in IoChannels : c < ioBus[p].in =>
       (CodeBit(ioInputs[p], c) \in ioImage) = (c \in ioIn[p])

Settled == ioPc = "free" /\ ioWhole

\* No other slave has data in the bytes of p.
Alone(p) ==
  \A q \in Slaves \ {p} :
    /\ BytesOf(OutData[p]) \cap BytesOf(OutData[q]) = {}
    /\ BytesOf(InData[p]) \cap BytesOf(InData[q]) = {}

(***************************************************************************)
(* After an exchange in which no frame was lost the outputs are those the  *)
(* program wrote and it reads what the inputs are, for slaves that share   *)
(* no byte, whichever frames were lost before: ec_receive copies the       *)
(* outputs of a frame back over the image as well.                         *)
(***************************************************************************)
ImageFollows == Settled => \A p \in Slaves : Alone(p) => Follows(p)

(***************************************************************************)
(* The same for every slave (ec.c:219 of ec_EL2004_do_write_chan: "Set bit *)
(* from module at ichan/ilink").                                           *)
(***************************************************************************)
OwnChannels == Settled => \A p \in Slaves : Follows(p)
============================================================================
