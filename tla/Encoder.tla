------------------------------ MODULE Encoder ------------------------------
(***************************************************************************)
(* Encoder values of the EtherCAT library: the EL5101 with its 16-bit      *)
(* counter (variables el...) and the E-box with two 32-bit ones (eb...).   *)
(* The library turns counters that wrap into positions that do not.  One   *)
(* slave of each kind, link 0.                                             *)
(*                                                                         *)
(* A position is the encoder's own, unbounded one, and a displacement the  *)
(* way to it from the origin, the position that reads 0.  ...Trusted is    *)
(* TRUE until something happens that the code cannot follow; a channel is  *)
(* not read any more then.                                                 *)
(***************************************************************************)
EXTENDS Integers

CONSTANTS
  ElHalf,      \* half the period of the EL5101 counter (32768)
  ElBound,     \* the jump between reads taken for a wrap (20000)
  ElReach,     \* bound of TLC: positions of the EL5101's axle
  EbHalf,      \* half the period of the E-box counters (2^31)
  EbBound,     \* EBOX_ENC_OVERFLOW_BOUND
  EbHome,      \* where the E-box's axles stand at first
  EbReach      \* bound of TLC: how far from there they get, and where they read 0

ASSUME EncoderAssumption ==
  /\ ElHalf \in Nat \ {0} /\ ElBound \in Nat /\ ElBound < ElHalf
  /\ ElReach \in Nat
  /\ EbHalf \in Nat \ {0} /\ EbBound \in Nat /\ EbBound < EbHalf
  /\ EbHome \in Int /\ EbReach \in Nat

\* What a signed counter of period 2 * half shows at position x.
Wrap(x, half) == ((x + half) % (2 * half)) - half

\* What ec_EL5101_enc_read_chan makes of its unsigned counter at position p: half
\* the period is still positive.
ElShown(p) ==
  LET raw == p % (2 * ElHalf) IN IF raw > ElHalf THEN raw - 2 * ElHalf ELSE raw

Abs(x) == IF x < 0 THEN -x ELSE x

Near(x) == Abs(x - EbHome) <= EbReach

VARIABLES
  elCount0, elFirst, elRevol, elPrev,   \* count0, ifirst, irevol, prev_count
  elValue,                              \* *pvalue of the last read
  elOrigin,                             \* history: the position that reads 0
  elTruth,                              \* history: the displacement at the last read
  elTrusted

elVars == << elCount0, elFirst, elRevol, elPrev, elValue, elOrigin, elTruth, elTrusted >>

\* ec_start.
ElInit ==
  /\ elCount0 = 0 /\ elFirst = TRUE /\ elRevol = 0 /\ elPrev = 0 /\ elValue = 0
  /\ elOrigin = 0 /\ elTruth = 0 /\ elTrusted = TRUE

\* Mutant: the jump is not told from its opposite.
ElUnwrapUp(count) ==
  IF Abs(count - elPrev) > ElBound THEN elRevol + 1 ELSE elRevol

\* The number of revolutions after a read: a jump is taken for a wrap.
ElUnwrap(count) ==
  IF count - elPrev > ElBound THEN elRevol - 1
  ELSE IF elPrev - count > ElBound THEN elRevol + 1
  ELSE elRevol

\* ec_EL5101_enc_read_chan with the axle at position p.  A jump of more than
\* the bound between two reads cannot be told from a wrap.
ElRead(p) ==
  LET count0 == IF elFirst THEN ElShown(p) ELSE elCount0
      origin == IF elFirst THEN p ELSE elOrigin
      count == ElShown(p) - count0
  IN /\ elTrusted
     /\ elCount0' = count0
     /\ elFirst' = FALSE
     /\ elRevol' = ElUnwrap(count)
     /\ elPrev' = count
     /\ elValue' = count + elRevol' * (2 * ElHalf)
     /\ elOrigin' = origin
     /\ elTruth' = p - origin
     /\ elTrusted' = (Abs((p - origin) - elTruth) <= ElBound)

\* ec_EL5101_enc_zero_chan: the raw counter is shown from now on, but the
\* previous count is not corrected.
ElZero ==
  /\ elCount0' = 0
  /\ elOrigin' = elOrigin - elCount0
  /\ UNCHANGED << elFirst, elRevol, elPrev, elValue, elTruth, elTrusted >>

ElNext ==
  \/ \E p \in -ElReach .. ElReach : ElRead(p)
  \/ ElZero

ElSpec == ElInit /\ [][ElNext]_elVars

----------------------------------------------------------------------------
Channels == {0, 1}

VARIABLES
  ebMode,       \* encoder_mode of the box: 0 two encoders, 1 encoder and timestamp
  ebCount0, ebFirst, ebRevol, ebPrev,  \* Ebox_count0, ..., one per channel
  ebPos,        \* positions of the axles; of channel 1 in mode 1, the timestamp
  ebOrigin,     \* history: the positions that read 0
  ebError,      \* history: *pvalue of the last read less the displacement
  ebTrusted

ebVars == << ebMode, ebCount0, ebFirst, ebRevol, ebPrev, ebPos,
             ebOrigin, ebError, ebTrusted >>

EbInit ==
  /\ ebMode = 0
  /\ ebCount0 = [c \in Channels |-> 0]
  /\ ebFirst = [c \in Channels |-> TRUE]
  /\ ebRevol = [c \in Channels |-> 0]
  /\ ebPrev = [c \in Channels |-> 0]
  /\ ebPos = [c \in Channels |-> EbHome]
  /\ ebOrigin = [c \in Channels |-> 0]
  /\ ebError = 0
  /\ ebTrusted = TRUE

\* Mutant: the variables of the first channel serve both.
IndexLink(c) == 0

\* Both channels have one count0, ifirst and irevol each.
Index(c) == c

\* What the code finds in prev_count of the EL5101s, which it looks at for an
\* overflow: 0 for channel 0 without such a module, and whatever lies beyond the
\* end of the array for channel 1.
Neighbour(c) == IF c = 0 THEN {0} ELSE {-EbBound - 1, 0, EbBound + 1}

\* The revolutions of index i after a read.
EbUnwrap(i, count, neighbour) ==
  IF Wrap(count - ebPrev[i], EbHalf) > EbBound THEN ebRevol[i] - 1
  ELSE IF Wrap(neighbour - count, EbHalf) > EbBound THEN ebRevol[i] + 1
  ELSE ebRevol[i]

\* The value, the origin and the variables that ec_Ebox_enc_read_chan leaves for
\* channel c.  The previous count goes to the variable of channel 0 and the
\* revolutions come from there, whichever channel is read.
EbReads(c, neighbour) ==
  LET i == Index(c)
      raw == Wrap(ebPos[c], EbHalf)
      count0 == IF ebFirst[i] THEN raw ELSE ebCount0[i]
      origin == IF ebFirst[i] THEN ebPos[c] ELSE ebOrigin[c]
      plain == ebMode = 1 /\ c = 1
      count == IF plain THEN raw ELSE Wrap(raw - count0, EbHalf)
  IN [ count0 |-> [ebCount0 EXCEPT ![i] = count0],
       revol |-> IF plain THEN ebRevol
                 ELSE [ebRevol EXCEPT ![i] = EbUnwrap(i, count, neighbour)],
       first |-> [ebFirst EXCEPT ![i] = FALSE],
       prev |-> [ebPrev EXCEPT ![0] = count],
       count |-> count,
       origin |-> [ebOrigin EXCEPT ![c] = origin],
       truth |-> IF plain THEN ebPos[c] ELSE ebPos[c] - origin ]

\* A read can be trusted while displacements stay within half the bound (and so
\* do timestamps) and no other module's counts are looked at.
EbFollows(r, neighbour) == neighbour = 0 /\ 2 * Abs(r.truth) <= EbBound

\* ec_Ebox_enc_read_chan.
EbRead(c) == \E neighbour \in Neighbour(c) :
  LET r == EbReads(c, neighbour)
      value == r.count + r.revol[0] * (2 * EbHalf)
  IN /\ ebTrusted
     /\ ebCount0' = r.count0 /\ ebFirst' = r.first
     /\ ebRevol' = r.revol /\ ebPrev' = r.prev
     /\ ebOrigin' = r.origin /\ ebError' = value - r.truth
     /\ ebTrusted' = EbFollows(r, neighbour)
     /\ UNCHANGED << ebMode, ebPos >>

\* ec_Ebox_enc_reset_chan: a read, and its value becomes part of count0.
EbReset(c) == \E neighbour \in Neighbour(c) :
  LET r == EbReads(c, neighbour)
      value == r.count + r.revol[0] * (2 * EbHalf)
  IN /\ ebTrusted
     /\ Near(r.origin[c] + value)
     /\ ebCount0' = [r.count0 EXCEPT ![Index(c)] = Wrap(@ + value, EbHalf)]
     /\ ebFirst' = r.first /\ ebRevol' = r.revol /\ ebPrev' = r.prev
     /\ ebOrigin' = [r.origin EXCEPT ![c] = @ + value]
     /\ ebTrusted' = EbFollows(r, neighbour)
     /\ UNCHANGED << ebMode, ebPos, ebError >>

\* ec_Ebox_enc_zero_chan.
EbZero(c) ==
  /\ ebCount0' = [ebCount0 EXCEPT ![Index(c)] = 0]
  /\ ebOrigin' = [ebOrigin EXCEPT ![c] = @ - ebCount0[Index(c)]]
  /\ UNCHANGED << ebMode, ebFirst, ebRevol, ebPrev, ebPos, ebError, ebTrusted >>

\* encoder_mode is set by ec_Ebox_set_parameters.
EbSetMode(m) ==
  /\ ebMode' = m
  /\ UNCHANGED << ebCount0, ebFirst, ebRevol, ebPrev, ebPos, ebOrigin,
                  ebError, ebTrusted >>

\* An axle turns, or the clock of the timestamps goes on.
EbMove(c, d) ==
  /\ Near(ebPos[c] + d)
  /\ ebPos' = [ebPos EXCEPT ![c] = @ + d]
  /\ UNCHANGED << ebMode, ebCount0, ebFirst, ebRevol, ebPrev, ebOrigin,
                  ebError, ebTrusted >>

EbNext ==
  \/ \E c \in Channels : EbRead(c) \/ EbReset(c) \/ EbZero(c)
  \/ \E m \in {0, 1} : EbSetMode(m)
  \/ \E c \in Channels, d \in {-1, 1} : EbMove(c, d)

EbSpec == EbInit /\ [][EbNext]_ebVars

----------------------------------------------------------------------------
\* As long as the axle of an EL5101 turns by no more than the bound between two
\* reads, and zeroing does not look like a jump, the value read is its
\* displacement, however often its counter wrapped (ec_EL5101_enc_read_chan).
ElExact == elTrusted => elValue = elTruth

\* Two encoders on one E-box, read, reset and zeroed in any order, show each its
\* own displacement while they stay within half the bound of the code's tests
\* (ec_Ebox_enc_read_chan, whose channels share a previous count).
EboxExact == ebTrusted => ebError = 0
=============================================================================
