--------------------------- MODULE Master_proofs ---------------------------
(***************************************************************************)
(* What the EtherCAT master returns: to each thread that sends a frame the *)
(* answer to its own request (EthFrames), and to a call the object it is   *)
(* about (EcMailbox).                                                      *)
(***************************************************************************)
EXTENDS EthFrames, EcMailbox, FiniteSetTheorems, FunctionTheorems, SequenceTheorems, TLAPS

----------------------------------------------------------------------------
(* Frames.                                                                 *)

Places == {"idle", "ready", "sent", "out", "wait", "late", "got"}

\* A thread whose wait has timed out holds its index no longer, although it will
\* release it once more.
Holds(t) == efPc[t] \notin {"idle", "late"}

(***************************************************************************)
(* There is room for the answers that come too late: each time-out spoils  *)
(* at most one buffer, a thread that takes an index finds a free one, and  *)
(* has not come round to that of a frame that is still on its way.         *)
(***************************************************************************)
EnoughBuffers == MaxTimeouts + MaxLife < MaxBuf /\ MaxTimeouts + 1 < MaxBuf

Frames == [idx : Indices, request : [thread : Threads, number : Nat]]

FrameTypes ==
  /\ efStat \in [Indices -> {"EMPTY", "ALLOC", "TX", "RCVD", "COMPLETE"}]
  /\ efRx \in [Indices -> [thread : Threads, number : Nat]]
  /\ efLast \in Indices /\ efWire \in Seq(Frames)
  /\ efPc \in [Threads -> Places]
  /\ efIdx \in [Threads -> Indices] /\ efNumber \in [Threads -> Nat]
  /\ efTimeouts \in 0 .. MaxTimeouts /\ efAhead \in Nat

OnWire(i) == \E p \in 1 .. Len(efWire) : efWire[p].idx = i

Busy == {i \in Indices : efStat[i] # "EMPTY"}

\* Buffers that a late answer has marked and nobody will release.
Stale == {i \in Busy : \A t \in Threads : Holds(t) => efIdx[t] # i}

\* The answers a thread may still be owed: 1 when its frame is on its way, 0 when it has
\* been received, and one less when it is about to be sent again.
Credit(t) ==
  LET received == efStat[efIdx[t]] = "RCVD"
  IN CASE efPc[t] \in {"sent", "out", "wait"} -> IF ~received /\ OnWire(efIdx[t]) THEN 1 ELSE 0
       [] efPc[t] = "ready" -> IF received THEN -1 ELSE 0
       [] OTHER -> 0

(***************************************************************************)
(* The frames on the bus that nobody waits for and the buffers that such   *)
(* frames have spoilt are no more than the waits that timed out.           *)
(***************************************************************************)
StrayInv ==
  Cardinality(Stale) + Len(efWire) <= efTimeouts + (Credit("loop") + Credit("command"))

HeldInv == \A t \in Threads : Holds(t) => efStat[efIdx[t]] # "EMPTY"

\* Whatever comes for an index that a thread holds is the answer to its request.
OwnInv ==
  \A t \in Threads : Holds(t) =>
    /\ \A p \in 1 .. Len(efWire) :
         efWire[p].idx = efIdx[t] => efWire[p].request = Asked(t)
    /\ (efStat[efIdx[t]] = "RCVD" \/ efPc[t] = "got") => efRx[efIdx[t]] = Asked(t)

HeldApart == (\A t \in Threads : efPc[t] # "idle") => efIdx["loop"] # efIdx["command"]

OwnAnswers == \A a \in efAnswers : a.answered = a.asked

\* For a loop that sends once for each time it receives.
FrameInv ==
  /\ efUse.ahead = 0
  /\ FrameTypes /\ StrayInv /\ HeldInv /\ HeldApart /\ OwnInv /\ OwnAnswers

----------------------------------------------------------------------------
(* The ring of buffers.                                                    *)

LEMMA DivMod ==
  ASSUME NEW a \in Int, NEW d \in Nat \ {0}
  PROVE  /\ a \div d \in Int /\ a % d \in 0 .. d - 1
         /\ a = (a \div d) * d + (a % d)
OBVIOUS

\* Less than twice round, a remainder takes off one round or none.
LEMMA OnceRound ==
  ASSUME NEW d \in Nat \ {0}, NEW a \in 0 .. 2 * d - 1
  PROVE  a % d = IF a < d THEN a ELSE a - d
<1> DEFINE q == a \div d
           r == a % d
<1>1. q \in Int /\ r \in 0 .. d - 1 /\ a = q * d + r
  BY DivMod
<1> HIDE DEF q, r
<1>2. ASSUME q >= 2 PROVE FALSE
  <2>1. q * d >= 2 * d
    BY <1>1, <1>2
  <2> QED
    BY <1>1, <2>1
<1>3. ASSUME q <= -1 PROVE FALSE
  <2>1. q * d <= (-1) * d
    BY <1>1, <1>3
  <2> QED
    BY <1>1, <2>1
<1>4. q \in {0, 1}
  BY <1>1, <1>2, <1>3
<1>5. CASE q = 0
  BY <1>1, <1>5 DEF r
<1>6. CASE q = 1
  BY <1>1, <1>6 DEF r
<1> QED
  BY <1>4, <1>5, <1>6

LEMMA Around ==
  ASSUME NEW last \in Indices, NEW k \in 1 .. MaxBuf
  PROVE  /\ (last + k) % MaxBuf \in Indices
         /\ (last + k) % MaxBuf = IF last + k < MaxBuf THEN last + k ELSE last + k - MaxBuf
<1>1. MaxBuf \in Nat \ {0} /\ last \in 0 .. MaxBuf - 1
  BY FramesAssumption DEF Indices
<1> DEFINE a == last + k
<1>2. a \in 0 .. 2 * MaxBuf - 1
  BY <1>1
<1> HIDE DEF a
<1>3. a % MaxBuf = IF a < MaxBuf THEN a ELSE a - MaxBuf
  BY <1>1, <1>2, OnceRound
<1> QED
  BY <1>1, <1>2, <1>3 DEF a, Indices

LEMMA Aged ==
  ASSUME NEW last \in Indices, NEW k \in 1 .. MaxBuf, NEW i, i = (last + k) % MaxBuf
  PROVE  (last + MaxBuf - i) % MaxBuf = MaxBuf - k
<1>1. MaxBuf \in Nat \ {0} /\ last \in 0 .. MaxBuf - 1
  BY FramesAssumption DEF Indices
<1>2. i = IF last + k < MaxBuf THEN last + k ELSE last + k - MaxBuf
  BY Around
<1> DEFINE a == last + MaxBuf - i
<1>3. a \in 0 .. 2 * MaxBuf - 1
  BY <1>1, <1>2
<1>4. (a < MaxBuf => a = MaxBuf - k) /\ (~(a < MaxBuf) => a - MaxBuf = MaxBuf - k)
  BY <1>1, <1>2
<1> HIDE DEF a
<1>5. a % MaxBuf = IF a < MaxBuf THEN a ELSE a - MaxBuf
  BY <1>1, <1>3, OnceRound
<1>6. a % MaxBuf = MaxBuf - k
  BY <1>4, <1>5
<1> QED
  BY <1>6 DEF a

LEMMA LeastIn ==
  ASSUME NEW S \in SUBSET Nat, S # {}
  PROVE  Min(S) \in S /\ \A x \in S : Min(S) <= x
<1> DEFINE R == OpToRel(<, Nat)
<1>1. IsWellFoundedOn(R, Nat)
  BY NatLessThanWellFounded
<1>2. \A x, y \in Nat : << x, y >> \in R <=> x < y
  BY DEF OpToRel
<1> HIDE DEF R
<1>3. PICK x \in S : \A y \in S : ~ (<< y, x >> \in R)
  BY <1>1, WFMin
<1>4. \A y \in S : x <= y
  <2> SUFFICES ASSUME NEW y \in S PROVE x <= y
    OBVIOUS
  <2>1. ~(y < x)
    BY <1>2, <1>3
  <2> QED
    BY <2>1
<1> QED
  BY <1>4 DEF Min

LEMMA FiniteIndices ==
  ASSUME NEW S \in SUBSET Indices
  PROVE  IsFiniteSet(S) /\ Cardinality(S) \in Nat /\ Cardinality(Indices) = MaxBuf
         /\ Cardinality(S) <= MaxBuf
<1>1. IsFiniteSet(Indices) /\ Cardinality(Indices) = MaxBuf
  BY FS_Interval, FramesAssumption DEF Indices
<1> QED
  BY <1>1, FS_Subset, FS_CardinalityType

(***************************************************************************)
(* ec_getindex finds a free buffer if there is one, and passes only busy   *)
(* ones on the way.                                                        *)
(***************************************************************************)
LEMMA SearchEnds ==
  ASSUME NEW stat, NEW last \in Indices,
         Cardinality({i \in Indices : stat[i] # "EMPTY"}) < MaxBuf
  PROVE  /\ NextIndex(stat, last) \in Indices
         /\ stat[NextIndex(stat, last)] = "EMPTY"
         /\ \E k \in 1 .. MaxBuf :
              /\ NextIndex(stat, last) = (last + k) % MaxBuf
              /\ k - 1 <= Cardinality({i \in Indices : stat[i] # "EMPTY"})
<1> DEFINE busy == {i \in Indices : stat[i] # "EMPTY"}
           free == {k \in 1 .. MaxBuf : stat[(last + k) % MaxBuf] = "EMPTY"}
           k0 == Min(free)
<1>1. MaxBuf \in Nat \ {0} /\ last \in 0 .. MaxBuf - 1
  BY FramesAssumption DEF Indices
<1>2. IsFiniteSet(busy) /\ Cardinality(busy) \in Nat
  BY FiniteIndices
<1>3. free # {}
  <2>1. busy # Indices
    BY FiniteIndices, <1>1
  <2>2. PICK i \in Indices : stat[i] = "EMPTY"
    BY <2>1
  <2> DEFINE k == IF i > last THEN i - last ELSE i - last + MaxBuf
  <2>3. k \in 1 .. MaxBuf /\ (last + k < MaxBuf => last + k = i)
        /\ (~(last + k < MaxBuf) => last + k - MaxBuf = i)
    BY <1>1 DEF Indices
  <2> HIDE DEF k
  <2>4. (last + k) % MaxBuf = i
    BY <2>3, Around
  <2> QED
    BY <2>2, <2>3, <2>4
<1>4. k0 \in 1 .. MaxBuf /\ stat[(last + k0) % MaxBuf] = "EMPTY"
      /\ \A k \in 1 .. k0 - 1 : stat[(last + k) % MaxBuf] # "EMPTY"
  <2>1. free \in SUBSET Nat
    BY <1>1
  <2>2. k0 \in free /\ \A k \in free : k0 <= k
    BY <1>3, <2>1, LeastIn
  <2> HIDE DEF k0
  <2>3. k0 \in 1 .. MaxBuf /\ stat[(last + k0) % MaxBuf] = "EMPTY"
    BY <2>2
  <2>4. ASSUME NEW k \in 1 .. k0 - 1 PROVE stat[(last + k) % MaxBuf] # "EMPTY"
    <3>1. k \in 1 .. MaxBuf /\ ~(k0 <= k)
      BY <1>1, <2>3
    <3> QED
      BY <2>2, <3>1
  <2> QED
    BY <2>3, <2>4
<1>5. NextIndex(stat, last) = (last + k0) % MaxBuf
  BY <1>3 DEF NextIndex
<1> HIDE DEF k0
<1>6. (last + k0) % MaxBuf \in Indices
  BY <1>4, Around
<1>7. k0 - 1 <= Cardinality(busy)
  <2> DEFINE passed == [k \in 1 .. k0 - 1 |-> (last + k) % MaxBuf]
  <2>1. \A k \in 1 .. k0 - 1 : k \in 1 .. MaxBuf
    BY <1>1, <1>4
  <2>2. passed \in [1 .. k0 - 1 -> busy]
    BY <1>4, <2>1, Around
  <2>3. ASSUME NEW j \in 1 .. k0 - 1, NEW k \in 1 .. k0 - 1, passed[j] = passed[k]
        PROVE  j = k
    <3>1. j \in 1 .. MaxBuf - 1 /\ k \in 1 .. MaxBuf - 1
      BY <1>1, <1>4
    <3>2. (last + j) % MaxBuf = (last + k) % MaxBuf
      BY <2>3
    <3>3. (IF last + j < MaxBuf THEN last + j ELSE last + j - MaxBuf) =
            IF last + k < MaxBuf THEN last + k ELSE last + k - MaxBuf
      BY <2>1, <3>2, Around
    <3> QED
      BY <1>1, <3>1, <3>3
  <2> HIDE DEF passed
  <2>4. passed \in Injection(1 .. k0 - 1, busy)
    BY <2>2, <2>3, Fun_IsInj
  <2>5. Cardinality(1 .. k0 - 1) <= Cardinality(busy)
    BY <1>2, <2>4, FS_Injection
  <2>6. Cardinality(1 .. k0 - 1) = k0 - 1
    BY <1>4, FS_Interval
  <2> QED
    BY <2>5, <2>6
<1> QED
  BY <1>4, <1>5, <1>6, <1>7

----------------------------------------------------------------------------
(* What is on the bus.                                                     *)

Other(t) == IF t = "loop" THEN "command" ELSE "loop"

LEMMA BothThreads ==
  ASSUME NEW t \in Threads
  PROVE  /\ Other(t) \in Threads /\ Other(t) # t /\ Threads = {t, Other(t)}
         /\ Credit("loop") + Credit("command") = Credit(t) + Credit(Other(t))
         /\ (Credit("loop") + Credit("command"))' = Credit(t)' + Credit(Other(t))'
<1>1. /\ Credit("loop") \in Int /\ Credit("command") \in Int
      /\ Credit("loop")' \in Int /\ Credit("command")' \in Int
  BY DEF Credit
<1>2. Other(t) \in Threads /\ Other(t) # t /\ Threads = {t, Other(t)}
  BY DEF Threads, Other
<1>3. CASE t = "loop"
  BY <1>1, <1>2, <1>3 DEF Other
<1>4. CASE t = "command"
  <2>1. Other(t) = "loop"
    BY <1>4 DEF Other
  <2> QED
    BY <1>1, <1>2, <1>4, <2>1
<1> QED
  BY <1>3, <1>4 DEF Threads

LEMMA CreditBounds ==
  ASSUME NEW t \in Threads
  PROVE  /\ Credit(t) \in {-1, 0, 1} /\ Credit(t)' \in {-1, 0, 1}
         /\ ~Holds(t) => Credit(t) = 0
         /\ Credit(t) = 1 => OnWire(efIdx[t])
BY DEF Credit, Holds

\* What is left on the bus when a frame leaves it, at position p.
LEMMA FrameLeaves ==
  ASSUME NEW wire \in Seq(Frames), NEW p \in 1 .. Len(wire)
  PROVE  /\ RemoveAt(wire, p) \in Seq(Frames)
         /\ Len(RemoveAt(wire, p)) = Len(wire) - 1
         /\ \A q \in 1 .. Len(wire) - 1 :
              RemoveAt(wire, p)[q] = IF q < p THEN wire[q] ELSE wire[q + 1]
         /\ \A q \in 1 .. Len(wire) - 1 : \E r \in 1 .. Len(wire) :
              RemoveAt(wire, p)[q] = wire[r]
         /\ \A r \in 1 .. Len(wire) : r # p =>
              \E q \in 1 .. Len(wire) - 1 : RemoveAt(wire, p)[q] = wire[r]
<1> DEFINE front == SubSeq(wire, 1, p - 1)
           back == SubSeq(wire, p + 1, Len(wire))
<1>1. /\ front \in Seq(Frames) /\ Len(front) = p - 1
      /\ \A q \in 1 .. p - 1 : front[q] = wire[q]
  BY SubSeqProperties
<1>2. /\ back \in Seq(Frames) /\ Len(back) = Len(wire) - p
      /\ \A q \in 1 .. Len(wire) - p : back[q] = wire[p + q]
  BY SubSeqProperties
<1> HIDE DEF front, back
<1>3. RemoveAt(wire, p) = front \o back
  BY DEF RemoveAt, front, back
<1>4. /\ front \o back \in Seq(Frames)
      /\ Len(front \o back) = Len(wire) - 1
      /\ \A q \in 1 .. Len(wire) - 1 :
           (front \o back)[q] = IF q < p THEN wire[q] ELSE wire[q + 1]
  <2>1. /\ front \o back \in Seq(Frames)
        /\ Len(front \o back) = Len(front) + Len(back)
        /\ \A q \in 1 .. Len(front) + Len(back) :
             (front \o back)[q] = IF q <= Len(front) THEN front[q] ELSE back[q - Len(front)]
    BY <1>1, <1>2, ConcatProperties
  <2>2. Len(wire) \in Nat
    OBVIOUS
  <2> QED
    BY <1>1, <1>2, <2>1, <2>2
<1> DEFINE rest == front \o back
<1>5. /\ rest \in Seq(Frames) /\ Len(rest) = Len(wire) - 1
      /\ \A q \in 1 .. Len(wire) - 1 : rest[q] = IF q < p THEN wire[q] ELSE wire[q + 1]
  BY <1>4
<1> HIDE DEF rest
<1>6. ASSUME NEW r \in 1 .. Len(wire), r # p
      PROVE  \E q \in 1 .. Len(wire) - 1 : rest[q] = wire[r]
  <2>1. CASE r < p
    <3>1. r \in 1 .. Len(wire) - 1
      BY <2>1
    <3> QED
      BY <1>5, <2>1, <3>1
  <2>2. CASE r > p
    <3>1. r - 1 \in 1 .. Len(wire) - 1 /\ ~(r - 1 < p) /\ (r - 1) + 1 = r
      BY <2>2
    <3> QED
      BY <1>5, <3>1
  <2> QED
    BY <1>6, <2>1, <2>2
<1>7. ASSUME NEW q \in 1 .. Len(wire) - 1
      PROVE  \E r \in 1 .. Len(wire) : rest[q] = wire[r]
  <2>1. q \in 1 .. Len(wire) /\ q + 1 \in 1 .. Len(wire)
    OBVIOUS
  <2> QED
    BY <1>5, <2>1
<1>8. RemoveAt(wire, p) = rest
  BY <1>3 DEF rest
<1> QED
  BY <1>5, <1>6, <1>7, <1>8

\* Two frames of different indices are two frames.
LEMMA TwoOnWire ==
  ASSUME FrameTypes, NEW i, NEW j, i # j, OnWire(i), OnWire(j)
  PROVE  Len(efWire) >= 2
<1>1. PICK p \in 1 .. Len(efWire) : efWire[p].idx = i
  BY DEF OnWire
<1>2. PICK q \in 1 .. Len(efWire) : efWire[q].idx = j
  BY DEF OnWire
<1>3. p # q /\ Len(efWire) \in Nat
  BY <1>1, <1>2 DEF FrameTypes, Places
<1> QED
  BY <1>3

LEMMA StaleIsFinite ==
  /\ IsFiniteSet(Stale) /\ Cardinality(Stale) \in Nat
  /\ IsFiniteSet(Stale') /\ Cardinality(Stale') \in Nat
  /\ IsFiniteSet(Busy) /\ Cardinality(Busy) \in Nat
<1>1. Stale \in SUBSET Indices /\ Stale' \in SUBSET Indices /\ Busy \in SUBSET Indices
  BY DEF Stale, Busy, Holds
<1> QED
  BY <1>1, FiniteIndices

LEMMA OneMore ==
  ASSUME NEW S, IsFiniteSet(S), NEW i
  PROVE  /\ IsFiniteSet(S \cup {i}) /\ Cardinality(S \cup {i}) \in Nat
         /\ Cardinality(S \cup {i}) <= Cardinality(S) + 1
<1>1. IsFiniteSet(S \cup {i})
  BY FS_AddElement
<1>2. Cardinality(S \cup {i}) \in {Cardinality(S), Cardinality(S) + 1}
  BY FS_AddElement
<1>3. Cardinality(S) \in Nat /\ Cardinality(S \cup {i}) \in Nat
  BY <1>1, FS_CardinalityType
<1> QED
  BY <1>1, <1>2, <1>3

LEMMA BusyBound ==
  ASSUME NEW t \in Threads, efPc[t] = "idle"
  PROVE  /\ Cardinality(Busy) <= Cardinality(Stale) + 1
         /\ ~Holds(Other(t)) => Cardinality(Busy) <= Cardinality(Stale)
<1>1. Busy \subseteq Stale \cup {efIdx[Other(t)]}
  BY BothThreads DEF Stale, Holds
<1>2. Cardinality(Stale \cup {efIdx[Other(t)]}) <= Cardinality(Stale) + 1
      /\ IsFiniteSet(Stale \cup {efIdx[Other(t)]})
  BY StaleIsFinite, OneMore
<1>3. Cardinality(Busy) <= Cardinality(Stale \cup {efIdx[Other(t)]})
  BY <1>1, <1>2, FS_Subset
<1>4. ASSUME ~Holds(Other(t)) PROVE Busy = Stale
  BY <1>4, BothThreads DEF Stale, Holds
<1>5. Cardinality(Stale \cup {efIdx[Other(t)]}) \in Nat
  BY <1>2, FS_CardinalityType
<1> QED
  BY <1>2, <1>3, <1>4, <1>5, StaleIsFinite

(***************************************************************************)
(* The index a thread takes is free, no frame on its way has it, and no    *)
(* thread will release it.                                                 *)
(***************************************************************************)
LEMMA FreshIndex ==
  ASSUME EnoughBuffers, FrameInv, NEW t \in Threads, EfTake(t)
  PROVE  LET i == NextIndex(efStat, efLast)
         IN  /\ i \in Indices /\ efStat[i] = "EMPTY" /\ ~OnWire(i)
             /\ efPc[Other(t)] # "idle" => efIdx[Other(t)] # i
<1> DEFINE i == NextIndex(efStat, efLast)
           o == Other(t)
           stale == Cardinality(Stale)
           busy == Cardinality(Busy)
           length == Len(efWire)
<1>1. /\ stale \in Nat /\ busy \in Nat /\ length \in Nat
      /\ MaxBuf \in Nat \ {0} /\ MaxTimeouts \in Nat /\ MaxLife \in Nat
      /\ efTimeouts \in 0 .. MaxTimeouts
  BY StaleIsFinite, FramesAssumption DEF FrameInv, FrameTypes, Places
<1>2. MaxTimeouts + MaxLife < MaxBuf /\ MaxTimeouts + 1 < MaxBuf
  BY DEF EnoughBuffers
<1>3. /\ efPc[t] = "idle"
      /\ \A p \in 1 .. length : Age(efWire[p].idx) < MaxLife
      /\ efPc[o] = "late" => Age(efIdx[o]) < MaxLife
  BY BothThreads DEF EfTake, TakeIndex, Recent, FrameInv, FrameTypes
<1>4. /\ Credit(o) \in {-1, 0, 1}
      /\ Credit(o) = 1 => OnWire(efIdx[o]) /\ Holds(o)
      /\ ~Holds(o) => Credit(o) = 0
      /\ stale + length <= efTimeouts + Credit(o)
  <2>1. o \in Threads /\ Credit(t) = 0
    BY <1>3, BothThreads, CreditBounds DEF Holds
  <2>2. Credit("loop") + Credit("command") = Credit(t) + Credit(o)
    BY BothThreads
  <2>3. /\ Credit(o) \in {-1, 0, 1}
        /\ Credit(o) = 1 => OnWire(efIdx[o])
        /\ ~Holds(o) => Credit(o) = 0
    BY <2>1, CreditBounds
  <2>4. stale + length <= efTimeouts + (Credit("loop") + Credit("command"))
    BY DEF FrameInv, StrayInv
  <2> HIDE DEF o, stale, length
  <2> QED
    BY <1>1, <2>1, <2>2, <2>3, <2>4
<1>5. \A j : OnWire(j) => length >= 1
  BY <1>1 DEF OnWire
<1>6. /\ busy <= stale + 1
      /\ ~Holds(o) => busy <= stale
  BY <1>3, BusyBound
<1>7. /\ i \in Indices /\ efStat[i] = "EMPTY"
      /\ \E k \in 1 .. MaxBuf : i = (efLast + k) % MaxBuf /\ k - 1 <= busy
  <2>1. busy < MaxBuf
    <3> HIDE DEF o, stale, busy, length
    <3> QED
      BY <1>1, <1>2, <1>4, <1>5, <1>6
  <2> QED
    BY <2>1, SearchEnds DEF Busy, FrameInv, FrameTypes, Places
<1>8. ASSUME OnWire(i) PROVE FALSE
  <2>1. PICK k \in 1 .. MaxBuf : i = (efLast + k) % MaxBuf /\ k - 1 <= busy
    BY <1>7
  <2>2. Age(i) < MaxLife
    BY <1>3, <1>8 DEF OnWire
  <2>3. Age(i) = MaxBuf - k
    <3>1. efLast \in Indices
      BY DEF FrameInv, FrameTypes, Places
    <3> HIDE DEF i
    <3>2. (efLast + MaxBuf - i) % MaxBuf = MaxBuf - k
      BY <2>1, <3>1, Aged
    <3> QED
      BY <3>2 DEF Age
  <2>4. Holds(o) => efIdx[o] # i
    BY <1>7, BothThreads DEF FrameInv, HeldInv
  <2>5. Holds(o) /\ OnWire(efIdx[o]) => length >= 2
    <3>1. FrameTypes
      BY DEF FrameInv
    <3> QED
      BY <1>8, <2>4, <3>1, TwoOnWire
  <2> HIDE DEF i, o, stale, busy, length
  <2> QED
    BY <1>1, <1>2, <1>4, <1>5, <1>6, <1>8, <2>1, <2>2, <2>3, <2>5
<1>9. ASSUME efPc[o] = "late", efIdx[o] = i PROVE FALSE
  <2>1. PICK k \in 1 .. MaxBuf : i = (efLast + k) % MaxBuf /\ k - 1 <= busy
    BY <1>7
  <2>2. Age(i) < MaxLife
    BY <1>3, <1>9
  <2>3. Age(i) = MaxBuf - k
    <3>1. efLast \in Indices
      BY DEF FrameInv, FrameTypes
    <3> HIDE DEF i
    <3>2. (efLast + MaxBuf - i) % MaxBuf = MaxBuf - k
      BY <2>1, <3>1, Aged
    <3> QED
      BY <3>2 DEF Age
  <2>4. ~Holds(o)
    BY <1>9 DEF Holds
  <2> HIDE DEF i, o, stale, busy, length
  <2> QED
    BY <1>1, <1>2, <1>4, <1>6, <2>1, <2>2, <2>3, <2>4
<1>10. efPc[o] # "idle" => efIdx[o] # i
  BY <1>7, <1>9, BothThreads DEF FrameInv, HeldInv, Holds
<1> QED
  BY <1>7, <1>8, <1>10

----------------------------------------------------------------------------
(* The steps.                                                              *)

LEMMA InitFrames ==
  ASSUME EfInit, efUse.ahead = 0
  PROVE  FrameInv
<1>1. MaxBuf \in Nat \ {0} /\ MaxTimeouts \in Nat
  BY FramesAssumption
<1>2. FrameTypes
  BY <1>1 DEF FrameTypes, EfInit, Indices, Threads, NoRequest, Frames, Places
<1>3. HeldInv /\ HeldApart /\ OwnInv /\ OwnAnswers
  BY DEF EfInit, HeldInv, HeldApart, OwnInv, OwnAnswers, Threads, Holds
<1>4. StrayInv
  <2>1. Stale = {}
    BY DEF Stale, Busy, EfInit, Holds
  <2>2. Credit("loop") = 0 /\ Credit("command") = 0
    BY CreditBounds DEF EfInit, Threads, Holds
  <2>3. Len(efWire) = 0 /\ efTimeouts = 0
    BY DEF EfInit
  <2> QED
    BY <2>1, <2>2, <2>3, FS_EmptySet DEF StrayInv
<1> QED
  BY <1>2, <1>3, <1>4 DEF FrameInv

\* What a step does to the strays: those it adds it pays for.
PaidFor(t) ==
  Cardinality(Stale') + Len(efWire') + efTimeouts + Credit(t) + Credit(Other(t))
    <= Cardinality(Stale) + Len(efWire) + efTimeouts' + Credit(t)' + Credit(Other(t))'

LEMMA NaturalTypes ==
  ASSUME FrameInv, FrameTypes'
  PROVE  /\ Len(efWire) \in Nat /\ Len(efWire') \in Nat
         /\ efTimeouts \in Nat /\ efTimeouts' \in Nat
<1>1. FrameTypes /\ MaxTimeouts \in Nat
  BY FramesAssumption DEF FrameInv
<1>2. efWire \in Seq(Frames) /\ efTimeouts \in 0 .. MaxTimeouts
  BY <1>1 DEF FrameTypes, Places
<1>3. efWire' \in Seq(Frames) /\ efTimeouts' \in 0 .. MaxTimeouts
  BY DEF FrameTypes, Places
<1> QED
  BY <1>1, <1>2, <1>3

LEMMA StrayStep ==
  ASSUME FrameInv, FrameTypes', NEW t \in Threads, PaidFor(t)
  PROVE  StrayInv'
<1> DEFINE c == Credit(t)
           d == Credit(Other(t))
           cc == Credit(t)'
           dd == Credit(Other(t))'
           s == Cardinality(Stale)
           ss == Cardinality(Stale')
<1>1. c \in Int /\ d \in Int /\ cc \in Int /\ dd \in Int
  BY DEF Credit
<1>2. /\ Credit("loop") + Credit("command") = c + d
      /\ (Credit("loop") + Credit("command"))' = cc + dd
  BY BothThreads
<1>3. s \in Nat /\ ss \in Nat
  BY StaleIsFinite
<1>4. /\ Len(efWire) \in Nat /\ Len(efWire') \in Nat
      /\ efTimeouts \in Nat /\ efTimeouts' \in Nat
  BY NaturalTypes
<1>5. s + Len(efWire) <= efTimeouts + (c + d)
  BY <1>2 DEF FrameInv, StrayInv
<1>6. ss + Len(efWire') + efTimeouts + c + d <= s + Len(efWire) + efTimeouts' + cc + dd
  BY DEF PaidFor
<1> HIDE DEF c, d, cc, dd, s, ss
<1>7. ss + Len(efWire') <= efTimeouts' + (cc + dd)
  BY <1>1, <1>3, <1>4, <1>5, <1>6
<1> QED
  BY <1>2, <1>7 DEF StrayInv, ss

LEMMA FewerStale ==
  ASSUME Stale' \subseteq Stale
  PROVE  /\ Cardinality(Stale') <= Cardinality(Stale)
         /\ Cardinality(Stale') \in Nat /\ Cardinality(Stale) \in Nat
BY StaleIsFinite, FS_Subset

\* A thread pays with its own credit for the frames it sends.
Covers(t) ==
  Len(efWire') + efTimeouts + Credit(t) <= Len(efWire) + efTimeouts' + Credit(t)'

LEMMA Pays ==
  ASSUME FrameInv, FrameTypes', NEW t \in Threads, Stale' \subseteq Stale,
         Covers(t), Credit(Other(t))' = Credit(Other(t))
  PROVE  StrayInv'
<1> DEFINE c == Credit(t)
           d == Credit(Other(t))
           cc == Credit(t)'
           dd == Credit(Other(t))'
           s == Cardinality(Stale)
           ss == Cardinality(Stale')
<1>1. c \in Int /\ d \in Int /\ cc \in Int /\ dd = d
  BY DEF Credit
<1>2. s \in Nat /\ ss \in Nat /\ ss <= s
  BY FewerStale
<1>3. /\ Len(efWire) \in Nat /\ Len(efWire') \in Nat
      /\ efTimeouts \in Nat /\ efTimeouts' \in Nat
  BY NaturalTypes
<1>4. Len(efWire') + efTimeouts + c <= Len(efWire) + efTimeouts' + cc
  BY DEF Covers
<1> HIDE DEF c, d, cc, dd, s, ss
<1>5. ss + Len(efWire') + efTimeouts + c + d <= s + Len(efWire) + efTimeouts' + cc + dd
  BY <1>1, <1>2, <1>3, <1>4
<1>6. PaidFor(t)
  BY <1>5 DEF PaidFor, c, d, cc, dd, s, ss
<1> QED
  BY <1>6, StrayStep

LEMMA TakeStep ==
  ASSUME EnoughBuffers, FrameInv, NEW t \in Threads, EfTake(t)
  PROVE  FrameInv'
<1> DEFINE i == NextIndex(efStat, efLast)
           o == Other(t)
<1>1. /\ i \in Indices /\ efStat[i] = "EMPTY" /\ ~OnWire(i)
      /\ efPc[o] # "idle" => efIdx[o] # i
  BY FreshIndex
<1>2. /\ efPc[t] = "idle"
      /\ efStat' = [efStat EXCEPT ![i] = "ALLOC"] /\ efLast' = i
      /\ efIdx' = [efIdx EXCEPT ![t] = i]
      /\ efNumber' = [efNumber EXCEPT ![t] = @ + 1]
      /\ efPc' = [efPc EXCEPT ![t] = "ready"]
      /\ UNCHANGED << efUse, efAhead, efRx, efWire, efTimeouts, efAnswers >>
  BY DEF EfTake, TakeIndex, Allocate
<1> HIDE DEF i, o
<1>3. o \in Threads /\ o # t /\ Threads = {t, o}
  BY BothThreads DEF o
<1>4. FrameTypes'
  <2>1. FrameTypes
    BY DEF FrameInv
  <2>2. efStat' \in [Indices -> {"EMPTY", "ALLOC", "TX", "RCVD", "COMPLETE"}]
        /\ efLast' \in Indices /\ efIdx' \in [Threads -> Indices]
    BY <1>1, <1>2, <2>1 DEF FrameTypes, Places
  <2>3. efNumber' \in [Threads -> Nat]
    BY <1>2, <2>1 DEF FrameTypes, Places
  <2>4. efPc' \in [Threads -> Places]
    BY <1>2, <2>1 DEF FrameTypes, Places
  <2> QED
    BY <1>2, <2>1, <2>2, <2>3, <2>4 DEF FrameTypes, Places
<1>5. /\ efPc'[t] = "ready" /\ efIdx'[t] = i /\ efStat'[i] = "ALLOC"
      /\ efPc'[o] = efPc[o] /\ efIdx'[o] = efIdx[o] /\ Asked(o)' = Asked(o)
      /\ efPc[o] # "idle" => efIdx[o] # i /\ efStat'[efIdx[o]] = efStat[efIdx[o]]
  BY <1>1, <1>2, <1>3 DEF FrameInv, FrameTypes, Asked
<1>6. HeldInv' /\ HeldApart' /\ OwnAnswers'
  <2>1. HeldInv'
    BY <1>3, <1>5 DEF FrameInv, HeldInv, Holds
  <2>2. HeldApart'
    BY <1>3, <1>5 DEF HeldApart, Threads
  <2> QED
    BY <1>2, <2>1, <2>2 DEF FrameInv, OwnAnswers
<1>7. OwnInv'
  BY <1>1, <1>2, <1>3, <1>5 DEF FrameInv, OwnInv, OnWire, Holds
<1>8. Stale' \subseteq Stale
  BY <1>1, <1>2, <1>3, <1>5 DEF Stale, Busy, FrameInv, FrameTypes, Holds, Places
<1>9. Credit(t) = 0 /\ Credit(t)' = 0 /\ Credit(o)' = Credit(o) /\ Credit(o) \in Int
  <2>1. Credit(t) = 0 /\ Credit(o) \in Int
    BY <1>2, <1>3, CreditBounds DEF Holds
  <2>2. Credit(t)' = 0
    BY <1>5 DEF Credit
  <2>3. Credit(o)' = Credit(o)
    BY <1>2, <1>5 DEF Credit, OnWire
  <2> QED
    BY <2>1, <2>2, <2>3
<1>10. Covers(t)
  BY <1>2, <1>4, <1>9, NaturalTypes DEF Covers
<1>11. StrayInv'
  BY <1>4, <1>8, <1>9, <1>10, Pays DEF o
<1> QED
  BY <1>2, <1>4, <1>6, <1>7, <1>11 DEF FrameInv

LEMMA SendStep ==
  ASSUME FrameInv, NEW t \in Threads, EfSend(t)
  PROVE  FrameInv'
<1> DEFINE f == [idx |-> efIdx[t], request |-> Asked(t)]
           o == Other(t)
<1>1. /\ efPc[t] = "ready" /\ efWire' = Append(efWire, f)
      /\ efPc' = [efPc EXCEPT ![t] = "sent"]
      /\ UNCHANGED << efUse, efAhead, efStat, efRx, efLast, efIdx, efNumber, efTimeouts, efAnswers >>
  BY DEF EfSend
<1>2. f \in Frames /\ f.idx = efIdx[t] /\ f.request = Asked(t)
  BY DEF Frames, FrameInv, FrameTypes, Asked, Places
<1> HIDE DEF f, o
<1>3. o \in Threads /\ o # t /\ Threads = {t, o}
  BY BothThreads DEF o
<1>4. /\ efWire \in Seq(Frames) /\ efWire' \in Seq(Frames) /\ Len(efWire') = Len(efWire) + 1
      /\ \A p \in 1 .. Len(efWire) : efWire'[p] = efWire[p]
      /\ efWire'[Len(efWire) + 1] = f
  BY <1>1, <1>2, AppendProperties DEF FrameInv, FrameTypes, Places
<1>5. \A p \in 1 .. Len(efWire') : p \in 1 .. Len(efWire) \/ p = Len(efWire) + 1
  BY <1>4
<1>6. FrameTypes'
  BY <1>1, <1>4 DEF FrameInv, FrameTypes, Places
<1>7. HeldInv' /\ HeldApart' /\ OwnAnswers' /\ efPc'[t] = "sent" /\ efPc'[o] = efPc[o]
  BY <1>1, <1>3 DEF FrameInv, FrameTypes, HeldInv, HeldApart, OwnAnswers, Threads, Holds, Places
<1>8. OwnInv'
  <2> SUFFICES ASSUME NEW u \in Threads, Holds(u)'
               PROVE  /\ \A p \in 1 .. Len(efWire') :
                           efWire'[p].idx = efIdx[u] => efWire'[p].request = Asked(u)
                      /\ (efStat[efIdx[u]] = "RCVD" \/ efPc'[u] = "got") =>
                           efRx[efIdx[u]] = Asked(u)
    BY <1>1 DEF OwnInv, Asked
  <2>1. Holds(u) /\ efPc[u] # "idle" /\ (efPc'[u] = "got" => efPc[u] = "got")
    BY <1>1, <1>3, <1>7 DEF Holds
  <2>2. u = t \/ efIdx[u] # efIdx[t]
    BY <1>1, <1>3, <2>1 DEF FrameInv, HeldApart, Threads
  <2> QED
    BY <1>2, <1>4, <1>5, <2>1, <2>2 DEF FrameInv, OwnInv
<1>9. Stale' \subseteq Stale
  BY <1>1, <1>3, <1>7 DEF Stale, Busy, Holds
<1>10. \A j : OnWire(j)' <=> OnWire(j) \/ j = efIdx[t]
  <2>1. /\ Len(efWire) + 1 \in 1 .. Len(efWire')
        /\ \A p \in 1 .. Len(efWire) : p \in 1 .. Len(efWire')
    BY <1>4
  <2> QED
    BY <1>2, <1>4, <1>5, <2>1 DEF OnWire
<1>11. Credit(t)' = Credit(t) + 1 /\ Credit(t) \in Int
  BY <1>1, <1>7, <1>10 DEF Credit
<1>12. Credit(o)' = Credit(o) /\ Credit(o) \in Int
  <2>1. efPc[o] # "idle" => efIdx[o] # efIdx[t]
    BY <1>1, <1>3 DEF FrameInv, HeldApart, Threads
  <2>2. CASE efPc[o] = "idle"
    BY <1>7, <2>2 DEF Credit
  <2>3. CASE efPc[o] # "idle"
    <3>1. OnWire(efIdx[o])' <=> OnWire(efIdx[o])
      BY <1>1, <1>10, <2>1, <2>3
    <3> QED
      BY <1>1, <1>7, <3>1 DEF Credit
  <2> QED
    BY <2>2, <2>3
<1>13. Covers(t)
  BY <1>1, <1>4, <1>6, <1>11, NaturalTypes DEF Covers
<1>14. StrayInv'
  BY <1>6, <1>9, <1>12, <1>13, Pays DEF o
<1> QED
  BY <1>1, <1>6, <1>7, <1>8, <1>14 DEF FrameInv

\* The step of a thread that changes nothing but its own buffer's mark and its own place
\* leaves what the other is owed alone.
LEMMA OthersCredit ==
  ASSUME FrameInv, NEW t \in Threads, NEW s, NEW c, efPc[t] # "idle",
         efStat' = [efStat EXCEPT ![efIdx[t]] = s],
         efPc' = [efPc EXCEPT ![t] = c], efIdx' = efIdx, efWire' = efWire
  PROVE  Credit(Other(t))' = Credit(Other(t))
<1> DEFINE o == Other(t)
<1>1. o \in Threads /\ o # t
  BY BothThreads
<1> HIDE DEF o
<1>2. efPc'[o] = efPc[o] /\ (efPc[o] # "idle" => efIdx[o] # efIdx[t])
  BY <1>1 DEF FrameInv, FrameTypes, HeldApart, Threads, Places
<1>3. efPc[o] # "idle" => efStat'[efIdx[o]] = efStat[efIdx[o]]
  BY <1>1, <1>2 DEF FrameInv, FrameTypes, Places
<1>4. OnWire(efIdx[o])' <=> OnWire(efIdx[o])
  BY DEF OnWire
<1> QED
  BY <1>2, <1>3, <1>4 DEF Credit, o

LEMMA MarkStep ==
  ASSUME FrameInv, NEW t \in Threads, EfMark(t)
  PROVE  FrameInv'
<1> DEFINE o == Other(t)
           c == IF t = "loop" THEN "out" ELSE "wait"
<1>1. /\ efPc[t] = "sent" /\ efStat' = [efStat EXCEPT ![efIdx[t]] = "TX"]
      /\ efPc' = [efPc EXCEPT ![t] = c]
      /\ UNCHANGED << efUse, efAhead, efRx, efLast, efWire, efIdx, efNumber, efTimeouts, efAnswers >>
  BY DEF EfMark
<1> c \in {"out", "wait"}
  OBVIOUS
<1> HIDE DEF o, c
<1>2. o \in Threads /\ o # t /\ Threads = {t, o}
  BY BothThreads DEF o
<1>3. FrameTypes'
  BY <1>1 DEF FrameInv, FrameTypes, Places
<1>4. /\ efPc'[t] = c /\ efPc'[o] = efPc[o] /\ efStat'[efIdx[t]] = "TX"
      /\ efPc[o] # "idle" => efIdx[o] # efIdx[t] /\ efStat'[efIdx[o]] = efStat[efIdx[o]]
  BY <1>1, <1>2 DEF FrameInv, FrameTypes, HeldApart, Threads, Places
<1>5. HeldInv' /\ HeldApart' /\ OwnAnswers'
  BY <1>1, <1>2, <1>4 DEF FrameInv, HeldInv, HeldApart, OwnAnswers, Threads, Holds
<1>6. OwnInv'
  BY <1>1, <1>2, <1>4 DEF FrameInv, OwnInv, Asked, Holds
<1>7. Stale' \subseteq Stale
  BY <1>1, <1>2, <1>4 DEF Stale, Busy, FrameInv, FrameTypes, Holds, Places
<1>8. Covers(t)
  <2>1. Credit(t) <= Credit(t)' /\ Credit(t) \in Int /\ Credit(t)' \in Int
    BY <1>1, <1>4 DEF Credit, OnWire
  <2> QED
    BY <1>1, <1>3, <2>1, NaturalTypes DEF Covers
<1>9. StrayInv'
  BY <1>1, <1>3, <1>7, <1>8, OthersCredit, Pays
<1> QED
  BY <1>1, <1>3, <1>5, <1>6, <1>9 DEF FrameInv

LEMMA FindStep ==
  ASSUME FrameInv, NEW t \in Threads, EfFind(t)
  PROVE  FrameInv'
<1> DEFINE o == Other(t)
<1>1. /\ efPc[t] = "wait" /\ efStat[efIdx[t]] = "RCVD"
      /\ efStat' = [efStat EXCEPT ![efIdx[t]] = "COMPLETE"]
      /\ efPc' = [efPc EXCEPT ![t] = "got"]
      /\ UNCHANGED << efUse, efAhead, efRx, efLast, efWire, efIdx, efNumber, efTimeouts, efAnswers >>
  BY DEF EfFind
<1> HIDE DEF o
<1>2. o \in Threads /\ o # t /\ Threads = {t, o}
  BY BothThreads DEF o
<1>3. FrameTypes'
  BY <1>1 DEF FrameInv, FrameTypes, Places
<1>4. /\ efPc'[t] = "got" /\ efPc'[o] = efPc[o] /\ efStat'[efIdx[t]] = "COMPLETE"
      /\ efPc[o] # "idle" => efIdx[o] # efIdx[t] /\ efStat'[efIdx[o]] = efStat[efIdx[o]]
  BY <1>1, <1>2 DEF FrameInv, FrameTypes, HeldApart, Threads, Places
<1>5. HeldInv' /\ HeldApart' /\ OwnAnswers'
  BY <1>1, <1>2, <1>4 DEF FrameInv, HeldInv, HeldApart, OwnAnswers, Threads, Holds
<1>6. OwnInv'
  BY <1>1, <1>2, <1>4 DEF FrameInv, OwnInv, Asked, Holds
<1>7. Stale' \subseteq Stale
  BY <1>1, <1>2, <1>4 DEF Stale, Busy, FrameInv, FrameTypes, Holds, Places
<1>8. Covers(t)
  <2>1. Credit(t) = 0 /\ Credit(t)' = 0
    BY <1>1, <1>4 DEF Credit
  <2> QED
    BY <1>1, <1>3, <2>1, NaturalTypes DEF Covers
<1>9. StrayInv'
  BY <1>1, <1>3, <1>7, <1>8, OthersCredit, Pays
<1> QED
  BY <1>1, <1>3, <1>5, <1>6, <1>9 DEF FrameInv

LEMMA ReleaseStep ==
  ASSUME FrameInv, NEW t \in Threads, EfRelease(t)
  PROVE  FrameInv'
<1> DEFINE o == Other(t)
<1>1. /\ efPc[t] = "got"
      /\ efAnswers' = efAnswers \cup {[asked |-> Asked(t), answered |-> efRx[efIdx[t]]]}
      /\ efStat' = [efStat EXCEPT ![efIdx[t]] = "EMPTY"]
      /\ efPc' = [efPc EXCEPT ![t] = "idle"]
      /\ UNCHANGED << efUse, efAhead, efRx, efLast, efWire, efIdx, efNumber, efTimeouts >>
  BY DEF EfRelease
<1> HIDE DEF o
<1>2. o \in Threads /\ o # t /\ Threads = {t, o}
  BY BothThreads DEF o
<1>3. FrameTypes'
  BY <1>1 DEF FrameInv, FrameTypes, Places
<1>4. /\ efPc'[t] = "idle" /\ efPc'[o] = efPc[o] /\ efStat'[efIdx[t]] = "EMPTY"
      /\ efPc[o] # "idle" => efIdx[o] # efIdx[t] /\ efStat'[efIdx[o]] = efStat[efIdx[o]]
  BY <1>1, <1>2 DEF FrameInv, FrameTypes, HeldApart, Threads, Places
<1>5. HeldInv' /\ HeldApart'
  BY <1>1, <1>2, <1>4 DEF FrameInv, HeldInv, HeldApart, Threads, Holds
<1>6. OwnAnswers'
  <2>1. efRx[efIdx[t]] = Asked(t) /\ OwnAnswers
    BY <1>1 DEF FrameInv, OwnInv, Holds
  <2> QED
    BY <1>1, <2>1 DEF OwnAnswers
<1>7. OwnInv'
  BY <1>1, <1>2, <1>4 DEF FrameInv, OwnInv, Asked, Holds
<1>8. Stale' \subseteq Stale
  BY <1>1, <1>2, <1>4 DEF Stale, Busy, FrameInv, FrameTypes, Holds, Places
<1>9. Covers(t)
  <2>1. Credit(t) = 0 /\ Credit(t)' = 0
    BY <1>1, <1>4 DEF Credit
  <2> QED
    BY <1>1, <1>3, <2>1, NaturalTypes DEF Covers
<1>10. StrayInv'
  BY <1>1, <1>3, <1>8, <1>9, OthersCredit, Pays
<1> QED
  BY <1>1, <1>3, <1>5, <1>6, <1>7, <1>10 DEF FrameInv

LEMMA GiveUpStep ==
  ASSUME FrameInv, NEW t \in Threads, EfGiveUp(t)
  PROVE  FrameInv'
<1> DEFINE o == Other(t)
<1>1. /\ efPc[t] = "wait" /\ efTimeouts < MaxTimeouts
      /\ efStat' = [efStat EXCEPT ![efIdx[t]] = "EMPTY"]
      /\ efPc' = [efPc EXCEPT ![t] = "late"]
      /\ efTimeouts' = efTimeouts + 1
      /\ UNCHANGED << efUse, efAhead, efRx, efLast, efWire, efIdx, efNumber, efAnswers >>
  BY DEF EfGiveUp
<1> HIDE DEF o
<1>2. o \in Threads /\ o # t /\ Threads = {t, o}
  BY BothThreads DEF o
<1>3. FrameTypes'
  <2>1. FrameTypes
    BY DEF FrameInv
  <2>2. efTimeouts' \in 0 .. MaxTimeouts
    BY <1>1, <2>1, FramesAssumption DEF FrameTypes, Places
  <2> QED
    BY <1>1, <2>1, <2>2 DEF FrameTypes, Places
<1>4. /\ efPc'[t] = "late" /\ efPc'[o] = efPc[o] /\ efStat'[efIdx[t]] = "EMPTY"
      /\ efPc[o] # "idle" => efIdx[o] # efIdx[t] /\ efStat'[efIdx[o]] = efStat[efIdx[o]]
  BY <1>1, <1>2 DEF FrameInv, FrameTypes, HeldApart, Threads, Places
<1>5. HeldInv' /\ HeldApart' /\ OwnAnswers'
  BY <1>1, <1>2, <1>4 DEF FrameInv, HeldInv, HeldApart, OwnAnswers, Threads, Holds
<1>6. OwnInv'
  BY <1>1, <1>2, <1>4 DEF FrameInv, OwnInv, Asked, Holds
<1>7. Stale' \subseteq Stale
  BY <1>1, <1>2, <1>4 DEF Stale, Busy, FrameInv, FrameTypes, Holds, Places
<1>8. Covers(t)
  <2>1. Credit(t) \in {0, 1} /\ Credit(t)' = 0
    BY <1>1, <1>4 DEF Credit
  <2> QED
    BY <1>1, <1>3, <2>1, NaturalTypes DEF Covers
<1>9. StrayInv'
  BY <1>1, <1>3, <1>7, <1>8, OthersCredit, Pays
<1> QED
  BY <1>1, <1>3, <1>5, <1>6, <1>9 DEF FrameInv

LEMMA ReleaseAgainStep ==
  ASSUME FrameInv, NEW t \in Threads, EfReleaseAgain(t)
  PROVE  FrameInv'
<1> DEFINE o == Other(t)
<1>1. /\ efPc[t] = "late" /\ efStat' = [efStat EXCEPT ![efIdx[t]] = "EMPTY"]
      /\ efPc' = [efPc EXCEPT ![t] = "idle"]
      /\ UNCHANGED << efUse, efAhead, efRx, efLast, efWire, efIdx, efNumber, efTimeouts, efAnswers >>
  BY DEF EfReleaseAgain
<1> HIDE DEF o
<1>2. o \in Threads /\ o # t /\ Threads = {t, o}
  BY BothThreads DEF o
<1>3. FrameTypes'
  BY <1>1 DEF FrameInv, FrameTypes, Places
<1>4. /\ efPc'[t] = "idle" /\ efPc'[o] = efPc[o] /\ efStat'[efIdx[t]] = "EMPTY"
      /\ efPc[o] # "idle" => efIdx[o] # efIdx[t] /\ efStat'[efIdx[o]] = efStat[efIdx[o]]
  BY <1>1, <1>2 DEF FrameInv, FrameTypes, HeldApart, Threads, Places
<1>5. HeldInv' /\ HeldApart' /\ OwnAnswers'
  BY <1>1, <1>2, <1>4 DEF FrameInv, HeldInv, HeldApart, OwnAnswers, Threads, Holds
<1>6. OwnInv'
  BY <1>1, <1>2, <1>4 DEF FrameInv, OwnInv, Asked, Holds
<1>7. Stale' \subseteq Stale
  BY <1>1, <1>2, <1>4 DEF Stale, Busy, FrameInv, FrameTypes, Holds, Places
<1>8. Covers(t)
  <2>1. Credit(t) = 0 /\ Credit(t)' = 0
    BY <1>1, <1>4 DEF Credit
  <2> QED
    BY <1>1, <1>3, <2>1, NaturalTypes DEF Covers
<1>9. StrayInv'
  BY <1>1, <1>3, <1>7, <1>8, OthersCredit, Pays
<1> QED
  BY <1>1, <1>3, <1>5, <1>6, <1>9 DEF FrameInv

LEMMA EnterStep ==
  ASSUME FrameInv, EfEnter
  PROVE  FrameInv'
<1> DEFINE t == "loop"
           o == "command"
<1>1. /\ efPc[t] = "out" /\ efPc' = [efPc EXCEPT ![t] = "wait"] /\ efAhead' = 0
      /\ UNCHANGED << efUse, efStat, efRx, efLast, efWire, efIdx, efNumber, efTimeouts, efAnswers >>
  BY DEF EfEnter
<1>2. o \in Threads /\ t \in Threads /\ o # t /\ Threads = {t, o} /\ Other(t) = o
  BY DEF Threads, Other
<1> HIDE DEF t, o
<1>3. FrameTypes'
  BY <1>1 DEF FrameInv, FrameTypes, Places
<1>4. efPc'[t] = "wait" /\ efPc'[o] = efPc[o]
  BY <1>1, <1>2 DEF FrameInv, FrameTypes, Places
<1>5. HeldInv' /\ HeldApart' /\ OwnAnswers'
  BY <1>1, <1>2, <1>4 DEF FrameInv, HeldInv, HeldApart, OwnAnswers, Threads, Holds
<1>6. OwnInv'
  BY <1>1, <1>2, <1>4 DEF FrameInv, OwnInv, Asked, Holds
<1>7. Stale' \subseteq Stale
  BY <1>1, <1>2, <1>4 DEF Stale, Busy, Holds
<1>8. Covers(t)
  <2>1. Credit(t)' = Credit(t) /\ Credit(t) \in Int
    BY <1>1, <1>4 DEF Credit, OnWire
  <2> QED
    BY <1>1, <1>3, <2>1, NaturalTypes DEF Covers
<1>9. Credit(o)' = Credit(o)
  BY <1>1, <1>4 DEF Credit, OnWire
<1>10. StrayInv'
  BY <1>2, <1>3, <1>7, <1>8, <1>9, Pays
<1> QED
  BY <1>1, <1>3, <1>5, <1>6, <1>10 DEF FrameInv

LEMMA RetryStep ==
  ASSUME FrameInv, EfRetry
  PROVE  FrameInv'
<1> DEFINE t == "command"
           o == "loop"
<1>1. /\ efPc[t] = "wait" /\ efTimeouts < MaxTimeouts
      /\ efPc' = [efPc EXCEPT ![t] = "ready"]
      /\ efTimeouts' = efTimeouts + 1
      /\ UNCHANGED << efUse, efAhead, efStat, efRx, efLast, efWire, efIdx, efNumber, efAnswers >>
  BY DEF EfRetry
<1>2. o \in Threads /\ t \in Threads /\ o # t /\ Threads = {t, o} /\ Other(t) = o
  BY DEF Threads, Other
<1> HIDE DEF t, o
<1>3. FrameTypes'
  <2>1. FrameTypes
    BY DEF FrameInv
  <2>2. efTimeouts' \in 0 .. MaxTimeouts
    BY <1>1, <2>1, FramesAssumption DEF FrameTypes, Places
  <2> QED
    BY <1>1, <2>1, <2>2 DEF FrameTypes, Places
<1>4. efPc'[t] = "ready" /\ efPc'[o] = efPc[o]
  BY <1>1, <1>2 DEF FrameInv, FrameTypes, Places
<1>5. HeldInv' /\ HeldApart' /\ OwnAnswers'
  BY <1>1, <1>2, <1>4 DEF FrameInv, HeldInv, HeldApart, OwnAnswers, Threads, Holds
<1>6. OwnInv'
  BY <1>1, <1>2, <1>4 DEF FrameInv, OwnInv, Asked, Holds
<1>7. Stale' \subseteq Stale
  BY <1>1, <1>2, <1>4 DEF Stale, Busy, Holds
<1>8. Covers(t)
  <2>1. Credit(t) <= Credit(t)' + 1 /\ Credit(t) \in Int /\ Credit(t)' \in Int
    BY <1>1, <1>4 DEF Credit
  <2> QED
    BY <1>1, <1>3, <2>1, NaturalTypes DEF Covers
<1>9. Credit(o)' = Credit(o)
  BY <1>1, <1>4 DEF Credit, OnWire
<1>10. StrayInv'
  BY <1>2, <1>3, <1>7, <1>8, <1>9, Pays
<1> QED
  BY <1>1, <1>3, <1>5, <1>6, <1>10 DEF FrameInv

LEMMA ReceiveStep ==
  ASSUME FrameInv, NEW t \in Threads, EfReceive(t)
  PROVE  FrameInv'
<1> DEFINE o == Other(t)
           f == Head(efWire)
           mark == IF f.idx = efIdx[t] THEN "COMPLETE" ELSE "RCVD"
<1>1. /\ efPc[t] = "wait" /\ efStat[efIdx[t]] # "RCVD" /\ efWire # << >>
      /\ efWire' = Tail(efWire)
      /\ efRx' = [efRx EXCEPT ![f.idx] = f.request]
      /\ efStat' = [efStat EXCEPT ![f.idx] = mark]
      /\ efPc' = [efPc EXCEPT ![t] = IF f.idx = efIdx[t] THEN "got" ELSE "wait"]
      /\ UNCHANGED << efUse, efAhead, efLast, efIdx, efNumber, efTimeouts, efAnswers >>
  BY DEF EfReceive
<1>2. /\ efWire \in Seq(Frames) /\ efWire' \in Seq(Frames)
      /\ Len(efWire) \in Nat /\ Len(efWire') = Len(efWire) - 1 /\ Len(efWire) >= 1
      /\ f \in Frames /\ f = efWire[1]
      /\ \A p \in 1 .. Len(efWire) - 1 : efWire'[p] = efWire[p + 1]
  BY <1>1, HeadTailProperties DEF FrameInv, FrameTypes, Places
<1>3. f.idx \in Indices /\ f.request \in [thread : Threads, number : Nat]
  BY <1>2 DEF Frames
<1> HIDE DEF o, f
<1>4. o \in Threads /\ o # t /\ Threads = {t, o}
  BY BothThreads DEF o
<1>5. FrameTypes'
  <2>1. FrameTypes
    BY DEF FrameInv
  <2>2. efStat' \in [Indices -> {"EMPTY", "ALLOC", "TX", "RCVD", "COMPLETE"}]
        /\ efRx' \in [Indices -> [thread : Threads, number : Nat]]
    BY <1>1, <1>3, <2>1 DEF FrameTypes, Places
  <2>3. efPc' \in [Threads -> Places]
    BY <1>1, <2>1 DEF FrameTypes, Places
  <2> QED
    BY <1>1, <1>2, <2>1, <2>2, <2>3 DEF FrameTypes, Places
<1>6. /\ efStat'[f.idx] = mark /\ \A j \in Indices : j # f.idx => efStat'[j] = efStat[j]
      /\ efRx'[f.idx] = f.request /\ \A j \in Indices : j # f.idx => efRx'[j] = efRx[j]
      /\ efPc'[o] = efPc[o]
      /\ efPc'[t] = IF f.idx = efIdx[t] THEN "got" ELSE "wait"
      /\ efIdx[t] \in Indices /\ efIdx[o] \in Indices
      /\ efPc[o] # "idle" => efIdx[o] # efIdx[t]
  BY <1>1, <1>3, <1>4 DEF FrameInv, FrameTypes, HeldApart, Threads, Places
<1>7. HeldInv' /\ HeldApart' /\ OwnAnswers'
  BY <1>1, <1>4, <1>6 DEF FrameInv, HeldInv, HeldApart, OwnAnswers, Threads, Holds
<1>8. \A p \in 1 .. Len(efWire') : \E q \in 1 .. Len(efWire) : efWire'[p] = efWire[q]
  <2> SUFFICES ASSUME NEW p \in 1 .. Len(efWire')
               PROVE  \E q \in 1 .. Len(efWire) : efWire'[p] = efWire[q]
    OBVIOUS
  <2>1. p \in 1 .. Len(efWire) - 1 /\ p + 1 \in 1 .. Len(efWire)
    BY <1>2
  <2> QED
    BY <1>2, <2>1
<1>9. OwnInv'
  <2> SUFFICES ASSUME NEW u \in Threads, Holds(u)'
               PROVE  /\ \A p \in 1 .. Len(efWire') :
                           efWire'[p].idx = efIdx[u] => efWire'[p].request = Asked(u)
                      /\ (efStat'[efIdx[u]] = "RCVD" \/ efPc'[u] = "got") =>
                           efRx'[efIdx[u]] = Asked(u)
    BY <1>1 DEF OwnInv, Asked
  <2>1. Holds(u) /\ efIdx[u] \in Indices
    BY <1>1, <1>4, <1>6 DEF Holds
  <2>2. /\ \A p \in 1 .. Len(efWire) :
             efWire[p].idx = efIdx[u] => efWire[p].request = Asked(u)
        /\ (efStat[efIdx[u]] = "RCVD" \/ efPc[u] = "got") => efRx[efIdx[u]] = Asked(u)
    BY <2>1 DEF FrameInv, OwnInv
  <2>3. \A p \in 1 .. Len(efWire') :
          efWire'[p].idx = efIdx[u] => efWire'[p].request = Asked(u)
    BY <1>8, <2>2
  <2>4. CASE f.idx = efIdx[u]
    <3>1. 1 \in 1 .. Len(efWire)
      BY <1>2
    <3>2. f.request = Asked(u)
      BY <1>2, <2>2, <2>4, <3>1
    <3> QED
      BY <1>6, <2>3, <2>4, <3>2
  <2>5. CASE f.idx # efIdx[u]
    BY <1>4, <1>6, <2>1, <2>2, <2>3, <2>5
  <2> QED
    BY <2>4, <2>5
<1>10. OnWire(f.idx) /\ \A j : j # f.idx => (OnWire(j)' <=> OnWire(j))
  <2>1. OnWire(f.idx)
    BY <1>2 DEF OnWire
  <2>2. ASSUME NEW j, j # f.idx, OnWire(j) PROVE OnWire(j)'
    <3>1. PICK p \in 1 .. Len(efWire) : efWire[p].idx = j
      BY <2>2 DEF OnWire
    <3>2. p # 1
      BY <1>2, <2>2, <3>1
    <3>3. p - 1 \in 1 .. Len(efWire) - 1 /\ (p - 1) + 1 = p
      BY <1>2, <3>2
    <3>4. efWire'[p - 1] = efWire[p]
      BY <1>2, <3>3
    <3> QED
      BY <1>2, <3>1, <3>3, <3>4 DEF OnWire
  <2>3. ASSUME NEW j, OnWire(j)' PROVE OnWire(j)
    BY <1>8, <2>3 DEF OnWire
  <2> QED
    BY <2>1, <2>2, <2>3
<1>11. \A u \in Threads : f.idx # efIdx[u] => Credit(u)' = Credit(u)
  <2> SUFFICES ASSUME NEW u \in Threads, f.idx # efIdx[u] PROVE Credit(u)' = Credit(u)
    OBVIOUS
  <2>1. efPc'[u] = efPc[u] /\ efStat'[efIdx[u]] = efStat[efIdx[u]]
    BY <1>1, <1>4, <1>6
  <2>2. OnWire(efIdx[u])' <=> OnWire(efIdx[u])
    BY <1>1, <1>10
  <2> QED
    BY <1>1, <2>1, <2>2 DEF Credit
<1>12. Stale' \subseteq Stale \cup {f.idx}
  <2> SUFFICES ASSUME NEW j \in Stale', j # f.idx PROVE j \in Stale
    OBVIOUS
  <2>1. j \in Indices /\ efStat'[j] = efStat[j] /\ j \in Busy
    BY <1>6 DEF Stale, Busy, Holds
  <2>2. \A u \in Threads : efPc[u] # "idle" => efPc'[u] # "idle"
    BY <1>4, <1>6
  <2> QED
    BY <1>1, <2>1, <2>2 DEF Stale, Holds
<1>13. StrayInv'
  <2>1. CASE f.idx = efIdx[t]
    <3>1. Stale' \subseteq Stale
      BY <1>1, <1>6, <1>12, <2>1 DEF Stale, Holds
    <3>2. Credit(o)' = Credit(o)
      <4>1. CASE efPc[o] = "idle"
        BY <1>6, <4>1 DEF Credit
      <4>2. CASE efPc[o] # "idle"
        BY <1>4, <1>6, <1>11, <2>1, <4>2
      <4> QED
        BY <4>1, <4>2
    <3>3. Credit(t) = 1 /\ Credit(t)' = 0
      BY <1>1, <1>6, <1>10, <2>1 DEF Credit
    <3>4. Covers(t)
      BY <1>1, <1>2, <1>5, <3>3, NaturalTypes DEF Covers
    <3> QED
      BY <1>5, <3>1, <3>2, <3>4, Pays DEF o
  <2>2. CASE f.idx # efIdx[t] /\ f.idx = efIdx[o] /\ Holds(o)
    <3>1. Stale' \subseteq Stale
      BY <1>1, <1>4, <1>6, <1>12, <2>2 DEF Stale, Holds
    <3>2. Credit(t)' = Credit(t)
      BY <1>11, <2>2
    <3>3. Credit(o) \in {-1, 0, 1} /\ Credit(o)' \in {-1, 0} /\ Credit(o) <= Credit(o)' + 1
      BY <1>1, <1>6, <2>2 DEF Credit
    <3>4. Covers(o)
      BY <1>1, <1>2, <1>5, <3>3, NaturalTypes DEF Covers
    <3>5. Other(o) = t
      BY DEF Other, Threads, o
    <3> QED
      BY <1>4, <1>5, <3>1, <3>2, <3>4, <3>5, Pays
  <2>3. CASE f.idx # efIdx[t] /\ (f.idx # efIdx[o] \/ ~Holds(o))
    <3>1. Credit(t)' = Credit(t) /\ Credit(o)' = Credit(o)
      <4>1. CASE ~Holds(o)
        BY <1>6, <1>11, <2>3, <4>1 DEF Credit, Holds
      <4>2. CASE Holds(o)
        BY <1>4, <1>11, <2>3, <4>2
      <4> QED
        BY <4>1, <4>2
    <3>2. Cardinality(Stale') <= Cardinality(Stale) + 1
          /\ Cardinality(Stale') \in Nat /\ Cardinality(Stale) \in Nat
      <4>1. /\ IsFiniteSet(Stale \cup {f.idx}) /\ Cardinality(Stale \cup {f.idx}) \in Nat
            /\ Cardinality(Stale \cup {f.idx}) <= Cardinality(Stale) + 1
        BY StaleIsFinite, OneMore
      <4>2. Cardinality(Stale') <= Cardinality(Stale \cup {f.idx})
        BY <1>12, <4>1, FS_Subset
      <4> QED
        BY <4>1, <4>2, StaleIsFinite
    <3>3. Credit(t) \in Int /\ Credit(o) \in Int
      BY <1>4, CreditBounds
    <3>4. PaidFor(t)
      <4> DEFINE s == Cardinality(Stale)
                 ss == Cardinality(Stale')
                 c == Credit(t)
                 d == Credit(o)
      <4>1. ss <= s + 1 /\ ss \in Nat /\ s \in Nat /\ c \in Int /\ d \in Int
        BY <3>2, <3>3
      <4> HIDE DEF s, ss, c, d
      <4>2. ss + Len(efWire') + efTimeouts + c + d <= s + Len(efWire) + efTimeouts' + c + d
        BY <1>1, <1>2, <1>5, <4>1, NaturalTypes
      <4> QED
        BY <3>1, <4>2 DEF PaidFor, s, ss, c, d, o
    <3> QED
      BY <1>5, <3>4, StrayStep
  <2> QED
    BY <2>1, <2>2, <2>3
<1> QED
  BY <1>1, <1>5, <1>7, <1>9, <1>13 DEF FrameInv

LEMMA LoseStep ==
  ASSUME FrameInv, EfLose
  PROVE  FrameInv'
<1>1. PICK p \in 1 .. Len(efWire) : efWire' = RemoveAt(efWire, p)
  BY DEF EfLose
<1>2. UNCHANGED << efUse, efAhead, efStat, efRx, efLast, efPc, efIdx, efNumber, efTimeouts, efAnswers >>
  BY DEF EfLose
<1> DEFINE lost == efWire[p].idx
<1>3. /\ efWire \in Seq(Frames) /\ efWire' \in Seq(Frames)
      /\ Len(efWire) \in Nat /\ Len(efWire') = Len(efWire) - 1
      /\ \A q \in 1 .. Len(efWire') : \E r \in 1 .. Len(efWire) : efWire'[q] = efWire[r]
      /\ \A r \in 1 .. Len(efWire) : r # p => \E q \in 1 .. Len(efWire') : efWire'[q] = efWire[r]
  <2>1. efWire \in Seq(Frames) /\ Len(efWire) \in Nat
    BY DEF FrameInv, FrameTypes, Places
  <2> DEFINE rest == RemoveAt(efWire, p)
  <2>2. /\ rest \in Seq(Frames) /\ Len(rest) = Len(efWire) - 1
        /\ \A q \in 1 .. Len(efWire) - 1 : \E r \in 1 .. Len(efWire) : rest[q] = efWire[r]
        /\ \A r \in 1 .. Len(efWire) : r # p =>
             \E q \in 1 .. Len(efWire) - 1 : rest[q] = efWire[r]
    BY <2>1, FrameLeaves
  <2>3. efWire' = rest
    BY <1>1
  <2> HIDE DEF rest
  <2> QED
    BY <2>1, <2>2, <2>3
<1>4. \A j : j # lost => (OnWire(j)' <=> OnWire(j))
  <2>1. ASSUME NEW j, OnWire(j)' PROVE OnWire(j)
    BY <1>3, <2>1 DEF OnWire
  <2>2. ASSUME NEW j, j # lost, OnWire(j) PROVE OnWire(j)'
    <3>1. PICK r \in 1 .. Len(efWire) : efWire[r].idx = j
      BY <2>2 DEF OnWire
    <3>2. r # p
      BY <2>2, <3>1
    <3> QED
      BY <1>3, <3>1, <3>2 DEF OnWire
  <2> QED
    BY <2>1, <2>2
<1> HIDE DEF lost
<1>5. FrameTypes'
  BY <1>2, <1>3 DEF FrameInv, FrameTypes, Places
<1>6. HeldInv' /\ HeldApart' /\ OwnAnswers'
  BY <1>2 DEF FrameInv, HeldInv, HeldApart, OwnAnswers, Holds
<1>7. OwnInv'
  <2> SUFFICES ASSUME NEW u \in Threads, Holds(u)
               PROVE  /\ \A q \in 1 .. Len(efWire') :
                           efWire'[q].idx = efIdx[u] => efWire'[q].request = Asked(u)
                      /\ (efStat[efIdx[u]] = "RCVD" \/ efPc[u] = "got") =>
                           efRx[efIdx[u]] = Asked(u)
    BY <1>2 DEF OwnInv, Asked, Holds
  <2> QED
    BY <1>3 DEF FrameInv, OwnInv
<1>8. Stale' \subseteq Stale
  BY <1>2 DEF Stale, Busy, Holds
<1>9. \A u \in Threads : (efPc[u] = "idle" \/ efIdx[u] # lost) => Credit(u)' = Credit(u)
  <2>1. ASSUME NEW u \in Threads, efPc[u] = "idle" PROVE Credit(u)' = Credit(u)
    BY <1>2, <2>1 DEF Credit
  <2>2. ASSUME NEW u \in Threads, efIdx[u] # lost PROVE Credit(u)' = Credit(u)
    <3>1. OnWire(efIdx[u])' <=> OnWire(efIdx[u])
      BY <1>2, <1>4, <2>2
    <3> QED
      BY <1>2, <3>1 DEF Credit
  <2> QED
    BY <2>1, <2>2
<1>10. \A u \in Threads : Covers(u)
  <2> SUFFICES ASSUME NEW u \in Threads PROVE Covers(u)
    OBVIOUS
  <2>1. Credit(u) <= Credit(u)' + 1 /\ Credit(u) \in Int /\ Credit(u)' \in Int
    BY <1>2 DEF Credit
  <2> QED
    BY <1>2, <1>3, <1>5, <2>1, NaturalTypes DEF Covers
<1>11. \E t \in Threads : Credit(Other(t))' = Credit(Other(t))
  <2>1. CASE efPc["loop"] # "idle" /\ efIdx["loop"] = lost
    <3>1. efPc["command"] = "idle" \/ efIdx["command"] # lost
      BY <2>1 DEF FrameInv, HeldApart, Threads
    <3> QED
      BY <1>9, <3>1 DEF Threads, Other
  <2>2. CASE efPc["loop"] = "idle" \/ efIdx["loop"] # lost
    BY <1>9, <2>2 DEF Threads, Other
  <2> QED
    BY <2>1, <2>2
<1>12. StrayInv'
  BY <1>5, <1>8, <1>10, <1>11, Pays
<1> QED
  BY <1>2, <1>5, <1>6, <1>7, <1>12 DEF FrameInv

LEMMA FrameStep ==
  ASSUME EnoughBuffers, FrameInv, [EfNext]_efVars
  PROVE  FrameInv'
<1>1. ASSUME NEW t \in Threads, EfTake(t) PROVE FrameInv'
  BY <1>1, TakeStep
<1>2. ASSUME NEW t \in Threads, EfSend(t) PROVE FrameInv'
  BY <1>2, SendStep
<1>3. ASSUME NEW t \in Threads, EfMark(t) PROVE FrameInv'
  BY <1>3, MarkStep
<1>4. ASSUME NEW t \in Threads, EfFind(t) PROVE FrameInv'
  BY <1>4, FindStep
<1>5. ASSUME NEW t \in Threads, EfReceive(t) PROVE FrameInv'
  BY <1>5, ReceiveStep
<1>6. ASSUME NEW t \in Threads, EfRelease(t) PROVE FrameInv'
  BY <1>6, ReleaseStep
<1>7. ASSUME NEW t \in Threads, EfGiveUp(t) PROVE FrameInv'
  BY <1>7, GiveUpStep
<1>8. CASE EfRetry
  BY <1>8, RetryStep
<1>9. CASE EfLose
  BY <1>9, LoseStep
<1>10. ASSUME NEW t \in Threads, EfReleaseAgain(t) PROVE FrameInv'
  BY <1>10, ReleaseAgainStep
<1>11. CASE EfEnter
  BY <1>11, EnterStep
<1>12. ~EfTakeAgain
  BY DEF EfTakeAgain, FrameInv, FrameTypes
<1>13. CASE UNCHANGED efVars
  BY <1>13 DEF efVars, FrameInv, FrameTypes, StrayInv, HeldInv, HeldApart, OwnInv, Holds, Places,
               OwnAnswers, Asked, Stale, Busy, Credit, OnWire
<1> QED
  BY <1>1, <1>2, <1>3, <1>4, <1>5, <1>6, <1>7, <1>8, <1>9, <1>10, <1>11,
     <1>12, <1>13 DEF EfNext

----------------------------------------------------------------------------
(* A loop alone on the bus that may send twice before it receives.         *)

Solo == efUse.threads = {"loop"} /\ efUse.ahead = 1

\* The loop's frame is the last on the bus, after no more than the one that was forgotten.
LastSent ==
  LET pc == efPc["loop"]
      i == efIdx["loop"]
  IN  /\ efPc["command"] = "idle" /\ pc # "late"
      /\ pc \in {"idle", "got"} => efWire = << >>
      /\ pc \in {"idle", "wait", "got"} => efAhead = 0
      /\ pc # "idle" => efLast = i
      /\ pc \in {"ready", "sent", "out", "wait"} => efStat[i] \in {"ALLOC", "TX"}
      /\ pc = "ready" =>
           /\ \A p \in 1 .. Len(efWire) : efWire[p].idx # i
           /\ efAhead = 0 => efWire = << >>
      /\ pc \in {"sent", "out", "wait"} =>
           \A p \in 1 .. Len(efWire) : efWire[p].idx = i =>
             p = Len(efWire) /\ efWire[p].request = Asked("loop")
      /\ pc \in {"sent", "out"} /\ efAhead = 0 =>
           \A p \in 1 .. Len(efWire) : efWire[p].idx = i
      /\ pc = "got" => efRx[i] = Asked("loop")

SoloInv ==
  /\ Solo /\ efTimeouts \in Nat
  /\ efTimeouts = 0 => FrameTypes /\ LastSent /\ OwnAnswers

\* The index the loop takes is another than the last.
LEMMA NotTheLast ==
  ASSUME NEW stat, NEW last \in Indices, MaxBuf >= 2, stat[last] # "EMPTY"
  PROVE  NextIndex(stat, last) \in Indices /\ NextIndex(stat, last) # last
<1> DEFINE free == {k \in 1 .. MaxBuf : stat[(last + k) % MaxBuf] = "EMPTY"}
           k0 == Min(free)
<1>1. MaxBuf \in Nat \ {0} /\ last \in 0 .. MaxBuf - 1
  BY FramesAssumption DEF Indices
<1>2. CASE free = {}
  <2>1. NextIndex(stat, last) = (last + 1) % MaxBuf
    BY <1>2 DEF NextIndex
  <2>2. 1 \in 1 .. MaxBuf
    BY <1>1
  <2>3. /\ (last + 1) % MaxBuf \in Indices
        /\ (last + 1) % MaxBuf = IF last + 1 < MaxBuf THEN last + 1 ELSE last + 1 - MaxBuf
    BY <2>2, Around
  <2> QED
    BY <1>1, <2>1, <2>3
<1>3. CASE free # {}
  <2>1. free \in SUBSET Nat
    BY <1>1
  <2>2. k0 \in free
    BY <1>3, <2>1, LeastIn
  <2>3. NextIndex(stat, last) = (last + k0) % MaxBuf
    BY <1>3 DEF NextIndex
  <2> HIDE DEF k0
  <2>4. k0 \in 1 .. MaxBuf /\ stat[(last + k0) % MaxBuf] = "EMPTY"
    BY <2>2
  <2>5. (last + k0) % MaxBuf \in Indices
    BY <2>4, Around
  <2> QED
    BY <2>3, <2>4, <2>5
<1> QED
  BY <1>2, <1>3

\* What is known of the step of a loop alone, while no wait has timed out.
Clean == Solo /\ efTimeouts = 0 /\ FrameTypes /\ LastSent /\ OwnAnswers

LEMMA SoloTake ==
  ASSUME MaxBuf >= 2, Clean, EfTake("loop") \/ EfTakeAgain
  PROVE  FrameTypes' /\ LastSent' /\ OwnAnswers'
<1> DEFINE i == NextIndex(efStat, efLast)
           t == "loop"
<1>0. /\ efPc[t] \in {"idle", "out"} /\ TakeIndex(t)
      /\ efPc[t] = "out" => efAhead = 0 /\ efAhead' = 1
      /\ efPc[t] = "idle" => efAhead' = efAhead
  <2>1. efUse.ahead = 1 /\ efAhead \in Nat
    BY DEF Clean, Solo, FrameTypes
  <2>2. CASE EfTake("loop")
    BY <2>2 DEF EfTake
  <2>3. CASE EfTakeAgain
    BY <2>1, <2>3 DEF EfTakeAgain
  <2> QED
    BY <2>2, <2>3
<1>1. /\ efStat' = [efStat EXCEPT ![i] = "ALLOC"] /\ efLast' = i
      /\ efIdx' = [efIdx EXCEPT ![t] = i]
      /\ efNumber' = [efNumber EXCEPT ![t] = @ + 1]
      /\ efPc' = [efPc EXCEPT ![t] = "ready"]
      /\ UNCHANGED << efUse, efRx, efWire, efTimeouts, efAnswers >>
  BY <1>0 DEF TakeIndex, Allocate
<1>2. efLast \in Indices /\ t \in Threads /\ "command" \in Threads /\ t # "command"
  BY DEF Clean, FrameTypes, Threads
<1>3. i \in Indices /\ (efPc[t] = "out" => i # efIdx[t])
  <2>1. CASE efPc[t] = "out"
    <3>1. efLast = efIdx[t] /\ efStat[efLast] # "EMPTY"
      BY <2>1 DEF Clean, LastSent
    <3> QED
      BY <1>2, <3>1, NotTheLast
  <2>2. CASE efPc[t] = "idle"
    <3>1. i \in Indices
      <4> DEFINE d == IF {k \in 1 .. MaxBuf : efStat[(efLast + k) % MaxBuf] = "EMPTY"} = {}
                      THEN 1
                      ELSE Min({k \in 1 .. MaxBuf : efStat[(efLast + k) % MaxBuf] = "EMPTY"})
                 free == {k \in 1 .. MaxBuf : efStat[(efLast + k) % MaxBuf] = "EMPTY"}
      <4>1. MaxBuf \in Nat \ {0}
        BY FramesAssumption
      <4>2. free # {} => Min(free) \in free
        BY <4>1, LeastIn
      <4>3. d \in 1 .. MaxBuf
        BY <4>1, <4>2
      <4>4. i = (efLast + d) % MaxBuf
        BY DEF NextIndex
      <4> HIDE DEF d, i
      <4> QED
        BY <1>2, <4>3, <4>4, Around
    <3> QED
      BY <2>2, <3>1
  <2> QED
    BY <1>0, <2>1, <2>2
<1> HIDE DEF i, t
<1>4. FrameTypes'
  <2>1. FrameTypes
    BY DEF Clean
  <2>2. efStat' \in [Indices -> {"EMPTY", "ALLOC", "TX", "RCVD", "COMPLETE"}]
        /\ efLast' \in Indices /\ efIdx' \in [Threads -> Indices]
    BY <1>1, <1>2, <1>3, <2>1 DEF FrameTypes
  <2>3. efNumber' \in [Threads -> Nat]
    <3>1. efNumber \in [Threads -> Nat]
      BY <2>1 DEF FrameTypes
    <3>3. t \in Threads
      BY <1>2
    <3>4. efNumber[t] + 1 \in Nat
      BY ONLY <3>1, <3>3
    <3>2. efNumber' = [efNumber EXCEPT ![t] = efNumber[t] + 1]
      BY <1>1
    <3> QED
      BY ONLY <3>1, <3>2, <3>4
  <2>5. efAhead' \in Nat
    BY <1>0, <2>1 DEF FrameTypes
  <2>4. efPc' \in [Threads -> Places]
    BY <1>1, <2>1 DEF FrameTypes, Places
  <2> QED
    BY <1>1, <2>1, <2>2, <2>3, <2>4, <2>5 DEF FrameTypes
<1>5. efPc'[t] = "ready" /\ efIdx'[t] = i /\ efStat'[i] = "ALLOC"
      /\ efPc'["command"] = efPc["command"]
  BY <1>1, <1>2, <1>3 DEF Clean, FrameTypes
<1>6. /\ \A p \in 1 .. Len(efWire) : efWire[p].idx # i
      /\ efAhead' = 0 => efWire = << >>
  <2>1. CASE efPc[t] = "idle"
    <3>1. efWire = << >>
      BY <2>1 DEF Clean, LastSent, t
    <3> QED
      BY <3>1
  <2>2. CASE efPc[t] = "out"
    <3>1. efAhead = 0 /\ efAhead' = 1
      BY <1>0, <2>2
    <3>2. \A p \in 1 .. Len(efWire) : efWire[p].idx = efIdx[t]
      BY <2>2, <3>1 DEF Clean, LastSent, t
    <3> QED
      BY <1>3, <2>2, <3>1, <3>2
  <2> QED
    BY <1>0, <2>1, <2>2
<1>7. LastSent'
  BY <1>1, <1>5, <1>6 DEF Clean, LastSent, t
<1> QED
  BY <1>1, <1>4, <1>7 DEF Clean, OwnAnswers

LEMMA SoloSend ==
  ASSUME Clean, EfSend("loop")
  PROVE  FrameTypes' /\ LastSent' /\ OwnAnswers'
<1> DEFINE t == "loop"
           f == [idx |-> efIdx[t], request |-> Asked(t)]
<1>1. /\ efPc[t] = "ready" /\ efWire' = Append(efWire, f)
      /\ efPc' = [efPc EXCEPT ![t] = "sent"]
      /\ UNCHANGED << efUse, efAhead, efStat, efRx, efLast, efIdx, efNumber, efTimeouts, efAnswers >>
  BY DEF EfSend
<1>2. /\ t \in Threads /\ f \in Frames /\ f.idx = efIdx[t] /\ f.request = Asked(t)
      /\ "command" \in Threads /\ t # "command"
  BY DEF Frames, Clean, FrameTypes, Asked, Threads
<1>3. Asked(t)' = Asked(t)
  BY <1>1 DEF Asked
<1> HIDE DEF f, t
<1>4. /\ efWire \in Seq(Frames) /\ efWire' \in Seq(Frames) /\ Len(efWire') = Len(efWire) + 1
      /\ \A p \in 1 .. Len(efWire) : efWire'[p] = efWire[p]
      /\ efWire'[Len(efWire) + 1] = f
  BY <1>1, <1>2, AppendProperties DEF Clean, FrameTypes
<1>5. FrameTypes'
  BY <1>1, <1>4 DEF Clean, FrameTypes, Places
<1>6. efPc'[t] = "sent" /\ efPc'["command"] = efPc["command"]
  BY <1>1, <1>2 DEF Clean, FrameTypes
<1>7. /\ \A p \in 1 .. Len(efWire) : efWire[p].idx # efIdx[t]
      /\ efAhead = 0 => efWire = << >>
  BY <1>1 DEF Clean, LastSent, t
<1>8. ASSUME NEW p \in 1 .. Len(efWire')
      PROVE  /\ efWire'[p].idx = efIdx[t] => p = Len(efWire') /\ efWire'[p].request = Asked(t)
             /\ efAhead = 0 => efWire'[p].idx = efIdx[t]
  <2>1. p \in 1 .. Len(efWire) \/ p = Len(efWire) + 1
    BY <1>4
  <2> QED
    BY <1>2, <1>4, <1>7, <2>1
<1>9. LastSent'
  BY <1>1, <1>3, <1>6, <1>8 DEF Clean, LastSent, t
<1> QED
  BY <1>1, <1>5, <1>9 DEF Clean, OwnAnswers

LEMMA SoloMark ==
  ASSUME Clean, EfMark("loop")
  PROVE  FrameTypes' /\ LastSent' /\ OwnAnswers'
<1> DEFINE t == "loop"
<1>1. /\ efPc[t] = "sent" /\ efStat' = [efStat EXCEPT ![efIdx[t]] = "TX"]
      /\ efPc' = [efPc EXCEPT ![t] = "out"]
      /\ UNCHANGED << efUse, efAhead, efRx, efLast, efWire, efIdx, efNumber, efTimeouts, efAnswers >>
  BY DEF EfMark
<1>2. t \in Threads /\ "command" \in Threads /\ t # "command" /\ Asked(t)' = Asked(t)
  BY <1>1 DEF Threads, Asked
<1> HIDE DEF t
<1>3. FrameTypes'
  BY <1>1 DEF Clean, FrameTypes, Places
<1>4. efPc'[t] = "out" /\ efPc'["command"] = efPc["command"] /\ efStat'[efIdx[t]] = "TX"
  BY <1>1, <1>2 DEF Clean, FrameTypes
<1>5. LastSent'
  BY <1>1, <1>2, <1>4 DEF Clean, LastSent, t
<1> QED
  BY <1>1, <1>3, <1>5 DEF Clean, OwnAnswers

LEMMA SoloEnter ==
  ASSUME Clean, EfEnter
  PROVE  FrameTypes' /\ LastSent' /\ OwnAnswers'
<1> DEFINE t == "loop"
<1>1. /\ efPc[t] = "out" /\ efPc' = [efPc EXCEPT ![t] = "wait"] /\ efAhead' = 0
      /\ UNCHANGED << efUse, efStat, efRx, efLast, efWire, efIdx, efNumber, efTimeouts, efAnswers >>
  BY DEF EfEnter
<1>2. t \in Threads /\ "command" \in Threads /\ t # "command" /\ Asked(t)' = Asked(t)
  BY <1>1 DEF Threads, Asked
<1> HIDE DEF t
<1>3. FrameTypes'
  BY <1>1 DEF Clean, FrameTypes, Places
<1>4. efPc'[t] = "wait" /\ efPc'["command"] = efPc["command"]
  BY <1>1, <1>2 DEF Clean, FrameTypes
<1>5. LastSent'
  BY <1>1, <1>2, <1>4 DEF Clean, LastSent, t
<1> QED
  BY <1>1, <1>3, <1>5 DEF Clean, OwnAnswers

LEMMA SoloReceive ==
  ASSUME Clean, EfReceive("loop")
  PROVE  FrameTypes' /\ LastSent' /\ OwnAnswers'
<1> DEFINE t == "loop"
           f == Head(efWire)
           i == efIdx[t]
<1>1. /\ efPc[t] = "wait" /\ efWire # << >>
      /\ efWire' = Tail(efWire)
      /\ efRx' = [efRx EXCEPT ![f.idx] = f.request]
      /\ efStat' = [efStat EXCEPT ![f.idx] = IF f.idx = i THEN "COMPLETE" ELSE "RCVD"]
      /\ efPc' = [efPc EXCEPT ![t] = IF f.idx = i THEN "got" ELSE "wait"]
      /\ UNCHANGED << efUse, efAhead, efLast, efIdx, efNumber, efTimeouts, efAnswers >>
  BY DEF EfReceive
<1>2. /\ efWire \in Seq(Frames) /\ efWire' \in Seq(Frames)
      /\ Len(efWire) \in Nat /\ Len(efWire') = Len(efWire) - 1 /\ Len(efWire) >= 1
      /\ f \in Frames /\ f = efWire[1]
      /\ \A p \in 1 .. Len(efWire) - 1 : efWire'[p] = efWire[p + 1]
  BY <1>1, HeadTailProperties DEF Clean, FrameTypes
<1>3. f.idx \in Indices /\ f.request \in [thread : Threads, number : Nat]
  BY <1>2 DEF Frames
<1>4. /\ t \in Threads /\ "command" \in Threads /\ t # "command" /\ Asked(t)' = Asked(t)
      /\ efAhead = 0 /\ i \in Indices /\ efStat[i] \in {"ALLOC", "TX"}
      /\ efLast = i /\ efPc["command"] = "idle"
      /\ \A p \in 1 .. Len(efWire) : efWire[p].idx = i =>
           p = Len(efWire) /\ efWire[p].request = Asked(t)
  BY <1>1 DEF Clean, LastSent, FrameTypes, Threads, Asked
<1> HIDE DEF f, t, i
<1>5. FrameTypes'
  <2>1. FrameTypes
    BY DEF Clean
  <2>2. efStat' \in [Indices -> {"EMPTY", "ALLOC", "TX", "RCVD", "COMPLETE"}]
        /\ efRx' \in [Indices -> [thread : Threads, number : Nat]]
    BY <1>1, <1>3, <2>1 DEF FrameTypes
  <2>3. efPc' \in [Threads -> Places]
    BY <1>1, <2>1 DEF FrameTypes, Places
  <2> QED
    BY <1>1, <1>2, <2>1, <2>2, <2>3 DEF FrameTypes
<1>6. /\ efPc'["command"] = "idle"
      /\ efPc'[t] = IF f.idx = i THEN "got" ELSE "wait"
      /\ f.idx = i => efRx'[i] = f.request
      /\ f.idx # i => efStat'[i] = efStat[i]
      /\ efIdx'[t] = i
  BY <1>1, <1>3, <1>4 DEF Clean, FrameTypes, i
<1>7. CASE f.idx = i
  <2>1. 1 \in 1 .. Len(efWire)
    BY <1>2
  <2>2. 1 = Len(efWire) /\ f.request = Asked(t)
    BY <1>2, <1>4, <1>7, <2>1
  <2>3. efWire' = << >>
    BY <1>2, <2>2, EmptySeq
  <2>4. LastSent'
    BY <1>1, <1>4, <1>6, <1>7, <2>2, <2>3 DEF LastSent, t, i
  <2> QED
    BY <1>1, <1>5, <2>4 DEF Clean, OwnAnswers
<1>8. CASE f.idx # i
  <2>1. ASSUME NEW p \in 1 .. Len(efWire'), efWire'[p].idx = i
        PROVE  p = Len(efWire') /\ efWire'[p].request = Asked(t)
    <3>1. p \in 1 .. Len(efWire) - 1 /\ p + 1 \in 1 .. Len(efWire)
      BY <1>2
    <3>2. p + 1 = Len(efWire) /\ efWire[p + 1].request = Asked(t)
      BY <1>2, <1>4, <2>1, <3>1
    <3> QED
      BY <1>2, <3>1, <3>2
  <2>2. LastSent'
    BY <1>1, <1>4, <1>6, <1>8, <2>1 DEF LastSent, t, i
  <2> QED
    BY <1>1, <1>5, <2>2 DEF Clean, OwnAnswers
<1> QED
  BY <1>7, <1>8

LEMMA SoloRelease ==
  ASSUME Clean, EfRelease("loop")
  PROVE  FrameTypes' /\ LastSent' /\ OwnAnswers'
<1> DEFINE t == "loop"
<1>1. /\ efPc[t] = "got"
      /\ efAnswers' = efAnswers \cup {[asked |-> Asked(t), answered |-> efRx[efIdx[t]]]}
      /\ efStat' = [efStat EXCEPT ![efIdx[t]] = "EMPTY"]
      /\ efPc' = [efPc EXCEPT ![t] = "idle"]
      /\ UNCHANGED << efUse, efAhead, efRx, efLast, efWire, efIdx, efNumber, efTimeouts >>
  BY DEF EfRelease
<1>2. t \in Threads /\ "command" \in Threads /\ t # "command"
  BY DEF Threads
<1>3. efRx[efIdx[t]] = Asked(t) /\ efWire = << >> /\ efAhead = 0 /\ efPc["command"] = "idle"
  BY <1>1 DEF Clean, LastSent
<1> HIDE DEF t
<1>4. FrameTypes'
  BY <1>1 DEF Clean, FrameTypes, Places
<1>5. efPc'[t] = "idle" /\ efPc'["command"] = "idle"
  BY <1>1, <1>2, <1>3 DEF Clean, FrameTypes
<1>6. LastSent'
  BY <1>1, <1>3, <1>5 DEF LastSent, t
<1> QED
  BY <1>1, <1>3, <1>4, <1>6 DEF Clean, OwnAnswers

LEMMA SoloLose ==
  ASSUME Clean, EfLose
  PROVE  FrameTypes' /\ LastSent' /\ OwnAnswers'
<1> DEFINE t == "loop"
<1>1. PICK p \in 1 .. Len(efWire) : efWire' = RemoveAt(efWire, p)
  BY DEF EfLose
<1>2. UNCHANGED << efUse, efAhead, efStat, efRx, efLast, efPc, efIdx, efNumber, efTimeouts, efAnswers >>
  BY DEF EfLose
<1>3. /\ efWire \in Seq(Frames) /\ efWire' \in Seq(Frames)
      /\ Len(efWire) \in Nat /\ Len(efWire') = Len(efWire) - 1
      /\ \A q \in 1 .. Len(efWire') : efWire'[q] = IF q < p THEN efWire[q] ELSE efWire[q + 1]
  <2>1. efWire \in Seq(Frames) /\ Len(efWire) \in Nat
    BY DEF Clean, FrameTypes
  <2> DEFINE rest == RemoveAt(efWire, p)
  <2>2. /\ rest \in Seq(Frames) /\ Len(rest) = Len(efWire) - 1
        /\ \A q \in 1 .. Len(efWire) - 1 : rest[q] = IF q < p THEN efWire[q] ELSE efWire[q + 1]
    BY <2>1, FrameLeaves
  <2>3. efWire' = rest
    BY <1>1
  <2> HIDE DEF rest
  <2> QED
    BY <2>1, <2>2, <2>3
<1>4. ASSUME NEW q \in 1 .. Len(efWire')
      PROVE  \E r \in 1 .. Len(efWire) :
               efWire'[q] = efWire[r] /\ (r = Len(efWire) => q = Len(efWire'))
  <2>1. CASE q < p
    <3>1. q \in 1 .. Len(efWire) /\ q # Len(efWire)
      BY <1>3, <2>1
    <3> QED
      BY <1>3, <2>1, <3>1
  <2>2. CASE ~(q < p)
    <3>1. q + 1 \in 1 .. Len(efWire) /\ (q + 1 = Len(efWire) => q = Len(efWire'))
      BY <1>3
    <3> QED
      BY <1>3, <2>2, <3>1
  <2> QED
    BY <2>1, <2>2
<1>5. FrameTypes'
  BY <1>2, <1>3 DEF Clean, FrameTypes
<1>6. Asked(t)' = Asked(t) /\ efWire # << >>
  BY <1>2, <1>3 DEF Asked
<1>7. LastSent'
  <2>1. efPc[t] \notin {"idle", "got"} /\ (efPc[t] = "ready" => efAhead # 0)
    BY <1>6 DEF Clean, LastSent
  <2>2. efPc[t] = "ready" => \A q \in 1 .. Len(efWire') : efWire'[q].idx # efIdx[t]
    BY <1>4 DEF Clean, LastSent
  <2>3. efPc[t] \in {"sent", "out", "wait"} =>
          \A q \in 1 .. Len(efWire') : efWire'[q].idx = efIdx[t] =>
            q = Len(efWire') /\ efWire'[q].request = Asked(t)
    BY <1>4 DEF Clean, LastSent
  <2>4. efPc[t] \in {"sent", "out"} /\ efAhead = 0 =>
          \A q \in 1 .. Len(efWire') : efWire'[q].idx = efIdx[t]
    BY <1>4 DEF Clean, LastSent
  <2> QED
    BY <1>2, <1>6, <2>1, <2>2, <2>3, <2>4 DEF Clean, LastSent
<1> QED
  BY <1>2, <1>5, <1>7 DEF Clean, OwnAnswers

LEMMA SoloStep ==
  ASSUME MaxBuf >= 2, SoloInv, [EfNext]_efVars
  PROVE  SoloInv'
<1>1. Solo' /\ efTimeouts' \in Nat /\ (efTimeouts' = 0 => efTimeouts = 0)
  <2>1. efUse' = efUse /\ (efTimeouts' = efTimeouts \/ efTimeouts' = efTimeouts + 1)
    BY DEF EfNext, efVars, EfTake, EfTakeAgain, TakeIndex, EfSend, EfMark, EfFind, EfReceive,
           EfRelease, EfGiveUp, EfReleaseAgain, EfEnter, EfRetry, EfLose
  <2> QED
    BY <2>1 DEF SoloInv, Solo
<1> SUFFICES ASSUME efTimeouts' = 0
             PROVE  FrameTypes' /\ LastSent' /\ OwnAnswers'
  BY <1>1 DEF SoloInv
<1>2. Clean
  BY <1>1 DEF SoloInv, Clean
<1>3. ~EfRetry /\ \A t \in Threads : ~EfGiveUp(t)
  BY <1>2 DEF EfRetry, EfGiveUp, Clean
<1>4. ASSUME NEW t \in Threads,
             EfTake(t) \/ EfSend(t) \/ EfMark(t) \/ EfFind(t) \/ EfReceive(t) \/ EfRelease(t)
               \/ EfReleaseAgain(t)
      PROVE  t = "loop" /\ ~EfFind(t) /\ ~EfReleaseAgain(t)
  <2>1. t = "loop"
    BY <1>2, <1>4 DEF Clean, Solo, LastSent, EfTake, TakeIndex, EfSend, EfMark, EfFind,
                      EfReceive, EfRelease, EfReleaseAgain, Threads
  <2>2. ~EfFind("loop") /\ ~EfReleaseAgain("loop")
    BY <1>2 DEF Clean, LastSent, EfFind, EfReleaseAgain
  <2> QED
    BY <2>1, <2>2
<1>5. CASE EfTake("loop") \/ EfTakeAgain
  BY <1>2, <1>5, SoloTake
<1>6. CASE EfSend("loop")
  BY <1>2, <1>6, SoloSend
<1>7. CASE EfMark("loop")
  BY <1>2, <1>7, SoloMark
<1>8. CASE EfEnter
  BY <1>2, <1>8, SoloEnter
<1>9. CASE EfReceive("loop")
  BY <1>2, <1>9, SoloReceive
<1>10. CASE EfRelease("loop")
  BY <1>2, <1>10, SoloRelease
<1>11. CASE EfLose
  BY <1>2, <1>11, SoloLose
<1>12. CASE UNCHANGED efVars
  BY <1>2, <1>12 DEF efVars, Clean, FrameTypes, LastSent, OwnAnswers, Asked
<1>13. EfNext => \/ \E t \in Threads :
                      \/ EfTake(t) \/ EfSend(t) \/ EfMark(t) \/ EfFind(t) \/ EfReceive(t)
                      \/ EfRelease(t) \/ EfReleaseAgain(t)
                 \/ EfTakeAgain \/ EfEnter \/ EfLose
  BY <1>3 DEF EfNext
<1>14. EfNext => \/ EfTake("loop") \/ EfSend("loop") \/ EfMark("loop") \/ EfReceive("loop")
                 \/ EfRelease("loop") \/ EfTakeAgain \/ EfEnter \/ EfLose
  BY <1>4, <1>13
<1> QED
  BY <1>5, <1>6, <1>7, <1>8, <1>9, <1>10, <1>11, <1>12, <1>14

----------------------------------------------------------------------------
(* Every program.                                                          *)

OrderlyInv ==
  /\ efUse.ahead \in Nat /\ efTimeouts \in Nat
  /\ efUse.ahead = 0 => FrameInv
  /\ Solo => SoloInv

LEMMA OrderlyInit ==
  ASSUME EfInit
  PROVE  OrderlyInv
<1>1. efUse.ahead \in Nat /\ efTimeouts \in Nat
  BY FramesAssumption DEF EfInit
<1>2. efUse.ahead = 0 => FrameInv
  BY InitFrames
<1>3. ASSUME Solo PROVE SoloInv
  <2>1. MaxBuf \in Nat \ {0}
    BY FramesAssumption
  <2>2. FrameTypes
    BY <2>1 DEF FrameTypes, EfInit, Indices, Threads, NoRequest, Frames, Places
  <2>3. LastSent
    BY DEF LastSent, EfInit, Threads
  <2>4. OwnAnswers
    BY DEF OwnAnswers, EfInit
  <2> QED
    BY <1>1, <1>3, <2>2, <2>3, <2>4 DEF SoloInv
<1> QED
  BY <1>1, <1>2, <1>3 DEF OrderlyInv

LEMMA OrderlyStep ==
  ASSUME EnoughBuffers, OrderlyInv, [EfNext]_efVars
  PROVE  OrderlyInv'
<1>1. efUse' = efUse /\ (efTimeouts' = efTimeouts \/ efTimeouts' = efTimeouts + 1)
  BY DEF EfNext, efVars, EfTake, EfTakeAgain, TakeIndex, EfSend, EfMark, EfFind, EfReceive,
         EfRelease, EfGiveUp, EfReleaseAgain, EfEnter, EfRetry, EfLose
<1>2. efUse'.ahead \in Nat /\ efTimeouts' \in Nat
  BY <1>1 DEF OrderlyInv
<1>3. efUse.ahead = 0 => FrameInv'
  BY FrameStep DEF OrderlyInv
<1>4. Solo => SoloInv'
  <2>1. MaxBuf >= 2
    BY FramesAssumption DEF EnoughBuffers
  <2> QED
    BY <2>1, SoloStep DEF OrderlyInv
<1> QED
  BY <1>1, <1>2, <1>3, <1>4 DEF OrderlyInv, Solo

(***************************************************************************)
(* The threads never hold one buffer (ec_getindex, ec_waitinframe,         *)
(* ec_srconfirm), whatever the number of requests and however sends,       *)
(* polls, losses and time-outs fall, while there are enough buffers for    *)
(* the late answers and the loop is Orderly.                               *)
(***************************************************************************)
THEOREM IndicesAreOwned ==
  ASSUME EnoughBuffers
  PROVE  EfSpec => []IndexOwned
<1>1. EfInit => OrderlyInv
  BY OrderlyInit
<1>2. OrderlyInv /\ [EfNext]_efVars => OrderlyInv'
  BY OrderlyStep
<1>3. OrderlyInv => IndexOwned
  BY DEF OrderlyInv, FrameInv, HeldApart, SoloInv, Solo, LastSent, IndexOwned, Orderly, Threads
<1> QED
  BY <1>1, <1>2, <1>3, PTL DEF EfSpec

(***************************************************************************)
(* Every answer that a thread copies out of a buffer (ec_inframe,          *)
(* ec_srconfirm) is the answer to the request it is waiting for, under the *)
(* same conditions.                                                        *)
(***************************************************************************)
THEOREM AnswersAreOwn ==
  ASSUME EnoughBuffers
  PROVE  EfSpec => []AnswerIsOwn
<1>1. EfInit => OrderlyInv
  BY OrderlyInit
<1>2. OrderlyInv /\ [EfNext]_efVars => OrderlyInv'
  BY OrderlyStep
<1>3. OrderlyInv => AnswerIsOwn
  BY DEF OrderlyInv, FrameInv, OwnAnswers, SoloInv, Solo, AnswerIsOwn, Orderly
<1> QED
  BY <1>1, <1>2, <1>3, PTL DEF EfSpec

----------------------------------------------------------------------------
(* Mailboxes.                                                              *)

(***************************************************************************)
(* The answers on their way to the master, in the order in which it will   *)
(* take them: the one that is asked for again, the one in the OUT mailbox, *)
(* and those of the slave that wait for it.                                *)
(***************************************************************************)
Again == IF sdPc = "repeat" THEN 1 ELSE 0

OnTheirWay == Again + Len(sdOut) + Len(sdReplies)

Coming(j) ==
  IF j <= Again THEN sdLast[1]
  ELSE IF j <= Again + Len(sdOut) THEN sdOut[j - Again]
  ELSE sdReplies[j - Again - Len(sdOut)]

Messages ==
  [kind : {"first", "down"}, object : Objects]
    \cup [kind : {"part"}, object : Objects, part : Nat] \cup [kind : {"abort"}]

SlaveRequests ==
  [kind : {"up", "down"}, object : Objects] \cup [kind : {"segment"}, toggle : {0, 1}]

MailboxTypes ==
  /\ sdPc \in {"idle", "empty", "send", "wait", "take", "repeat"}
  /\ sdPc # "idle" => sdCall \in Calls
  /\ sdSegment \in BOOLEAN /\ sdToggle \in {0, 1}
  /\ sdIn \in Seq(SlaveRequests) /\ Len(sdIn) <= 1
  /\ sdOut \in Seq(Messages) /\ Len(sdOut) <= 1
  /\ sdLast \in Seq(Messages) /\ Len(sdLast) <= 1
  /\ sdReplies \in Seq(Messages) /\ sdStored \in SUBSET Objects
  /\ sdUpload \in {NoUpload} \cup (Objects \X Nat \X {0, 1})
  /\ sdFresh \in BOOLEAN /\ sdGap \in BOOLEAN

PlaceInv ==
  /\ sdPc = "take" => Len(sdOut) = 1
  /\ sdPc = "repeat" => Len(sdLast) = 1
  /\ sdPc # "idle" => sdResult = "none"
  /\ sdPc = "empty" => ~sdSegment

\* The call is under way, and no answer of an earlier call is.
Trusted == sdPc \in {"send", "wait", "take", "repeat"} /\ sdFresh /\ ~sdGap

\* The slave has the request or has answered it.
FirstInv ==
  LET o == sdCall.object
      answered ==
        /\ sdIn = << >> /\ OnTheirWay = 1
        /\ Coming(1) = [kind |-> IF sdCall.write THEN "down" ELSE "first", object |-> o]
        /\ IF sdCall.write THEN o \in sdStored
           ELSE sdUpload = IF o.parts > 1 THEN << o, 2, 0 >> ELSE NoUpload
  IN IF sdPc = "send" THEN sdIn = << >> /\ OnTheirWay = 0
     ELSE (sdIn = << Request >> /\ OnTheirWay = 0) \/ answered

FirstParts(o, n) == [k \in 1 .. n |-> << o, k >>]

\* The next parts, as many as are due, and no part after them, are on their way.
InOrder(due) ==
  LET o == sdCall.object
      n == Len(sdParts)
  IN /\ n + due <= o.parts /\ due <= OnTheirWay
     /\ \A j \in 1 .. OnTheirWay :
          Coming(j) = IF j <= due THEN [kind |-> "part", object |-> o, part |-> n + j]
                      ELSE [kind |-> "abort"]
     /\ sdUpload # NoUpload =>
          /\ due = OnTheirWay /\ n + due < o.parts
          /\ sdUpload[1] = o /\ sdUpload[2] = n + due + 1

PartsInv ==
  /\ ~sdCall.write
  /\ sdParts = FirstParts(sdCall.object, Len(sdParts))
  /\ Len(sdParts) \in 1 .. sdCall.object.parts - 1
  /\ sdIn # << >> => sdIn[1].kind = "segment"
  /\ \E due \in Nat : InOrder(due)

CallInv ==
  /\ MailboxTypes /\ PlaceInv /\ CallExact
  /\ Trusted => IF sdSegment THEN PartsInv ELSE FirstInv

----------------------------------------------------------------------------
(* What is in the mailboxes.                                               *)

LEMMA Nothing ==
  /\ \A S : << >> \in Seq(S)
  /\ Len(<< >>) = 0
OBVIOUS

LEMMA InitCall ==
  ASSUME SdInit
  PROVE  CallInv
<1>1. MailboxTypes
  <2>1. sdIn = << >> /\ sdOut = << >> /\ sdLast = << >> /\ sdReplies = << >> /\ sdStored = {}
    BY DEF SdInit
  <2>2. /\ sdIn \in Seq(SlaveRequests) /\ Len(sdIn) <= 1
        /\ sdOut \in Seq(Messages) /\ Len(sdOut) <= 1
        /\ sdLast \in Seq(Messages) /\ Len(sdLast) <= 1
        /\ sdReplies \in Seq(Messages)
    BY <2>1, Nothing
  <2>3. sdStored \in SUBSET Objects
    BY <2>1
  <2> QED
    BY <2>2, <2>3 DEF SdInit, MailboxTypes
<1>2. PlaceInv /\ CallExact /\ ~Trusted
  BY DEF SdInit, PlaceInv, CallExact, Trusted
<1> QED
  BY <1>1, <1>2 DEF CallInv

LEMMA RequestType ==
  ASSUME MailboxTypes, sdPc # "idle"
  PROVE  Request \in SlaveRequests /\ << Request >> \in Seq(SlaveRequests)
         /\ Len(<< Request >>) = 1 /\ << Request >>[1] = Request /\ << Request >> # << >>
<1>1. Request \in SlaveRequests
  <2>1. CASE sdSegment
    BY <2>1 DEF Request, MailboxTypes, SlaveRequests
  <2>2. CASE ~sdSegment
    BY <2>2 DEF Request, MailboxTypes, SlaveRequests, Calls
  <2> QED
    BY <2>1, <2>2
<1> DEFINE r == Request
<1> HIDE DEF r
<1>2. r \in SlaveRequests
  BY <1>1 DEF r
<1>3. << r >> \in Seq(SlaveRequests) /\ Len(<< r >>) = 1 /\ << r >>[1] = r /\ << r >> # << >>
  BY <1>2
<1> QED
  BY <1>1, <1>3 DEF r

\* A mailbox holds at most one.
LEMMA OneAtMost ==
  ASSUME NEW S, NEW s \in Seq(S), Len(s) <= 1, s # << >>
  PROVE  Len(s) = 1 /\ s[1] \in S
<1>1. Len(s) \in Nat /\ Len(s) # 0
  BY EmptySeq
<1>2. s \in [1 .. Len(s) -> S]
  BY LenProperties
<1>3. Len(s) = 1
  BY <1>1
<1> QED
  BY <1>2, <1>3

LEMMA FinishTypes ==
  ASSUME MailboxTypes, PlaceInv, NEW r, NEW p, Finish(r, p)
  PROVE  sdPc' = "idle" /\ sdSegment' \in BOOLEAN /\ sdToggle' \in {0, 1}
BY DEF Finish, MailboxTypes

LEMMA NoAnswerTypes ==
  ASSUME MailboxTypes, PlaceInv, NoAnswer, sdPc # "idle"
  PROVE  /\ sdPc' \in {"idle", "send"} /\ sdSegment' = sdSegment /\ sdToggle' \in {0, 1}
         /\ sdCall' = sdCall /\ (sdPc' # "idle" => sdResult' = "none")
BY DEF NoAnswer, MailboxTypes, PlaceInv, NextToggle

LEMMA AnswerTaken ==
  ASSUME MailboxTypes, PlaceInv, SdTake
  PROVE  /\ sdPc' \in {"idle", "send"} /\ sdSegment' \in BOOLEAN /\ sdToggle' \in {0, 1}
         /\ sdCall' = sdCall /\ (sdPc' # "idle" => sdResult' = "none")
<1>1. sdPc = "take" /\ IF sdSegment THEN PartAnswer(sdOut[1]) ELSE FirstAnswer(sdOut[1])
  BY DEF SdTake
<1>2. sdSegment \in BOOLEAN /\ sdToggle \in {0, 1} /\ sdResult = "none"
  BY <1>1 DEF MailboxTypes, PlaceInv
<1>3. CASE \E r, p : Finish(r, p)
  BY <1>2, <1>3 DEF Finish
<1>4. CASE \E p : AskOn(p, 0)
  BY <1>2, <1>4 DEF AskOn
<1>5. CASE \E p : AskOn(p, NextToggle(sdToggle))
  BY <1>2, <1>5 DEF AskOn, NextToggle
<1>6. \/ \E r, p : Finish(r, p)
      \/ \E p : AskOn(p, 0)
      \/ \E p : AskOn(p, NextToggle(sdToggle))
  BY <1>1 DEF PartAnswer, FirstAnswer
<1> QED
  BY <1>3, <1>4, <1>5, <1>6

LEMMA MasterTypes ==
  ASSUME MailboxTypes, PlaceInv, MasterStep
  PROVE  MailboxTypes' /\ PlaceInv'
<1>1. CASE SdEmpty
  BY <1>1 DEF SdEmpty, MailboxTypes, PlaceInv, sdSlave
<1>2. CASE SdEmptyLost
  BY <1>2 DEF SdEmptyLost, MailboxTypes, PlaceInv, sdSlave, sdBoxes
<1>3. CASE SdSend
  <2>1. sdIn' \in Seq(SlaveRequests) /\ Len(sdIn') <= 1
    BY <1>3, RequestType DEF SdSend
  <2> QED
    BY <1>3, <2>1 DEF SdSend, MailboxTypes, PlaceInv, sdSlave
<1>4. CASE SdSendLate
  BY <1>4, NoAnswerTypes DEF SdSendLate, MailboxTypes, PlaceInv, sdSlave, sdBoxes
<1>5. CASE SdSendLost
  <2>1. sdIn' \in Seq(SlaveRequests) /\ Len(sdIn') <= 1
    <3>1. sdIn' \in {sdIn, << Request >>} /\ sdPc = "send"
      BY <1>5 DEF SdSendLost
    <3>2. sdIn \in Seq(SlaveRequests) /\ Len(sdIn) <= 1
      BY DEF MailboxTypes
    <3>3. << Request >> \in Seq(SlaveRequests) /\ Len(<< Request >>) <= 1
      BY <3>1, RequestType
    <3> QED
      BY <3>1, <3>2, <3>3, Zenon
  <2> QED
    BY <1>5, <2>1, NoAnswerTypes DEF SdSendLost, MailboxTypes, PlaceInv, sdSlave
<1>6. CASE SdAvailable
  <2>1. Len(sdOut) = 1
    BY <1>6, OneAtMost DEF SdAvailable, MailboxTypes
  <2> QED
    BY <1>6, <2>1 DEF SdAvailable, MailboxTypes, PlaceInv, sdSlave, sdBoxes
<1>7. CASE SdWaitLate
  BY <1>7, NoAnswerTypes DEF SdWaitLate, MailboxTypes, PlaceInv, sdSlave, sdBoxes
<1>8. CASE SdTake
  BY <1>8, AnswerTaken DEF SdTake, MailboxTypes, PlaceInv, sdSlave
<1>9. CASE SdTakeLost
  BY <1>9 DEF SdTakeLost, MailboxTypes, PlaceInv, sdSlave
<1>10. CASE SdRepeat
  <2>1. sdOut \o sdReplies \in Seq(Messages)
    BY ConcatProperties DEF MailboxTypes
  <2> QED
    BY <1>10, <2>1 DEF SdRepeat, MailboxTypes, PlaceInv, sdSlave
<1>11. CASE SdRepeatLate
  <2>1. sdReplies' \in Seq(Messages)
    <3>1. sdLast \in Seq(Messages) /\ sdReplies \in Seq(Messages)
      BY DEF MailboxTypes
    <3>2. sdLast \o sdReplies \in Seq(Messages)
      BY <3>1, ConcatProperties
    <3> QED
      BY <1>11, <3>1, <3>2 DEF SdRepeatLate
  <2> QED
    BY <1>11, <2>1, NoAnswerTypes DEF SdRepeatLate, MailboxTypes, PlaceInv, sdSlave
<1> QED
  BY <1>1, <1>2, <1>3, <1>4, <1>5, <1>6, <1>7, <1>8, <1>9, <1>10, <1>11 DEF MasterStep

LEMMA SlaveTypes ==
  ASSUME MailboxTypes, PlaceInv, SlaveStep
  PROVE  MailboxTypes' /\ PlaceInv'
<1>1. CASE SlaveServe
  <2> DEFINE r == sdIn[1]
  <2>1. r \in SlaveRequests
    BY <1>1, OneAtMost DEF SlaveServe, MailboxTypes
  <2>2. /\ sdIn' = << >>
        /\ UNCHANGED << sdPc, sdCall, sdSegment, sdToggle, sdParts, sdResult, sdOut, sdLast,
                        sdFresh, sdGap >>
    BY <1>1 DEF SlaveServe, sdMaster
  <2>3. /\ sdStored' \in SUBSET Objects
        /\ sdUpload' \in {NoUpload} \cup (Objects \X Nat \X {0, 1})
        /\ \E m \in Messages : sdReplies' = Append(sdReplies, m)
    <3>1. CASE r.kind = "up" \/ r.kind = "down"
      <4>1. r.object \in Objects
        BY <2>1, <3>1 DEF SlaveRequests
      <4>2. [kind |-> "first", object |-> r.object] \in Messages
            /\ [kind |-> "down", object |-> r.object] \in Messages
        BY <4>1 DEF Messages
      <4> QED
        BY <1>1, <3>1, <4>1, <4>2 DEF SlaveServe, Answer, MailboxTypes
    <3>2. CASE r.kind = "segment"
      <4>1. sdStored' = sdStored /\ AnswerPart(r.toggle)
        BY <1>1, <3>2 DEF SlaveServe
      <4>2. CASE sdUpload # NoUpload /\ sdUpload[3] = r.toggle
        <5> DEFINE o == sdUpload[1]
                   k == sdUpload[2]
        <5>1. o \in Objects /\ k \in Nat /\ sdUpload[3] \in {0, 1}
          BY <4>2 DEF MailboxTypes
        <5>2. /\ sdReplies' = Append(sdReplies, [kind |-> "part", object |-> o, part |-> k])
              /\ sdUpload' = IF k = o.parts THEN NoUpload ELSE << o, k + 1, 1 - r.toggle >>
          BY <4>1, <4>2 DEF AnswerPart, Answer
        <5> HIDE DEF o, k
        <5>3. [kind |-> "part", object |-> o, part |-> k] \in Messages
          BY <5>1 DEF Messages
        <5>4. 1 - r.toggle \in {0, 1} /\ k + 1 \in Nat
          BY <4>2, <5>1
        <5> QED
          BY <4>1, <5>1, <5>2, <5>3, <5>4 DEF MailboxTypes
      <4>3. CASE ~(sdUpload # NoUpload /\ sdUpload[3] = r.toggle)
        <5>1. sdReplies' = Append(sdReplies, [kind |-> "abort"]) /\ sdUpload' = NoUpload
          BY <4>1, <4>3 DEF AnswerPart, Answer
        <5>2. [kind |-> "abort"] \in Messages
          BY DEF Messages
        <5> QED
          BY <4>1, <5>1, <5>2 DEF MailboxTypes
      <4> QED
        BY <4>2, <4>3
    <3> QED
      BY <1>1, <3>1, <3>2 DEF SlaveServe
  <2>4. sdReplies' \in Seq(Messages)
    BY <2>3, AppendProperties DEF MailboxTypes
  <2> QED
    BY <2>2, <2>3, <2>4, Nothing DEF MailboxTypes, PlaceInv
<1>2. CASE SlaveAnswer
  <2>1. /\ sdOut = << >> /\ sdReplies # << >>
        /\ sdOut' = << Head(sdReplies) >> /\ sdReplies' = Tail(sdReplies)
        /\ UNCHANGED << sdPc, sdCall, sdSegment, sdToggle, sdParts, sdResult, sdUpload,
                        sdStored, sdIn, sdLast, sdFresh, sdGap >>
    BY <1>2 DEF SlaveAnswer, sdMaster, sdSlave
  <2>2. Head(sdReplies) \in Messages /\ Tail(sdReplies) \in Seq(Messages)
    BY <2>1, HeadTailProperties DEF MailboxTypes
  <2>3. sdOut' \in Seq(Messages) /\ Len(sdOut') = 1 /\ sdReplies' \in Seq(Messages)
    BY <2>1, <2>2
  <2> QED
    BY <2>1, <2>3 DEF MailboxTypes, PlaceInv
<1> QED
  BY <1>1, <1>2 DEF SlaveStep

LEMMA StepTypes ==
  ASSUME MailboxTypes, PlaceInv, [SdNext]_sdVars
  PROVE  MailboxTypes' /\ PlaceInv'
<1>1. CASE \E call \in Calls : SdBegin(call)
  BY <1>1 DEF SdBegin, MailboxTypes, PlaceInv, sdSlave, sdBoxes
<1>2. CASE MasterStep
  BY <1>2, MasterTypes
<1>3. CASE SlaveStep
  BY <1>3, SlaveTypes
<1>4. CASE UNCHANGED sdVars
  BY <1>4 DEF sdVars, sdMaster, sdSlave, sdBoxes, MailboxTypes, PlaceInv
<1> QED
  BY <1>1, <1>2, <1>3, <1>4 DEF SdNext

----------------------------------------------------------------------------
(* The order of the answers.                                               *)

SameAnswers ==
  OnTheirWay' = OnTheirWay /\ \A j \in 1 .. OnTheirWay : Coming(j)' = Coming(j)

LEMMA Counted ==
  ASSUME MailboxTypes
  PROVE  /\ Again \in {0, 1} /\ Len(sdOut) \in {0, 1} /\ Len(sdReplies) \in Nat
         /\ OnTheirWay \in Nat /\ (Len(sdOut) = 0 <=> sdOut = << >>)
         /\ (Len(sdReplies) = 0 <=> sdReplies = << >>)
<1>1. Len(sdOut) \in Nat /\ Len(sdReplies) \in Nat /\ Len(sdOut) <= 1
  BY DEF MailboxTypes
<1>2. (Len(sdOut) = 0 <=> sdOut = << >>) /\ (Len(sdReplies) = 0 <=> sdReplies = << >>)
  BY EmptySeq DEF MailboxTypes
<1> DEFINE u == Len(sdOut)
<1>3. u \in {0, 1}
  <2>1. u \in Nat /\ u <= 1
    BY <1>1
  <2> HIDE DEF u
  <2> QED
    BY <2>1
<1>4. Again \in {0, 1}
  BY DEF Again
<1>5. OnTheirWay \in Nat
  BY <1>1, <1>3, <1>4 DEF OnTheirWay
<1> QED
  BY <1>1, <1>2, <1>3, <1>4, <1>5

\* The OUT mailbox is filled ...
LEMMA AnswerMoves ==
  ASSUME MailboxTypes, SlaveAnswer
  PROVE  SameAnswers
<1>1. /\ sdOut = << >> /\ sdReplies # << >> /\ sdReplies \in Seq(Messages)
      /\ sdOut' = << Head(sdReplies) >> /\ sdReplies' = Tail(sdReplies)
      /\ sdPc' = sdPc /\ sdLast' = sdLast
  BY DEF SlaveAnswer, sdMaster, MailboxTypes
<1> DEFINE a == Again
           n == Len(sdReplies)
<1>2. /\ Len(sdOut) = 0 /\ n \in Nat /\ n >= 1 /\ a \in {0, 1} /\ a' = a
  BY <1>1, Counted DEF Again
<1>3. /\ Len(sdOut') = 1 /\ sdOut'[1] = sdReplies[1] /\ Len(sdReplies') = n - 1
      /\ \A i \in 1 .. n - 1 : sdReplies'[i] = sdReplies[i + 1]
  BY <1>1, HeadTailProperties
<1>4. OnTheirWay = a + n /\ OnTheirWay' = a + n
  BY <1>2, <1>3 DEF OnTheirWay
<1>5. ASSUME NEW j \in 1 .. a + n PROVE Coming(j)' = Coming(j)
  <2>1. Coming(j) = IF j <= a THEN sdLast[1] ELSE sdReplies[j - a]
    BY <1>2 DEF Coming
  <2>2. Coming(j)' = IF j <= a THEN sdLast[1]
                     ELSE IF j <= a + 1 THEN sdReplies[1] ELSE sdReplies'[j - a - 1]
    BY <1>1, <1>2, <1>3 DEF Coming
  <2> HIDE DEF a, n
  <2>3. CASE j <= a
    BY <2>1, <2>2, <2>3
  <2>4. CASE ~(j <= a) /\ j <= a + 1
    <3>1. j - a = 1
      BY <1>2, <2>4
    <3> QED
      BY <2>1, <2>2, <2>4, <3>1
  <2>5. CASE ~(j <= a + 1)
    <3>1. j - a - 1 \in 1 .. n - 1 /\ (j - a - 1) + 1 = j - a /\ ~(j <= a)
      BY <1>2, <2>5
    <3> QED
      BY <1>3, <2>1, <2>2, <2>5, <3>1
  <2> QED
    BY <2>3, <2>4, <2>5
<1> QED
  BY <1>4, <1>5 DEF SameAnswers

\* ... an answer is lost with the frame that reads it, and asked for again ...
LEMMA AnswerRepeats ==
  ASSUME MailboxTypes, PlaceInv, SdTakeLost
  PROVE  SameAnswers
<1>1. /\ sdPc = "take" /\ sdPc' = "repeat" /\ sdOut' = << >> /\ sdLast' = sdOut
      /\ sdReplies' = sdReplies
  BY DEF SdTakeLost
<1>2. /\ Again = 0 /\ Again' = 1 /\ Len(sdOut) = 1 /\ Len(sdOut') = 0
      /\ Len(sdReplies) \in Nat
  BY <1>1, Counted, Nothing DEF Again, PlaceInv
<1>3. OnTheirWay = 1 + Len(sdReplies) /\ OnTheirWay' = OnTheirWay
  BY <1>1, <1>2 DEF OnTheirWay
<1>4. ASSUME NEW j \in 1 .. 1 + Len(sdReplies) PROVE Coming(j)' = Coming(j)
  <2>1. Coming(j) = IF j <= 1 THEN sdOut[j] ELSE sdReplies[j - 1]
    BY <1>2 DEF Coming
  <2>2. Coming(j)' = IF j <= 1 THEN sdOut[1] ELSE sdReplies[j - 1]
    BY <1>1, <1>2 DEF Coming
  <2> QED
    BY <2>1, <2>2
<1> QED
  BY <1>3, <1>4 DEF SameAnswers

\* ... is put before those that wait ...
LEMMA AnswerReturns ==
  ASSUME MailboxTypes, PlaceInv, SdRepeat
  PROVE  SameAnswers
<1> DEFINE u == Len(sdOut)
           n == Len(sdReplies)
<1>1. /\ sdPc = "repeat" /\ sdPc' = "take" /\ sdOut' = sdLast
      /\ sdReplies' = sdOut \o sdReplies
  BY DEF SdRepeat
<1>2. /\ Again = 1 /\ Again' = 0 /\ Len(sdOut') = 1 /\ u \in {0, 1} /\ n \in Nat
  BY <1>1, Counted DEF Again, PlaceInv
<1>3. /\ Len(sdOut \o sdReplies) = u + n
      /\ \A i \in 1 .. u + n :
           (sdOut \o sdReplies)[i] = IF i <= u THEN sdOut[i] ELSE sdReplies[i - u]
  BY ConcatProperties DEF MailboxTypes
<1>4. /\ Len(sdReplies') = u + n
      /\ \A i \in 1 .. u + n :
           sdReplies'[i] = IF i <= u THEN sdOut[i] ELSE sdReplies[i - u]
  BY <1>1, <1>3
<1>5. OnTheirWay = 1 + u + n /\ OnTheirWay' = OnTheirWay
  BY <1>2, <1>4 DEF OnTheirWay
<1>6. ASSUME NEW j \in 1 .. 1 + u + n PROVE Coming(j)' = Coming(j)
  <2>1. Coming(j) = IF j <= 1 THEN sdLast[1]
                    ELSE IF j <= 1 + u THEN sdOut[j - 1] ELSE sdReplies[j - 1 - u]
    BY <1>2 DEF Coming
  <2>2. Coming(j)' = IF j <= 1 THEN sdLast[j] ELSE sdReplies'[j - 1]
    BY <1>1, <1>2 DEF Coming
  <2> HIDE DEF u, n
  <2>3. CASE j <= 1
    <3>1. j = 1
      BY <2>3
    <3> QED
      BY <2>1, <2>2, <3>1
  <2>4. CASE ~(j <= 1)
    <3>1. j - 1 \in 1 .. u + n /\ (j - 1 <= u <=> j <= 1 + u)
      BY <1>2, <2>4
    <3>2. sdReplies'[j - 1] = IF j - 1 <= u THEN sdOut[j - 1] ELSE sdReplies[j - 1 - u]
      BY <1>4, <3>1
    <3> QED
      BY <2>1, <2>2, <2>4, <3>1, <3>2
  <2> QED
    BY <2>3, <2>4
<1> QED
  BY <1>5, <1>6 DEF SameAnswers

\* ... is taken ...
LEMMA AnswerLeaves ==
  ASSUME MailboxTypes, PlaceInv, SdTake, sdPc' # "repeat"
  PROVE  /\ OnTheirWay' = OnTheirWay - 1 /\ OnTheirWay >= 1 /\ Coming(1) = sdOut[1]
         /\ \A j \in 1 .. OnTheirWay - 1 : Coming(j)' = Coming(j + 1)
<1>1. sdPc = "take" /\ sdOut' = << >> /\ sdReplies' = sdReplies
  BY DEF SdTake
<1>2. /\ Again = 0 /\ Again' = 0 /\ Len(sdOut) = 1 /\ Len(sdOut') = 0
      /\ Len(sdReplies) \in Nat
  BY <1>1, Counted, Nothing DEF Again, PlaceInv
<1>3. OnTheirWay = 1 + Len(sdReplies) /\ OnTheirWay' = Len(sdReplies)
  BY <1>1, <1>2 DEF OnTheirWay
<1>4. Coming(1) = sdOut[1]
  BY <1>2 DEF Coming
<1>5. ASSUME NEW j \in 1 .. Len(sdReplies) PROVE Coming(j)' = Coming(j + 1)
  <2>1. Coming(j + 1) = sdReplies[j]
    <3>1. ~(j + 1 <= 1) /\ j + 1 - 1 = j
      OBVIOUS
    <3>2. Coming(j + 1) = sdReplies[j + 1 - 0 - 1]
      BY <1>2, <3>1 DEF Coming
    <3> QED
      BY <3>2
  <2>2. Coming(j)' = sdReplies[j]
    BY <1>1, <1>2 DEF Coming
  <2> QED
    BY <2>1, <2>2
<1> QED
  BY <1>2, <1>3, <1>4, <1>5

\* ... and the slave adds one at the end.
LEMMA AnswerJoins ==
  ASSUME MailboxTypes, NEW m \in Messages, Answer(m),
         sdPc' = sdPc, sdOut' = sdOut, sdLast' = sdLast
  PROVE  /\ OnTheirWay' = OnTheirWay + 1
         /\ \A j \in 1 .. OnTheirWay + 1 :
              Coming(j)' = IF j = OnTheirWay + 1 THEN m ELSE Coming(j)
<1> DEFINE a == Again
           u == Len(sdOut)
           n == Len(sdReplies)
<1>1. a \in {0, 1} /\ a' = a /\ u \in {0, 1} /\ u' = u /\ n \in Nat
  BY Counted DEF Again
<1>2. Len(sdReplies') = n + 1 /\ sdReplies'[n + 1] = m
      /\ \A i \in 1 .. n : sdReplies'[i] = sdReplies[i]
  BY AppendProperties DEF Answer, MailboxTypes
<1>3. OnTheirWay = a + u + n /\ OnTheirWay' = a + u + n + 1
  BY <1>1, <1>2 DEF OnTheirWay
<1>4. ASSUME NEW j \in 1 .. a + u + n + 1
      PROVE  /\ Coming(j) = IF j <= a THEN sdLast[1] ELSE IF j <= a + u THEN sdOut[j - a]
                            ELSE sdReplies[j - a - u]
             /\ Coming(j)' = IF j <= a THEN sdLast[1] ELSE IF j <= a + u THEN sdOut[j - a]
                             ELSE sdReplies'[j - a - u]
  BY <1>1 DEF Coming
<1> HIDE DEF a, u, n
<1>5. ASSUME NEW j \in 1 .. a + u + n + 1
      PROVE  Coming(j)' = IF j = a + u + n + 1 THEN m ELSE Coming(j)
  <2>1. CASE j = a + u + n + 1
    <3>1. ~(j <= a + u) /\ ~(j <= a) /\ j - a - u = n + 1
      BY <1>1, <2>1
    <3> QED
      BY <1>2, <1>4, <2>1, <3>1
  <2>2. CASE j # a + u + n + 1
    <3>1. ~(j <= a + u) => j - a - u \in 1 .. n
      BY <1>1, <2>2
    <3> QED
      BY <1>2, <1>4, <2>2, <3>1
  <2> QED
    BY <2>1, <2>2
<1> QED
  BY <1>1, <1>3, <1>5

----------------------------------------------------------------------------
(* The steps of a call.                                                    *)

LEMMA PartsStay ==
  ASSUME MailboxTypes, PartsInv, SameAnswers,
         sdCall' = sdCall, sdParts' = sdParts, sdUpload' = sdUpload,
         sdIn' = sdIn \/ (sdIn' = << Request >> /\ sdSegment)
  PROVE  PartsInv'
<1>1. PICK due \in Nat : InOrder(due)
  BY DEF PartsInv
<1>2. InOrder(due)'
  BY <1>1 DEF InOrder, SameAnswers
<1>3. sdIn' # << >> => sdIn'[1].kind = "segment"
  <2>1. CASE sdIn' = sdIn
    BY <2>1 DEF PartsInv
  <2>2. CASE sdIn' = << Request >> /\ sdSegment
    <3>1. sdIn'[1] = Request
      BY <2>2
    <3> QED
      BY <2>2, <3>1 DEF Request
  <2> QED
    BY <2>1, <2>2
<1> QED
  BY <1>2, <1>3 DEF PartsInv

LEMMA FirstStays ==
  ASSUME FirstInv, SameAnswers, sdPc # "send", sdPc' # "send",
         UNCHANGED << sdCall, sdSegment, sdToggle, sdIn, sdUpload, sdStored >>
  PROVE  FirstInv'
<1>1. Request' = Request
  BY DEF Request
<1> QED
  BY <1>1 DEF FirstInv, SameAnswers

\* Without an answer the call fails or goes on asking.
LEMMA UnansweredStep ==
  ASSUME CallInv, NoAnswer, sdPc \in {"send", "wait"}, OnTheirWay' = OnTheirWay,
         \A j \in 1 .. OnTheirWay : Coming(j)' = Coming(j),
         sdUpload' = sdUpload, sdFresh' = sdFresh, sdGap' = sdGap,
         sdIn' \in {sdIn, << Request >>}
  PROVE  /\ CallExact'
         /\ Trusted' => IF sdSegment' THEN PartsInv' ELSE FirstInv'
<1>1. CASE ~sdSegment
  BY <1>1 DEF NoAnswer, CallExact, Trusted
<1>2. CASE sdSegment
  <2>1. /\ sdPc' = "send" /\ sdResult' = sdResult /\ sdSegment' = sdSegment
        /\ sdCall' = sdCall /\ sdParts' = sdParts
    BY <1>2 DEF NoAnswer
  <2>2. CallExact'
    BY <2>1 DEF CallInv, PlaceInv, CallExact
  <2>3. Trusted' => Trusted
    BY DEF Trusted
  <2>4. ASSUME Trusted PROVE PartsInv'
    <3>1. PartsInv /\ MailboxTypes
      BY <1>2, <2>4 DEF CallInv
    <3> QED
      BY <1>2, <2>1, <3>1, PartsStay DEF SameAnswers
  <2> QED
    BY <1>2, <2>1, <2>2, <2>3, <2>4
<1>3. sdSegment \in BOOLEAN
  BY DEF CallInv, MailboxTypes
<1> QED
  BY <1>1, <1>2, <1>3

\* The answer to the first request is that of this call.
LEMMA FirstTaken ==
  ASSUME CallInv, SdTake, Trusted, ~sdSegment, MailboxTypes'
  PROVE  /\ CallExact'
         /\ Trusted' => IF sdSegment' THEN PartsInv' ELSE FirstInv'
<1> DEFINE o == sdCall.object
           m == sdOut[1]
<1>1. sdPc = "take" /\ FirstAnswer(m) /\ sdUpload' = sdUpload /\ sdStored' = sdStored
      /\ sdIn' = sdIn /\ sdCall' = sdCall
  BY DEF SdTake, sdSlave, FirstAnswer, Finish, AskOn
<1>2. MailboxTypes /\ PlaceInv /\ FirstInv /\ sdCall \in Calls
  BY <1>1 DEF CallInv, MailboxTypes
<1>3. o \in [index : Nat, sub : Nat, parts : Nat \ {0}] /\ sdCall.write \in BOOLEAN
  BY <1>2, MailboxAssumption DEF Calls
<1>4. sdPc' \in {"idle", "send"}
  BY <1>2, AnswerTaken
<1>5. /\ OnTheirWay' = OnTheirWay - 1 /\ OnTheirWay >= 1 /\ Coming(1) = m
  BY <1>2, <1>4, AnswerLeaves
<1>6. /\ sdIn = << >> /\ OnTheirWay = 1
      /\ m = [kind |-> IF sdCall.write THEN "down" ELSE "first", object |-> o]
      /\ IF sdCall.write THEN o \in sdStored
         ELSE sdUpload = IF o.parts > 1 THEN << o, 2, 0 >> ELSE NoUpload
  BY <1>1, <1>2, <1>5 DEF FirstInv
<1>7. m.kind = (IF sdCall.write THEN "down" ELSE "first") /\ m.object = o
  BY <1>6
<1> HIDE DEF o, m
<1>8. CASE sdCall.write
  <2>1. Finish("ok", << >>)
    BY <1>1, <1>7, <1>8 DEF FirstAnswer, o
  <2> QED
    BY <1>1, <1>6, <1>8, <2>1 DEF Finish, CallExact, Trusted, o
<1>9. CASE ~sdCall.write /\ ~(o.parts > 1)
  <2>1. Finish("ok", << << o, 1 >> >>)
    BY <1>1, <1>7, <1>9 DEF FirstAnswer, o
  <2>2. o.parts = 1
    BY <1>3, <1>9
  <2>3. << << o, 1 >> >> = [k \in 1 .. o.parts |-> << o, k >>]
    BY <2>2
  <2> QED
    BY <1>1, <1>9, <2>1, <2>3 DEF Finish, CallExact, Trusted, o
<1>10. CASE ~sdCall.write /\ o.parts > 1
  <2>1. AskOn(<< << o, 1 >> >>, 0)
    BY <1>1, <1>7, <1>10 DEF FirstAnswer, o
  <2>2. sdPc' = "send" /\ sdSegment' = TRUE /\ sdParts' = << << o, 1 >> >> /\ sdResult' = "none"
    BY <1>1, <1>2, <2>1 DEF AskOn, PlaceInv
  <2>3. << << o, 1 >> >> = FirstParts(o, 1) /\ Len(<< << o, 1 >> >>) = 1
    BY DEF FirstParts
  <2>4. InOrder(0)'
    <3>1. OnTheirWay' = 0
      BY <1>5, <1>6
    <3>2. Len(sdParts') = 1 /\ sdCall'.object = o /\ sdUpload' = << o, 2, 0 >>
      BY <1>1, <1>6, <1>10, <2>2, <2>3 DEF o
    <3>3. 1 + 0 <= o.parts /\ 1 + 0 < o.parts /\ 1 + 0 + 1 = 2
      BY <1>3, <1>10
    <3>4. \A j \in 1 .. OnTheirWay' : FALSE
      BY <3>1
    <3> QED
      BY <3>1, <3>2, <3>3, <3>4 DEF InOrder
  <2>5. PartsInv'
    <3>1. /\ ~sdCall'.write /\ sdParts' = FirstParts(sdCall'.object, Len(sdParts'))
          /\ Len(sdParts') \in 1 .. sdCall'.object.parts - 1 /\ sdIn' = << >>
      BY <1>1, <1>3, <1>6, <1>10, <2>2, <2>3 DEF o
    <3> QED
      BY <2>4, <3>1 DEF PartsInv
  <2> QED
    BY <2>2, <2>5 DEF CallExact
<1> QED
  BY <1>8, <1>9, <1>10

\* The answer to a request for a part is the next part or none.
LEMMA PartTaken ==
  ASSUME CallInv, SdTake, Trusted, sdSegment, MailboxTypes'
  PROVE  /\ CallExact'
         /\ Trusted' => IF sdSegment' THEN PartsInv' ELSE FirstInv'
<1> DEFINE o == sdCall.object
           m == sdOut[1]
           n == Len(sdParts)
<1>1. sdPc = "take" /\ PartAnswer(m) /\ sdUpload' = sdUpload /\ sdIn' = sdIn /\ sdCall' = sdCall
  BY DEF SdTake, sdSlave, PartAnswer, Finish, AskOn
<1>2. MailboxTypes /\ PlaceInv /\ PartsInv /\ sdCall \in Calls
  BY <1>1 DEF CallInv, MailboxTypes
<1>3. o \in Objects /\ o.parts \in Nat
  BY <1>2, MailboxAssumption DEF Calls
<1>4. /\ OnTheirWay' = OnTheirWay - 1 /\ OnTheirWay >= 1 /\ Coming(1) = m
      /\ \A j \in 1 .. OnTheirWay - 1 : Coming(j)' = Coming(j + 1)
  <2>1. sdPc' \in {"idle", "send"}
    BY <1>2, AnswerTaken
  <2> QED
    BY <1>2, <2>1, AnswerLeaves
<1>5. PICK due \in Nat : InOrder(due)
  BY <1>2 DEF PartsInv
<1>6. /\ n \in 1 .. o.parts - 1 /\ sdParts = FirstParts(o, n) /\ ~sdCall.write
      /\ OnTheirWay \in Nat
  BY <1>2, Counted DEF PartsInv
<1>7. /\ n + due <= o.parts /\ due <= OnTheirWay
      /\ \A j \in 1 .. OnTheirWay :
           Coming(j) = IF j <= due THEN [kind |-> "part", object |-> o, part |-> n + j]
                       ELSE [kind |-> "abort"]
      /\ sdUpload # NoUpload =>
           due = OnTheirWay /\ n + due < o.parts /\ sdUpload[1] = o /\ sdUpload[2] = n + due + 1
  BY <1>5 DEF InOrder
<1>8. m = IF 1 <= due THEN [kind |-> "part", object |-> o, part |-> n + 1]
          ELSE [kind |-> "abort"]
  BY <1>4, <1>6, <1>7
<1> HIDE DEF o, m, n
<1>9. CASE ~(1 <= due)
  <2>1. m.kind # "part"
    BY <1>8, <1>9
  <2> QED
    BY <1>1, <2>1 DEF PartAnswer, Finish, CallExact, Trusted
<1>10. CASE 1 <= due
  <2> DEFINE p == Append(sdParts, << o, n + 1 >>)
  <2>1. m.kind = "part" /\ m.object = o /\ m.part = n + 1
    BY <1>8, <1>10
  <2>2. p = FirstParts(o, n + 1) /\ Len(p) = n + 1
    <3>1. n \in Nat
      BY <1>6
    <3>2. FirstParts(o, n) \in Seq({o} \X Nat) /\ Len(FirstParts(o, n)) = n
      BY <3>1 DEF FirstParts
    <3>3. /\ p \in Seq({o} \X Nat) /\ Len(p) = n + 1
          /\ \A k \in 1 .. n : p[k] = sdParts[k]
          /\ p[n + 1] = << o, n + 1 >>
      BY <1>6, <3>1, <3>2, AppendProperties
    <3>4. p = [k \in 1 .. n + 1 |-> p[k]]
      BY <3>3, LenProperties
    <3> HIDE DEF p
    <3>5. \A k \in 1 .. n + 1 : p[k] = << o, k >>
      <4> SUFFICES ASSUME NEW k \in 1 .. n + 1 PROVE p[k] = << o, k >>
        OBVIOUS
      <4>1. CASE k \in 1 .. n
        BY <1>6, <3>3, <4>1 DEF FirstParts
      <4>2. CASE k = n + 1
        BY <3>3, <4>2
      <4> QED
        BY <3>1, <4>1, <4>2
    <3> QED
      BY <3>3, <3>4, <3>5 DEF FirstParts
  <2>3. IF n + 1 = o.parts THEN Finish("ok", p) ELSE AskOn(p, NextToggle(sdToggle))
    BY <1>1, <2>1 DEF PartAnswer
  <2> HIDE DEF p
  <2>4. CASE n + 1 = o.parts
    <3>1. sdPc' = "idle" /\ sdParts' = FirstParts(sdCall'.object, sdCall'.object.parts)
      BY <1>1, <2>2, <2>3, <2>4 DEF Finish, o
    <3> QED
      BY <1>1, <1>6, <3>1 DEF CallExact, Trusted, FirstParts
  <2>5. CASE n + 1 # o.parts
    <3>1. sdPc' = "send" /\ sdSegment' = TRUE /\ sdParts' = p /\ sdResult' = "none"
      BY <1>1, <1>2, <2>3, <2>5 DEF AskOn, PlaceInv
    <3>2. sdCall'.object = o /\ Len(sdParts') = n + 1 /\ ~sdCall'.write
      BY <1>1, <1>6, <2>2, <3>1 DEF o
    <3>3. InOrder(due - 1)'
      <4>1. /\ due - 1 \in Nat /\ n + 1 + (due - 1) <= o.parts /\ due - 1 <= OnTheirWay'
        BY <1>3, <1>4, <1>6, <1>7, <1>10
      <4>2. ASSUME NEW j \in 1 .. OnTheirWay - 1
            PROVE  Coming(j)' = IF j <= due - 1
                                THEN [kind |-> "part", object |-> o, part |-> n + 1 + j]
                                ELSE [kind |-> "abort"]
        <5>1. j + 1 \in 1 .. OnTheirWay /\ (j + 1 <= due <=> j <= due - 1)
              /\ n + (j + 1) = n + 1 + j
          BY <1>6, <4>1
        <5>2. Coming(j)' = Coming(j + 1)
          BY <1>4
        <5> QED
          BY <1>7, <5>1, <5>2
      <4>3. sdUpload' # NoUpload =>
              /\ due - 1 = OnTheirWay' /\ n + 1 + (due - 1) < o.parts
              /\ sdUpload'[1] = o /\ sdUpload'[2] = n + 1 + (due - 1) + 1
        BY <1>1, <1>3, <1>4, <1>6, <1>7
      <4> QED
        BY <1>4, <3>2, <4>1, <4>2, <4>3 DEF InOrder
    <3>4. /\ sdParts' = FirstParts(sdCall'.object, Len(sdParts'))
          /\ Len(sdParts') \in 1 .. sdCall'.object.parts - 1
      BY <1>3, <1>6, <2>2, <2>5, <3>1, <3>2
    <3>5. sdIn' # << >> => sdIn'[1].kind = "segment"
      BY <1>1, <1>2 DEF PartsInv
    <3>6. due - 1 \in Nat
      BY <1>10
    <3> QED
      BY <3>1, <3>2, <3>3, <3>4, <3>5, <3>6 DEF PartsInv, CallExact
  <2> QED
    BY <2>4, <2>5
<1> QED
  BY <1>9, <1>10

\* The slave answers the first request ...
LEMMA FirstServed ==
  ASSUME CallInv, SlaveServe, Trusted, ~sdSegment
  PROVE  FirstInv'
<1> DEFINE o == sdCall.object
           m == [kind |-> IF sdCall.write THEN "down" ELSE "first", object |-> o]
<1>1. MailboxTypes /\ FirstInv /\ sdIn # << >> /\ sdCall \in Calls /\ sdPc # "idle"
  BY DEF CallInv, SlaveServe, Trusted, MailboxTypes
<1>2. sdPc # "send" /\ sdIn = << Request >> /\ OnTheirWay = 0
  BY <1>1 DEF FirstInv
<1>3. sdIn[1] = Request /\ Request.kind = (IF sdCall.write THEN "down" ELSE "up")
      /\ Request.object = o
  BY <1>2 DEF Request
<1>4. /\ sdIn' = << >>
      /\ UNCHANGED << sdPc, sdCall, sdSegment, sdToggle, sdOut, sdLast >>
  BY DEF SlaveServe, sdMaster
<1>5. /\ Answer(m)
      /\ IF sdCall.write THEN o \in sdStored'
         ELSE sdUpload' = IF o.parts > 1 THEN << o, 2, 0 >> ELSE NoUpload
  BY <1>3 DEF SlaveServe
<1>6. m \in Messages
  BY <1>1 DEF Messages, Calls
<1> HIDE DEF m
<1>7. OnTheirWay' = 1 /\ \A j \in 1 .. 1 : Coming(j)' = m
  BY <1>1, <1>2, <1>4, <1>5, <1>6, AnswerJoins
<1>8. Coming(1)' = m
  BY <1>7
<1> QED
  BY <1>2, <1>4, <1>5, <1>7, <1>8 DEF FirstInv, m

\* ... and with the next part, as long as the toggle bit is the one that is due.
LEMMA PartServed ==
  ASSUME CallInv, SlaveServe, Trusted, sdSegment
  PROVE  PartsInv'
<1> DEFINE o == sdCall.object
           n == Len(sdParts)
<1>1. MailboxTypes /\ PartsInv /\ sdIn # << >> /\ sdCall \in Calls
  BY DEF CallInv, SlaveServe, Trusted, MailboxTypes
<1>2. /\ sdIn' = << >> /\ AnswerPart(sdIn[1].toggle)
      /\ UNCHANGED << sdPc, sdCall, sdSegment, sdParts, sdOut, sdLast >>
  BY <1>1 DEF SlaveServe, sdMaster, PartsInv
<1>3. o \in Objects /\ o.parts \in Nat /\ n \in 1 .. o.parts - 1 /\ OnTheirWay \in Nat
  BY <1>1, MailboxAssumption, Counted DEF Calls, PartsInv
<1>4. PICK due \in Nat : InOrder(due)
  BY <1>1 DEF PartsInv
<1>5. /\ n + due <= o.parts /\ due <= OnTheirWay
      /\ \A j \in 1 .. OnTheirWay :
           Coming(j) = IF j <= due THEN [kind |-> "part", object |-> o, part |-> n + j]
                       ELSE [kind |-> "abort"]
      /\ sdUpload # NoUpload =>
           due = OnTheirWay /\ n + due < o.parts /\ sdUpload[1] = o /\ sdUpload[2] = n + due + 1
  BY <1>4 DEF InOrder
<1>6. sdCall'.object = o /\ Len(sdParts') = n
  BY <1>2
<1> HIDE DEF o, n
<1>7. \E later \in Nat : InOrder(later)'
  <2>1. CASE sdUpload # NoUpload /\ sdUpload[3] = sdIn[1].toggle
    <3> DEFINE m == [kind |-> "part", object |-> o, part |-> n + due + 1]
    <3>1. /\ Answer(m)
          /\ sdUpload' = IF n + due + 1 = o.parts THEN NoUpload
                         ELSE << o, n + due + 2, 1 - sdIn[1].toggle >>
      <4>1. n + due + 1 + 1 = n + due + 2
        BY <1>3
      <4> QED
        BY <1>2, <1>5, <2>1, <4>1 DEF AnswerPart
    <3>2. m \in Messages
      BY <1>3 DEF Messages
    <3> HIDE DEF m
    <3>3. /\ OnTheirWay' = OnTheirWay + 1
          /\ \A j \in 1 .. OnTheirWay + 1 :
               Coming(j)' = IF j = OnTheirWay + 1 THEN m ELSE Coming(j)
      BY <1>1, <1>2, <3>1, <3>2, AnswerJoins
    <3>4. due = OnTheirWay /\ n + due < o.parts
      BY <1>5, <2>1
    <3>5. ASSUME NEW j \in 1 .. due + 1
          PROVE  Coming(j)' = [kind |-> "part", object |-> o, part |-> n + j]
      <4>1. CASE j = due + 1
        <5>1. n + j = n + due + 1
          BY <1>3, <4>1
        <5> QED
          BY <3>3, <3>4, <4>1, <5>1 DEF m
      <4>2. CASE j # due + 1
        <5>1. j \in 1 .. OnTheirWay /\ j <= due /\ j \in 1 .. OnTheirWay + 1
          BY <1>3, <3>4, <4>2
        <5>2. Coming(j)' = Coming(j)
          BY <3>3, <3>4, <4>2, <5>1
        <5> QED
          BY <1>5, <5>1, <5>2
      <4> QED
        BY <4>1, <4>2
    <3>6. sdUpload' # NoUpload =>
            /\ n + (due + 1) < o.parts
            /\ sdUpload'[1] = o /\ sdUpload'[2] = n + (due + 1) + 1
      BY <1>3, <3>1, <3>4
    <3>7. due + 1 \in Nat /\ OnTheirWay' = due + 1 /\ n + (due + 1) <= o.parts
      BY <1>3, <3>3, <3>4
    <3>8. InOrder(due + 1)'
      BY <1>6, <3>5, <3>6, <3>7 DEF InOrder
    <3> QED
      BY <3>7, <3>8
  <2>2. CASE ~(sdUpload # NoUpload /\ sdUpload[3] = sdIn[1].toggle)
    <3> DEFINE m == [kind |-> "abort"]
    <3>1. Answer(m) /\ sdUpload' = NoUpload
      BY <1>2, <2>2 DEF AnswerPart
    <3>2. m \in Messages
      BY DEF Messages
    <3> HIDE DEF m
    <3>3. /\ OnTheirWay' = OnTheirWay + 1
          /\ \A j \in 1 .. OnTheirWay + 1 :
               Coming(j)' = IF j = OnTheirWay + 1 THEN m ELSE Coming(j)
      BY <1>1, <1>2, <3>1, <3>2, AnswerJoins
    <3>4. ASSUME NEW j \in 1 .. OnTheirWay + 1
          PROVE  Coming(j)' = IF j <= due
                              THEN [kind |-> "part", object |-> o, part |-> n + j]
                              ELSE [kind |-> "abort"]
      <4>1. CASE j = OnTheirWay + 1
        <5>1. ~(j <= due)
          BY <1>3, <1>5, <4>1
        <5> QED
          BY <3>3, <4>1, <5>1 DEF m
      <4>2. CASE j # OnTheirWay + 1
        <5>1. j \in 1 .. OnTheirWay
          BY <1>3, <4>2
        <5> QED
          BY <1>5, <3>3, <4>2, <5>1
      <4> QED
        BY <4>1, <4>2
    <3>5. due <= OnTheirWay'
      BY <1>3, <1>5, <3>3
    <3>6. InOrder(due)'
      BY <1>5, <1>6, <3>1, <3>3, <3>4, <3>5 DEF InOrder
    <3> QED
      BY <3>6
  <2> QED
    BY <2>1, <2>2
<1> QED
  BY <1>1, <1>2, <1>7 DEF PartsInv

LEMMA MasterCalls ==
  ASSUME CallInv, MasterStep, MailboxTypes', PlaceInv'
  PROVE  /\ CallExact'
         /\ Trusted' => IF sdSegment' THEN PartsInv' ELSE FirstInv'
<1>1. MailboxTypes /\ PlaceInv
  BY DEF CallInv
<1>2. (sdPc' # "idle" => CallExact') /\ (sdPc' = "idle" => ~Trusted')
  BY DEF PlaceInv, CallExact, Trusted
<1>3. CASE SdEmpty
  <2>1. /\ sdPc = "empty" /\ sdPc' = "send" /\ sdOut' = << >> /\ ~sdSegment'
        /\ sdIn' = sdIn /\ sdReplies' = sdReplies
        /\ sdFresh' => sdIn = << >> /\ sdReplies = << >>
    BY <1>1, <1>3 DEF SdEmpty, PlaceInv
  <2>2. sdReplies' = << >> => OnTheirWay' = 0
    BY <2>1, Nothing DEF OnTheirWay, Again
  <2> QED
    BY <1>2, <2>1, <2>2 DEF Trusted, FirstInv
<1>4. CASE SdEmptyLost
  BY <1>2, <1>4 DEF SdEmptyLost, Trusted
<1>5. CASE SdSend
  <2>1. /\ sdPc = "send" /\ sdPc' = "wait" /\ sdIn' = << Request >>
        /\ UNCHANGED << sdCall, sdSegment, sdToggle, sdParts, sdOut, sdReplies, sdLast,
                        sdUpload, sdFresh, sdGap >>
    BY <1>5 DEF SdSend, sdSlave
  <2>2. Request' = Request
    BY <2>1 DEF Request
  <2>3. SameAnswers
    BY <2>1 DEF SameAnswers, OnTheirWay, Coming, Again
  <2>4. Trusted' => Trusted
    BY <2>1 DEF Trusted
  <2>5. CASE sdSegment
    BY <1>1, <1>2, <2>1, <2>3, <2>4, <2>5, PartsStay DEF CallInv
  <2>6. CASE ~sdSegment
    <3>1. Trusted => OnTheirWay = 0
      BY <2>1, <2>6 DEF CallInv, FirstInv
    <3> QED
      BY <1>2, <2>1, <2>2, <2>3, <2>4, <2>6, <3>1 DEF FirstInv, SameAnswers
  <2> QED
    BY <2>5, <2>6
<1>6. CASE SdSendLate \/ SdWaitLate \/ SdSendLost
  <2>1. /\ NoAnswer /\ sdPc \in {"send", "wait"} /\ sdIn' \in {sdIn, << Request >>}
        /\ UNCHANGED << sdUpload, sdFresh, sdGap, sdOut, sdReplies, sdLast >>
    BY <1>6 DEF SdSendLate, SdWaitLate, SdSendLost, sdSlave, sdBoxes
  <2>2. sdPc' \in {"idle", "send"}
    BY <2>1 DEF NoAnswer
  <2>3. SameAnswers
    BY <2>1, <2>2 DEF SameAnswers, OnTheirWay, Coming, Again
  <2> QED
    BY <2>1, <2>3, UnansweredStep DEF SameAnswers
<1>7. CASE SdAvailable \/ SdTakeLost \/ SdRepeat
  <2>1. SameAnswers
    <3>1. CASE SdAvailable
      BY <3>1 DEF SdAvailable, SameAnswers, OnTheirWay, Coming, Again, sdBoxes
    <3> QED
      BY <1>1, <1>7, <3>1, AnswerRepeats, AnswerReturns
  <2>2. /\ sdPc \in {"wait", "take", "repeat"} /\ sdPc' \in {"take", "repeat"}
        /\ UNCHANGED << sdCall, sdSegment, sdToggle, sdParts, sdIn, sdUpload, sdStored,
                        sdFresh, sdGap >>
    BY <1>7 DEF SdAvailable, SdTakeLost, SdRepeat, sdSlave, sdBoxes
  <2>3. Trusted' => Trusted
    BY <2>2 DEF Trusted
  <2>4. CASE sdSegment
    BY <1>1, <1>2, <2>1, <2>2, <2>3, <2>4, PartsStay DEF CallInv
  <2>5. CASE ~sdSegment
    <3>1. Trusted => FirstInv
      BY <2>5 DEF CallInv
    <3>2. Trusted => FirstInv'
      BY <2>1, <2>2, <3>1, FirstStays
    <3> QED
      BY <1>2, <2>2, <2>3, <2>5, <3>2
  <2> QED
    BY <2>4, <2>5
<1>8. CASE SdTake
  <2>1. CASE Trusted
    BY <1>8, <2>1, FirstTaken, PartTaken DEF CallInv, MailboxTypes
  <2>2. CASE ~Trusted
    BY <1>8, <2>2 DEF SdTake, Trusted, CallExact
  <2> QED
    BY <2>1, <2>2
<1>9. CASE SdRepeatLate
  BY <1>9 DEF SdRepeatLate, Trusted, CallExact
<1> QED
  BY <1>3, <1>4, <1>5, <1>6, <1>7, <1>8, <1>9 DEF MasterStep

LEMMA SlaveCalls ==
  ASSUME CallInv, SlaveStep, MailboxTypes', PlaceInv'
  PROVE  /\ CallExact'
         /\ Trusted' => IF sdSegment' THEN PartsInv' ELSE FirstInv'
<1>1. UNCHANGED << sdPc, sdCall, sdSegment, sdToggle, sdParts, sdResult, sdFresh, sdGap >>
      /\ sdStored \subseteq sdStored'
  BY DEF SlaveStep, SlaveServe, SlaveAnswer, sdMaster, sdSlave
<1>2. CallExact'
  BY <1>1 DEF CallInv, CallExact
<1>3. Trusted' => Trusted
  BY <1>1 DEF Trusted
<1>4. CASE SlaveServe
  BY <1>1, <1>2, <1>3, <1>4, FirstServed, PartServed
<1>5. CASE SlaveAnswer
  <2>1. SameAnswers /\ MailboxTypes /\ UNCHANGED << sdIn, sdUpload, sdStored >>
    BY <1>5, AnswerMoves DEF SlaveAnswer, sdSlave, CallInv
  <2>2. CASE sdSegment
    BY <1>1, <1>2, <1>3, <2>1, <2>2, PartsStay DEF CallInv
  <2>3. CASE ~sdSegment
    <3>1. CASE sdPc = "send"
      BY <1>1, <1>2, <1>3, <2>1, <2>3, <3>1 DEF CallInv, FirstInv, SameAnswers
    <3>2. CASE sdPc # "send"
      BY <1>1, <1>2, <1>3, <2>1, <2>3, <3>2, FirstStays DEF CallInv
    <3> QED
      BY <3>1, <3>2
  <2> QED
    BY <2>2, <2>3
<1> QED
  BY <1>4, <1>5 DEF SlaveStep

LEMMA CallStep ==
  ASSUME CallInv, [SdNext]_sdVars
  PROVE  CallInv'
<1>1. MailboxTypes' /\ PlaceInv'
  BY StepTypes DEF CallInv
<1>2. CASE \E call \in Calls : SdBegin(call)
  <2>1. sdPc' = "empty" /\ sdResult' = "none"
    BY <1>2 DEF SdBegin
  <2> QED
    BY <1>1, <2>1 DEF CallInv, Trusted, CallExact
<1>3. CASE MasterStep
  BY <1>1, <1>3, MasterCalls DEF CallInv
<1>4. CASE SlaveStep
  BY <1>1, <1>4, SlaveCalls DEF CallInv
<1>5. CASE UNCHANGED sdVars
  <2>1. UNCHANGED << sdPc, sdCall, sdSegment, sdToggle, sdParts, sdResult, sdUpload,
                     sdStored, sdIn, sdOut, sdReplies, sdLast, sdFresh, sdGap >>
    BY <1>5 DEF sdVars, sdMaster, sdSlave, sdBoxes
  <2>2. (Trusted' <=> Trusted) /\ (CallExact' <=> CallExact) /\ (FirstInv' <=> FirstInv)
    BY <2>1 DEF Trusted, CallExact, FirstInv, OnTheirWay, Coming, Again, Request
  <2>3. PartsInv' <=> PartsInv
    BY <2>1 DEF PartsInv, InOrder, OnTheirWay, Coming, Again
  <2> QED
    BY <1>1, <2>1, <2>2, <2>3 DEF CallInv
<1> QED
  BY <1>2, <1>3, <1>4, <1>5 DEF SdNext

(***************************************************************************)
(* A read that succeeds returns its object, all parts in order, and a      *)
(* write that succeeds has been stored (ec_SDOread, ec_SDOwrite), for any  *)
(* number of parts, lost frames and late answers, although the master does *)
(* not compare the toggle bit: the slave answers in order, and no longer   *)
(* after a request out of turn.                                            *)
(***************************************************************************)
THEOREM CallsAreExact == SdSpec => []CallExact
<1>1. SdInit => CallInv
  BY InitCall
<1>2. CallInv /\ [SdNext]_sdVars => CallInv'
  BY CallStep
<1>3. CallInv => CallExact
  BY DEF CallInv
<1> QED
  BY <1>1, <1>2, <1>3, PTL DEF SdSpec
============================================================================
