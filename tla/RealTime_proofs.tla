--------------------------- MODULE RealTime_proofs --------------------------
(***************************************************************************)
(* The real-time parts.  The timer's interrupts stay on the grid of its    *)
(* cycle, for every cycle, every start and every delay, and none is missed *)
(* while they are on time.  TargetInv is inductive for the target: a lemma *)
(* per action of RtTarget, a step per conjunct that the action can         *)
(* disturb; its safety properties follow.                                  *)
(***************************************************************************)
EXTENDS RtTimer, RtInvariant, TLAPS

TimerTypes ==
  /\ tmNow \in Int /\ tmSec \in Int /\ tmNsec \in Int /\ tmStart \in Int
  /\ tmIcnt \in Nat \ {0} /\ tmCalled \in Int

TimerInv == TimerTypes /\ TicksOnGrid

----------------------------------------------------------------------------
(* Arithmetic.                                                             *)

LEMMA DivMod ==
  ASSUME NEW a \in Int, NEW d \in Nat \ {0}
  PROVE  /\ a \div d \in Int /\ a % d \in 0 .. d - 1
         /\ a = (a \div d) * d + (a % d)
OBVIOUS

LEMMA Distribute ==
  ASSUME NEW a \in Int, NEW b \in Int, NEW c \in Int
  PROVE  (a + b) * c = a * c + b * c
OBVIOUS

\* Between one divisor and two, the quotient is 1.
LEMMA OneSecond ==
  ASSUME NEW d \in Nat \ {0}, NEW a \in d .. (2 * d) - 1
  PROVE  a \div d = 1 /\ a % d = a - d
<1> DEFINE q == a \div d
           r == a % d
<1>1. q \in Int /\ r \in 0 .. d - 1 /\ a = q * d + r
  BY DivMod
<1>2. q >= 1
  <2>1. ASSUME q <= 0 PROVE FALSE
    <3>1. q * d <= 0
      BY <1>1, <2>1
    <3> QED
      BY <1>1, <3>1
  <2> QED
    BY <1>1, <2>1
<1>3. q <= 1
  <2>1. ASSUME q >= 2 PROVE FALSE
    <3>1. q * d >= 2 * d
      BY <1>1, <2>1
    <3> QED
      BY <1>1, <3>1
  <2> QED
    BY <1>1, <2>1
<1>4. q = 1
  BY <1>1, <1>2, <1>3
<1> QED
  BY <1>1, <1>4

(***************************************************************************)
(* rtc_add_timespec adds one cycle and leaves the nanoseconds at most a    *)
(* second.                                                                 *)
(***************************************************************************)
LEMMA AddsCycle ==
  ASSUME TimerTypes, tmNsec \in 0 .. Nsec
  PROVE  /\ AddTimespec[1] \in Int /\ AddTimespec[2] \in 0 .. Nsec
         /\ AddTimespec[1] * Nsec + AddTimespec[2] = (tmSec * Nsec + tmNsec) + Cycle
<1> DEFINE q == Cycle \div Nsec
           r == Cycle % Nsec
           n == tmNsec + r
<1>1. q \in Int /\ r \in 0 .. Nsec - 1 /\ Cycle = q * Nsec + r
  BY DivMod, TimerAssumption
<1>2. tmSec \in Int /\ Nsec \in Nat \ {0}
  BY TimerAssumption DEF TimerTypes
<1>3. (tmSec + q) * Nsec = tmSec * Nsec + q * Nsec
  BY <1>1, <1>2, Distribute
<1> HIDE DEF q, r
<1>4. CASE n > Nsec
  <2>1. n \div Nsec = 1 /\ n % Nsec = n - Nsec
    BY <1>1, <1>2, <1>4, OneSecond
  <2>2. AddTimespec = << (tmSec + q) + 1, n - Nsec >>
    BY <1>4, <2>1 DEF AddTimespec, q, r
  <2>3. ((tmSec + q) + 1) * Nsec = (tmSec + q) * Nsec + Nsec
    BY <1>1, <1>2, Distribute
  <2>4. n - Nsec \in 0 .. Nsec
    BY <1>1, <1>2, <1>4
  <2>5. (tmSec * Nsec) \in Int /\ (q * Nsec) \in Int
    BY <1>1, <1>2
  <2> QED
    BY <1>1, <1>2, <1>3, <2>2, <2>3, <2>4, <2>5
<1>5. CASE ~(n > Nsec)
  <2>1. AddTimespec = << tmSec + q, n >>
    BY <1>5 DEF AddTimespec, q, r
  <2>2. n \in 0 .. Nsec
    BY <1>1, <1>2, <1>5
  <2>3. (tmSec * Nsec) \in Int /\ (q * Nsec) \in Int
    BY <1>1, <1>2
  <2> QED
    BY <1>1, <1>2, <1>3, <2>1, <2>2, <2>3
<1> QED
  BY <1>4, <1>5

\* A wait for a valid time does not end before it.
LEMMA WaitsLongEnough ==
  ASSUME tmNow \in Int, NEW s \in Int, NEW n \in 0 .. Nsec
  PROVE  /\ WaitEnds(<< s, n >>) \in Int
         /\ n < Nsec => WaitEnds(<< s, n >>) >= s * Nsec + n
<1>1. Nsec \in Nat \ {0} /\ s * Nsec \in Int
  BY TimerAssumption
<1> QED
  BY <1>1 DEF WaitEnds

----------------------------------------------------------------------------
LEMMA InitTimer == TmInit => TimerInv
<1> SUFFICES ASSUME NEW now \in 0 .. Nsec - 1, TmBegin(now) PROVE TimerInv
  BY DEF TmInit
<1> USE TimerAssumption
<1>1. now \div Nsec \in Int /\ now % Nsec \in 0 .. Nsec - 1
      /\ now = (now \div Nsec) * Nsec + (now % Nsec)
  BY DivMod
<1>2. TimerTypes
  BY <1>1 DEF TmBegin, TimerTypes
<1>3. (1 - 1) * Cycle = 0
  OBVIOUS
<1>4. TicksOnGrid
  BY <1>1, <1>3 DEF TmBegin, TicksOnGrid
<1> QED
  BY <1>2, <1>4 DEF TimerInv

LEMMA StepTimer == TimerInv /\ [TmNext]_tmVars => TimerInv'
<1> SUFFICES ASSUME TimerInv, [TmNext]_tmVars PROVE TimerInv'
  OBVIOUS
<1>1. ASSUME NEW l \in Latencies, NEW r \in Durations, NEW stop \in BOOLEAN,
             TmTick(l, r, stop)
      PROVE TimerInv'
  <2> DEFINE ts == AddTimespec
             wake == WaitEnds(ts) + l
  <2>1. TimerTypes /\ tmNsec \in 0 .. Nsec
        /\ tmSec * Nsec + tmNsec = tmStart + (tmIcnt - 1) * Cycle
    BY DEF TimerInv, TicksOnGrid
  <2>2. ts[1] \in Int /\ ts[2] \in 0 .. Nsec
        /\ ts[1] * Nsec + ts[2] = (tmSec * Nsec + tmNsec) + Cycle
    BY <2>1, AddsCycle
  <2>3. ts = << ts[1], ts[2] >>
    BY DEF AddTimespec
  <2>4. l \in Nat /\ r \in Nat /\ Cycle \in Nat \ {0} /\ Nsec \in Nat \ {0}
        /\ Settle \in Nat \ {0}
    BY TimerAssumption
  <2>5. wake \in Int /\ (ts[2] < Nsec => wake >= ts[1] * Nsec + ts[2])
    <3>1. tmNow \in Int
      BY <2>1 DEF TimerTypes
    <3>2. WaitEnds(ts) \in Int /\ (ts[2] < Nsec => WaitEnds(ts) >= ts[1] * Nsec + ts[2])
      BY <2>2, <2>3, <3>1, WaitsLongEnough
    <3>3. ts[1] * Nsec \in Int
      BY <2>2, <2>4
    <3> QED
      BY <2>2, <2>4, <3>2, <3>3
  <2>6. /\ tmSec' = ts[1] /\ tmNsec' = ts[2] /\ tmIcnt' = tmIcnt + 1
        /\ tmStart' = tmStart
        /\ tmNow' \in {wake, wake + r}
        /\ IF tmIcnt - Settle >= 0 THEN tmCalled' = wake ELSE tmCalled' = tmCalled
    BY <1>1 DEF TmTick
  <2> HIDE DEF ts, wake
  <2>7. TimerTypes'
    BY <2>1, <2>2, <2>4, <2>5, <2>6 DEF TimerTypes
  <2>8. tmSec' * Nsec + tmNsec' = tmStart' + (tmIcnt' - 1) * Cycle
    <3>1. tmIcnt \in Int /\ tmStart \in Int
      BY <2>1 DEF TimerTypes
    <3>2. tmIcnt * Cycle = (tmIcnt - 1) * Cycle + Cycle
      <4>1. ((tmIcnt - 1) + 1) * Cycle = (tmIcnt - 1) * Cycle + 1 * Cycle
        BY <2>4, <3>1, Distribute
      <4> QED
        BY <2>4, <3>1, <4>1
    <3>3. (tmIcnt - 1) * Cycle \in Int
      BY <2>4, <3>1
    <3> QED
      BY <2>1, <2>2, <2>4, <2>6, <3>1, <3>2, <3>3
  <2>9. (tmIcnt' > Settle /\ tmNsec' < Nsec) => tmCalled' >= tmSec' * Nsec + tmNsec'
    <3> SUFFICES ASSUME tmIcnt' > Settle, tmNsec' < Nsec
                 PROVE tmCalled' >= tmSec' * Nsec + tmNsec'
      OBVIOUS
    <3>1. tmIcnt - Settle >= 0
      BY <2>1, <2>4, <2>6 DEF TimerTypes
    <3> QED
      BY <2>5, <2>6, <3>1
  <2> QED
    BY <2>2, <2>6, <2>7, <2>8, <2>9 DEF TimerInv, TicksOnGrid
<1>2. CASE UNCHANGED tmVars
  BY <1>2 DEF tmVars, TimerInv, TimerTypes, TicksOnGrid
<1> QED
  BY <1>1, <1>2 DEF TmNext

(***************************************************************************)
(* Times do not drift: the n-th interrupt waits for n cycles after the     *)
(* start, and the user's function is not called before, but for a time of  *)
(* a whole second (rtc_add_timespec, rtc_rttask).                          *)
(***************************************************************************)
THEOREM TicksStayOnGrid == TmSpec => []TicksOnGrid
<1>1. TmSpec => []TimerInv
  BY InitTimer, StepTimer, PTL DEF TmSpec
<1>2. TimerInv => TicksOnGrid
  BY DEF TimerInv
<1> QED
  BY <1>1, <1>2, PTL
----------------------------------------------------------------------------
(* The interrupts that were missed.  While every wait ends on time a call  *)
(* is late by its own latency only, and the time of a call is counted from *)
(* the first, which was late too.                                          *)

\* The time that call n waits for.
GridTime(n) == tmStart + (Settle + n) * Cycle

\* A moment is less than a third of a cycle late for its time.
Prompt(m, due) == m - due \in Nat /\ 3 * (m - due) < Cycle

PlaceTypes == tmZero \in Int /\ tmPrev \in Int /\ tmOnTime \in BOOLEAN

\* The first call and the last were prompt, tprev is the time between them, the
\* estimate is the cycle asked for until there are two, and nothing was missed.
PromptInv ==
  tmOnTime =>
    /\ tmMissed = 0
    /\ tmIcnt > Settle =>
         /\ Prompt(tmZero, GridTime(0))
         /\ Prompt(tmCalled, GridTime(tmIcnt - 1 - Settle))
         /\ tmPrev = tmCalled - tmZero
    /\ tmIcnt - Settle <= 2 => tmDt = << Cycle, 1 >>

MissInv == TimerInv /\ PlaceTypes /\ PromptInv

\* A quotient that is less than one, in C.
LEMMA LessThanOne ==
  ASSUME NEW a \in Int, NEW b \in Nat \ {0}, -b < a, a < b
  PROVE  Quot(a, b) = 0
<1>1. ASSUME NEW c \in 0 .. b - 1 PROVE c \div b = 0
  <2> DEFINE q == c \div b
             r == c % b
  <2>1. q \in Int /\ r \in 0 .. b - 1 /\ c = q * b + r
    BY DivMod
  <2> HIDE DEF q, r
  <2>2. q < 1
    <3>1. ASSUME q >= 1 PROVE FALSE
      <4>1. q * b >= b
        BY <2>1, <3>1
      <4> QED
        BY <2>1, <4>1
    <3> QED
      BY <2>1, <3>1
  <2>3. q > -1
    <3>1. ASSUME q <= -1 PROVE FALSE
      <4>1. q * b <= -b
        BY <2>1, <3>1
      <4> QED
        BY <2>1, <4>1
    <3> QED
      BY <2>1, <3>1
  <2>4. q = 0
    BY <2>1, <2>2, <2>3
  <2> QED
    BY <2>4 DEF q
<1>2. CASE a >= 0
  <2>1. a \in 0 .. b - 1
    BY <1>2
  <2> QED
    BY <1>1, <1>2, <2>1 DEF Quot
<1>3. CASE a < 0
  <2>1. -a \in 0 .. b - 1
    BY <1>3
  <2>2. (-a) \div b = 0
    BY <1>1, <2>1
  <2> QED
    BY <1>3, <2>2 DEF Quot
<1> QED
  BY <1>2, <1>3

\* Calls 0 and 1 are measured by the cycle asked for.
LEMMA FirstCallsJustified ==
  ASSUME NEW n \in {0, 1}, NEW tn \in Int,
         -Cycle < tn - n * Cycle, tn - n * Cycle < Cycle
  PROVE  Missed(n, tn, << Cycle, 1 >>) = 0
<1>1. Cycle \in Nat \ {0}
  BY TimerAssumption
<1>2. tn * 1 - n * Cycle = tn - n * Cycle /\ tn - n * Cycle \in Int
  BY <1>1
<1>3. Quot(tn - n * Cycle, Cycle) = 0
  BY <1>1, <1>2, LessThanOne
<1> QED
  BY <1>1, <1>2, <1>3 DEF Missed

(***************************************************************************)
(* Call k + 1, late by l, is measured by the mean of the k cycles before,  *)
(* when call k was late by p and the first one by z.                       *)
(***************************************************************************)
LEMMA MeanJustified ==
  ASSUME NEW k \in Nat \ {0}, NEW l \in Nat, NEW p \in Nat, NEW z \in Nat,
         3 * l < Cycle, 3 * p < Cycle, 3 * z < Cycle
  PROVE  Missed(k + 1, (k + 1) * Cycle + (l - z), << k * Cycle + (p - z), k >>) = 0
<1> DEFINE C == k * Cycle
           m == C + (p - z)
           tn == (k + 1) * Cycle + (l - z)
           g == k * (l - p)
           x == tn * k - (k + 1) * m
<1>1. Cycle \in Nat \ {0} /\ C \in Int /\ g \in Int
  BY TimerAssumption
<1>2. C >= Cycle
  BY <1>1
<1>3. 3 * g <= C /\ -C <= 3 * g
  <2>1. -Cycle <= 3 * (l - p) /\ 3 * (l - p) <= Cycle
    BY <1>1
  <2>2. k * (3 * (l - p)) <= k * Cycle /\ k * (-Cycle) <= k * (3 * (l - p))
    BY <1>1, <2>1
  <2>3. k * (3 * (l - p)) = 3 * (k * (l - p)) /\ k * (-Cycle) = -(k * Cycle)
    BY <1>1
  <2> QED
    BY <2>2, <2>3
<1>4. x = g - (p - z)
  <2>1. tn = C + (Cycle + (l - z))
    BY <1>1
  <2>2. tn * k = C * k + (C + (l - z) * k)
    BY <1>1, <2>1
  <2>3. (k + 1) * m = (C * k + (p - z) * k) + m
    BY <1>1
  <2>4. (l - z) * k - (p - z) * k = g
    BY <1>1
  <2>5. C * k \in Int /\ (l - z) * k \in Int /\ (p - z) * k \in Int
    BY <1>1
  <2> HIDE DEF C, g
  <2> QED
    BY <1>1, <2>2, <2>3, <2>4, <2>5
<1>5. tn \in Int
  BY <1>1
<1> HIDE DEF C, g, tn
<1>6. m \in Nat \ {0} /\ -m < g - (p - z) /\ g - (p - z) < m
  BY <1>1, <1>2, <1>3
<1>7. Quot(g - (p - z), m) = 0
  BY <1>1, <1>6, LessThanOne
<1>8. Missed(k + 1, tn, << m, k >>) = 0
  BY <1>4, <1>6, <1>7 DEF Missed
<1> QED
  BY <1>8 DEF C, tn
----------------------------------------------------------------------------
LEMMA InitMiss == TmInit => MissInv
<1> SUFFICES ASSUME NEW now \in 0 .. Nsec - 1, TmBegin(now) PROVE MissInv
  BY DEF TmInit
<1>1. TimerInv
  BY InitTimer DEF TmInit
<1>2. PlaceTypes
  BY DEF TmBegin, PlaceTypes
<1>3. PromptInv
  BY TimerAssumption DEF TmBegin, PromptInv
<1> QED
  BY <1>1, <1>2, <1>3 DEF MissInv

LEMMA StepMiss == MissInv /\ [TmNext]_tmVars => MissInv'
<1> SUFFICES ASSUME MissInv, [TmNext]_tmVars PROVE MissInv'
  OBVIOUS
<1>0. TimerInv' /\ TimerTypes /\ PlaceTypes /\ PromptInv
  BY StepTimer DEF MissInv, TimerInv
<1>1. ASSUME NEW l \in Latencies, NEW r \in Durations, NEW stop \in BOOLEAN,
             TmTick(l, r, stop)
      PROVE PlaceTypes' /\ PromptInv'
  <2> DEFINE ts == AddTimespec
             at == ts[1] * Nsec + ts[2]
             wake == WaitEnds(ts) + l
             n == tmIcnt - Settle
             zero == IF n = 0 THEN wake ELSE tmZero
             tn == wake - zero
  <2>1. l \in Nat /\ Cycle \in Nat \ {0} /\ Nsec \in Nat \ {0} /\ Settle \in Nat \ {0}
        /\ n \in Int /\ tmStart \in Int /\ tmNow \in Int /\ tmIcnt \in Nat \ {0}
        /\ tmStart' = tmStart
    BY <1>0, <1>1, TimerAssumption DEF TimerTypes, TmTick
  <2>2. ts[1] \in Int /\ ts[2] \in 0 .. Nsec /\ at = GridTime(n)
    <3>1. tmNsec \in 0 .. Nsec /\ tmSec * Nsec + tmNsec = tmStart + (tmIcnt - 1) * Cycle
      BY DEF MissInv, TimerInv, TicksOnGrid
    <3>2. ts[1] \in Int /\ ts[2] \in 0 .. Nsec
          /\ at = (tmSec * Nsec + tmNsec) + Cycle
      BY <1>0, <3>1, AddsCycle
    <3>3. ((tmIcnt - 1) + 1) * Cycle = (tmIcnt - 1) * Cycle + 1 * Cycle
      BY <2>1, Distribute
    <3>4. Settle + n = (tmIcnt - 1) + 1 /\ (tmIcnt - 1) * Cycle \in Int
      BY <2>1
    <3> QED
      BY <2>1, <3>1, <3>2, <3>3, <3>4 DEF GridTime
  <2>3. at \in Int /\ WaitEnds(ts) \in {at, tmNow}
    BY <2>1, <2>2 DEF WaitEnds
  <2>4. wake \in Int /\ zero \in Int /\ tn \in Int
    BY <1>0, <2>1, <2>3 DEF PlaceTypes
  <2>5. /\ tmIcnt' = tmIcnt + 1 /\ tmZero' = zero
        /\ n >= 0 => tmPrev' = tn /\ tmCalled' = wake /\ tmDt' = Estimate(n)
                     /\ tmMissed' = tmMissed + Missed(n, tn, Estimate(n))
        /\ n < 0 => UNCHANGED << tmPrev, tmCalled, tmDt, tmMissed >>
        /\ tmOnTime' \in BOOLEAN
        /\ tmOnTime' => tmOnTime /\ 3 * l < Cycle /\ ts[2] < Nsec /\ tmNow <= at
    BY <1>1, <2>1 DEF TmTick
  <2>6. PlaceTypes'
    BY <1>0, <2>1, <2>4, <2>5 DEF PlaceTypes
  <2>7. ASSUME tmOnTime' PROVE wake = GridTime(n) + l
    <3>1. WaitEnds(ts) = at
      BY <2>1, <2>2, <2>3, <2>5, <2>7 DEF WaitEnds
    <3> QED
      BY <2>2, <3>1
  <2> HIDE DEF ts, at, wake, zero, tn, n
  <2>8. PromptInv'
    <3> SUFFICES ASSUME tmOnTime'
                 PROVE PromptInv'
      BY DEF PromptInv
    <3>1. tmOnTime /\ 3 * l < Cycle /\ wake = GridTime(n) + l
      BY <2>5, <2>7
    <3>a. \A x : GridTime(x)' = GridTime(x)
      BY <2>1 DEF GridTime
    <3>b. tmMissed = 0 /\ (tmIcnt - Settle <= 2 => tmDt = << Cycle, 1 >>)
      BY <1>0, <3>1 DEF PromptInv
    <3>2. CASE n < 0
      <4>1. ~(tmIcnt' > Settle) /\ tmIcnt - Settle <= 2
        BY <2>1, <2>5, <3>2 DEF n
      <4> QED
        BY <2>5, <3>2, <3>b, <4>1 DEF PromptInv
    <3>3. CASE n >= 0
      <4> DEFINE z == zero - GridTime(0)
                 p == tmCalled - GridTime(n - 1)
      <4>1. \A i \in Int : GridTime(i) \in Int /\ GridTime(i) = GridTime(0) + i * Cycle
        <5> SUFFICES ASSUME NEW i \in Int
                     PROVE GridTime(i) \in Int /\ GridTime(i) = GridTime(0) + i * Cycle
          OBVIOUS
        <5>1. (Settle + i) * Cycle = Settle * Cycle + i * Cycle
          BY <2>1, Distribute
        <5>2. Settle * Cycle \in Int /\ i * Cycle \in Int /\ Settle + 0 = Settle
          BY <2>1
        <5> QED
          BY <2>1, <5>1, <5>2 DEF GridTime
      <4>2. n # 0 => /\ tmIcnt > Settle /\ n - 1 = tmIcnt - 1 - Settle
                     /\ zero = tmZero
        BY <2>1, <3>3 DEF n, zero
      <4>3. n # 0 => /\ Prompt(tmZero, GridTime(0)) /\ Prompt(tmCalled, GridTime(n - 1))
                     /\ tmPrev = tmCalled - tmZero
        BY <1>0, <3>1, <4>2 DEF PromptInv
      <4>4. GridTime(0) \in Int /\ GridTime(n) \in Int
        BY <2>1, <4>1
      <4>5. Prompt(wake, GridTime(n))
        BY <2>1, <3>1, <4>4 DEF Prompt
      <4>6. Prompt(zero, GridTime(0))
        BY <4>2, <4>3, <4>5 DEF zero
      <4>7. z \in Nat /\ 3 * z < Cycle /\ zero = GridTime(0) + z
        BY <2>4, <4>4, <4>6 DEF Prompt
      <4>8. tn = n * Cycle + (l - z)
        <5>1. tn = wake - zero
          BY DEF tn
        <5>2. n * Cycle \in Int /\ GridTime(n) = GridTime(0) + n * Cycle
          BY <2>1, <4>1
        <5> HIDE DEF z
        <5> QED
          BY <2>1, <3>1, <4>4, <4>7, <5>1, <5>2
      <4>9. Missed(n, tn, Estimate(n)) = 0
        <5>1. CASE n \in {0, 1}
          <6>1. Estimate(n) = << Cycle, 1 >>
            BY <2>1, <3>b, <5>1 DEF Estimate, n
          <6>2. -Cycle < tn - n * Cycle /\ tn - n * Cycle < Cycle
            <7>1. n * Cycle \in Int
              BY <2>1
            <7> HIDE DEF z
            <7> QED
              BY <2>1, <3>1, <4>7, <4>8, <7>1
          <6> QED
            BY <2>4, <5>1, <6>1, <6>2, FirstCallsJustified
        <5>2. CASE n > 1
          <6> DEFINE k == n - 1
          <6>1. k \in Nat \ {0} /\ n = k + 1
            BY <2>1, <5>2
          <6>2. p \in Nat /\ 3 * p < Cycle
            BY <4>3, <5>2, <2>1 DEF Prompt
          <6>3. tmPrev = k * Cycle + (p - z)
            <7>1. tmCalled = GridTime(k) + p
              BY <1>0, <2>1, <4>1, <6>1 DEF TimerTypes
            <7>2. tmPrev = tmCalled - zero
              BY <2>1, <4>2, <4>3, <5>2
            <7>3. k * Cycle \in Int /\ GridTime(k) = GridTime(0) + k * Cycle
              BY <2>1, <4>1, <6>1
            <7> HIDE DEF z, p, k
            <7> QED
              BY <4>4, <4>7, <6>2, <7>1, <7>2, <7>3
          <6>4. Estimate(n) = << tmPrev, k >>
            BY <5>2 DEF Estimate
          <6> HIDE DEF z, p, k
          <6>5. Missed(k + 1, (k + 1) * Cycle + (l - z), << k * Cycle + (p - z), k >>) = 0
            <7>1. /\ k \in Nat \ {0} /\ l \in Nat /\ p \in Nat /\ z \in Nat
                  /\ 3 * l < Cycle /\ 3 * p < Cycle /\ 3 * z < Cycle
              BY <2>1, <3>1, <4>7, <6>1, <6>2
            <7> QED
              BY <7>1, MeanJustified, ZenonT(30)
          <6> QED
            BY <4>8, <6>1, <6>3, <6>4, <6>5
        <5> QED
          BY <2>1, <3>3, <5>1, <5>2
      <4>10. /\ tmIcnt' > Settle /\ tmIcnt' - 1 - Settle = n
             /\ tmZero' = zero /\ tmCalled' = wake /\ tmPrev' = wake - zero
             /\ tmMissed' = 0 /\ tmDt' = Estimate(n)
        BY <2>1, <2>5, <3>3, <3>b, <4>9 DEF n, tn
      <4>11. tmIcnt' - Settle <= 2 => tmDt' = << Cycle, 1 >>
        BY <2>1, <2>5, <3>b, <4>10 DEF Estimate, n
      <4> QED
        BY <3>a, <4>5, <4>6, <4>10, <4>11 DEF PromptInv, Prompt
    <3> QED
      BY <2>1, <3>2, <3>3
  <2> QED
    BY <2>6, <2>8
<1>2. CASE UNCHANGED tmVars
  <2>1. PlaceTypes'
    BY <1>0, <1>2 DEF tmVars, PlaceTypes
  <2>2. PromptInv'
    BY <1>0, <1>2 DEF tmVars, PromptInv, GridTime, Prompt
  <2> QED
    BY <1>0, <2>1, <2>2 DEF MissInv
<1> QED
  BY <1>0, <1>1, <1>2 DEF TmNext, MissInv

(***************************************************************************)
(* No interrupt is reported missed when every call came within a third of  *)
(* a cycle of its time, although rtc_signalhandler measures by a cycle     *)
(* that it estimates from the calls before: for every cycle, start and     *)
(* number of interrupts.                                                   *)
(***************************************************************************)
THEOREM NoneMissedOnTime == TmSpec => []MissedJustified
<1>1. TmSpec => []MissInv
  BY InitMiss, StepMiss, PTL DEF TmSpec
<1>2. MissInv => MissedJustified
  BY DEF MissInv, PromptInv, MissedJustified
<1> QED
  BY <1>1, <1>2, PTL

----------------------------------------------------------------------------
(* The target.                                                             *)

\* What the proofs use of the constants.
LEMMA Times == FinalTime \in Nat /\ Start \in Nat /\ Start > 0
  BY TargetAssumption

LEMMA Options == ExtMode \in BOOLEAN /\ ModelFails \in BOOLEAN
  BY TargetAssumption

LEMMA NoSample == None \notin Callers /\ None \notin Reports /\ (\A i \in Int : i # None)
  BY TargetAssumption

\* A sample of the inputs is not None.
LEMMA TimeIsSample == CountType => t # None
<1> SUFFICES ASSUME CountType PROVE t # None
  OBVIOUS
<1>1. t \in Int
  BY Times DEF CountType
<1> QED
  BY <1>1, NoSample

\* What there is before the first step.
LEMMA FirstSample == 0 \in Sample /\ None \in Sample
  BY Times DEF Sample

USE Times DEF Callers, Reports, Between, Before, Steps, Over

\* The program starts in TargetInv.
LEMMA TargetInit == Init => TargetInv
<1> SUFFICES ASSUME Init PROVE TargetInv
  OBVIOUS
<1>1. TypeOK
  <2>1. PlaceType /\ FlagType
    BY DEF Init, PlaceType, FlagType
  <2>2. CountType
    BY DEF Init, CountType
  <2>3. SampleType
    BY FirstSample DEF Init, SampleType
  <2> QED
    BY <2>1, <2>2, <2>3 DEF TypeOK
<1>2. LoopInv /\ StepInv /\ LastInv
  BY DEF Init, LoopInv, StepInv, LastInv
<1>3. FlagInv /\ OutputInv /\ BusInv /\ ExtInv
  BY NoSample DEF Init, FlagInv, OutputInv, BusInv, ExtInv
<1> QED
  BY <1>1, <1>2, <1>3 DEF TargetInv

\* Every action preserves TargetInv: main up to the timer.
LEMMA StepMdlStart == TargetInv /\ MdlStart => TargetInv'
<1> SUFFICES ASSUME TargetInv, MdlStart PROVE TargetInv'
  OBVIOUS
<1> USE DEF TargetInv, TypeOK, MdlStart, busVars, stepVars, extVars
<1>1. PlaceType'
  BY DEF PlaceType
<1>2. CountType'
  BY DEF CountType
<1>3. FlagType'
  BY Options DEF FlagType
<1>4. SampleType'
  BY DEF SampleType
<1>5. LoopInv' /\ StepInv' /\ LastInv'
  BY DEF LoopInv, StepInv, LastInv
<1>6. FlagInv'
  BY DEF FlagInv, LoopInv
<1>7. OutputInv'
  BY DEF OutputInv, LoopInv
<1>8. BusInv' /\ ExtInv'
  BY DEF BusInv, ExtInv
<1> QED
  BY <1>1, <1>2, <1>3, <1>4, <1>5, <1>6, <1>7, <1>8

\* The timer starts, or is passed over, before the first interrupt and step.
LEMMA BeforeTimer ==
  icnt' = 1 /\ t' = 0 /\ pc' \in {"interrupt", "last", "exited"} => LoopInv' /\ LastInv'
<1> SUFFICES ASSUME icnt' = 1, t' = 0, pc' \in {"interrupt", "last", "exited"}
             PROVE  LoopInv' /\ LastInv'
  OBVIOUS
<1>1. Calls' = 0
  BY DEF Calls
<1>2. LoopInv'
  BY <1>1 DEF LoopInv
<1> QED
  BY <1>2 DEF LastInv

LEMMA StepEcStart == TargetInv /\ EcStart => TargetInv'
<1> SUFFICES ASSUME TargetInv, EcStart PROVE TargetInv'
  OBVIOUS
<1> USE DEF TargetInv, TypeOK, EcStart, busVars, stepVars, extVars, ExchangeFrame
<1>0. icnt = 1 /\ t = 0 /\ icnt' = 1 /\ t' = 0
      /\ pc' \in {"interrupt", "last", "exited"}
  BY DEF LoopInv
<1>1. PlaceType'
  BY DEF PlaceType
<1>2. CountType'
  BY DEF CountType
<1>3. FlagType'
  BY DEF FlagType
<1>4. SampleType'
  BY DEF SampleType, CountType, Sample
<1>5. LoopInv'
  BY <1>0, BeforeTimer
<1>6. StepInv'
  BY DEF StepInv
<1>7. LastInv'
  BY <1>0, BeforeTimer
<1>8. FlagInv' /\ OutputInv' /\ ExtInv'
  BY DEF FlagInv, OutputInv, ExtInv
<1>9. BusInv'
  BY DEF BusInv, OutputInv
<1> QED
  BY <1>1, <1>2, <1>3, <1>4, <1>5, <1>6, <1>7, <1>8, <1>9

\* The timer's callback.  An interrupt calls for a step only if one is left.
LEMMA StepInterrupt == TargetInv /\ Interrupt => TargetInv'
<1> SUFFICES ASSUME TargetInv, Interrupt PROVE TargetInv'
  OBVIOUS
<1> USE DEF TargetInv, TypeOK, Interrupt, busVars, stepVars, extVars, WarmUp
<1>1. PlaceType'
  BY DEF PlaceType
<1>2. CountType'
  BY DEF CountType
<1>3. FlagType'
  BY DEF FlagType
<1>4. SampleType'
  BY DEF SampleType
<1>5. LoopInv'
  BY DEF LoopInv, CountType, Calls
<1>6. StepInv' /\ LastInv'
  BY DEF StepInv, LastInv
<1>7. FlagInv' /\ OutputInv' /\ BusInv' /\ ExtInv'
  BY DEF FlagInv, OutputInv, BusInv, ExtInv
<1> QED
  BY <1>1, <1>2, <1>3, <1>4, <1>5, <1>6, <1>7

LEMMA StepUserApc == TargetInv /\ UserApc => TargetInv'
<1> SUFFICES ASSUME TargetInv, UserApc PROVE TargetInv'
  OBVIOUS
<1> USE DEF TargetInv, TypeOK, UserApc, busVars, stepVars, extVars,
            ExchangeFrame, GoesOn, Return
<1>1. PlaceType'
  BY DEF PlaceType
<1>2. CountType'
  BY DEF CountType, LoopInv, Calls
<1>3. FlagType'
  BY DEF FlagType
<1>4. SampleType'
  BY DEF SampleType, CountType, Sample
<1>5. LoopInv'
  BY DEF LoopInv, Calls
<1>6. StepInv'
  BY DEF StepInv
<1>7. LastInv'
  BY DEF LoopInv, LastInv, CountType, Calls
<1>8. FlagInv' /\ OutputInv' /\ BusInv' /\ ExtInv'
  BY DEF FlagInv, OutputInv, BusInv, ExtInv
<1> QED
  BY <1>1, <1>2, <1>3, <1>4, <1>5, <1>6, <1>7, <1>8

LEMMA StepPauseIfNeeded == TargetInv /\ PauseIfNeeded => TargetInv'
<1> SUFFICES ASSUME TargetInv, PauseIfNeeded PROVE TargetInv'
  OBVIOUS
<1> USE DEF TargetInv, TypeOK, PauseIfNeeded, busVars, stepVars, extVars,
            ExchangeFrame, MayPass, Return
<1>1. PlaceType'
  BY DEF PlaceType
<1>2. CountType'
  BY DEF CountType, LoopInv, Calls
<1>3. FlagType'
  BY DEF FlagType
<1>4. SampleType'
  BY DEF SampleType, CountType, Sample
<1>5. LoopInv'
  BY DEF LoopInv, Calls
<1>6. StepInv'
  BY DEF StepInv
<1>7. LastInv'
  BY DEF LoopInv, LastInv, CountType
<1>8. FlagInv' /\ OutputInv' /\ BusInv' /\ ExtInv'
  BY DEF FlagInv, OutputInv, BusInv, ExtInv
<1> QED
  BY <1>1, <1>2, <1>3, <1>4, <1>5, <1>6, <1>7, <1>8

\* The inputs that come are those of the frame sent after the last step, or that
\* frame was lost.
LEMMA StepEcReceive == TargetInv /\ EcReceive => TargetInv'
<1> SUFFICES ASSUME TargetInv, EcReceive PROVE TargetInv'
  OBVIOUS
<1> USE DEF TargetInv, TypeOK, EcReceive, busVars, stepVars, extVars, ReceiveFrame
<1>0. pc' = "rt_OneStep" /\ (~dropped => held = t /\ inputs' = t)
  <2>1. t # None
    BY TimeIsSample
  <2>2. ~stopExecutionFlag
    BY DEF FlagInv
  <2>3. ~dropped => held = t /\ (flight = t \/ (flight = None /\ inputs = t))
    BY <2>2 DEF BusInv
  <2>4. inputs' = IF flight = None THEN inputs ELSE flight
    OBVIOUS
  <2> QED
    BY <2>1, <2>3, <2>4
<1>1. PlaceType'
  BY DEF PlaceType
<1>2. CountType'
  BY DEF CountType
<1>3. FlagType'
  BY DEF FlagType
<1>4. SampleType'
  BY DEF SampleType, Sample
<1>5. LoopInv' /\ LastInv'
  BY DEF LoopInv, LastInv
<1>6. StepInv'
  BY DEF LoopInv, StepInv, Calls
<1>7. FlagInv' /\ OutputInv' /\ ExtInv'
  BY DEF FlagInv, OutputInv, ExtInv
<1>8. BusInv'
  BY <1>0 DEF BusInv
<1> QED
  BY <1>1, <1>2, <1>3, <1>4, <1>5, <1>6, <1>7, <1>8

LEMMA StepEcSend == TargetInv /\ EcSend => TargetInv'
<1> SUFFICES ASSUME TargetInv, EcSend PROVE TargetInv'
  OBVIOUS
<1> USE DEF TargetInv, TypeOK, EcSend, busVars, stepVars, extVars, SendFrame, Return
<1>1. PlaceType'
  BY DEF PlaceType
<1>2. CountType'
  BY DEF CountType, StepInv, Calls
<1>3. FlagType'
  BY DEF FlagType
<1>4. SampleType'
  BY DEF SampleType, CountType, Sample
<1>5. LoopInv'
  BY DEF LoopInv, StepInv, CountType, Calls
<1>6. StepInv' /\ LastInv'
  BY DEF StepInv, LastInv
<1>7. FlagInv' /\ OutputInv' /\ ExtInv'
  BY DEF FlagInv, OutputInv, ExtInv
<1>8. BusInv'
  BY DEF BusInv, OutputInv
<1> QED
  BY <1>1, <1>2, <1>3, <1>4, <1>5, <1>6, <1>7, <1>8

\* rt_OneStep.  It is called with a count of zero, or leaves the flag behind.
LEMMA StepOneStep == TargetInv /\ OneStep => TargetInv'
<1> SUFFICES ASSUME TargetInv, OneStep PROVE TargetInv'
  OBVIOUS
<1> USE DEF TargetInv, TypeOK, OneStep, busVars, stepVars, extVars, AfterStep
<1>1. PlaceType'
  BY DEF PlaceType
<1>2. CountType'
  BY DEF CountType, FlagInv
<1>3. FlagType'
  BY DEF FlagType
<1>4. SampleType'
  BY DEF SampleType
<1>5. LoopInv' /\ LastInv'
  BY DEF LoopInv, LastInv
<1>6. StepInv'
  BY DEF StepInv, CountType, Calls
<1>7. FlagInv' /\ OutputInv' /\ BusInv' /\ ExtInv'
  BY DEF FlagInv, OutputInv, BusInv, ExtInv
<1> QED
  BY <1>1, <1>2, <1>3, <1>4, <1>5, <1>6, <1>7

LEMMA StepMdlOutputs == TargetInv /\ MdlOutputs => TargetInv'
<1> SUFFICES ASSUME TargetInv, MdlOutputs PROVE TargetInv'
  OBVIOUS
<1> USE DEF TargetInv, TypeOK, MdlOutputs, busVars, stepVars, extVars
<1>1. PlaceType'
  BY DEF PlaceType
<1>2. CountType'
  BY DEF CountType
<1>3. FlagType'
  BY Options DEF FlagType
<1>4. SampleType'
  BY DEF SampleType, CountType, Sample, StepInv
<1>5. LoopInv' /\ LastInv'
  BY DEF LoopInv, LastInv
<1>6. StepInv'
  BY DEF StepInv, Calls
<1>7. FlagInv' /\ OutputInv' /\ BusInv' /\ ExtInv'
  BY DEF FlagInv, OutputInv, BusInv, ExtInv
<1> QED
  BY <1>1, <1>2, <1>3, <1>4, <1>5, <1>6, <1>7

LEMMA StepMdlUpdate == TargetInv /\ MdlUpdate => TargetInv'
<1> SUFFICES ASSUME TargetInv, MdlUpdate PROVE TargetInv'
  OBVIOUS
<1> USE DEF TargetInv, TypeOK, MdlUpdate, busVars, stepVars, extVars, AfterStep
<1>1. PlaceType'
  BY DEF PlaceType
<1>2. CountType'
  BY DEF CountType, StepInv, FlagInv
<1>3. FlagType'
  BY DEF FlagType
<1>4. SampleType'
  BY DEF SampleType
<1>5. LoopInv'
  BY DEF LoopInv
<1>6. StepInv'
  BY DEF StepInv, CountType, Calls
<1>7. LastInv'
  BY DEF StepInv, LastInv
<1>8. FlagInv' /\ OutputInv' /\ BusInv' /\ ExtInv'
  BY DEF FlagInv, OutputInv, BusInv, ExtInv
<1> QED
  BY <1>1, <1>2, <1>3, <1>4, <1>5, <1>6, <1>7, <1>8

\* main after the timer.  The last step is due just when the final time has come.
LEMMA StepLastStep == TargetInv /\ LastStep => TargetInv'
<1> SUFFICES ASSUME TargetInv, LastStep PROVE TargetInv'
  OBVIOUS
<1> USE DEF TargetInv, TypeOK, LastStep, busVars, stepVars, extVars, ExchangeFrame, LastStepDue
<1>1. PlaceType'
  BY DEF PlaceType
<1>2. CountType'
  BY DEF CountType
<1>3. FlagType'
  BY DEF FlagType
<1>4. SampleType'
  BY DEF SampleType, CountType, Sample
<1>5. LoopInv' /\ LastInv'
  BY DEF LoopInv, LastInv
<1>6. StepInv'
  BY DEF StepInv, LastInv
<1>7. FlagInv' /\ OutputInv' /\ ExtInv'
  BY DEF FlagInv, OutputInv, ExtInv
<1>8. BusInv'
  BY DEF BusInv, OutputInv
<1> QED
  BY <1>1, <1>2, <1>3, <1>4, <1>5, <1>6, <1>7, <1>8

LEMMA StepStopExtMode == TargetInv /\ StopExtMode => TargetInv'
<1> SUFFICES ASSUME TargetInv, StopExtMode PROVE TargetInv'
  OBVIOUS
<1> USE DEF TargetInv, TypeOK, StopExtMode, busVars, stepVars, extVars
<1>1. PlaceType'
  BY DEF PlaceType
<1>2. CountType'
  BY DEF CountType
<1>3. FlagType'
  BY DEF FlagType
<1>4. SampleType'
  BY DEF SampleType
<1>5. LoopInv' /\ StepInv' /\ LastInv'
  BY DEF LoopInv, StepInv, LastInv
<1>6. FlagInv' /\ OutputInv' /\ BusInv' /\ ExtInv'
  BY DEF FlagInv, OutputInv, BusInv, ExtInv
<1> QED
  BY <1>1, <1>2, <1>3, <1>4, <1>5, <1>6

LEMMA StepWaitExtMode == TargetInv /\ WaitExtMode => TargetInv'
<1> SUFFICES ASSUME TargetInv, WaitExtMode PROVE TargetInv'
  OBVIOUS
<1> USE DEF TargetInv, TypeOK, WaitExtMode, busVars, stepVars, extVars, ExchangeFrame,
        ExtModeLeft
<1>1. PlaceType'
  BY DEF PlaceType
<1>2. CountType'
  BY DEF CountType
<1>3. FlagType'
  BY DEF FlagType
<1>4. SampleType'
  BY DEF SampleType, CountType, Sample
<1>5. LoopInv' /\ StepInv' /\ LastInv'
  BY DEF LoopInv, StepInv, LastInv
<1>6. FlagInv' /\ OutputInv' /\ BusInv' /\ ExtInv'
  BY DEF FlagInv, OutputInv, BusInv, ExtInv
<1> QED
  BY <1>1, <1>2, <1>3, <1>4, <1>5, <1>6

LEMMA StepEcStop == TargetInv /\ EcStop => TargetInv'
<1> SUFFICES ASSUME TargetInv, EcStop PROVE TargetInv'
  OBVIOUS
<1> USE DEF TargetInv, TypeOK, EcStop, busVars, stepVars, extVars
<1>1. PlaceType'
  BY DEF PlaceType
<1>2. CountType'
  BY DEF CountType
<1>3. FlagType'
  BY DEF FlagType
<1>4. SampleType'
  BY DEF SampleType
<1>5. LoopInv' /\ StepInv' /\ LastInv'
  BY DEF LoopInv, StepInv, LastInv
<1>6. FlagInv' /\ OutputInv' /\ BusInv' /\ ExtInv'
  BY DEF FlagInv, OutputInv, BusInv, ExtInv
<1> QED
  BY <1>1, <1>2, <1>3, <1>4, <1>5, <1>6

LEMMA StepExit == TargetInv /\ Exit => TargetInv'
<1> SUFFICES ASSUME TargetInv, Exit PROVE TargetInv'
  OBVIOUS
<1> USE DEF TargetInv, TypeOK, Exit, busVars, stepVars, extVars
<1>1. PlaceType'
  BY DEF PlaceType
<1>2. CountType'
  BY DEF CountType
<1>3. FlagType'
  BY DEF FlagType
<1>4. SampleType'
  BY FirstSample DEF SampleType
<1>5. LoopInv' /\ StepInv' /\ LastInv'
  BY DEF LoopInv, StepInv, LastInv
<1>6. FlagInv' /\ OutputInv' /\ BusInv' /\ ExtInv'
  BY DEF FlagInv, OutputInv, BusInv, ExtInv
<1> QED
  BY <1>1, <1>2, <1>3, <1>4, <1>5, <1>6

\* The External Mode thread touches nothing the invariant rests on but its own
\* place; a stop it asks for only weakens LastInv.
LEMMA StepExtTest == TargetInv /\ ExtTest => TargetInv'
<1> SUFFICES ASSUME TargetInv, ExtTest PROVE TargetInv'
  OBVIOUS
<1> USE DEF TargetInv, TypeOK, ExtTest, busVars, stepVars, extVars
<1>1. PlaceType'
  BY DEF PlaceType
<1>2. CountType'
  BY DEF CountType
<1>3. FlagType'
  BY DEF FlagType
<1>4. SampleType'
  BY DEF SampleType
<1>5. LoopInv'
  BY DEF LoopInv, Calls
<1>6. StepInv'
  BY DEF StepInv, Calls
<1>7. LastInv'
  BY DEF LastInv
<1>8. FlagInv' /\ OutputInv' /\ BusInv' /\ ExtInv'
  BY DEF FlagInv, OutputInv, BusInv, ExtInv
<1> QED
  BY <1>1, <1>2, <1>3, <1>4, <1>5, <1>6, <1>7, <1>8

LEMMA StepExtServe == TargetInv /\ ExtServe => TargetInv'
<1> SUFFICES ASSUME TargetInv, ExtServe PROVE TargetInv'
  OBVIOUS
<1> USE DEF TargetInv, TypeOK, ExtServe, busVars, stepVars, extVars
<1>1. PlaceType'
  BY DEF PlaceType
<1>2. CountType'
  BY DEF CountType
<1>3. FlagType'
  BY DEF FlagType
<1>4. SampleType'
  BY DEF SampleType
<1>5. LoopInv'
  BY DEF LoopInv, Calls
<1>6. StepInv'
  BY DEF StepInv, Calls
<1>7. LastInv'
  BY DEF LastInv
<1>8. FlagInv' /\ OutputInv' /\ BusInv' /\ ExtInv'
  BY DEF FlagInv, OutputInv, BusInv, ExtInv
<1> QED
  BY <1>1, <1>2, <1>3, <1>4, <1>5, <1>6, <1>7, <1>8

----------------------------------------------------------------------------
LEMMA Stutter == TargetInv /\ UNCHANGED vars => TargetInv'
<1> SUFFICES ASSUME TargetInv, UNCHANGED vars PROVE TargetInv'
  OBVIOUS
<1> USE DEF TargetInv, TypeOK, vars, busVars, stepVars, extVars
<1>1. PlaceType' /\ CountType' /\ FlagType' /\ SampleType'
  <2>1. PlaceType'
    BY DEF PlaceType
  <2>2. FlagType'
    BY DEF FlagType
  <2>3. CountType'
    BY DEF CountType
  <2>4. SampleType'
    BY DEF SampleType, Sample
  <2> QED
    BY <2>1, <2>2, <2>3, <2>4
<1>2. LoopInv' /\ StepInv' /\ LastInv'
  BY DEF LoopInv, StepInv, LastInv, Calls
<1>3. FlagInv' /\ OutputInv' /\ BusInv' /\ ExtInv'
  BY DEF FlagInv, OutputInv, BusInv, ExtInv
<1> QED
  BY <1>1, <1>2, <1>3

\* Every step preserves TargetInv.
LEMMA TargetStep == TargetInv /\ [Next]_vars => TargetInv'
<1> SUFFICES ASSUME TargetInv, [Next]_vars PROVE TargetInv'
  OBVIOUS
<1>1. CASE Main
  BY <1>1, StepMdlStart, StepEcStart, StepInterrupt, StepUserApc, StepPauseIfNeeded,
     StepEcReceive, StepEcSend, StepOneStep, StepMdlOutputs, StepMdlUpdate, StepLastStep,
     StepStopExtMode, StepWaitExtMode, StepEcStop, StepExit DEF Main
<1>2. CASE Ext
  BY <1>2, StepExtTest, StepExtServe DEF Ext
<1>3. CASE Exited \/ UNCHANGED vars
  BY <1>3, Stutter DEF Exited
<1> QED
  BY <1>1, <1>2, <1>3 DEF Next

\* The inductive invariant holds of every program, whatever its final time, the
\* timer's warm-up and the faults that may happen.
THEOREM TargetInvariant == Spec => []TargetInv
<1>1. Init => TargetInv
  BY TargetInit
<1>2. TargetInv /\ [Next]_vars => TargetInv'
  BY TargetStep
<1> QED
  BY <1>1, <1>2, PTL DEF Spec

\* The variables have their types: no more than FinalTime + 1 steps are made.
THEOREM TargetTypes == Spec => []TypeOK
<1>1. TargetInv => TypeOK
  BY DEF TargetInv
<1> QED
  BY <1>1, TargetInvariant, PTL

\* A step works on the inputs that answer the outputs of the step before.
THEOREM SamplesAreFresh == Spec => []FreshSamples
<1>1. TargetInv => FreshSamples
  BY DEF TargetInv, BusInv, FreshSamples, Stepping
<1> QED
  BY <1>1, TargetInvariant, PTL

\* The timer's time and the model's stay together.
THEOREM TimeInStep == Spec => []InStep
<1>1. TargetInv => InStep
  BY DEF TargetInv, TypeOK, CountType, LoopInv, Calls, InStep
<1> QED
  BY <1>1, TargetInvariant, PTL

\* No step is begun once a step was left before its end.
THEOREM NoStepAfterFailure == Spec => []StepsEnd
<1>1. TargetInv => StepsEnd
  BY DEF TargetInv, FlagInv, StepsEnd
<1> QED
  BY <1>1, TargetInvariant, PTL

\* Success means that every step was made, if nobody stopped the model and the
\* timer ran.
THEOREM SuccessIsComplete == Spec => []EveryStep
<1>1. TargetInv => EveryStep
  BY DEF TargetInv, LastInv, FlagInv, EveryStep
<1> QED
  BY <1>1, TargetInvariant, PTL

\* The slaves have the last step's outputs when ec_stop closes the bus, unless
\* that frame was lost.
THEOREM OutputsReachSlaves == Spec => []LastOutputsSent
<1>1. TargetInv => LastOutputsSent
  BY DEF TargetInv, BusInv, LastOutputsSent
<1> QED
  BY <1>1, TargetInvariant, PTL

\* The External Mode thread has left when main calls rtExtModeShutdown.
THEOREM OrderlyEnd == Spec => []ExtModeOver
<1>1. TargetInv => ExtModeOver
  BY DEF TargetInv, ExtInv, ExtModeOver
<1> QED
  BY <1>1, TargetInvariant, PTL
=============================================================================
