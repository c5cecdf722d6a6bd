------------------------------- MODULE RtTimer ------------------------------
(***************************************************************************)
(* The periodic timer of the EtherCAT build (Timer_posix_AK): rtc_timer    *)
(* waits for absolute times one cycle apart and calls the user's function  *)
(* at each, from the tenth on.  It estimates the cycle from what it sees,  *)
(* and from that the interrupts it missed.                                 *)
(*                                                                         *)
(* Time is counted in nanoseconds, Nsec of them to a second.  Nobody       *)
(* signals the condition that the wait is on.                              *)
(***************************************************************************)
EXTENDS Integers

CONSTANTS
  Nsec,        \* NSEC_PER_SEC
  Cycle,       \* cycletime
  Settle,      \* istart: interrupts before the first call
  Latencies,   \* how late the thread may run after the wait
  Durations,   \* how long the user's function may take
  MaxTicks     \* bound of TLC: interrupts

ASSUME TimerAssumption ==
  /\ Nsec \in Nat \ {0} /\ Cycle \in Nat \ {0} /\ Settle \in Nat \ {0}
  /\ Latencies \subseteq Nat /\ Durations \subseteq Nat /\ MaxTicks \in Nat

VARIABLES
  tmNow,             \* CLOCK_REALTIME
  tmSec, tmNsec,     \* ts, the time waited for
  tmIcnt, tmStop,    \* icnt, istop
  tmZero,            \* tv0, the time of the first call
  tmPrev, tmDt,      \* tprev; dt = tmDt[1] / tmDt[2]
  tmMissed,          \* imissed
  tmNominal,         \* nominal_time, in cycles
  tmStart,           \* history: when rtc_rttask began
  tmCalled,          \* history: when the user's function was called last
  tmOnTime           \* history: every wait ended on time but for a small latency

tmVars == << tmNow, tmSec, tmNsec, tmIcnt, tmStop, tmZero, tmPrev, tmDt, tmMissed,
             tmNominal, tmStart, tmCalled, tmOnTime >>

\* rtc_timer, begun at time now; before, it rejects a frequency that is not positive.
TmBegin(now) ==
  /\ tmNow = now /\ tmSec = now \div Nsec /\ tmNsec = now % Nsec
  /\ tmIcnt = 1 /\ tmStop = FALSE /\ tmZero = 0
  /\ tmPrev = 0 /\ tmDt = << Cycle, 1 >> /\ tmMissed = 0 /\ tmNominal = -1
  /\ tmStart = now /\ tmCalled = 0 /\ tmOnTime = TRUE

TmInit == \E now \in 0 .. Nsec - 1 : TmBegin(now)

\* Mutant: the nanoseconds are never carried.
AddTimespecPlain == << tmSec + (Cycle \div Nsec), tmNsec + (Cycle % Nsec) >>

\* rtc_add_timespec: [sec, nsec] of ts after adding the cycle.  It carries only
\* when more than a second is reached, not at a second exactly.
AddTimespec ==
  LET nsec == tmNsec + (Cycle % Nsec)
      sec == tmSec + (Cycle \div Nsec)
  IN IF nsec > Nsec
     THEN << sec + (nsec \div Nsec), nsec % Nsec >>
     ELSE << sec, nsec >>

\* pthread_cond_timedwait until ts: it returns at once when the time has passed,
\* and when ts is not a time, because its nanoseconds make a second.
WaitEnds(ts) ==
  LET at == ts[1] * Nsec + ts[2]
  IN IF (ts[2] >= Nsec \/ at < tmNow) THEN tmNow ELSE at

\* The quotient, truncated as in C.
Quot(a, b) == IF a >= 0 THEN a \div b ELSE -((-a) \div b)

\* Mutant: the mean over one cycle too many.
EstimateLong(n) == IF n > 1 THEN << tmPrev, n >> ELSE tmDt

\* dt at call n: the mean of the cycles before.
Estimate(n) == IF n > 1 THEN << tmPrev, n - 1 >> ELSE tmDt

\* What imissed grows by at time t of call n; a cycle estimated at 0, when the
\* first two calls fell together, makes it a number without meaning.
Missed(n, t, dt) ==
  IF dt[1] = 0 THEN -1000 ELSE Quot(t * dt[2] - n * dt[1], dt[1])

\* rtc_rttask goes round once: it adds the cycle, waits, and rtc_signalhandler
\* calls the user's function, which takes r and may say to stop.
TmTick(l, r, stop) ==
  LET ts == AddTimespec
      wake == WaitEnds(ts) + l
      n == tmIcnt - Settle
      zero == IF n = 0 THEN wake ELSE tmZero
      t == wake - zero
      dt == Estimate(n)
  IN /\ ~tmStop /\ tmIcnt < MaxTicks
     /\ tmSec' = ts[1] /\ tmNsec' = ts[2]
     /\ tmIcnt' = tmIcnt + 1
     /\ tmZero' = zero
     /\ IF n >= 0
        THEN /\ tmStop' = stop
             /\ tmNow' = wake + r
             /\ tmDt' = dt
             /\ tmMissed' = tmMissed + Missed(n, t, dt)
             /\ tmPrev' = t
             /\ tmNominal' = tmNominal + 1
             /\ tmCalled' = wake
        ELSE /\ tmNow' = wake
             /\ UNCHANGED << tmStop, tmDt, tmMissed, tmPrev, tmNominal, tmCalled >>
     /\ tmOnTime' = ( /\ tmOnTime /\ 3 * l < Cycle /\ ts[2] < Nsec
                      /\ tmNow <= ts[1] * Nsec + ts[2] )
     /\ UNCHANGED tmStart

TmNext == \E l \in Latencies, r \in Durations, stop \in BOOLEAN : TmTick(l, r, stop)

TmSpec == TmInit /\ [][TmNext]_tmVars

----------------------------------------------------------------------------
\* Times do not drift: the n-th interrupt waits for n cycles after the start,
\* however late the ones before were (rtc_add_timespec), and the user's function is
\* not called before, but for a time of a whole second and no nanoseconds.
TicksOnGrid ==
  /\ tmSec * Nsec + tmNsec = tmStart + (tmIcnt - 1) * Cycle
  /\ tmNsec \in 0 .. Nsec
  /\ (tmIcnt > Settle /\ tmNsec < Nsec) => tmCalled >= tmSec * Nsec + tmNsec

\* No interrupt is reported missed when all came within a third of a cycle
\* (rtc_signalhandler, which divides by the cycle it estimates).
MissedJustified == tmOnTime => tmMissed = 0
=============================================================================
