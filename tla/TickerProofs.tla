---------------------------- MODULE TickerProofs ----------------------------
(***************************************************************************)
(* Proofs about the ticks of Ticker, for every interval, first delay,      *)
(* tolerance and length of the passes.                                     *)
(***************************************************************************)
EXTENDS Ticker, TLAPS

-----------------------------------------------------------------------------
(* Multiples of the interval.                                              *)

LEMMA Division ==
    ASSUME NEW n \in Int, NEW m \in Nat \ {0}
    PROVE  /\ n \div m \in Int /\ n % m \in 0..(m - 1)
           /\ n = m * (n \div m) + (n % m)
  OBVIOUS

LEMMA SmallMultiple ==
    ASSUME NEW m \in Nat \ {0}, NEW i \in Int, NEW j \in Int, m * i < m * j + m
    PROVE  i <= j
<1> SUFFICES ASSUME i >= j + 1
             PROVE  FALSE
  OBVIOUS
<1>1. PICK x \in Nat : i = j + 1 + x
  <2>1. i - j - 1 \in Nat /\ i = j + 1 + (i - j - 1)
    OBVIOUS
  <2> QED
    BY <2>1
<1>2. m * i = m * j + m + m * x
  BY <1>1
<1>3. m * x >= 0
  OBVIOUS
<1> QED
  BY <1>2, <1>3

OnGrid(n) == \E k \in Nat : n = Interval * k

LEMMA GridRemainder ==
    ASSUME NEW n \in Int, OnGrid(n)
    PROVE  n % Interval = 0
<1>1. Interval \in Nat \ {0}
  BY TickerAssumption
<1>2. PICK k \in Nat : n = Interval * k
  BY DEF OnGrid
<1> DEFINE q == n \div Interval
           r == n % Interval
<1>3. q \in Int /\ r \in 0..(Interval - 1) /\ n = Interval * q + r
  BY <1>1, Division
<1> HIDE DEF q, r
<1>4. Interval * k < Interval * q + Interval /\ Interval * q < Interval * k + Interval
  BY <1>1, <1>2, <1>3
<1>5. k <= q /\ q <= k
  BY <1>1, <1>3, <1>4, SmallMultiple
<1>6. Interval * k = Interval * q
  BY <1>3, <1>5
<1>7. r = 0
  BY <1>1, <1>2, <1>3, <1>6
<1> QED
  BY <1>7 DEF r

\* A multiple of the interval separates the periods before and after it.
LEMMA GridSeparates ==
    ASSUME NEW d \in Int, OnGrid(d), NEW m \in Int, NEW n \in Int, m < d, d <= n
    PROVE  m \div Interval < n \div Interval
<1>1. Interval \in Nat \ {0}
  BY TickerAssumption
<1>2. PICK k \in Nat : d = Interval * k
  BY DEF OnGrid
<1> DEFINE p == m \div Interval
           q == n \div Interval
<1>3. /\ p \in Int /\ m % Interval \in 0..(Interval - 1)
      /\ m = Interval * p + (m % Interval)
      /\ q \in Int /\ n % Interval \in 0..(Interval - 1)
      /\ n = Interval * q + (n % Interval)
  BY <1>1, Division
<1> HIDE DEF p, q
<1>4. k <= q
  <2>1. Interval * k < Interval * q + Interval
    BY <1>1, <1>2, <1>3
  <2> QED
    BY <1>1, <1>3, <2>1, SmallMultiple
<1>5. p <= k - 1
  <2>1. Interval * p < Interval * (k - 1) + Interval
    BY <1>1, <1>2, <1>3
  <2> QED
    BY <1>1, <1>3, <2>1, SmallMultiple
<1>6. p < q
  BY <1>3, <1>4, <1>5
<1> QED
  BY <1>6 DEF p, q

\* MissedTickBehavior::Skip: the first multiple of the interval that is after
\* the tick by more than the tolerance forgives.
LEMMA NextTimeout ==
    ASSUME now \in Nat, deadline \in Nat, OnGrid(deadline), deadline <= now
    PROVE  /\ next_timeout \in Nat
           /\ OnGrid(next_timeout)
           /\ now < next_timeout
           /\ next_timeout <= now + Interval
<1>1. Interval \in Nat \ {0} /\ Tolerance \in Nat /\ Tolerance < Interval
  BY TickerAssumption
<1>2. PICK k \in Nat : deadline = Interval * k
  BY DEF OnGrid
<1>3. CASE now > deadline + Tolerance
  <2> DEFINE q == (now - deadline) \div Interval
             r == (now - deadline) % Interval
  <2>1. /\ q \in Int /\ r \in 0..(Interval - 1)
        /\ now - deadline = Interval * q + r
    BY <1>1, Division
  <2>2. next_timeout = now + Interval - r
    BY <1>3 DEF next_timeout
  <2> HIDE DEF q, r
  <2>3. q >= 0
    <3>1. Interval * 0 < Interval * q + Interval
      BY <1>1, <2>1
    <3> QED
      BY <1>1, <2>1, <3>1, SmallMultiple
  <2>4. k + q + 1 \in Nat /\ next_timeout = Interval * (k + q + 1)
    BY <1>1, <1>2, <2>1, <2>2, <2>3
  <2>5. OnGrid(next_timeout)
    BY <2>4 DEF OnGrid
  <2> QED
    BY <1>1, <2>1, <2>2, <2>5
<1>4. CASE ~(now > deadline + Tolerance)
  <2>1. next_timeout = deadline + Interval
    BY <1>4 DEF next_timeout
  <2>2. next_timeout = Interval * (k + 1) /\ k + 1 \in Nat
    BY <1>1, <1>2, <2>1
  <2>3. OnGrid(next_timeout)
    BY <2>2 DEF OnGrid
  <2> QED
    BY <1>1, <1>4, <2>1, <2>3
<1> QED
  BY <1>3, <1>4

-----------------------------------------------------------------------------
(* The invariant.                                                          *)

\* The task waits for nothing longer than it has to.
Timely ==
    /\ phase = "sleeping" => since = 0 /\ last = Never /\ now <= StartDelay
    /\ phase = "select" => now <= Longest(deadline, since)
    /\ phase = "pass" => since = last /\ now <= since + MaxPass

\* The next tick is on the grid, after the last pass and within an interval.
DeadlineInv ==
    /\ OnGrid(deadline)
    /\ IF last = Never THEN deadline = 0
       ELSE last < deadline /\ deadline <= last + Interval

\* A pass that began before the shutdown is the last.
AskedInv ==
    asked # Never =>
        /\ phase = "pass" => since <= asked
        /\ phase = "select" => now - asked <= Longest(StartDelay, MaxPass)

TickerInv ==
    /\ TypeOK
    /\ Timely
    /\ DeadlineInv
    /\ AskedInv
    /\ phase = "select" => since <= Longest(last, StartDelay) + MaxPass

LEMMA Numbers ==
    /\ Interval \in Nat \ {0} /\ StartDelay \in Nat /\ Tolerance \in Nat
    /\ MaxPass \in Nat /\ MaxTime \in Nat /\ Never = -1
  BY TickerAssumption DEF Never

LEMMA TickerInit == Init => TickerInv
<1> SUFFICES ASSUME Init
             PROVE  TickerInv
  OBVIOUS
<1>1. OnGrid(0)
  BY Numbers DEF OnGrid
<1> QED
  BY <1>1, Numbers
     DEF Init, TickerInv, TypeOK, Timely, DeadlineInv, AskedInv

LEMMA TickStep == ASSUME TickerInv, Tick  PROVE TickerInv'
<1>1. now \in Nat /\ deadline \in Nat /\ now \in 0..MaxTime
      /\ OnGrid(deadline) /\ deadline <= now
  BY Numbers DEF TickerInv, TypeOK, DeadlineInv, Tick
<1>2. deadline' = next_timeout /\ last' = now /\ since' = now /\ now' = now
      /\ asked = Never /\ asked' = Never /\ phase' = "pass"
  BY DEF Tick, Enter
<1>3. /\ deadline' \in Nat /\ OnGrid(deadline')
      /\ now < deadline' /\ deadline' <= now + Interval
  BY <1>1, <1>2, NextTimeout
<1>4. DeadlineInv'
  <2>1. OnGrid(deadline)'
    BY <1>3 DEF OnGrid
  <2> QED
    BY <1>1, <1>2, <1>3, <2>1, Numbers DEF DeadlineInv
<1>5. TypeOK'
  BY <1>1, <1>2, <1>3, Numbers DEF TypeOK
<1> QED
  BY <1>1, <1>2, <1>4, <1>5, Numbers DEF TickerInv, Timely, AskedInv

LEMMA ElapseStep == ASSUME TickerInv, Elapse  PROVE TickerInv'
  BY Numbers
     DEF Elapse, Patient, TickerInv, TypeOK, Timely, DeadlineInv, AskedInv,
         OnGrid, Longest

LEMMA PhaseSteps ==
    ASSUME TickerInv, WakeUp \/ Stop \/ EndPass \/ Shutdown
    PROVE  TickerInv'
<1>1. CASE WakeUp
  BY <1>1, Numbers
     DEF WakeUp, Enter, TickerInv, TypeOK, Timely, DeadlineInv, AskedInv,
         OnGrid, Longest
<1>2. CASE Stop
  BY <1>2, Numbers
     DEF Stop, Enter, TickerInv, TypeOK, Timely, DeadlineInv, AskedInv, OnGrid
<1>3. CASE EndPass
  BY <1>3, Numbers
     DEF EndPass, Enter, TickerInv, TypeOK, Timely, DeadlineInv, AskedInv,
         OnGrid, Longest
<1>4. CASE Shutdown
  BY <1>4, Numbers
     DEF Shutdown, TickerInv, TypeOK, Timely, DeadlineInv, AskedInv, OnGrid,
         Longest
<1> QED
  BY <1>1, <1>2, <1>3, <1>4

LEMMA TickerNext == TickerInv /\ [Next]_vars => TickerInv'
<1> SUFFICES ASSUME TickerInv, [Next]_vars
             PROVE  TickerInv'
  OBVIOUS
<1>1. CASE UNCHANGED vars
  BY <1>1
     DEF vars, TickerInv, TypeOK, Timely, DeadlineInv, AskedInv, OnGrid
<1> QED
  BY <1>1, TickStep, ElapseStep, PhaseSteps DEF Next

THEOREM TickerInvariant == Spec => []TickerInv
  BY TickerInit, TickerNext, PTL DEF Spec

\* Time and deadlines keep their types, and the next tick is never further
\* away than an interval.
THEOREM TickerTypeCorrect == Spec => []TypeOK
<1>1. TickerInv => TypeOK
  BY DEF TickerInv
<1> QED
  BY <1>1, TickerInvariant, PTL

\* Whatever the interval and however long passes take, the loop is never
\* silent for longer than an interval or one overlong pass.
THEOREM LoopNeverSilent == Spec => []NeverSilent
<1>1. TickerInv => NeverSilent
  BY Numbers
     DEF TickerInv, TypeOK, Timely, DeadlineInv, NeverSilent, Longest
<1> QED
  BY <1>1, TickerInvariant, PTL

\* A shutdown waits for the first sleep or for the pass at work, never for a
\* pass more.
THEOREM LoopStopsInTime == Spec => []StopsInTime
<1>1. TickerInv => StopsInTime
  BY Numbers DEF TickerInv, TypeOK, Timely, AskedInv, StopsInTime, Longest
<1> QED
  BY <1>1, TickerInvariant, PTL

\* No two passes begin in one period of the interval, which is what
\* MissedTickBehavior::Skip is chosen for.
THEOREM OnePassEach == Spec => OnePassPerPeriod
<1>1. ASSUME TickerInv, [Next]_vars, last' # last, last # Never
      PROVE  last' \div Interval > last \div Interval
  <2>1. Tick
    BY <1>1 DEF Next, vars, WakeUp, Stop, EndPass, Shutdown, Elapse
  <2>2. /\ last' = now /\ now \in Int /\ last \in Int /\ deadline \in Int
        /\ last < deadline /\ deadline <= now /\ OnGrid(deadline)
    BY <1>1, <2>1, Numbers DEF Tick, TickerInv, TypeOK, DeadlineInv
  <2>3. last \div Interval < now \div Interval
    BY <2>2, GridSeparates
  <2>4. last \div Interval \in Int /\ now \div Interval \in Int
    BY <2>2, Numbers, Division
  <2> QED
    BY <2>2, <2>3, <2>4
<1>2. TickerInv /\ [Next]_vars =>
          [last' # last /\ last # Never =>
               last' \div Interval > last \div Interval]_vars
  BY <1>1
<1> QED
  BY <1>2, TickerInvariant, PTL DEF Spec, OnePassPerPeriod

\* Passes of any length move no tick off the grid of the interval.
THEOREM GridIsKept == Spec => KeepsGrid
<1>1. ASSUME TickerInv, [Next]_vars, deadline' # deadline
      PROVE  deadline' % Interval = 0
  <2>1. Tick
    BY <1>1 DEF Next, vars, WakeUp, Stop, EndPass, Shutdown, Elapse
  <2>2. TickerInv'
    BY <1>1, <2>1, TickStep
  <2>3. deadline' \in Int /\ OnGrid(deadline')
    BY <2>2, Numbers DEF TickerInv, TypeOK, DeadlineInv, OnGrid
  <2> QED
    BY <2>3, GridRemainder
<1>2. TickerInv /\ [Next]_vars =>
          [deadline' # deadline => deadline' % Interval = 0]_vars
  BY <1>1
<1> QED
  BY <1>2, TickerInvariant, PTL DEF Spec, KeepsGrid
=============================================================================
