---------------------------- MODULE CyclicProofs ----------------------------
(***************************************************************************)
(* The two parts of the program that are paced by the system counter.      *)
(*                                                                         *)
(* First Cyclic: the periodic loops keep their cadence for every period,   *)
(* every set of loops and tasks, and every duration of every step.  Then   *)
(* EcatMaster, whose cycle one of these loops drives: answers are matched  *)
(* and states are climbed as they should, for every range of indices,      *)
(* every receive ring and every number of status reads.                    *)
(***************************************************************************)
EXTENDS Cyclic, EcatMaster, KernelLemmas

\* What the scan engine knows between its steps: nothing is counted before the
\* first cycle, a cycle that took longer than the period is late when the test
\* is made, whatever has been counted before, and the tick waited for is ahead.
Lateness ==
  /\ ppc = "off" => done = 0
  /\ ppc = "check" => overruns < done
  /\ ppc = "check" /\ maxExec > Period => overruns > 0 \/ now > deadline
  /\ ppc = "wait" => deadline >= finished

\* The tick a paced loop sets before its body is the one the body after it earns,
\* and a loop that waits was late by less than a period when it looked.
Earned(l) == lt0[l] + (cycles[l] + resyncs[l] + 1) * LoopPeriod[l]
Ahead ==
  \A l \in Loops :
    /\ lpc[l] = "off" => cycles[l] = 0 /\ resyncs[l] = 0
    /\ lpc[l] = "body" =>
         /\ next[l] >= Earned(l) + LoopPeriod[l]
         /\ resyncs[l] = 0 => next[l] = Earned(l) + LoopPeriod[l]
    /\ lpc[l] = "spin" => looked[l] < next[l] + LoopPeriod[l]

PlcInv  == CadenceIsAbsolute /\ NoCycleIsEarly /\ LagIsShed /\ LongCyclesAreCounted /\ Lateness
LoopInv == BodiesAreEarned /\ CatchUpIsBounded /\ Ahead
CyclicInv == TypeOK /\ PlcInv /\ LoopInv

\* One more cycle is one more period; the only fact about products needed.
LEMMA OneMore ==
  ASSUME NEW n \in Nat, NEW p \in Nat
  PROVE  n * p \in Nat /\ (n + 1) * p = n * p + p
OBVIOUS

LEMMA Remainder ==
  ASSUME NEW q \in Nat, NEW n \in Nat \ {0}, NEW m \in 0 .. n-1
  PROVE  (q * n + m) % n = m
BY SMT

\* A task that has run r times in d cycles, once in each n of them, is due in the
\* cycle that begins the next n.
LEMMA DueCycle ==
  ASSUME NEW d \in Nat, NEW r \in Nat, NEW n \in Nat \ {0},
         (r - 1) * n < d, d <= r * n
  PROVE  d % n = 0 <=> d = r * n
<1>1. CASE d = r * n
      BY <1>1, Remainder
<1>2. CASE d # r * n
  <2> DEFINE m == d - (r - 1) * n
  <2>1. r * n = (r - 1) * n + n /\ (r - 1) * n \in Int
        OBVIOUS
  <2>2. m \in 1 .. n-1 /\ d = (r - 1) * n + m
        BY <1>2, <2>1
  <2>3. r - 1 \in Nat
    <3>1. ASSUME r = 0 PROVE r * n = 0
      <4>1. r * n = 0 * n
            BY <3>1
      <4>2. 0 * n = 0
            OBVIOUS
      <4> QED BY <4>1, <4>2
    <3> QED BY <1>2, <3>1
  <2>4. d % n = m
    <3> HIDE DEF m
    <3>1. m \in 0 .. n-1
          BY <2>2
    <3>2. ((r - 1) * n + m) % n = m
          BY <2>3, <3>1, Remainder
    <3> QED BY <2>2, <3>2
  <2> QED BY <1>2, <2>2, <2>4
<1> QED BY <1>1, <1>2

LEMMA InitCyclicInv == Init => CyclicInv
<1> SUFFICES ASSUME Init PROVE CyclicInv
    OBVIOUS
<1>1. TypeOK
      BY CyclicAssumption DEF Init, TypeOK
<1>2. PlcInv
      BY CyclicAssumption DEF Init, PlcInv, CadenceIsAbsolute, NoCycleIsEarly, LagIsShed,
         LongCyclesAreCounted, Lateness
<1>3. LoopInv
      BY DEF Init, LoopInv, BodiesAreEarned, CatchUpIsBounded, Ahead
<1> QED BY <1>1, <1>2, <1>3 DEF CyclicInv

\* Time passes: nothing is stated that a later instant could falsify.
LEMMA AdvanceKeeps == CyclicInv /\ Advance => CyclicInv'
<1> SUFFICES ASSUME CyclicInv, Advance PROVE CyclicInv'
    OBVIOUS
<1> USE CyclicAssumption DEF CyclicInv, Advance, plc, loops
<1>1. TypeOK'
      BY DEF TypeOK
<1>2. PlcInv'
      BY DEF TypeOK, PlcInv, CadenceIsAbsolute, NoCycleIsEarly, LagIsShed, LongCyclesAreCounted, Lateness
<1>3. LoopInv'
  <2>1. ASSUME NEW l \in Loops, lpc[l] = "body" PROVE now + 1 >= Earned(l)
    <3>1. now >= Earned(l)
          BY <2>1 DEF LoopInv, BodiesAreEarned, Earned
    <3>2. Earned(l) \in Int
          BY DEF TypeOK, Earned
    <3> QED BY <3>1, <3>2 DEF TypeOK
  <2>2. BodiesAreEarned'
        BY <2>1 DEF LoopInv, BodiesAreEarned, Earned
  <2>3. Ahead' /\ CatchUpIsBounded'
        BY DEF LoopInv, Ahead, CatchUpIsBounded, Earned
  <2> QED BY <2>2, <2>3 DEF LoopInv
<1> QED BY <1>1, <1>2, <1>3

\* A step of the scan engine leaves the loops and the counter alone.
LEMMA PlcStepKeeps == CyclicInv /\ PlcStep => CyclicInv'
<1> SUFFICES ASSUME CyclicInv, PlcStep PROVE CyclicInv'
    OBVIOUS
<1> USE CyclicAssumption DEF CyclicInv
<1>1. now' = now /\ loops' = loops
      BY DEF PlcStep, PlcRun, CycleStart, Work, Measure, Overrun, InTime, Waited, loops
<1>2. LoopInv'
      BY <1>1 DEF LoopInv, BodiesAreEarned, CatchUpIsBounded, Ahead, Earned, loops
<1>3. ASSUME TypeOK', PlcInv' PROVE CyclicInv'
      BY <1>2, <1>3
<1> DEFINE Due == t0 + done * Period
<1>4. done * Period \in Nat /\ (done + 1) * Period = done * Period + Period
      BY OneMore DEF TypeOK
<1> HIDE DEF CyclicInv
<1> USE DEF TypeOK, PlcInv, CadenceIsAbsolute, NoCycleIsEarly, LagIsShed, LongCyclesAreCounted,
        Lateness, loops
<1>5. TypeOK /\ PlcInv
      BY DEF CyclicInv
<1>6. CASE PlcRun
  <2>1. ppc = "off" /\ ppc' = "start" /\ deadline' = now /\ t0' = now
        /\ UNCHANGED <<now, start, done, overruns, maxExec, runs, prev, finished, loops>>
        BY <1>6 DEF PlcRun
  <2>2. TypeOK'
        BY <1>5, <2>1
  <2>3. done = 0 /\ done * Period = 0
        BY <1>5, <2>1
  <2>4. PlcInv'
        BY <1>5, <2>1, <2>3
  <2> QED BY <1>3, <2>2, <2>4
<1>7. CASE CycleStart
      BY <1>3, <1>5, <1>7 DEF CycleStart
<1>8. CASE Work
      BY <1>3, <1>5, <1>8 DEF Work
<1>9. CASE Measure
  <2>1. TypeOK'
        BY <1>5, <1>9 DEF Measure, NextTick, Exec
  <2>2. CadenceIsAbsolute'
        BY <1>4, <1>5, <1>9 DEF Measure, NextTick
  <2>3. PlcInv'
        BY <1>5, <1>9, <2>2 DEF Measure, NextTick, Exec
  <2> QED BY <1>3, <2>1, <2>3
<1>10. CASE Overrun
      BY <1>3, <1>4, <1>5, <1>10 DEF Overrun, Late
<1>11. CASE InTime
      BY <1>3, <1>5, <1>11 DEF InTime, Late
<1>12. CASE Waited
      BY <1>3, <1>5, <1>12 DEF Waited, Reached
<1> QED BY <1>6, <1>7, <1>8, <1>9, <1>10, <1>11, <1>12 DEF PlcStep

\* A step of a paced loop leaves the scan engine, the counter and the other
\* loops alone.
LEMMA LoopStepKeeps == ASSUME CyclicInv, NEW l \in Loops, LoopStep(l) PROVE CyclicInv'
<1> USE CyclicAssumption
<1>1. now' = now /\ plc' = plc
      BY DEF LoopStep, LoopEnter, Resync, Spin, Wake, Body, plc
<1>2. PlcInv'
      BY <1>1 DEF CyclicInv, PlcInv, CadenceIsAbsolute, NoCycleIsEarly, LagIsShed,
         LongCyclesAreCounted, Lateness, plc
<1>3. TypeOK'
      BY <1>1 DEF CyclicInv, TypeOK, LoopStep, LoopEnter, Resync, Spin, Wake, Body, plc
<1> DEFINE Good(k) ==
      /\ lpc[k] = "off" => cycles[k] = 0 /\ resyncs[k] = 0
      /\ lpc[k] = "body" =>
           /\ now >= Earned(k)
           /\ next[k] >= Earned(k) + LoopPeriod[k]
           /\ resyncs[k] = 0 => next[k] = Earned(k) + LoopPeriod[k]
           /\ next[k] > looked[k]
      /\ lpc[k] = "spin" => looked[k] < next[k] + LoopPeriod[k]
      /\ lpc[k] \in {"look", "spin"} =>
           /\ next[k] >= Earned(k)
           /\ resyncs[k] = 0 => next[k] = Earned(k)
<1>4. TypeOK /\ \A k \in Loops : Good(k)
      BY DEF CyclicInv, LoopInv, BodiesAreEarned, CatchUpIsBounded, Ahead, Earned
<1>5. ASSUME NEW k \in Loops, k # l PROVE Good(k)'
  <2>1. /\ lpc'[k] = lpc[k] /\ next'[k] = next[k] /\ cycles'[k] = cycles[k]
        /\ resyncs'[k] = resyncs[k] /\ lt0'[k] = lt0[k] /\ looked'[k] = looked[k]
        BY <1>4, <1>5 DEF TypeOK, LoopStep, LoopEnter, Resync, Spin, Wake, Body
  <2> QED BY <1>1, <1>4, <2>1 DEF Earned
<1>6. Good(l)'
  <2> DEFINE n == cycles[l] + resyncs[l]
             p == LoopPeriod[l]
  <2>1. n \in Nat /\ p \in Nat /\ lt0[l] \in Nat /\ next[l] \in Nat /\ now \in Nat
        /\ cycles[l] \in Nat /\ resyncs[l] \in Nat /\ looked[l] \in Nat
        BY <1>4 DEF TypeOK
  <2>2. /\ (n + 1) * p \in Nat
        /\ (n + 2) * p = (n + 1) * p + p
        /\ 1 * p = p
        BY <2>1, OneMore
  <2>3. Earned(l) = lt0[l] + (n + 1) * p
        BY DEF Earned
  <2>4. CASE LoopEnter(l)
    <3>1. lpc'[l] = "look" /\ next'[l] = now + p /\ lt0'[l] = now
          /\ cycles'[l] = 0 /\ resyncs'[l] = 0
          BY <1>4, <2>4 DEF LoopEnter, TypeOK
    <3>2. Earned(l)' = now + p
          BY <2>1, <2>2, <3>1 DEF Earned
    <3> QED BY <2>1, <3>1, <3>2
  <2>5. CASE Resync(l)
    <3>1. /\ lpc[l] = "look" /\ now >= next[l] + p
          /\ lpc'[l] = "body" /\ next'[l] = now + p /\ lt0'[l] = lt0[l] /\ looked'[l] = now
          /\ cycles'[l] = cycles[l] /\ resyncs'[l] = resyncs[l] + 1
          BY <1>4, <2>5 DEF Resync, VeryLate, TypeOK
    <3>2. cycles'[l] + resyncs'[l] + 1 = n + 2
          BY <2>1, <3>1
    <3>3. Earned(l)' = Earned(l) + p
          BY <2>1, <2>2, <2>3, <3>1, <3>2 DEF Earned
    <3>4. now >= Earned(l) + p /\ Earned(l) \in Nat
          BY <1>4, <2>1, <2>2, <2>3, <3>1
    <3>5. p > 0
          BY DEF CyclicAssumption
    <3> QED BY <1>1, <2>1, <3>1, <3>3, <3>4, <3>5
  <2>6. CASE Spin(l)
    <3>1. /\ lpc[l] = "look" /\ lpc'[l] = "spin" /\ looked'[l] = now /\ now < next[l] + p
          /\ next'[l] = next[l] /\ Earned(l)' = Earned(l) /\ resyncs'[l] = resyncs[l]
          BY <1>4, <2>1, <2>6 DEF Spin, VeryLate, TypeOK, Earned
    <3> QED BY <1>4, <2>1, <3>1
  <2>7. CASE Wake(l)
    <3>1. /\ lpc[l] = "spin" /\ lpc'[l] = "body" /\ now >= next[l] /\ looked'[l] = looked[l]
          /\ next'[l] = next[l] + p /\ Earned(l)' = Earned(l) /\ resyncs'[l] = resyncs[l]
          BY <1>4, <2>7 DEF Wake, TypeOK, Earned
    <3>2. Earned(l) \in Nat
          BY <2>1, <2>2, <2>3
    <3> QED BY <1>1, <1>4, <2>1, <3>1, <3>2
  <2>8. CASE Body(l)
    <3>1. /\ lpc[l] = "body" /\ lpc'[l] = "look"
          /\ next'[l] = next[l] /\ lt0'[l] = lt0[l]
          /\ cycles'[l] = cycles[l] + 1 /\ resyncs'[l] = resyncs[l]
          BY <1>4, <2>8 DEF Body, TypeOK
    <3>2. cycles'[l] + resyncs'[l] + 1 = n + 2
          BY <2>1, <3>1
    <3>3. Earned(l)' = Earned(l) + p
          BY <2>1, <2>2, <2>3, <3>1, <3>2 DEF Earned
    <3> QED BY <1>4, <3>1, <3>3
  <2> QED BY <2>4, <2>5, <2>6, <2>7, <2>8 DEF LoopStep
<1>7. LoopInv'
  <2>1. \A k \in Loops : Good(k)'
        BY <1>5, <1>6
  <2> QED BY <2>1 DEF LoopInv, BodiesAreEarned, CatchUpIsBounded, Ahead, Earned
<1> QED BY <1>2, <1>3, <1>7 DEF CyclicInv

\* Steps in which nothing happens.
LEMMA CyclicStutter == CyclicInv /\ UNCHANGED vars => CyclicInv'
BY DEF CyclicInv, TypeOK, PlcInv, LoopInv, CadenceIsAbsolute, NoCycleIsEarly, LagIsShed,
   LongCyclesAreCounted, Lateness, BodiesAreEarned, CatchUpIsBounded, Ahead, Earned, vars, plc, loops

LEMMA CyclicInvariant == Spec => []CyclicInv
<1>1. CyclicInv /\ [Next]_vars => CyclicInv'
      BY AdvanceKeeps, PlcStepKeeps, LoopStepKeeps, CyclicStutter DEF Next
<1> QED BY InitCyclicInv, <1>1, PTL DEF Spec

-----------------------------------------------------------------------------
\* The count of a task at every point of the scan engine: after its work, the
\* cycle in progress is one of those the task has run for.
KeepsPace(i) ==
  LET served == IF ppc = "measure" THEN done + 1 ELSE done
  IN (runs[i] - 1) * Every(i) < served /\ served <= runs[i] * Every(i)
TasksInv == \A i \in Tasks : (ppc = "off" => runs[i] = 0) /\ KeepsPace(i)

LEMMA EveryPositive == ASSUME NEW i \in Tasks PROVE Every(i) \in Nat \ {0}
BY CyclicAssumption DEF Every

\* Everybody's pace starts at zero.
LEMMA InitTasks == Init => TasksInv
<1> SUFFICES ASSUME Init, NEW i \in Tasks PROVE (ppc = "off" => runs[i] = 0) /\ KeepsPace(i)
    BY DEF TasksInv
<1> DEFINE n == Every(i)
<1>1. n \in Nat \ {0} /\ (0 - 1) * n = 0 - n /\ 0 * n = 0
  <2>1. n \in Nat \ {0}
        BY EveryPositive
  <2> HIDE DEF n
  <2> QED BY <2>1
<1> QED BY <1>1 DEF Init, KeepsPace

\* Only Work and Measure concern the tasks: the first runs those that are due,
\* the second turns the cycle in progress into one that is done.
LEMMA TasksStep == CyclicInv /\ TasksInv /\ [Next]_vars => TasksInv'
<1> SUFFICES ASSUME CyclicInv, TasksInv, [Next]_vars, NEW i \in Tasks
             PROVE  ((ppc = "off" => runs[i] = 0) /\ KeepsPace(i))'
    BY DEF TasksInv
<1> DEFINE n == Every(i)
           r == runs[i]
<1>1. n \in Nat \ {0} /\ r \in Nat /\ done \in Nat
      /\ runs \in [Tasks -> Nat]
      BY EveryPositive DEF CyclicInv, TypeOK
<1>2. (ppc = "off" => r = 0) /\ KeepsPace(i)
      BY DEF TasksInv
<1>3. CASE Work
  <2>1. (r - 1) * n < done /\ done <= r * n
        BY <1>2, <1>3 DEF Work, KeepsPace
  <2>2. done % n = 0 <=> done = r * n
    <3> HIDE DEF n, r
    <3> QED BY <1>1, <2>1, DueCycle
  <2>3. /\ ppc' = "measure" /\ done' = done
        /\ runs'[i] = IF done % n = 0 THEN r + 1 ELSE r
        BY <1>3 DEF Work
  <2>4. r * n = (r - 1) * n + n /\ (r + 1) * n = r * n + n /\ (r + 1) - 1 = r
        /\ r * n \in Nat
    <3> HIDE DEF n, r
    <3> QED BY <1>1
  <2>5. CASE done % n = 0
    <3>1. runs'[i] = r + 1 /\ done = r * n
          BY <2>2, <2>3, <2>5
    <3>2. (runs'[i] - 1) * n = r * n /\ runs'[i] * n = r * n + n
          BY <2>4, <3>1
    <3>3. (runs'[i] - 1) * n < done + 1 /\ done + 1 <= runs'[i] * n
      <4> HIDE DEF n, r
      <4> QED BY <1>1, <2>4, <3>1, <3>2
    <3> QED BY <2>3, <3>3 DEF KeepsPace
  <2>6. CASE done % n # 0
    <3>1. runs'[i] = r /\ done # r * n
          BY <2>2, <2>3, <2>6
    <3>2. (r - 1) * n < done + 1 /\ done + 1 <= r * n
      <4> HIDE DEF n, r
      <4> QED BY <1>1, <2>1, <2>4, <3>1
    <3> QED BY <2>3, <3>1, <3>2 DEF KeepsPace
  <2> QED BY <2>5, <2>6
<1>4. CASE Measure
      BY <1>2, <1>4 DEF Measure, KeepsPace
<1>5. CASE PlcRun
      BY <1>2, <1>5 DEF PlcRun, KeepsPace
<1>6. CASE CycleStart
      BY <1>2, <1>6 DEF CycleStart, KeepsPace
<1>7. CASE Overrun \/ InTime \/ Waited
      BY <1>2, <1>7 DEF Overrun, InTime, Waited, KeepsPace
<1>8. CASE Advance \/ (\E l \in Loops : LoopStep(l)) \/ UNCHANGED vars
  <2>1. ppc' = ppc /\ done' = done /\ runs' = runs
        BY <1>8 DEF Advance, LoopStep, LoopEnter, Resync, Spin, Wake, Body, plc, vars
  <2> QED BY <1>2, <2>1 DEF KeepsPace
<1> QED BY <1>3, <1>4, <1>5, <1>6, <1>7, <1>8 DEF Next, PlcStep

-----------------------------------------------------------------------------
\* Type correctness, with the ranges of the deadline and of the statistics.
THEOREM CyclicTypeCorrect == Spec => []TypeOK
<1>1. CyclicInv => TypeOK
      BY DEF CyclicInv
<1> QED BY CyclicInvariant, <1>1, PTL

\* The theoretical ticks of the scan engine are where the first one puts them
\* until an overrun, and each is a period or more after the one before it
\* (plc.c: "deadline = start + n*T_cycle").
THEOREM ScanKeepsCadence == Spec => []CadenceIsAbsolute
<1>1. CyclicInv => CadenceIsAbsolute
      BY DEF CyclicInv, PlcInv
<1> QED BY CyclicInvariant, <1>1, PTL

\* No cycle of the scan engine begins before its theoretical tick, whatever the
\* cycles before it took, and none answers a tick that lies before the end of the
\* cycle before it: no overrun leaves a backlog.
THEOREM ScanShedsItsLag == Spec => []CyclesAnswerTheirTick
<1>1. CyclicInv => CyclesAnswerTheirTick
      BY DEF CyclicInv, PlcInv, CyclesAnswerTheirTick
<1> QED BY CyclicInvariant, <1>1, PTL

\* max_exec_ticks never shows a cycle longer than the period of which no overrun
\* was counted.
THEOREM ScanCountsLongCycles == Spec => []LongCyclesAreCounted
<1>1. CyclicInv => LongCyclesAreCounted
      BY DEF CyclicInv, PlcInv
<1> QED BY CyclicInvariant, <1>1, PTL

\* Every body and every resynchronisation of a paced loop stands for a period of
\* its own, without resynchronisations the ticks do not drift, and one body at
\* most makes up for a delay.
THEOREM PacedLoopsKeepPace == Spec => []LoopsKeepPace
<1>1. CyclicInv => LoopsKeepPace
      BY DEF CyclicInv, LoopInv, LoopsKeepPace
<1> QED BY CyclicInvariant, <1>1, PTL

\* A cyclic task registered for every n cycles runs in the first one of each n,
\* for ever, also when cycles overrun.
THEOREM TasksKeepPace == Spec => []TasksKeepTheirPeriod
<1>1. TasksInv => TasksKeepTheirPeriod
      BY DEF TasksInv, KeepsPace, TasksKeepTheirPeriod
<1> QED BY InitTasks, TasksStep, CyclicInvariant, <1>1, PTL DEF Spec

-----------------------------------------------------------------------------
\* The EtherCAT master.

\* How many datagrams may have been built since the receive ring was last found
\* empty: the status reads of a request, and what is sent in a row without
\* looking at the outcome.
Unread ==
  IF ask = "status" THEN polls
  ELSE [scan |-> 0, addr |-> 0, INIT |-> 1, PREOP |-> MaxPolls + 1,
        sii |-> 0, smOut |-> 1, fmmuOut |-> 2, smIn |-> 3, fmmuIn |-> 4, dc |-> 5, SAFEOP |-> 6,
        blank |-> 0, blankReceive |-> 0, OP |-> 0, receive |-> 1, clock |-> 0, queue |-> 1][step]

\* Frames keep the order they were sent in, and as long as the program goes on
\* none is old enough for its index to return.
InOrder ==
  /\ \A i \in DOMAIN flight : /\ Age(flight[i].idx, index) < MaxLate
                              /\ Age(flight[i].idx, index) >= Len(flight) - i
  /\ \A i, j \in DOMAIN flight : i < j => Age(flight[i].idx, index) > Age(flight[j].idx, index)
  /\ \A i, j \in DOMAIN rx : i < j => Age(rx[i].idx, index) > Age(rx[j].idx, index)
  /\ \A i \in DOMAIN rx, j \in DOMAIN flight : Age(rx[i].idx, index) > Age(flight[j].idx, index)
  /\ step # "idle" =>
       \A i \in DOMAIN rx : Age(rx[i].idx, index) < MaxLate + Unread + (IF waiting THEN 1 ELSE 0)

\* What is awaited is the last frame sent, and that frame is the datagram of the
\* step; or there is nothing to take, which is so when the first cycle begins.
LastIsAwaited(frames) ==
  \A i \in DOMAIN frames :
    Age(frames[i].idx, index) = 0 => frames[i].kind = Kind /\ frames[i].awaited /\ frames[i].cmd = Cmd
Awaiting ==
  waiting =>
    \/ flight = <<>> /\ rx = <<>>
    \/ Age(idx[Kind], index) = 0 /\ LastIsAwaited(flight) /\ LastIsAwaited(rx)

\* Where the program can be.
Places ==
  /\ waiting => step \notin {"blank", "queue", "idle"}
  /\ step \in {"blankReceive", "receive"} => waiting
  /\ ask = "request" => polls = 0
  /\ step \notin AlNames => ask = "request"

\* The newest answer shows the state the slave still has, or has left by its
\* watchdog.
FreshStatus ==
  \A i \in DOMAIN rx :
    Age(rx[i].idx, index) = 0 /\ rx[i].cmd = "status"
      => slave.al = rx[i].al \/ (rx[i].al = "OP" /\ slave.al = "SAFEOP")

\* The requests on the ring are those of one phase of the activation, and the
\* slave is no further down than that phase found it.
Requests(S) == \A i \in DOMAIN flight : flight[i].cmd \in AlNames => flight[i].cmd \in S
Low  == Requests({"INIT", "PREOP"})
Mid  == Requests({"SAFEOP"}) /\ slave.al # "INIT"
High == Requests({"OP"}) /\ slave.al \in {"SAFEOP", "OP"}
LowSteps  == {"scan", "addr", "INIT", "PREOP"}
MidSteps  == {"sii", "smOut", "fmmuOut", "smIn", "fmmuIn", "dc", "SAFEOP"}
HighSteps == {"blank", "blankReceive", "OP", "receive", "clock", "queue"}
Phases ==
  /\ step \in LowSteps => Low
  /\ step \in MidSteps => Mid
  /\ step \in HighSteps => High
  /\ Low \/ Mid \/ High

EcatInv ==
  /\ EcatTypeOK /\ AcceptedIsOwn
  /\ InOrder /\ Awaiting /\ Places /\ FreshStatus /\ Phases

LEMMA Sizes ==
  /\ IndexMod \in Nat /\ RxRing \in Nat \ {0} /\ MaxPolls \in Nat \ {0} /\ MaxLate \in Nat \ {0}
  /\ MaxLate + MaxPolls + 1 < IndexMod /\ MaxLate + 6 < IndexMod
BY EcatAssumption

Indices == 0 .. IndexMod-1

\* An index and its age determine each other.
LEMMA AgeFacts ==
  ASSUME NEW n \in Indices, NEW i \in Indices
  PROVE  /\ Age(i, n) \in Indices
         /\ \A j \in Indices : Age(j, n) = Age(i, n) => j = i
BY Sizes DEF Age, Indices

\* When a frame is sent, the earlier ones get one older, its index is new among
\* those that are young enough, and its own age is 0.
LEMMA AgeStep ==
  ASSUME NEW n \in Indices, NEW m, m = (n + 1) % IndexMod
  PROVE  /\ m \in Indices
         /\ Age(n, m) = 0
         /\ \A i \in Indices : Age(i, n) < IndexMod-1 => Age(i, m) = Age(i, n) + 1 /\ i # n
<1>1. (n < IndexMod-1 => m = n + 1) /\ (n = IndexMod-1 => m = 0)
  <2>1. IndexMod \in Nat \ {0} /\ n + 1 \in 0 .. 2*IndexMod-1 /\ n \in Int
    BY Sizes DEF Indices
  <2>2. PICK x \in 0 .. 2*IndexMod-1 : x = n + 1
    BY <2>1
  <2>3. m = x % IndexMod
    BY <2>2, Zenon
  <2>4. (x < IndexMod => m = x) /\ (x >= IndexMod => m = x - IndexMod)
    BY <2>1, <2>3, RingMod
  <2>5. QED BY <2>1, <2>2, <2>4
<1>2. m \in Indices /\ n \in 0 .. IndexMod-1 /\ IndexMod \in Nat
  BY <1>1, Sizes DEF Indices
<1>3. Age(n, m) = 0
  BY <1>1, <1>2 DEF Age
<1>4. ASSUME NEW i \in Indices, Age(i, n) < IndexMod-1
      PROVE  Age(i, m) = Age(i, n) + 1 /\ i # n
  BY <1>1, <1>2, <1>4 DEF Indices, Age
<1>5. QED BY <1>2, <1>3, <1>4

-----------------------------------------------------------------------------
\* What the invariant says of the frames, in the form the steps use it.
LEMMA FrameTypes ==
  ASSUME EcatTypeOK
  PROVE  /\ index \in Indices /\ idx["LRW"] \in Indices /\ idx["single"] \in Indices
         /\ flight \in Seq(Frames) /\ rx \in Seq(Frames)
         /\ \A i \in DOMAIN flight : flight[i] \in Frames /\ flight[i].idx \in Indices
         /\ \A i \in DOMAIN rx : rx[i] \in Frames /\ rx[i].idx \in Indices
<1>1. flight \in Seq(Frames) /\ rx \in Seq(Frames)
  BY DEF EcatTypeOK
<1>2. \A f \in Frames : f.idx \in Indices
  BY DEF Frames, Indices
<1>3. QED BY <1>1, <1>2 DEF EcatTypeOK, Indices

LEMMA SupersededFacts ==
  ASSUME NEW q \in Seq(Frames)
  PROVE  /\ Superseded(q) \in Seq(Frames) /\ Len(Superseded(q)) = Len(q)
         /\ \A i \in DOMAIN q :
              /\ Superseded(q)[i].idx = q[i].idx /\ Superseded(q)[i].cmd = q[i].cmd
              /\ Superseded(q)[i].kind = q[i].kind /\ Superseded(q)[i].al = q[i].al
              /\ q[i].kind # Kind => Superseded(q)[i] = q[i]
<1>1. DOMAIN q = 1 .. Len(q) /\ Len(q) \in Nat /\ \A i \in DOMAIN q : q[i] \in Frames
  OBVIOUS
<1>2. \A i \in DOMAIN q : Superseded(q)[i] = [q[i] EXCEPT !.awaited = @ /\ q[i].kind # Kind]
  BY DEF Superseded
<1>3. ASSUME NEW i \in DOMAIN q
      PROVE  /\ Superseded(q)[i] \in Frames
             /\ Superseded(q)[i].idx = q[i].idx /\ Superseded(q)[i].cmd = q[i].cmd
             /\ Superseded(q)[i].kind = q[i].kind /\ Superseded(q)[i].al = q[i].al
             /\ q[i].kind # Kind => Superseded(q)[i] = q[i]
  <2>1. q[i] \in Frames
    BY <1>1
  <2>2. PICK b \in BOOLEAN : /\ Superseded(q)[i] = [q[i] EXCEPT !.awaited = b]
                             /\ q[i].kind # Kind => b = q[i].awaited
    <3>1. (q[i].awaited /\ q[i].kind # Kind) \in BOOLEAN
      BY Zenon
    <3>2. q[i].awaited \in BOOLEAN
      BY <2>1 DEF Frames
    <3>3. q[i].kind # Kind => (q[i].awaited /\ q[i].kind # Kind) = q[i].awaited
      BY <3>2
    <3>4. QED BY <1>2, <3>1, <3>3, Zenon
  <2>3. QED BY <2>1, <2>2 DEF Frames
<1>4. Superseded(q) \in [1 .. Len(q) -> Frames]
  BY <1>1, <1>3 DEF Superseded
<1>5. QED BY <1>1, <1>3, <1>4

LEMMA TailFacts ==
  ASSUME NEW q \in Seq(Frames), q # <<>>
  PROVE  /\ Tail(q) \in Seq(Frames) /\ Len(q) \in Nat \ {0} /\ Len(Tail(q)) = Len(q) - 1
         /\ 1 \in DOMAIN q /\ Head(q) = q[1] /\ q[1] \in Frames
         /\ \A i \in DOMAIN Tail(q) : i \in Nat \ {0} /\ i + 1 \in DOMAIN q /\ Tail(q)[i] = q[i+1]
OBVIOUS

LEMMA UnreadFacts ==
  ASSUME EcatInv, step # "idle"
  PROVE  Unread \in Nat /\ MaxLate + Unread < IndexMod
<1>1. step \in Steps \ {"idle"} /\ polls \in 0 .. MaxPolls
  BY DEF EcatInv, EcatTypeOK
<1>2. CASE ask = "status"
  BY <1>1, <1>2, Sizes DEF Unread
<1>3. CASE ask # "status"
  <2>1. Unread \in 0 .. 6 \/ Unread = MaxPolls + 1
    BY <1>1, <1>3 DEF Unread, Steps, AlNames, CycleSteps
  <2>2. QED BY <2>1, Sizes
<1>4. QED BY <1>2, <1>3

\* A frame is built, and sent or not: the frames sent before are one older, and
\* the new one is the youngest and has an index of its own.
LEMMA BuildFacts ==
  ASSUME EcatInv, ~waiting, step # "idle", Build,
         flight' \in {Superseded(flight), Append(Superseded(flight), NewFrame)}
  PROVE  /\ flight \in Seq(Frames) /\ flight' \in Seq(Frames) /\ Len(flight) \in Nat
         /\ Len(flight') \in {Len(flight), Len(flight) + 1}
         /\ rx \in Seq(Frames) /\ rx' \in Seq(Frames) /\ Len(rx') = Len(rx)
         /\ index' \in Indices /\ index \in Indices /\ Age(index, index') = 0
         /\ idx' = [idx EXCEPT ![Kind] = index]
         /\ \A i \in DOMAIN flight' :
              \/ /\ i \in DOMAIN flight /\ flight'[i].cmd = flight[i].cmd
                 /\ Age(flight'[i].idx, index') = Age(flight[i].idx, index) + 1
                 /\ Age(flight[i].idx, index) \in Nat
              \/ /\ i = Len(flight) + 1 /\ flight'[i] = NewFrame
                 /\ Age(flight'[i].idx, index') = 0
         /\ \A i \in DOMAIN rx' :
              /\ i \in DOMAIN rx /\ Age(rx[i].idx, index) \in Nat
              /\ Age(rx'[i].idx, index') = Age(rx[i].idx, index) + 1
<1> DEFINE L == Len(flight)
<1>1. /\ index \in Indices /\ flight \in Seq(Frames) /\ rx \in Seq(Frames) /\ L \in Nat
      /\ DOMAIN flight = 1 .. L
      /\ \A i \in DOMAIN flight : flight[i].idx \in Indices
      /\ \A i \in DOMAIN rx : rx[i].idx \in Indices
  BY FrameTypes DEF EcatInv
<1>2. rx' = Superseded(rx) /\ idx' = [idx EXCEPT ![Kind] = index] /\ index' = NextIndex
  BY DEF Build
<1>3. NewFrame \in Frames
  <2>1. Kind \in {"LRW", "single"}
    BY DEF Kind
  <2>2. Cmd \in Steps \cup {"LRW", "status", "code"}
    BY DEF Cmd, EcatInv, EcatTypeOK
  <2>3. sii \in BOOLEAN /\ TRUE \in BOOLEAN /\ FALSE \in BOOLEAN
    BY DEF EcatInv, EcatTypeOK
  <2>4. "INIT" \in AlNames /\ 0 \in 0 .. 3 /\ index \in 0 .. IndexMod-1
    BY <1>1 DEF AlNames, Indices
  <2>5. QED BY <2>1, <2>2, <2>3, <2>4 DEF NewFrame, Frames
<1>4. /\ Superseded(flight) \in Seq(Frames) /\ Len(Superseded(flight)) = L
      /\ Superseded(rx) \in Seq(Frames) /\ Len(Superseded(rx)) = Len(rx)
  BY <1>1, SupersededFacts
<1> HIDE DEF L
<1>5. /\ flight' \in Seq(Frames) /\ Len(flight') \in {L, L + 1}
      /\ \A i \in DOMAIN flight' : \/ i \in 1 .. L /\ flight'[i] = Superseded(flight)[i]
                                   \/ i = L + 1 /\ flight'[i] = NewFrame
  <2>1. CASE flight' = Superseded(flight)
    BY <1>4, <2>1
  <2>2. CASE flight' = Append(Superseded(flight), NewFrame)
    <3>1. /\ flight' \in Seq(Frames) /\ Len(flight') = L + 1 /\ flight'[L + 1] = NewFrame
          /\ \A i \in 1 .. L : flight'[i] = Superseded(flight)[i]
      BY <1>3, <1>4, <2>2, AppendProperties
    <3>2. DOMAIN flight' = 1 .. L + 1
      BY <3>1
    <3>3. QED BY <1>1, <3>1, <3>2
  <2>3. QED BY <2>1, <2>2
<1>6. /\ index' \in Indices /\ Age(index, index') = 0
      /\ \A i \in Indices : Age(i, index) < IndexMod-1 => Age(i, index') = Age(i, index) + 1
      /\ \A i \in Indices : Age(i, index) \in Nat
  <2>1. index' = (index + 1) % IndexMod
    BY <1>2, Zenon DEF NextIndex
  <2>2. \A i \in Indices : Age(i, index) \in Nat
    BY <1>1, AgeFacts DEF Indices
  <2>3. QED BY <1>1, <2>1, <2>2, AgeStep
<1>7. ASSUME NEW i \in DOMAIN flight
      PROVE  /\ Superseded(flight)[i].cmd = flight[i].cmd
             /\ Age(Superseded(flight)[i].idx, index') = Age(flight[i].idx, index) + 1
  <2>1. Age(flight[i].idx, index) < MaxLate /\ Age(flight[i].idx, index) \in Nat
    BY <1>1, <1>6 DEF EcatInv, InOrder
  <2>2. Age(flight[i].idx, index) < IndexMod - 1
    BY <2>1, Sizes
  <2>3. QED BY <1>1, <1>6, <2>2, SupersededFacts
<1>8. ASSUME NEW i \in DOMAIN rx'
      PROVE  /\ i \in DOMAIN rx /\ Age(rx[i].idx, index) \in Nat
             /\ Age(rx'[i].idx, index') = Age(rx[i].idx, index) + 1
  <2>1. i \in DOMAIN rx
    BY <1>1, <1>2, <1>4
  <2>2. Age(rx[i].idx, index) < MaxLate + Unread + (IF waiting THEN 1 ELSE 0)
    BY <2>1 DEF EcatInv, InOrder
  <2>3. Age(rx[i].idx, index) \in Nat
    BY <1>1, <1>6, <2>1
  <2>4. Age(rx[i].idx, index) < IndexMod - 1
    BY <2>2, <2>3, UnreadFacts, Sizes
  <2>5. QED BY <1>1, <1>2, <1>6, <2>1, <2>3, <2>4, SupersededFacts
<1>9. Age(NewFrame.idx, index') = 0
  BY <1>6 DEF NewFrame
<1>10. ASSUME NEW i \in DOMAIN flight'
       PROVE  \/ /\ i \in DOMAIN flight /\ flight'[i].cmd = flight[i].cmd
                 /\ Age(flight'[i].idx, index') = Age(flight[i].idx, index) + 1
                 /\ Age(flight[i].idx, index) \in Nat
              \/ /\ i = L + 1 /\ flight'[i] = NewFrame
                 /\ Age(flight'[i].idx, index') = 0
  BY <1>1, <1>5, <1>6, <1>7, <1>9
<1>11. QED BY <1>1, <1>2, <1>4, <1>5, <1>6, <1>8, <1>10 DEF L

\* The order of the frames after one has been built.
LEMMA BuildOrder ==
  ASSUME EcatInv, ~waiting, step # "idle", Build,
         flight' \in {Superseded(flight), Append(Superseded(flight), NewFrame)},
         (step # "idle")' => /\ Unread' \in Nat
                             /\ MaxLate + Unread' + (IF waiting' THEN 1 ELSE 0) >= MaxLate + Unread + 1
  PROVE  /\ InOrder' /\ Len(flight') <= MaxLate
         /\ \A i \in DOMAIN rx' : Age(rx'[i].idx, index') # 0
<1> DEFINE L == Len(flight)
           M == Len(flight')
<1>1. /\ flight' \in Seq(Frames) /\ flight \in Seq(Frames) /\ L \in Nat /\ Len(flight') \in {L, L+1}
      /\ \A i \in DOMAIN flight' :
              \/ /\ i \in DOMAIN flight /\ Age(flight[i].idx, index) \in Nat
                 /\ Age(flight'[i].idx, index') = Age(flight[i].idx, index) + 1
              \/ i = L + 1 /\ Age(flight'[i].idx, index') = 0
      /\ \A i \in DOMAIN rx' :
              /\ i \in DOMAIN rx /\ Age(rx[i].idx, index) \in Nat
              /\ Age(rx'[i].idx, index') = Age(rx[i].idx, index) + 1
  BY BuildFacts
<1>2. /\ DOMAIN flight = 1 .. L /\ DOMAIN flight' = 1 .. M
      /\ L \in Nat /\ M \in Nat /\ M \in {L, L + 1}
  BY <1>1
<1>3. InOrder
  BY DEF EcatInv
<1> HIDE DEF L, M
<1>4. ASSUME NEW i \in DOMAIN flight
      PROVE  Age(flight[i].idx, index) + 1 < MaxLate
  <2>1. 1 \in DOMAIN flight /\ Head(flight) = flight[1] /\ flight # <<>>
    BY <1>1, TailFacts
  <2>2. Age(flight[1].idx, index) + 1 < MaxLate
    BY <2>1 DEF Build
  <2>3. i = 1 \/ Age(flight[1].idx, index) > Age(flight[i].idx, index)
    BY <1>2, <1>3, <2>1 DEF InOrder
  <2>4. Age(flight[1].idx, index) \in Nat /\ Age(flight[i].idx, index) \in Nat
    <3>1. \A j \in Indices : Age(j, index) \in Nat
      BY FrameTypes, AgeFacts DEF EcatInv, Indices
    <3>2. QED BY <2>1, <3>1, FrameTypes DEF EcatInv
  <2>5. QED BY <2>2, <2>3, <2>4, Sizes
<1>5. ASSUME NEW i \in DOMAIN flight'
      PROVE  /\ Age(flight'[i].idx, index') < MaxLate
             /\ Age(flight'[i].idx, index') >= M - i
             /\ Age(flight'[i].idx, index') \in Nat
  <2>1. CASE /\ i \in DOMAIN flight /\ Age(flight[i].idx, index) \in Nat
             /\ Age(flight'[i].idx, index') = Age(flight[i].idx, index) + 1
    <3>1. Age(flight[i].idx, index) >= L - i
      BY <1>3, <2>1 DEF InOrder, L
    <3>2. Age(flight[i].idx, index) + 1 >= M - i
      BY <1>2, <2>1, <3>1
    <3>3. QED BY <1>4, <2>1, <3>2
  <2>2. CASE i = L + 1 /\ Age(flight'[i].idx, index') = 0
    BY <1>2, <2>2, Sizes
  <2>3. QED BY <1>1, <2>1, <2>2
<1>6. ASSUME NEW i \in DOMAIN flight', NEW j \in DOMAIN flight', i < j
      PROVE  Age(flight'[i].idx, index') > Age(flight'[j].idx, index')
  <2>1. i \in DOMAIN flight
    BY <1>2, <1>6
  <2>2. i # L + 1
    BY <1>2, <2>1
  <2>3. CASE j \in DOMAIN flight /\ j # L + 1
    <3>1. Age(flight[i].idx, index) > Age(flight[j].idx, index)
      BY <1>3, <1>6, <2>1, <2>3 DEF InOrder
    <3>2. QED BY <1>1, <2>2, <2>3, <3>1
  <2>4. CASE j = L + 1
    <3>1. j \notin DOMAIN flight
      BY <1>2, <2>4
    <3>2. QED BY <1>1, <2>2, <3>1
  <2>5. QED BY <1>1, <2>3, <2>4
<1>7. ASSUME NEW i \in DOMAIN rx', NEW j \in DOMAIN rx', i < j
      PROVE  Age(rx'[i].idx, index') > Age(rx'[j].idx, index')
  <2>1. Age(rx[i].idx, index) > Age(rx[j].idx, index)
    BY <1>1, <1>3, <1>7 DEF InOrder
  <2>2. QED BY <1>1, <2>1
<1>8. ASSUME NEW i \in DOMAIN rx', NEW j \in DOMAIN flight'
      PROVE  Age(rx'[i].idx, index') > Age(flight'[j].idx, index')
  <2>1. CASE /\ j \in DOMAIN flight /\ Age(flight[j].idx, index) \in Nat
             /\ Age(flight'[j].idx, index') = Age(flight[j].idx, index) + 1
    <3>1. Age(rx[i].idx, index) > Age(flight[j].idx, index)
      BY <1>1, <1>3, <2>1 DEF InOrder
    <3>2. QED BY <1>1, <2>1, <3>1
  <2>2. CASE Age(flight'[j].idx, index') = 0
    BY <1>1, <2>2
  <2>3. QED BY <1>1, <2>1, <2>2
<1>9. ASSUME NEW i \in DOMAIN rx', (step # "idle")'
      PROVE  Age(rx'[i].idx, index') < MaxLate + Unread' + (IF waiting' THEN 1 ELSE 0)
  <2>1. Age(rx[i].idx, index) < MaxLate + Unread
    <3>1. Age(rx[i].idx, index) < MaxLate + Unread + (IF waiting THEN 1 ELSE 0)
      BY <1>1, <1>3 DEF InOrder
    <3>2. QED BY <3>1, UnreadFacts, Sizes
  <2>2. Age(rx'[i].idx, index') < MaxLate + Unread + 1
    BY <1>1, <2>1, UnreadFacts, Sizes
  <2>3. Age(rx'[i].idx, index') \in Nat
    BY <1>1
  <2>4. QED BY <1>9, <2>2, <2>3, UnreadFacts, Sizes
<1>10. InOrder'
  BY <1>5, <1>6, <1>7, <1>8, <1>9 DEF InOrder, M
<1>11. M <= MaxLate
  <2>1. CASE M = 0
    BY <2>1, Sizes
  <2>2. CASE M # 0
    <3>1. 1 \in DOMAIN flight'
      BY <1>2, <2>2
    <3>2. /\ Age(flight'[1].idx, index') < MaxLate /\ Age(flight'[1].idx, index') >= M - 1
          /\ Age(flight'[1].idx, index') \in Nat
      BY <1>5, <3>1
    <3>3. M - 1 < MaxLate
      BY <1>2, <3>2, Sizes
    <3>4. QED BY <1>2, <3>3, Sizes
  <2>3. QED BY <2>1, <2>2
<1>12. \A i \in DOMAIN rx' : Age(rx'[i].idx, index') # 0
  BY <1>1
<1>13. QED BY <1>10, <1>11, <1>12 DEF M

\* The requests on the ring stay those of the phase if the new frame is one of
\* them, or no request.
LEMMA BuildRequests ==
  ASSUME EcatInv, ~waiting, step # "idle", Build,
         flight' \in {Superseded(flight), Append(Superseded(flight), NewFrame)},
         NEW S, Requests(S), Cmd \in AlNames => Cmd \in S
  PROVE  Requests(S)'
<1>1. \A i \in DOMAIN flight' : \/ i \in DOMAIN flight /\ flight'[i].cmd = flight[i].cmd
                                \/ flight'[i] = NewFrame
  BY BuildFacts
<1>2. NewFrame.cmd = Cmd
  BY DEF NewFrame
<1>3. QED BY <1>1, <1>2 DEF Requests

\* Whatever is built belongs to the phase of the step.
LEMMA BuildPhase ==
  ASSUME EcatInv, ~waiting, step # "idle", Build, UNCHANGED slave,
         flight' \in {Superseded(flight), Append(Superseded(flight), NewFrame)}
  PROVE  /\ step \in LowSteps => Low'
         /\ step \in MidSteps => Mid'
         /\ step \in HighSteps => High'
<1>1. Cmd \in AlNames => Cmd = step
  BY DEF Cmd, AlNames, EcatInv, EcatTypeOK
<1>2. Phases
  BY DEF EcatInv
<1>3. CASE step \in LowSteps
  <2>1. Cmd \in AlNames => Cmd \in {"INIT", "PREOP"}
    BY <1>1, <1>3 DEF LowSteps, AlNames
  <2>2. Low'
    BY <1>2, <1>3, <2>1, BuildRequests DEF Phases, Low
  <2>3. QED BY <1>3, <2>2 DEF LowSteps, MidSteps, HighSteps
<1>4. CASE step \in MidSteps
  <2>1. Cmd \in AlNames => Cmd \in {"SAFEOP"}
    BY <1>1, <1>4 DEF MidSteps, AlNames
  <2>2. Mid'
    BY <1>2, <1>4, <2>1, BuildRequests DEF Phases, Mid
  <2>3. QED BY <1>4, <2>2 DEF LowSteps, MidSteps, HighSteps
<1>5. CASE step \in HighSteps
  <2>1. Cmd \in AlNames => Cmd \in {"OP"}
    BY <1>1, <1>5 DEF HighSteps, AlNames
  <2>2. High'
    BY <1>2, <1>5, <2>1, BuildRequests DEF Phases, High
  <2>3. QED BY <1>5, <2>2 DEF LowSteps, MidSteps, HighSteps
<1>6. QED BY <1>3, <1>4, <1>5

\* After a frame has been built and sent, it is what is awaited.
LEMMA EmitAwaits ==
  ASSUME EcatInv, ~waiting, step # "idle", Emit, Kind' = Kind, Cmd' = Cmd
  PROVE  Awaiting'
<1>1. Build /\ flight' = Append(Superseded(flight), NewFrame)
  BY DEF Emit
<1>2. /\ Age(index, index') = 0 /\ idx' = [idx EXCEPT ![Kind] = index]
      /\ \A i \in DOMAIN flight' : \/ Age(flight'[i].idx, index') # 0
                                   \/ flight'[i] = NewFrame
      /\ \A i \in DOMAIN rx' : Age(rx'[i].idx, index') # 0
  <2>1. \A n \in Nat : n + 1 # 0
    OBVIOUS
  <2>2. QED BY <1>1, <2>1, BuildFacts
<1>3. idx'[Kind] = index
  BY <1>2 DEF EcatInv, EcatTypeOK, Kind
<1>4. NewFrame.kind = Kind /\ NewFrame.awaited /\ NewFrame.cmd = Cmd
  BY DEF NewFrame
<1>5. LastIsAwaited(flight)' /\ LastIsAwaited(rx)'
  BY <1>2, <1>4 DEF LastIsAwaited
<1>6. QED BY <1>2, <1>3, <1>5 DEF Awaiting

LEMMA BuildTypes ==
  ASSUME EcatInv, ~waiting, step # "idle", Build,
         flight' \in {Superseded(flight), Append(Superseded(flight), NewFrame)}
  PROVE  /\ idx' \in [{"LRW", "single"} -> 0 .. IndexMod-1] /\ index' \in 0 .. IndexMod-1
         /\ flight' \in Seq(Frames) /\ rx' \in Seq(Frames) /\ Len(rx') <= RxRing
<1>1. /\ idx' = [idx EXCEPT ![Kind] = index] /\ index \in Indices /\ index' \in Indices
      /\ flight' \in Seq(Frames) /\ rx' \in Seq(Frames) /\ Len(rx') = Len(rx)
  BY BuildFacts
<1>2. QED BY <1>1 DEF EcatInv, EcatTypeOK, Indices

\* do_single_datagram() sends.
LEMMA IssueInv == EcatInv /\ Issue => EcatInv'
<1> SUFFICES ASSUME EcatInv, Issue PROVE EcatInv'
  OBVIOUS
<1>1. /\ ~waiting /\ Kind = "single" /\ step # "idle" /\ Emit /\ waiting' = TRUE
      /\ UNCHANGED <<step, ask, polls, sii, domain, slave, calm, took>>
  BY DEF Issue
<1>2. Build /\ flight' \in {Superseded(flight), Append(Superseded(flight), NewFrame)}
  BY <1>1 DEF Emit
<1>3. Kind' = Kind /\ Cmd' = Cmd /\ Unread' = Unread
  BY <1>1 DEF Kind, Cmd, Unread
<1>4. InOrder' /\ Len(flight') <= MaxLate /\ \A i \in DOMAIN rx' : Age(rx'[i].idx, index') # 0
  <2>1. MaxLate + Unread' + (IF waiting' THEN 1 ELSE 0) >= MaxLate + Unread + 1 /\ Unread' \in Nat
    BY <1>1, <1>3, UnreadFacts, Sizes
  <2>2. QED BY <1>1, <1>2, <2>1, BuildOrder
<1>5. EcatTypeOK'
  BY <1>1, <1>2, <1>4, BuildTypes DEF EcatInv, EcatTypeOK
<1>6. Awaiting'
  BY <1>1, <1>3, EmitAwaits
<1>7. Places'
  BY <1>1 DEF EcatInv, Places, Kind
<1>8. FreshStatus'
  BY <1>4 DEF FreshStatus
<1>9. Phases'
  <2>1. step \in LowSteps \cup MidSteps \cup HighSteps
    BY <1>1 DEF EcatInv, EcatTypeOK, Steps, AlNames, CycleSteps, LowSteps, MidSteps, HighSteps
  <2>2. QED BY <1>1, <1>2, <2>1, BuildPhase DEF Phases
<1>10. QED BY <1>1, <1>4, <1>5, <1>6, <1>7, <1>8, <1>9 DEF EcatInv, AcceptedIsOwn

\* ecrt_domain_queue() and ecrt_master_send().
LEMMA QueueInv == EcatInv /\ QueueAndSend => EcatInv'
<1> SUFFICES ASSUME EcatInv, QueueAndSend PROVE EcatInv'
  OBVIOUS
<1>1. /\ step \in {"blank", "queue"} /\ Emit /\ waiting' = TRUE
      /\ step' = Follows(step)
      /\ UNCHANGED <<ask, polls, sii, domain, slave, calm, took>>
  BY DEF QueueAndSend
<1>2. /\ step' = IF step = "blank" THEN "blankReceive" ELSE "receive"
      /\ ~waiting /\ step # "idle" /\ step \notin AlNames /\ step' \notin AlNames /\ ask = "request"
      /\ Kind = "LRW" /\ Kind' = "LRW"
  BY <1>1 DEF Follows, Kind, EcatInv, Places, AlNames
<1>3. Cmd' = Cmd
  BY <1>2 DEF Cmd
<1>4. Build /\ flight' \in {Superseded(flight), Append(Superseded(flight), NewFrame)}
  BY <1>1 DEF Emit
<1>5. InOrder' /\ Len(flight') <= MaxLate /\ \A i \in DOMAIN rx' : Age(rx'[i].idx, index') # 0
  <2>1. Unread' = Unread /\ Unread' \in Nat
    BY <1>1, <1>2 DEF Unread
  <2>2. MaxLate + Unread' + (IF waiting' THEN 1 ELSE 0) >= MaxLate + Unread + 1
    BY <1>1, <2>1, Sizes
  <2>3. QED BY <1>2, <1>4, <2>1, <2>2, BuildOrder
<1>6. EcatTypeOK'
  <2>1. step' \in Steps
    BY <1>2 DEF Steps, CycleSteps
  <2>2. QED BY <1>1, <1>2, <1>4, <1>5, <2>1, BuildTypes DEF EcatInv, EcatTypeOK
<1>7. Awaiting'
  BY <1>1, <1>2, <1>3, EmitAwaits
<1>8. Places'
  BY <1>1, <1>2 DEF EcatInv, Places
<1>9. FreshStatus'
  BY <1>5 DEF FreshStatus
<1>10. Phases'
  <2>1. High'
    BY <1>1, <1>2, <1>4, BuildPhase DEF HighSteps
  <2>2. QED BY <1>2, <2>1 DEF Phases, LowSteps, MidSteps
<1>11. QED BY <1>1, <1>5, <1>6, <1>7, <1>8, <1>9, <1>10 DEF EcatInv, AcceptedIsOwn

-----------------------------------------------------------------------------
Slaves == [al : AlNames, err : BOOLEAN, addr : BOOLEAN,
           sm : SUBSET {"in", "out"}, fmmu : SUBSET {"in", "out"}]

\* What a frame can do to the slave, and what it brings back.
LEMMA ServeFacts ==
  ASSUME EcatTypeOK, NEW f \in Frames
  PROVE  /\ Serve(f) \in Slaves
         /\ Serve(f).al = slave.al \/ (f.cmd \in AlNames /\ Serve(f).al = f.cmd)
         /\ f.cmd = "status" => Serve(f) = slave
         /\ Wkc(f) \in 0 .. 3
<1>1. slave \in Slaves
  BY DEF EcatTypeOK, Slaves
<1>2. Serve(f) \in {[slave EXCEPT !.addr = TRUE], slave, [slave EXCEPT !.err = TRUE],
                    [slave EXCEPT !.sm = @ \cup {"out"}], [slave EXCEPT !.sm = @ \cup {"in"}],
                    [slave EXCEPT !.fmmu = @ \cup {"out"}], [slave EXCEPT !.fmmu = @ \cup {"in"}]}
      \/ (f.cmd \in AlNames /\ Serve(f) = [slave EXCEPT !.al = f.cmd, !.err = FALSE])
  BY DEF Serve
<1>3. f.cmd = "status" => Serve(f) = slave
  BY DEF Serve, AlNames
<1>4. Serve(f) \in Slaves
  BY <1>1, <1>2 DEF Slaves
<1>5. Serve(f).al = slave.al \/ (f.cmd \in AlNames /\ Serve(f).al = f.cmd)
  BY <1>1, <1>2 DEF Slaves
<1>6. Wkc(f) \in 0 .. 3
  BY DEF Wkc
<1>7. QED BY <1>3, <1>4, <1>5, <1>6

\* An answer that is taken is the one awaited, and it was sent last: nothing is
\* left behind it, neither on the ring nor in the receive ring.
LEMMA OwnAnswer ==
  ASSUME EcatInv, waiting, rx # <<>>, Matches(Head(rx))
  PROVE  /\ Head(rx).awaited /\ Head(rx).kind = Kind
         /\ Age(rx[1].idx, index) = 0 /\ rx[1].cmd = Cmd
         /\ flight = <<>> /\ Tail(rx) = <<>>
<1>1. /\ rx \in Seq(Frames) /\ flight \in Seq(Frames)
      /\ 1 \in DOMAIN rx /\ Head(rx) = rx[1]
  BY FrameTypes, TailFacts DEF EcatInv
<1>2. rx[1].idx = idx[Kind]
  BY <1>1 DEF Matches
<1>3. Age(idx[Kind], index) = 0 /\ LastIsAwaited(rx)
  BY DEF EcatInv, Awaiting
<1>4. Age(rx[1].idx, index) = 0 /\ rx[1].awaited /\ rx[1].kind = Kind /\ rx[1].cmd = Cmd
  BY <1>1, <1>2, <1>3 DEF LastIsAwaited
<1>5. /\ \A j \in DOMAIN flight : Age(flight[j].idx, index) \in Nat
      /\ \A j \in DOMAIN rx : Age(rx[j].idx, index) \in Nat
  <2>1. \A j \in Indices : Age(j, index) \in Nat
    BY FrameTypes, AgeFacts DEF EcatInv, Indices
  <2>2. QED BY <2>1, FrameTypes DEF EcatInv
<1>6. flight = <<>>
  <2>1. ASSUME flight # <<>> PROVE FALSE
    <3>1. 1 \in DOMAIN flight
      BY <1>1, <2>1, TailFacts
    <3>2. Age(rx[1].idx, index) > Age(flight[1].idx, index)
      BY <1>1, <3>1 DEF EcatInv, InOrder
    <3>3. QED BY <1>4, <1>5, <3>1, <3>2
  <2>2. QED BY <2>1
<1>7. Tail(rx) = <<>>
  <2>1. ASSUME Tail(rx) # <<>> PROVE FALSE
    <3>1. 1 + 1 \in DOMAIN rx
      BY <1>1, <2>1, TailFacts
    <3>2. Age(rx[1].idx, index) > Age(rx[1+1].idx, index)
      BY <1>1, <3>1 DEF EcatInv, InOrder
    <3>3. QED BY <1>4, <1>5, <3>1, <3>2
  <2>2. QED BY <2>1
<1>8. QED BY <1>1, <1>4, <1>6, <1>7

\* An answer that shows a state shows the state the slave is in.
LEMMA Confirmation ==
  ASSUME EcatInv, waiting, rx # <<>>, Matches(Head(rx)),
         step \in AlNames, ask = "status", Head(rx).al = step
  PROVE  slave.al = step \/ (step = "OP" /\ slave.al = "SAFEOP")
<1>1. 1 \in DOMAIN rx /\ Head(rx) = rx[1]
  BY FrameTypes, TailFacts DEF EcatInv
<1>2. Cmd = "status"
  BY DEF Cmd
<1>3. Age(rx[1].idx, index) = 0 /\ rx[1].cmd = "status"
  BY <1>2, OwnAnswer
<1>4. slave.al = rx[1].al \/ (rx[1].al = "OP" /\ slave.al = "SAFEOP")
  BY <1>1, <1>3 DEF EcatInv, FreshStatus
<1>5. QED BY <1>1, <1>4

\* Where the program is after an answer, or none: in another datagram of
\* request_state(), or at the beginning of another step.
LEMMA AnsweredFacts ==
  ASSUME EcatInv, Kind = "single", step # "idle", NEW f, Answered(f)
  PROVE  \/ /\ step \in AlNames /\ step' = step /\ ~waiting' /\ waiting' \in BOOLEAN
            /\ \/ ask' = "status" /\ polls' = polls + 1 /\ polls < MaxPolls /\ (ask = "status" \/ f.wkc # 0)
               \/ ask' = "code" /\ polls' = polls /\ f.wkc # 0
         \/ /\ ask' = "request" /\ polls' = 0 /\ waiting' = (step' = "receive")
            /\ \/ step' = "idle"
               \/ step = "INIT" /\ step' = "PREOP"
               \/ /\ step' = Follows(step)
                  /\ step \in AlNames => ask = "status" /\ f.wkc # 0 /\ f.al = step
                  /\ step = "scan" => f.wkc # 0
<1>1. /\ ask \in {"request", "status", "code"}
      /\ polls \in 0 .. MaxPolls /\ 0 < MaxPolls
      /\ ask = "request" => polls = 0
  BY Sizes DEF EcatInv, EcatTypeOK, Places
<1>2. Failed => /\ ask' = "request" /\ polls' = 0 /\ waiting' = (step' = "receive")
                /\ step' = "idle" \/ (step = "INIT" /\ step' = "PREOP")
  BY DEF Failed, GoTo
<1>3. CASE step = "scan"
  <2>1. GoTo("idle") \/ (GoTo("addr") /\ f.wkc # 0)
    BY <1>3 DEF Answered, AlNames
  <2>2. Follows(step) = "addr" /\ step \notin AlNames
    BY <1>3 DEF Follows, AlNames
  <2>3. QED BY <2>1, <2>2 DEF GoTo
<1>4. CASE step \in AlNames /\ ask = "request"
  <2>1. Failed \/ (Confirm /\ f.wkc # 0)
    BY <1>4 DEF Answered, AlNames
  <2>2. ASSUME Confirm
        PROVE  step' = step /\ waiting' = FALSE /\ ask' = "status" /\ polls' = polls + 1
    BY <2>2 DEF Confirm, Ask
  <2>3. polls < MaxPolls
    BY <1>1, <1>4
  <2>4. QED BY <1>2, <1>4, <2>1, <2>2, <2>3
<1>5. CASE step \in AlNames /\ ask = "status"
  <2>1. \/ f.wkc # 0 /\ f.al = step /\ GoTo(Follows(step))
        \/ f.wkc # 0 /\ Ask("code")
        \/ polls < MaxPolls /\ Ask("status")
        \/ Failed
    BY <1>5 DEF Answered, AlNames
  <2>2. step # "scan"
    BY <1>5 DEF AlNames
  <2>3. QED BY <1>2, <1>5, <2>1, <2>2 DEF GoTo, Ask
<1>6. CASE step \in AlNames /\ ask = "code"
  <2>1. Failed
    BY <1>6 DEF Answered, AlNames
  <2>2. QED BY <1>2, <2>1
<1>7. CASE step # "scan" /\ step \notin AlNames
  <2>1. GoTo(Follows(step))
    BY <1>7 DEF Answered
  <2>2. QED BY <1>7, <2>1 DEF GoTo
<1>8. QED BY <1>1, <1>3, <1>4, <1>5, <1>6, <1>7

\* What every step of the program has in common.  A state that is left upwards
\* has been shown by an answer; and without an answer, one more datagram may be
\* unread.
LEMMA ProgramStep ==
  ASSUME EcatInv, step # "idle", NEW f, f.wkc \in 0 .. 3, Handle(f),
         waiting \/ (Kind = "single" /\ f = NoAnswer)
  PROVE  /\ step' \in Steps /\ ask' \in {"request", "status", "code"} /\ polls' \in 0 .. MaxPolls
         /\ waiting' \in BOOLEAN /\ sii' \in BOOLEAN
         /\ domain' \in [wkc : 0 .. 3, wc_state : {"ZERO", "COMPLETE"}]
         /\ Places'
         /\ waiting' => step = "OP" /\ ask = "status" /\ f.wkc # 0 /\ f.al = step
         /\ \/ step' = "idle"
            \/ step \in LowSteps /\ step' \in LowSteps
            \/ step \in MidSteps /\ step' \in MidSteps
            \/ step \in HighSteps /\ step' \in HighSteps
            \/ step = "PREOP" /\ step' \in MidSteps /\ ask = "status" /\ f.wkc # 0 /\ f.al = step
            \/ step = "SAFEOP" /\ step' \in HighSteps /\ ask = "status" /\ f.wkc # 0 /\ f.al = step
         /\ f = NoAnswer /\ ~waiting /\ step' # "idle" => Unread' \in Nat /\ Unread' >= Unread + 1
<1> DEFINE Again == /\ step \in AlNames /\ step' = step /\ ~waiting' /\ waiting' \in BOOLEAN
                    /\ \/ ask' = "status" /\ polls' = polls + 1 /\ polls < MaxPolls /\ (ask = "status" \/ f.wkc # 0)
                       \/ ask' = "code" /\ polls' = polls /\ f.wkc # 0
           Gone  == ask' = "request" /\ polls' = 0 /\ waiting' = (step' = "receive")
<1>1. /\ step \in Steps \ {"idle"} /\ Kind \in {"LRW", "single"}
      /\ waiting => step \notin {"blank", "queue"}
      /\ Kind = "LRW" => step \in {"blank", "blankReceive", "receive", "queue"}
      /\ Kind = "single" => step \notin {"blank", "blankReceive", "receive", "queue"}
      /\ polls \in 0 .. MaxPolls /\ MaxPolls \in Nat \ {0}
      /\ ask \in {"request", "status", "code"}
  BY Sizes DEF EcatInv, EcatTypeOK, Places, Kind
<1>2. \/ Again
      \/ /\ Gone
         /\ \/ step' = "idle"
            \/ step = "INIT" /\ step' = "PREOP"
            \/ /\ step' = Follows(step)
               /\ step \in AlNames => ask = "status" /\ f.wkc # 0 /\ f.al = step
               /\ step = "scan" => f.wkc # 0
  <2>1. CASE Kind = "single"
    <3>1. Answered(f)
      BY <2>1 DEF Handle
    <3>2. QED BY <2>1, <3>1, AnsweredFacts
  <2>2. CASE Kind = "LRW"
    <3>1. GoTo(Follows(step))
      BY <2>2 DEF Handle, Received
    <3>2. step \notin AlNames /\ step # "scan"
      BY <1>1, <2>2 DEF AlNames
    <3>3. QED BY <3>1, <3>2 DEF GoTo
  <2>3. QED BY <1>1, <2>1, <2>2
<1>3. sii' \in BOOLEAN /\ domain' \in [wkc : 0 .. 3, wc_state : {"ZERO", "COMPLETE"}]
  <2>1. sii \in BOOLEAN /\ domain \in [wkc : 0 .. 3, wc_state : {"ZERO", "COMPLETE"}]
    BY DEF EcatInv, EcatTypeOK
  <2>2. CASE Kind = "single"
    BY <2>1, <2>2 DEF Handle
  <2>3. CASE Kind = "LRW"
    BY <2>1, <2>3 DEF Handle, Received
  <2>4. QED BY <1>1, <2>2, <2>3
<1>4. step \notin {"blank", "queue"}
  BY <1>1
<1>5. ASSUME Gone, step' = Follows(step),
             step \in AlNames => ask = "status" /\ f.wkc # 0 /\ f.al = step
      PROVE  /\ step' \in Steps \ {"idle"} /\ step' # "blankReceive"
             /\ step' = "receive" => step = "OP"
             /\ \/ step \in LowSteps /\ step' \in LowSteps
                \/ step \in MidSteps /\ step' \in MidSteps
                \/ step \in HighSteps /\ step' \in HighSteps
                \/ step = "PREOP" /\ step' \in MidSteps
                \/ step = "SAFEOP" /\ step' \in HighSteps
  BY <1>1, <1>4, <1>5 DEF Follows, Steps, AlNames, CycleSteps, LowSteps, MidSteps, HighSteps
<1>6. step \in LowSteps \cup MidSteps \cup HighSteps
  BY <1>1 DEF Steps, AlNames, CycleSteps, LowSteps, MidSteps, HighSteps
<1>7. step' \in Steps /\ step' # "blankReceive" /\ (step' \notin AlNames => ask' = "request")
  <2>1. CASE Again
    BY <1>1, <2>1 DEF AlNames
  <2>2. CASE Gone /\ (step' = "idle" \/ (step = "INIT" /\ step' = "PREOP"))
    BY <2>2 DEF Steps, AlNames
  <2>3. QED BY <1>2, <1>5, <2>1, <2>2
<1>8. waiting' => step' = "receive" /\ step = "OP" /\ ask = "status" /\ f.wkc # 0 /\ f.al = step
  BY <1>2, <1>5 DEF AlNames
<1>9. \/ step' = "idle"
      \/ step \in LowSteps /\ step' \in LowSteps
      \/ step \in MidSteps /\ step' \in MidSteps
      \/ step \in HighSteps /\ step' \in HighSteps
      \/ step = "PREOP" /\ step' \in MidSteps /\ ask = "status" /\ f.wkc # 0 /\ f.al = step
      \/ step = "SAFEOP" /\ step' \in HighSteps /\ ask = "status" /\ f.wkc # 0 /\ f.al = step
  <2>1. CASE Again
    BY <1>6, <2>1
  <2>2. CASE step = "INIT" /\ step' = "PREOP"
    BY <2>2 DEF LowSteps
  <2>3. QED BY <1>2, <1>5, <2>1, <2>2 DEF AlNames
<1>10. ask' \in {"request", "status", "code"} /\ polls' \in 0 .. MaxPolls /\ waiting' \in BOOLEAN
  <2>1. CASE Again
    BY <1>1, <2>1
  <2>2. CASE Gone
    BY <1>1, <2>2
  <2>3. QED BY <1>2, <2>1, <2>2
<1>11. Places'
  <2>1. waiting' => step' = "receive"
    BY <1>8
  <2>2. step' = "receive" => waiting'
    <3>1. CASE Again
      BY <3>1 DEF AlNames
    <3>2. CASE Gone
      BY <3>2
    <3>3. QED BY <1>2, <3>1, <3>2
  <2>3. ask' = "request" => polls' = 0
    <3>1. CASE Again
      BY <3>1
    <3>2. CASE Gone
      BY <3>2
    <3>3. QED BY <1>2, <3>1, <3>2
  <2>4. QED BY <1>7, <2>1, <2>2, <2>3 DEF Places
<1>12. ASSUME f = NoAnswer, ~waiting, step' # "idle"
       PROVE  Unread' \in Nat /\ Unread' >= Unread + 1
  <2>1. f.wkc = 0 /\ Kind = "single"
    BY <1>12 DEF NoAnswer
  <2>2. CASE Again
    <3>1. ask = "status" /\ ask' = "status" /\ polls' = polls + 1
      BY <2>1, <2>2
    <3>2. QED BY <1>1, <3>1 DEF Unread
  <2>3. CASE Gone /\ step = "INIT" /\ step' = "PREOP"
    <3>1. Unread' = MaxPolls + 1
      BY <2>3 DEF Unread
    <3>2. Unread \in 0 .. MaxPolls
      BY <1>1, <2>3 DEF Unread
    <3>3. QED BY <1>1, <3>1, <3>2
  <2>4. CASE Gone /\ step' = Follows(step) /\ step \notin AlNames /\ step # "scan"
    <3>1. ask = "request"
      BY <1>1, <2>4 DEF EcatInv, Places
    <3>2. step \in {"addr", "sii", "smOut", "fmmuOut", "smIn", "fmmuIn", "dc", "clock"}
      BY <1>1, <2>1, <2>4 DEF Steps, AlNames, CycleSteps
    <3>3. QED BY <2>4, <3>1, <3>2 DEF Unread, Follows
  <2>5. QED BY <1>2, <1>12, <2>1, <2>2, <2>3, <2>4
<1>13. QED BY <1>3, <1>7, <1>8, <1>9, <1>10, <1>11, <1>12

\* The frames when the master has read the receive ring empty and sends nothing.
LEMMA EmptyOrder ==
  ASSUME EcatInv, UNCHANGED <<index, flight>>, rx' = <<>>
  PROVE  InOrder'
BY DEF EcatInv, InOrder

\* The phase after a step of the program that changes neither the ring nor the
\* slave; a phase is left upwards only with an answer, which is the slave's last.
LEMMA HandlePhases ==
  ASSUME EcatInv, waiting, step # "idle", NEW f, f.wkc \in 0 .. 3, Handle(f),
         UNCHANGED <<flight, slave>>,
         f = NoAnswer \/ (rx # <<>> /\ Matches(Head(rx)) /\ f = Head(rx))
  PROVE  Phases'
<1>1. (Low => Low') /\ (Mid => Mid') /\ (High => High')
  BY DEF Low, Mid, High, Requests
<1>2. Phases
  BY DEF EcatInv
<1>3. \/ step' = "idle"
      \/ step \in LowSteps /\ step' \in LowSteps
      \/ step \in MidSteps /\ step' \in MidSteps
      \/ step \in HighSteps /\ step' \in HighSteps
      \/ step = "PREOP" /\ step' \in MidSteps /\ ask = "status" /\ f.wkc # 0 /\ f.al = step
      \/ step = "SAFEOP" /\ step' \in HighSteps /\ ask = "status" /\ f.wkc # 0 /\ f.al = step
  BY ProgramStep
<1>4. CASE step' = "idle"
  BY <1>1, <1>2, <1>4 DEF Phases, LowSteps, MidSteps, HighSteps
<1>5. CASE step \in LowSteps /\ step' \in LowSteps
  BY <1>1, <1>2, <1>5 DEF Phases, LowSteps, MidSteps, HighSteps
<1>6. CASE step \in MidSteps /\ step' \in MidSteps
  BY <1>1, <1>2, <1>6 DEF Phases, LowSteps, MidSteps, HighSteps
<1>7. CASE step \in HighSteps /\ step' \in HighSteps
  BY <1>1, <1>2, <1>7 DEF Phases, LowSteps, MidSteps, HighSteps
<1>8. ASSUME step \in {"PREOP", "SAFEOP"}, ask = "status", f.wkc # 0, f.al = step
      PROVE  (\A S : Requests(S)') /\ slave'.al = step
  <2>1. rx # <<>> /\ Matches(Head(rx)) /\ f = Head(rx)
    BY <1>8 DEF NoAnswer
  <2>2. flight = <<>>
    BY <2>1, OwnAnswer
  <2>3. slave.al = step
    BY <1>8, <2>1, Confirmation DEF AlNames
  <2>4. QED BY <2>2, <2>3 DEF Requests
<1>9. CASE step = "PREOP" /\ step' \in MidSteps /\ ask = "status" /\ f.wkc # 0 /\ f.al = step
  <2>1. Mid'
    BY <1>8, <1>9 DEF Mid
  <2>2. QED BY <1>9, <2>1 DEF Phases, LowSteps, MidSteps, HighSteps
<1>10. CASE step = "SAFEOP" /\ step' \in HighSteps /\ ask = "status" /\ f.wkc # 0 /\ f.al = step
  <2>1. High'
    BY <1>8, <1>10 DEF High
  <2>2. QED BY <1>10, <2>1 DEF Phases, LowSteps, MidSteps, HighSteps
<1>11. QED BY <1>3, <1>4, <1>5, <1>6, <1>7, <1>9, <1>10

\* The program goes on after an answer f, or after none.
LEMMA HandleInv ==
  ASSUME EcatInv, waiting, NEW f, f.wkc \in 0 .. 3, Handle(f), took' = TRUE,
         UNCHANGED <<index, idx, flight, slave, calm>>, rx' = <<>>,
         f = NoAnswer \/ (rx # <<>> /\ Matches(Head(rx)) /\ f = Head(rx))
  PROVE  EcatInv'
<1>1. step # "idle"
  BY DEF EcatInv, Places
<1>2. /\ step' \in Steps /\ ask' \in {"request", "status", "code"} /\ polls' \in 0 .. MaxPolls
      /\ waiting' \in BOOLEAN /\ sii' \in BOOLEAN
      /\ domain' \in [wkc : 0 .. 3, wc_state : {"ZERO", "COMPLETE"}]
      /\ Places'
      /\ waiting' => f.wkc # 0
  BY <1>1, ProgramStep
<1>3. EcatTypeOK'
  <2>1. rx' \in Seq(Frames) /\ Len(rx') <= RxRing
    BY Sizes
  <2>2. QED BY <1>2, <2>1 DEF EcatInv, EcatTypeOK
<1>4. InOrder'
  BY EmptyOrder
<1>5. Awaiting'
  <2>1. ASSUME waiting' PROVE flight' = <<>>
    <3>1. rx # <<>> /\ Matches(Head(rx))
      BY <1>2, <2>1 DEF NoAnswer
    <3>2. QED BY <3>1, OwnAnswer
  <2>2. QED BY <2>1 DEF Awaiting
<1>6. FreshStatus'
  BY DEF FreshStatus
<1>7. Phases'
  BY <1>1, HandlePhases
<1>8. QED BY <1>2, <1>3, <1>4, <1>5, <1>6, <1>7 DEF EcatInv, AcceptedIsOwn

\* An answer is taken.
LEMMA TakeInv == EcatInv /\ PollTake => EcatInv'
<1> SUFFICES ASSUME EcatInv, PollTake PROVE EcatInv'
  OBVIOUS
<1>1. /\ waiting /\ rx # <<>> /\ Matches(Head(rx)) /\ Handle(Head(rx)) /\ rx' = Tail(rx)
      /\ took' = (Head(rx).awaited /\ Head(rx).kind = Kind)
      /\ UNCHANGED <<index, idx, flight, slave, calm>>
  BY DEF PollTake
<1>2. Head(rx) \in Frames
  BY <1>1, FrameTypes, TailFacts DEF EcatInv
<1>3. Head(rx).wkc \in 0 .. 3 /\ Head(rx).awaited \in BOOLEAN
  BY <1>2 DEF Frames
<1>4. took' = TRUE /\ rx' = <<>>
  BY <1>1, <1>3, OwnAnswer
<1>5. QED BY <1>1, <1>3, <1>4, HandleInv

\* The deadline passes.
LEMMA DeadlineInv == EcatInv /\ Deadline => EcatInv'
<1> SUFFICES ASSUME EcatInv, Deadline PROVE EcatInv'
  OBVIOUS
<1>1. /\ waiting /\ rx' = <<>> /\ Handle(NoAnswer) /\ took' = TRUE
      /\ UNCHANGED <<index, idx, flight, slave, calm>>
  BY DEF Deadline, EcatInv, EcatTypeOK, AcceptedIsOwn
<1>2. NoAnswer.wkc \in 0 .. 3
  BY DEF NoAnswer
<1>3. QED BY <1>1, <1>2, HandleInv

\* A frame cannot be sent: the program goes on without an answer, and one more
\* datagram may be unread.
LEMMA SendFailsInv == EcatInv /\ SendFails => EcatInv'
<1> SUFFICES ASSUME EcatInv, SendFails PROVE EcatInv'
  OBVIOUS
<1>1. /\ ~waiting /\ Kind = "single" /\ step # "idle" /\ Build /\ Handle(NoAnswer)
      /\ flight' \in {Superseded(flight), Append(Superseded(flight), NewFrame)}
      /\ UNCHANGED <<slave, calm, took>>
  BY DEF SendFails
<1>2. NoAnswer.wkc \in 0 .. 3 /\ NoAnswer.wkc = 0
  BY DEF NoAnswer
<1>3. /\ step' \in Steps /\ ask' \in {"request", "status", "code"} /\ polls' \in 0 .. MaxPolls
      /\ waiting' \in BOOLEAN /\ sii' \in BOOLEAN
      /\ domain' \in [wkc : 0 .. 3, wc_state : {"ZERO", "COMPLETE"}]
      /\ Places' /\ ~waiting'
      /\ \/ step' = "idle"
         \/ step \in LowSteps /\ step' \in LowSteps
         \/ step \in MidSteps /\ step' \in MidSteps
         \/ step \in HighSteps /\ step' \in HighSteps
      /\ step' # "idle" => Unread' \in Nat /\ Unread' >= Unread + 1
  BY <1>1, <1>2, ProgramStep
<1>4. InOrder' /\ Len(flight') <= MaxLate /\ \A i \in DOMAIN rx' : Age(rx'[i].idx, index') # 0
  <2>1. (step # "idle")' => MaxLate + Unread' + (IF waiting' THEN 1 ELSE 0) >= MaxLate + Unread + 1
    BY <1>1, <1>3, UnreadFacts, Sizes
  <2>2. QED BY <1>1, <1>3, <2>1, BuildOrder
<1>5. EcatTypeOK'
  BY <1>1, <1>3, <1>4, BuildTypes DEF EcatInv, EcatTypeOK
<1>6. Awaiting' /\ FreshStatus'
  BY <1>3, <1>4 DEF Awaiting, FreshStatus
<1>7. Phases'
  <2>1. step \in LowSteps \cup MidSteps \cup HighSteps
    BY <1>1 DEF EcatInv, EcatTypeOK, Steps, AlNames, CycleSteps, LowSteps, MidSteps, HighSteps
  <2>2. /\ step \in LowSteps => Low'
        /\ step \in MidSteps => Mid'
        /\ step \in HighSteps => High'
    BY <1>1, BuildPhase
  <2>3. CASE step' = "idle"
    BY <2>1, <2>2, <2>3 DEF Phases, LowSteps, MidSteps, HighSteps
  <2>4. CASE step \in LowSteps /\ step' \in LowSteps
    BY <2>2, <2>4 DEF Phases, LowSteps, MidSteps, HighSteps
  <2>5. CASE step \in MidSteps /\ step' \in MidSteps
    BY <2>2, <2>5 DEF Phases, LowSteps, MidSteps, HighSteps
  <2>6. CASE step \in HighSteps /\ step' \in HighSteps
    BY <2>2, <2>6 DEF Phases, LowSteps, MidSteps, HighSteps
  <2>7. QED BY <1>3, <2>3, <2>4, <2>5, <2>6
<1>8. QED BY <1>1, <1>3, <1>4, <1>5, <1>6, <1>7 DEF EcatInv, AcceptedIsOwn

\* A frame that is not the answer is dropped.
LEMMA DropInv == EcatInv /\ PollDrop => EcatInv'
<1> SUFFICES ASSUME EcatInv, PollDrop PROVE EcatInv'
  OBVIOUS
<1>1. /\ waiting /\ rx # <<>> /\ rx' = Tail(rx)
      /\ UNCHANGED <<master, flight, slave, calm>>
  BY DEF PollDrop
<1>2. /\ rx' \in Seq(Frames) /\ Len(rx') <= RxRing
      /\ \A i \in DOMAIN rx' : i \in Nat \ {0} /\ i + 1 \in DOMAIN rx /\ rx'[i] = rx[i+1]
  <2>1. rx \in Seq(Frames) /\ Len(rx) <= RxRing /\ RxRing \in Nat
    BY Sizes DEF EcatInv, EcatTypeOK
  <2>2. Len(rx') = Len(rx) - 1 /\ Len(rx) \in Nat
    BY <1>1, <2>1, TailFacts
  <2>3. Len(rx') <= RxRing
    BY <2>1, <2>2
  <2>4. QED BY <1>1, <2>1, <2>3, TailFacts
<1>3. EcatTypeOK'
  BY <1>1, <1>2 DEF EcatInv, EcatTypeOK, master
<1>4. InOrder'
  <2>1. ASSUME NEW i \in DOMAIN rx', NEW j \in DOMAIN rx', i < j
        PROVE  Age(rx'[i].idx, index) > Age(rx'[j].idx, index)
    <3>1. i + 1 < j + 1
      BY <1>2, <2>1
    <3>2. QED BY <1>2, <3>1 DEF EcatInv, InOrder
  <2>2. Unread' = Unread /\ index' = index /\ step' = step /\ waiting' = waiting
    BY <1>1 DEF Unread, master
  <2>3. QED BY <1>1, <1>2, <2>1, <2>2 DEF EcatInv, InOrder
<1>5. Kind' = Kind /\ Cmd' = Cmd
  BY <1>1 DEF Kind, Cmd, master
<1>6. Awaiting'
  BY <1>1, <1>2, <1>5 DEF EcatInv, Awaiting, LastIsAwaited, master
<1>7. Places' /\ FreshStatus' /\ Phases' /\ AcceptedIsOwn'
  BY <1>1, <1>2 DEF EcatInv, Places, FreshStatus, Phases, Low, Mid, High, Requests, AcceptedIsOwn, master
<1>8. QED BY <1>3, <1>4, <1>6, <1>7 DEF EcatInv

\* The first frame has passed the slave, or not; it is stored, or lost.
LEMMA RoundInv ==
  ASSUME EcatInv, flight # <<>>, flight' = Tail(flight), UNCHANGED <<master, calm>>,
         slave' \in {slave, Serve(Head(flight))},
         \/ rx' = rx
         \/ /\ Len(rx) < RxRing /\ slave' = Serve(Head(flight))
            /\ rx' = Append(rx, [Head(flight) EXCEPT !.wkc = Wkc(Head(flight)),
                                                     !.al = slave.al, !.err = slave.err])
  PROVE  EcatInv'
<1> DEFINE L == Len(flight)
           N == Len(rx)
           f == Head(flight)
           answer == [f EXCEPT !.wkc = Wkc(f), !.al = slave.al, !.err = slave.err]
<1>1. /\ flight \in Seq(Frames) /\ rx \in Seq(Frames) /\ index \in Indices
      /\ slave.al \in AlNames /\ slave.err \in BOOLEAN /\ slave \in Slaves
  BY FrameTypes DEF EcatInv, EcatTypeOK, Slaves
<1>2. /\ flight' \in Seq(Frames) /\ L \in Nat \ {0} /\ Len(flight') = L - 1
      /\ 1 \in DOMAIN flight /\ f = flight[1] /\ f \in Frames
      /\ \A i \in DOMAIN flight' : i \in Nat \ {0} /\ i + 1 \in DOMAIN flight /\ flight'[i] = flight[i+1]
  BY <1>1, TailFacts
<1>3. /\ Serve(f) \in Slaves
      /\ Serve(f).al = slave.al \/ (f.cmd \in AlNames /\ Serve(f).al = f.cmd)
      /\ f.cmd = "status" => Serve(f) = slave
      /\ Wkc(f) \in 0 .. 3
  BY <1>2, ServeFacts DEF EcatInv
<1>4. /\ answer \in Frames /\ answer.idx = f.idx /\ answer.kind = f.kind /\ answer.cmd = f.cmd
      /\ answer.awaited = f.awaited /\ answer.al = slave.al
  <2>1. f \in [cmd : Steps \cup {"LRW", "status", "code"}, kind : {"LRW", "single"},
               idx : 0 .. IndexMod-1, awaited : BOOLEAN, wkc : 0 .. 3, good : BOOLEAN,
               al : AlNames, err : BOOLEAN]
    BY <1>2 DEF Frames
  <2> HIDE DEF f
  <2>2. QED BY <1>1, <1>3, <2>1 DEF Frames
<1>5. N \in Nat /\ DOMAIN rx = 1 .. N
  BY <1>1
<1>6. \/ rx' = rx
      \/ N < RxRing /\ slave' = Serve(f) /\ rx' = Append(rx, answer)
  OBVIOUS
<1> HIDE DEF L, N, f, answer
<1>7. /\ rx' \in Seq(Frames)
      /\ \A i \in DOMAIN rx' : \/ i \in 1 .. N /\ rx'[i] = rx[i]
                               \/ i = N + 1 /\ rx'[i] = answer /\ slave' = Serve(f)
  <2>1. CASE rx' = rx
    BY <1>1, <1>5, <2>1
  <2>2. CASE slave' = Serve(f) /\ rx' = Append(rx, answer)
    <3>1. rx' \in Seq(Frames) /\ Len(rx') = N + 1
      BY <1>1, <1>4, <2>2, AppendProperties DEF N
    <3>2. \A i \in 1 .. N : rx'[i] = rx[i]
      BY <1>1, <1>4, <2>2, AppendProperties DEF N
    <3>3. rx'[N + 1] = answer
      BY <1>1, <1>4, <2>2, AppendProperties DEF N
    <3>4. DOMAIN rx' = 1 .. N + 1
      BY <3>1
    <3>5. QED BY <1>5, <2>2, <3>1, <3>2, <3>3, <3>4
  <2>3. QED BY <1>6, <2>1, <2>2
\* The first frame is older than the other ones on the ring, and younger than
\* any in the receive ring.
<1>8. /\ Age(f.idx, index) \in Nat /\ Age(f.idx, index) < MaxLate
      /\ \A i \in DOMAIN flight' : Age(f.idx, index) > Age(flight'[i].idx, index)
      /\ \A i \in 1 .. N : Age(rx[i].idx, index) > Age(f.idx, index)
      /\ \A i \in 1 .. N : Age(rx[i].idx, index) \in Nat
      /\ \A i \in DOMAIN flight' : Age(flight'[i].idx, index) \in Nat
  <2>1. \A j \in Indices : Age(j, index) \in Nat
    BY <1>1, AgeFacts DEF Indices
  <2>2. /\ \A i \in 1 .. N : Age(rx[i].idx, index) \in Nat
        /\ \A i \in DOMAIN flight : Age(flight[i].idx, index) \in Nat
    BY <1>5, <2>1, FrameTypes DEF EcatInv
  <2>3. Age(f.idx, index) < MaxLate
    BY <1>2 DEF EcatInv, InOrder
  <2>4. \A i \in 1 .. N : Age(rx[i].idx, index) > Age(f.idx, index)
    BY <1>2, <1>5 DEF EcatInv, InOrder
  <2>5. ASSUME NEW i \in DOMAIN flight'
        PROVE  /\ Age(f.idx, index) > Age(flight'[i].idx, index)
               /\ Age(flight'[i].idx, index) \in Nat
    <3>1. 1 < i + 1
      BY <1>2
    <3>2. QED BY <1>2, <2>2, <3>1 DEF EcatInv, InOrder
  <2>6. QED BY <1>2, <2>2, <2>3, <2>4, <2>5
<1>9. EcatTypeOK'
  <2>1. Len(rx') <= RxRing
    <3>1. CASE rx' = rx
      BY <3>1 DEF EcatInv, EcatTypeOK
    <3>2. CASE N < RxRing /\ rx' = Append(rx, answer)
      <4>1. Len(rx') = N + 1
        BY <1>1, <1>4, <3>2, AppendProperties DEF N
      <4>2. QED BY <1>5, <3>2, <4>1, Sizes
    <3>3. QED BY <1>6, <3>1, <3>2
  <2>2. Len(flight') <= MaxLate
    <3>1. L <= MaxLate
      BY DEF EcatInv, EcatTypeOK, L
    <3>2. QED BY <1>2, <3>1, Sizes
  <2>3. slave' \in Slaves
    BY <1>1, <1>3 DEF f
  <2>4. QED BY <1>2, <1>7, <2>1, <2>2, <2>3 DEF EcatInv, EcatTypeOK, Slaves, master
<1>10. Unread' = Unread /\ index' = index /\ step' = step /\ waiting' = waiting
  BY DEF Unread, master
<1>11. InOrder'
  <2>1. ASSUME NEW i \in DOMAIN flight'
        PROVE  /\ Age(flight'[i].idx, index) >= Len(flight') - i
               /\ Age(flight'[i].idx, index) < MaxLate
    <3>1. Age(flight'[i].idx, index) >= L - (i + 1) /\ Age(flight'[i].idx, index) < MaxLate
      BY <1>2 DEF EcatInv, InOrder, L
    <3>2. QED BY <1>2, <1>8, <3>1
  <2>2. ASSUME NEW i \in DOMAIN flight', NEW j \in DOMAIN flight', i < j
        PROVE  Age(flight'[i].idx, index) > Age(flight'[j].idx, index)
    <3>1. i + 1 < j + 1
      BY <1>2, <2>2
    <3>2. QED BY <1>2, <3>1 DEF EcatInv, InOrder
  <2>3. ASSUME NEW i \in DOMAIN rx', NEW j \in DOMAIN rx', i < j
        PROVE  Age(rx'[i].idx, index) > Age(rx'[j].idx, index)
    <3>1. i \in 1 .. N /\ rx'[i] = rx[i]
      BY <1>5, <1>7, <2>3
    <3>2. CASE j \in 1 .. N /\ rx'[j] = rx[j]
      BY <1>5, <2>3, <3>1, <3>2 DEF EcatInv, InOrder
    <3>3. CASE rx'[j] = answer
      BY <1>4, <1>8, <3>1, <3>3
    <3>4. QED BY <1>7, <3>2, <3>3
  <2>4. ASSUME NEW i \in DOMAIN rx', NEW j \in DOMAIN flight'
        PROVE  Age(rx'[i].idx, index) > Age(flight'[j].idx, index)
    <3>1. CASE i \in 1 .. N /\ rx'[i] = rx[i]
      <4>1. Age(rx[i].idx, index) > Age(f.idx, index) /\ Age(f.idx, index) > Age(flight'[j].idx, index)
        BY <1>8, <3>1
      <4>2. Age(rx[i].idx, index) \in Nat /\ Age(f.idx, index) \in Nat /\ Age(flight'[j].idx, index) \in Nat
        BY <1>8, <3>1
      <4>3. QED BY <3>1, <4>1, <4>2
    <3>2. CASE rx'[i] = answer
      BY <1>4, <1>8, <3>2
    <3>3. QED BY <1>7, <3>1, <3>2
  <2>5. ASSUME step # "idle", NEW i \in DOMAIN rx'
        PROVE  Age(rx'[i].idx, index) < MaxLate + Unread + (IF waiting THEN 1 ELSE 0)
    <3>1. CASE i \in 1 .. N /\ rx'[i] = rx[i]
      BY <1>5, <2>5, <3>1 DEF EcatInv, InOrder
    <3>2. CASE rx'[i] = answer
      <4>1. Unread \in Nat
        BY <2>5, UnreadFacts
      <4>2. QED BY <1>4, <1>8, <3>2, <4>1, Sizes
    <3>3. QED BY <1>7, <3>1, <3>2
  <2>6. QED BY <1>10, <2>1, <2>2, <2>3, <2>4, <2>5 DEF InOrder
<1>12. Kind' = Kind /\ Cmd' = Cmd /\ idx' = idx
  BY DEF Kind, Cmd, master
<1>13. Awaiting'
  <2>1. ASSUME LastIsAwaited(flight), LastIsAwaited(rx)
        PROVE  LastIsAwaited(flight)' /\ LastIsAwaited(rx)'
    <3>1. LastIsAwaited(flight)'
      BY <1>2, <1>10, <1>12, <2>1 DEF LastIsAwaited
    <3>2. LastIsAwaited(rx)'
      BY <1>2, <1>4, <1>5, <1>7, <1>10, <1>12, <2>1 DEF LastIsAwaited
    <3>3. QED BY <3>1, <3>2
  <2>2. QED BY <1>10, <1>12, <2>1 DEF EcatInv, Awaiting
<1>14. FreshStatus'
  <2>1. ASSUME NEW i \in DOMAIN rx', Age(rx'[i].idx, index) = 0, rx'[i].cmd = "status"
        PROVE  slave'.al = rx'[i].al
    <3>1. rx'[i] = answer /\ slave' = Serve(f)
      <4>1. CASE i \in 1 .. N /\ rx'[i] = rx[i]
        BY <1>8, <2>1, <4>1
      <4>2. QED BY <1>7, <4>1
    <3>2. QED BY <1>3, <1>4, <2>1, <3>1
  <2>2. QED BY <1>10, <2>1 DEF FreshStatus
<1>15. Phases'
  <2>1. \A S : Requests(S) => Requests(S)' /\ (slave'.al = slave.al \/ slave'.al \in S)
    <3>1. slave'.al = slave.al \/ (f.cmd \in AlNames /\ slave'.al = f.cmd)
      BY <1>3 DEF f
    <3>2. QED BY <1>2, <3>1 DEF Requests
  <2>2. (Low => Low') /\ (Mid => Mid') /\ (High => High')
    BY <2>1 DEF Low, Mid, High
  <2>3. QED BY <1>10, <2>2 DEF EcatInv, Phases
<1>16. Places' /\ AcceptedIsOwn'
  BY DEF EcatInv, Places, AcceptedIsOwn, master
<1>17. QED BY <1>9, <1>11, <1>13, <1>14, <1>15, <1>16 DEF EcatInv

LEMMA CarryInv == EcatInv /\ Carry => EcatInv'
<1> SUFFICES ASSUME EcatInv, Carry PROVE EcatInv'
  OBVIOUS
<1>1. /\ flight # <<>> /\ flight' = Tail(flight) /\ UNCHANGED <<master, calm>>
      /\ slave' = Serve(Head(flight))
      /\ \/ Len(rx) = RxRing /\ rx' = rx
         \/ Len(rx) # RxRing
            /\ rx' = Append(rx, [Head(flight) EXCEPT !.wkc = Wkc(Head(flight)),
                                                     !.al = slave.al, !.err = slave.err])
  BY DEF Carry
<1>2. Len(rx) <= RxRing /\ Len(rx) \in Nat /\ RxRing \in Nat
  BY FrameTypes, Sizes DEF EcatInv, EcatTypeOK
<1>3. Len(rx) # RxRing => Len(rx) < RxRing
  BY <1>2
<1>4. QED BY <1>1, <1>3, RoundInv

LEMMA LoseInv == EcatInv /\ Lose => EcatInv'
BY RoundInv DEF Lose

\* The slave's watchdog, and the weather.
LEMMA FallInv == EcatInv /\ Fall => EcatInv'
<1> SUFFICES ASSUME EcatInv, Fall PROVE EcatInv'
  OBVIOUS
<1>1. /\ slave.al = "OP" /\ slave' = [slave EXCEPT !.al = "SAFEOP", !.err = TRUE]
      /\ UNCHANGED <<master, flight, rx, calm>>
  BY DEF Fall
<1>2. slave' \in Slaves /\ slave'.al = "SAFEOP"
  BY <1>1 DEF EcatInv, EcatTypeOK, Slaves, AlNames
<1>3. EcatTypeOK'
  BY <1>1, <1>2 DEF EcatInv, EcatTypeOK, Slaves, master
<1>4. InOrder' /\ Awaiting'
  BY <1>1 DEF EcatInv, InOrder, Unread, Awaiting, LastIsAwaited, Kind, Cmd, master
<1>5. FreshStatus'
  BY <1>1, <1>2 DEF EcatInv, FreshStatus, master
<1>6. Phases'
  BY <1>1, <1>2 DEF EcatInv, Phases, Low, Mid, High, Requests, master
<1>7. Places' /\ AcceptedIsOwn'
  BY <1>1 DEF EcatInv, Places, AcceptedIsOwn, master
<1>8. QED BY <1>3, <1>4, <1>5, <1>6, <1>7 DEF EcatInv

LEMMA WeatherInv ==
  ASSUME EcatInv, Weather \/ UNCHANGED ecatVars
  PROVE  EcatInv'
<1>1. UNCHANGED <<master, flight, rx, slave>> /\ calm' \in BOOLEAN
  BY DEF Weather, ecatVars, master, EcatInv, EcatTypeOK
<1>2. EcatTypeOK'
  BY <1>1 DEF EcatInv, EcatTypeOK, master
<1>3. InOrder' /\ Awaiting'
  BY <1>1 DEF EcatInv, InOrder, Unread, Awaiting, LastIsAwaited, Kind, Cmd, master
<1>4. FreshStatus' /\ Phases' /\ Places' /\ AcceptedIsOwn'
  BY <1>1 DEF EcatInv, FreshStatus, Phases, Low, Mid, High, Requests, Places, AcceptedIsOwn, master
<1>5. QED BY <1>2, <1>3, <1>4 DEF EcatInv

-----------------------------------------------------------------------------
LEMMA EcatInitInv == EcatInit => EcatInv
<1> SUFFICES ASSUME EcatInit PROVE EcatInv
  OBVIOUS
<1>1. EcatTypeOK
  <2>1. slave \in [al : AlNames, err : BOOLEAN, addr : BOOLEAN,
                   sm : SUBSET {"in", "out"}, fmmu : SUBSET {"in", "out"}]
    <3>1. {} \in SUBSET {"in", "out"} /\ {"in", "out"} \in SUBSET {"in", "out"}
      OBVIOUS
    <3>2. /\ "INIT" \in AlNames /\ "OP" \in AlNames /\ TRUE \in BOOLEAN /\ FALSE \in BOOLEAN
      BY DEF AlNames
    <3>3. PICK a \in AlNames, b \in BOOLEAN, S \in SUBSET {"in", "out"} :
            slave = [al |-> a, err |-> FALSE, addr |-> b, sm |-> S, fmmu |-> S]
      BY <3>1, <3>2 DEF EcatInit
    <3>4. QED BY <3>3
  <2>2. /\ 0 \in 0 .. MaxPolls /\ 0 \in 0 .. IndexMod-1 /\ 0 <= MaxLate /\ 0 <= RxRing
        /\ idx \in [{"LRW", "single"} -> 0 .. IndexMod-1]
    BY Sizes DEF EcatInit
  <2>3. domain \in [wkc : 0 .. 3, wc_state : {"ZERO", "COMPLETE"}]
    BY DEF EcatInit
  <2>4. flight \in Seq(Frames) /\ Len(flight) = 0 /\ rx \in Seq(Frames) /\ Len(rx) = 0
    BY DEF EcatInit
  <2>5. QED BY <2>1, <2>2, <2>3, <2>4 DEF EcatInit, EcatTypeOK, Steps
<1>2. InOrder /\ Awaiting /\ Places /\ FreshStatus /\ AcceptedIsOwn
  BY DEF EcatInit, InOrder, Awaiting, Places, FreshStatus, AcceptedIsOwn, AlNames
<1>3. Phases
  BY DEF EcatInit, Phases, Low, Requests, LowSteps, MidSteps, HighSteps
<1>4. QED BY <1>1, <1>2, <1>3 DEF EcatInv

LEMMA EcatNextInv == EcatInv /\ [EcatNext]_ecatVars => EcatInv'
<1> SUFFICES ASSUME EcatInv, [EcatNext]_ecatVars PROVE EcatInv'
  OBVIOUS
<1>1. CASE Issue
  BY <1>1, IssueInv
<1>2. CASE QueueAndSend
  BY <1>2, QueueInv
<1>3. CASE PollTake
  BY <1>3, TakeInv
<1>4. CASE PollDrop
  BY <1>4, DropInv
<1>5. CASE Deadline
  BY <1>5, DeadlineInv
<1>6. CASE Carry
  BY <1>6, CarryInv
<1>7. CASE Lose
  BY <1>7, LoseInv
<1>8. CASE Fall
  BY <1>8, FallInv
<1>9. CASE Weather \/ UNCHANGED ecatVars
  BY <1>9, WeatherInv
<1>10. CASE SendFails
  BY <1>10, SendFailsInv
<1>11. QED BY <1>1, <1>2, <1>3, <1>4, <1>5, <1>6, <1>7, <1>8, <1>9, <1>10 DEF EcatNext, MasterStep

\* The EtherCAT master's variables keep their types: every index is one of the
\* 8-bit field, and the receive ring does not overflow.
THEOREM EcatTypeCorrect == EcatSpec => []EcatTypeOK
<1>1. EcatInv => EcatTypeOK
  BY DEF EcatInv
<1>2. QED BY EcatInitInv, EcatNextInv, <1>1, PTL DEF EcatSpec

\* ec_master.c 208-272, 876-960: whatever is lost or late, the answer that is
\* taken is the answer to the frame that is waited for.
THEOREM EcatAnswersOwn == EcatSpec => []AcceptedIsOwn
<1>1. EcatInv => AcceptedIsOwn
  BY DEF EcatInv
<1>2. QED BY EcatInitInv, EcatNextInv, <1>1, PTL DEF EcatSpec

\* ec_master.c 427-510, 630-826: a slave is asked upwards only by one state.
THEOREM EcatNoStateSkipped == EcatSpec => NoStateSkipped
<1> DEFINE Skips == \A s \in AlNames :
                      flight # <<>> /\ flight' = Tail(flight) /\ Head(flight).cmd = s
                      => Rank(s) <= Rank(slave.al) + 1
<1>1. EcatInv => Skips
  <2> SUFFICES ASSUME EcatInv, NEW s \in AlNames, flight # <<>>, Head(flight).cmd = s
      PROVE  Rank(s) <= Rank(slave.al) + 1
    OBVIOUS
  <2>1. flight \in Seq(Frames) /\ slave.al \in AlNames
    BY DEF EcatInv, EcatTypeOK
  <2>2. 1 \in DOMAIN flight /\ flight[1].cmd = s
    BY <2>1, TailFacts
  <2>3. /\ Low => s \in {"INIT", "PREOP"}
        /\ Mid => s = "SAFEOP" /\ slave.al # "INIT"
        /\ High => s = "OP" /\ slave.al \in {"SAFEOP", "OP"}
    BY <2>2 DEF Low, Mid, High, Requests
  <2>4. Low \/ Mid \/ High
    BY DEF EcatInv, Phases
  <2>5. QED BY <2>1, <2>3, <2>4 DEF Rank, AlNames
<1>2. EcatInv => [Skips]_ecatVars
  BY <1>1
<1>3. QED BY EcatInitInv, EcatNextInv, <1>2, PTL DEF EcatSpec, NoStateSkipped

\* An answer is taken only when nothing is left behind it: the master is never an
\* answer behind the frames it has sent.
NothingLeftBehind ==
  waiting /\ rx # <<>> /\ Matches(Head(rx)) => flight = <<>> /\ Tail(rx) = <<>>

\* ec_master.c 208-272, 876-960: when a poll takes an answer, the ring of slaves
\* and the receive ring are empty behind it, however many frames were late or
\* lost before.  It is why late frames cannot shift the process data by a cycle for
\* ever, which is the safety half of RecoversAfterLoss.
THEOREM EcatNothingLeftBehind == EcatSpec => []NothingLeftBehind
<1>1. EcatInv => NothingLeftBehind
  BY OwnAnswer DEF NothingLeftBehind
<1>2. QED BY EcatInitInv, EcatNextInv, <1>1, PTL DEF EcatSpec

\* A step that leaves the request for a state, and goes on with the activation.
Climbs == step \in {"PREOP", "SAFEOP", "OP"} /\ step' = Follows(step)
InStep == slave.al = step \/ (step = "OP" /\ slave.al = "SAFEOP")

\* ec_master.c 438-480: request_state() returns success only while the slave is
\* in the state it was asked for; out of OP its own watchdog may have taken it
\* since.  So no request that was answered and refused, and no status that a late
\* frame shows, is taken for a success.
THEOREM EcatConfirmedBeforeLeft == EcatSpec => [][Climbs => InStep]_ecatVars
<1>1. EcatInv /\ [EcatNext]_ecatVars => [Climbs => InStep]_ecatVars
  <2> SUFFICES ASSUME EcatInv, EcatNext, Climbs PROVE InStep
    OBVIOUS
  <2>1. /\ step \in AlNames /\ step # "idle" /\ Kind = "single" /\ step' # step
        /\ step' # "idle"
    BY DEF Climbs, AlNames, Kind, Follows
  <2>2. ASSUME NEW f, Handle(f) PROVE ask = "status" /\ f.wkc # 0 /\ f.al = step
    <3>1. Answered(f)
      BY <2>1, <2>2 DEF Handle
    <3>2. step # "INIT"
      BY DEF Climbs
    <3>3. QED BY <2>1, <3>1, <3>2, AnsweredFacts
  <2>3. ~Handle(NoAnswer)
    <3>1. NoAnswer.wkc = 0
      BY DEF NoAnswer
    <3>2. QED BY <2>2, <3>1
  <2>4. CASE PollTake
    <3>1. waiting /\ rx # <<>> /\ Matches(Head(rx)) /\ Handle(Head(rx))
      BY <2>4 DEF PollTake
    <3>2. ask = "status" /\ Head(rx).al = step
      BY <2>2, <3>1
    <3>3. QED BY <2>1, <3>1, <3>2, Confirmation DEF InStep
  <2>5. CASE SendFails \/ Deadline
    BY <2>3, <2>5 DEF SendFails, Deadline
  <2>6. CASE QueueAndSend
    BY <2>1, <2>6 DEF QueueAndSend, AlNames
  <2>7. CASE Issue \/ PollDrop \/ Carry \/ Lose \/ Weather \/ Fall
    BY <2>1, <2>7 DEF Issue, PollDrop, Carry, Lose, Weather, Fall, master
  <2>8. QED BY <2>4, <2>5, <2>6, <2>7 DEF EcatNext, MasterStep
<1>2. QED BY EcatInitInv, EcatNextInv, <1>1, PTL DEF EcatSpec

=============================================================================
