------------------------------- MODULE Cyclic -------------------------------
(***************************************************************************)
(* The loops that run at a fixed period, clocked by the system counter:    *)
(* the PLC scan engine of core 1 (kernel/plc.c) and the two paced loops,   *)
(* the soft loop of core 3 (app/app_core3.c) and the permanent cycle of    *)
(* the EtherCAT master on core 0 (lib/ethercat/ecat_task.c), which differ  *)
(* from it only in what their body does.                                   *)
(*                                                                         *)
(* The counter advances between any two steps by any amount: a step, a     *)
(* hook or an interrupt takes as long as it takes.                         *)
(***************************************************************************)
EXTENDS Integers, FiniteSets

CONSTANTS
  Period,       \* g_period_ticks
  Tasks,        \* the registered cyclic tasks
  Asked,        \* every_cycles of each
  Loops,        \* paced loops
  LoopPeriod,   \* period_ticks of each
  MaxTime       \* bound of the model on the counter

ASSUME CyclicAssumption ==
  /\ Period \in Nat \ {0}
  /\ Asked \in [Tasks -> Nat]
  /\ LoopPeriod \in [Loops -> Nat \ {0}]
  /\ MaxTime \in Nat

VARIABLES
  now,                              \* timer_now_ticks()
  ppc, deadline, start,             \* plc_run(), plc_one_cycle(): locals
  done, overruns, maxExec,          \* g_stats
  runs,                             \* how often each task has run (history)
  t0, prev, finished,               \* when plc_run() was called; the tick of the last cycle
                                    \* measured, and when that was (history)
  lpc, next, cycles, resyncs,       \* each paced loop
  lt0, looked                       \* when it was entered, and last looked whether it is late (history)

plc   == <<ppc, deadline, start, done, overruns, maxExec, runs, t0, prev, finished>>
loops == <<lpc, next, cycles, resyncs, lt0, looked>>
vars  == <<now, plc, loops>>

\* plc_register_task() turns a period of no cycles into one of one cycle.
Every(i) == IF Asked[i] = 0 THEN 1 ELSE Asked[i]

Init ==
  /\ now = 0
  /\ ppc = "off" /\ deadline = 0 /\ start = 0
  /\ done = 0 /\ overruns = 0 /\ maxExec = 0
  /\ runs = [i \in Tasks |-> 0]
  /\ t0 = 0 /\ prev = 0 /\ finished = 0
  /\ lpc = [l \in Loops |-> "off"]
  /\ next = [l \in Loops |-> 0]
  /\ cycles = [l \in Loops |-> 0]
  /\ resyncs = [l \in Loops |-> 0]
  /\ lt0 = [l \in Loops |-> 0]
  /\ looked = [l \in Loops |-> 0]

Advance == now < MaxTime /\ now' = now + 1 /\ UNCHANGED <<plc, loops>>

-----------------------------------------------------------------------------
\* plc_run(): the first theoretical tick is now.
PlcRun ==
  /\ ppc = "off" /\ ppc' = "start"
  /\ deadline' = now /\ t0' = now
  /\ UNCHANGED <<now, start, done, overruns, maxExec, runs, prev, finished, loops>>

\* plc_one_cycle(): the cycle begins.
CycleStart ==
  /\ ppc = "start" /\ ppc' = "work"
  /\ start' = now
  /\ UNCHANGED <<now, deadline, done, overruns, maxExec, runs, t0, prev, finished, loops>>

\* Inputs, the tasks that are due, outputs.
\* Seeded fault: cycles are counted from one when tasks are selected.
Work_fromOne ==
  /\ ppc = "work" /\ ppc' = "measure"
  /\ runs' = [i \in Tasks |-> IF (done + 1) % Every(i) = 0 THEN runs[i] + 1 ELSE runs[i]]
  /\ UNCHANGED <<now, deadline, start, done, overruns, maxExec, t0, prev, finished, loops>>

Work ==
  /\ ppc = "work" /\ ppc' = "measure"
  /\ runs' = [i \in Tasks |-> IF done % Every(i) = 0 THEN runs[i] + 1 ELSE runs[i]]
  /\ UNCHANGED <<now, deadline, start, done, overruns, maxExec, t0, prev, finished, loops>>

\* The duration, the count, the next theoretical tick.
\* Seeded faults: the cadence is relative; the period is added twice.
Exec == now - start
NextTick_relative == now + Period
NextTick_twice == deadline + 2 * Period
NextTick == deadline + Period

Measure ==
  /\ ppc = "measure" /\ ppc' = "check"
  /\ maxExec' = IF Exec > maxExec THEN Exec ELSE maxExec
  /\ done' = done + 1
  /\ deadline' = NextTick
  /\ prev' = deadline /\ finished' = now
  /\ UNCHANGED <<now, start, overruns, runs, t0, loops>>

\* Seeded fault: a period of grace.
Late_tolerant == now > deadline + Period
Late == now > deadline

\* Seeded fault: the deadline stays in the past.
Overrun_noResync ==
  /\ ppc = "check" /\ Late
  /\ ppc' = "start"
  /\ overruns' = overruns + 1
  /\ UNCHANGED <<now, deadline, start, done, maxExec, runs, t0, prev, finished, loops>>

\* Late: count it and resynchronise on the present instant, without a wait.
Overrun ==
  /\ ppc = "check" /\ Late
  /\ ppc' = "start"
  /\ overruns' = overruns + 1
  /\ deadline' = now
  /\ UNCHANGED <<now, start, done, maxExec, runs, t0, prev, finished, loops>>

InTime ==
  /\ ppc = "check" /\ ~Late
  /\ ppc' = "wait"
  /\ UNCHANGED <<now, deadline, start, done, overruns, maxExec, runs, t0, prev, finished, loops>>

\* The busy-wait ends.
Reached == now >= deadline

Waited ==
  /\ ppc = "wait" /\ Reached
  /\ ppc' = "start"
  /\ UNCHANGED <<now, deadline, start, done, overruns, maxExec, runs, t0, prev, finished, loops>>

PlcStep == PlcRun \/ CycleStart \/ Work \/ Measure \/ Overrun \/ InTime \/ Waited

-----------------------------------------------------------------------------
\* A paced loop is entered: its first tick is one period away.
LoopEnter(l) ==
  /\ lpc[l] = "off" /\ lpc' = [lpc EXCEPT ![l] = "look"]
  /\ next' = [next EXCEPT ![l] = now + LoopPeriod[l]]
  /\ lt0' = [lt0 EXCEPT ![l] = now]
  /\ UNCHANGED <<now, plc, cycles, resyncs, looked>>

\* Seeded fault: two periods of grace before the loop gives up.
VeryLate_lax(l) == now >= next[l] + 2 * LoopPeriod[l]
VeryLate(l) == now >= next[l] + LoopPeriod[l]

\* More than a period late: resynchronise, and run the body at once.
Resync(l) ==
  /\ lpc[l] = "look" /\ VeryLate(l)
  /\ lpc' = [lpc EXCEPT ![l] = "body"]
  /\ resyncs' = [resyncs EXCEPT ![l] = @ + 1]
  /\ next' = [next EXCEPT ![l] = now + LoopPeriod[l]]
  /\ looked' = [looked EXCEPT ![l] = now]
  /\ UNCHANGED <<now, plc, cycles, lt0>>

Spin(l) ==
  /\ lpc[l] = "look" /\ ~VeryLate(l)
  /\ lpc' = [lpc EXCEPT ![l] = "spin"]
  /\ looked' = [looked EXCEPT ![l] = now]
  /\ UNCHANGED <<now, plc, next, cycles, resyncs, lt0>>

Wake(l) ==
  /\ lpc[l] = "spin" /\ now >= next[l]
  /\ lpc' = [lpc EXCEPT ![l] = "body"]
  /\ next' = [next EXCEPT ![l] = @ + LoopPeriod[l]]
  /\ UNCHANGED <<now, plc, cycles, resyncs, lt0, looked>>

Body(l) ==
  /\ lpc[l] = "body"
  /\ lpc' = [lpc EXCEPT ![l] = "look"]
  /\ cycles' = [cycles EXCEPT ![l] = @ + 1]
  /\ UNCHANGED <<now, plc, next, resyncs, lt0, looked>>

LoopStep(l) == LoopEnter(l) \/ Resync(l) \/ Spin(l) \/ Wake(l) \/ Body(l)

Next == Advance \/ PlcStep \/ \E l \in Loops : LoopStep(l)

Spec == Init /\ [][Next]_vars

-----------------------------------------------------------------------------
TypeOK ==
  /\ now \in Nat
  /\ ppc \in {"off", "start", "work", "measure", "check", "wait"}
  /\ t0 \in 0 .. now /\ prev \in Nat /\ finished \in 0 .. now /\ start \in 0 .. now /\ maxExec \in 0 .. now
  /\ deadline \in 0 .. now + Period
  /\ done \in Nat /\ overruns \in 0 .. done
  /\ runs \in [Tasks -> Nat]
  /\ lpc \in [Loops -> {"off", "look", "spin", "body"}]
  /\ next \in [Loops -> Nat] /\ cycles \in [Loops -> Nat]
  /\ resyncs \in [Loops -> Nat] /\ lt0 \in [Loops -> Nat] /\ looked \in [Loops -> Nat]

\* "deadline = start + n*T_cycle" (plc.c): each theoretical tick is at least a
\* period after the one before it, and exactly where the first one puts it as
\* long as nothing has overrun, however late the single cycles began.
CadenceIsAbsolute ==
  /\ done > 0 => deadline >= prev + Period
  /\ ppc # "off" /\ overruns = 0 => deadline = t0 + done * Period

\* No scan cycle begins before its theoretical tick ...
NoCycleIsEarly ==
  /\ ppc \in {"work", "measure"} => start >= deadline
  /\ ppc = "start" => now >= deadline

\* ... and none answers a tick that lies before the end of the cycle before it.
LagIsShed == ppc \in {"start", "work", "measure"} => deadline >= finished

\* Cycles and ticks stay together: no cycle begins before its tick, and the lag
\* of an overrun is shed, not worked off (the resynchronisation), so there is
\* never a backlog of ticks for which cycles run back to back.
CyclesAnswerTheirTick == NoCycleIsEarly /\ LagIsShed

\* A task registered for every n cycles has run once for each n cycles begun,
\* in the first one of them.
TasksKeepTheirPeriod ==
  ppc \in {"start", "work"} =>
    \A i \in Tasks : /\ (runs[i] - 1) * Every(i) < done
                     /\ done <= runs[i] * Every(i)

\* The statistics agree: a cycle longer than the period, as max_exec_ticks
\* shows it, has also been counted as an overrun.
LongCyclesAreCounted ==
  ppc # "check" /\ maxExec > Period => overruns > 0

\* Every body and every resynchronisation of a paced loop stands for a period of
\* its own since the loop was entered, and without the latter the ticks are where
\* the first instant puts them.
BodiesAreEarned ==
  \A l \in Loops :
    LET Earned == lt0[l] + (cycles[l] + resyncs[l] + 1) * LoopPeriod[l]
    IN /\ lpc[l] = "body" => now >= Earned
       /\ lpc[l] \in {"look", "spin"} =>
            /\ next[l] >= Earned
            /\ resyncs[l] = 0 => next[l] = Earned

\* When a loop goes on without a wait because it is late, the tick after that
\* was still ahead when it looked.
CatchUpIsBounded == \A l \in Loops : lpc[l] = "body" => next[l] > looked[l]

\* A paced loop does its share and no more ("no drift: absolute cadence, not
\* relative", ecat_task.c), and it makes up for a delay with one body at most,
\* however long it was.
LoopsKeepPace == BodiesAreEarned /\ CatchUpIsBounded

=============================================================================
