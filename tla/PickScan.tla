------------------------------ MODULE PickScan ------------------------------
(***************************************************************************)
(* The loop of pick_next() in kernel/sched.c, one iteration at a time.     *)
(* Sched takes the selection as one step; in the code it runs in the       *)
(* interrupt of one core while other cores write the same table: a thread  *)
(* of Core 2 may publish new threads and a mutex waiter may raise or       *)
(* restore priorities.  g_nthreads is volatile, so the loop reads it twice *)
(* in every iteration and the modulus may change under the scan.           *)
(***************************************************************************)
EXTENDS Tcb

CONSTANT Self   \* the core whose interrupt scans

ASSUME ScanAssumption ==
  /\ Self \in Cores
  /\ Prios \subseteq 0 .. 31

Infinite == 32   \* for 0xFFFFFFFF: above the CFG_NUM_PRIORITIES levels 0..31

VARIABLES
  from,          \* the current thread of Self
  pc, k, best, bestPrio,         \* locals of pick_next()
  atStart,       \* history: nthreads when the scan began
  prioWritten    \* history: a priority was written during the scan

scanVars == <<nthreads, state, prio, core, from, pc, k, best, bestPrio, atStart, prioWritten>>

\* Any table a tick of Self can find: some thread of this partition is
\* current, the threads of other cores are in any state, and the slots after
\* the published ones are prepared.
ScanInit ==
  /\ nthreads \in 1 .. MaxThreads
  /\ state \in [Threads -> {"READY", "BLOCKED"}]
  /\ prio \in [Threads -> Prios]
  /\ core \in [Threads -> Cores]
  /\ \A t \in Threads : t >= nthreads => state[t] = "READY"
  /\ from \in {t \in 0 .. nthreads-1 : core[t] = Self}
  /\ pc = "test" /\ k = 1
  /\ best = NoThread /\ bestPrio = Infinite
  /\ atStart = nthreads /\ prioWritten = FALSE

\* Line 154: the loop condition.
Test ==
  /\ pc = "test"
  /\ pc' = IF k <= nthreads THEN "visit" ELSE "done"
  /\ UNCHANGED <<nthreads, state, prio, core, from, k, best, bestPrio, atStart, prioWritten>>

\* Line 155: the slot that iteration k looks at.
Slot == (from + k) % nthreads

\* Seeded faults: ties go to the last thread met; the affinity is not tested.
Visit_lastWins ==
  LET i == Slot
      better == /\ core[i] = Self
                /\ state[i] \in {"READY", "RUNNING"}
                /\ prio[i] <= bestPrio
  IN
  /\ pc = "visit"
  /\ best' = IF better THEN i ELSE best
  /\ bestPrio' = IF better THEN prio[i] ELSE bestPrio
  /\ k' = k + 1 /\ pc' = "test"
  /\ UNCHANGED <<nthreads, state, prio, core, from, atStart, prioWritten>>

Visit_anyCore ==
  LET i == Slot
      better == state[i] \in {"READY", "RUNNING"} /\ prio[i] < bestPrio
  IN
  /\ pc = "visit"
  /\ best' = IF better THEN i ELSE best
  /\ bestPrio' = IF better THEN prio[i] ELSE bestPrio
  /\ k' = k + 1 /\ pc' = "test"
  /\ UNCHANGED <<nthreads, state, prio, core, from, atStart, prioWritten>>

\* Lines 155-163: one slot, with g_nthreads read again.
Visit ==
  LET i == Slot
      better == /\ core[i] = Self
                /\ state[i] \in {"READY", "RUNNING"}
                /\ prio[i] < bestPrio
  IN
  /\ pc = "visit"
  /\ best' = IF better THEN i ELSE best
  /\ bestPrio' = IF better THEN prio[i] ELSE bestPrio
  /\ k' = k + 1 /\ pc' = "test"
  /\ UNCHANGED <<nthreads, state, prio, core, from, atStart, prioWritten>>

\* Another core publishes the next prepared slot (thread_create_on).
Publish ==
  /\ pc # "done" /\ nthreads < MaxThreads
  /\ nthreads' = nthreads + 1
  /\ UNCHANGED <<state, prio, core, from, pc, k, best, bestPrio, atStart, prioWritten>>

\* Another core raises or restores a priority (PI mutex).
WritePriority ==
  /\ pc # "done"
  /\ \E t \in 0 .. nthreads-1 : \E p \in Prios \ {prio[t]} : prio' = [prio EXCEPT ![t] = p]
  /\ prioWritten' = TRUE
  /\ UNCHANGED <<nthreads, state, core, from, pc, k, best, bestPrio, atStart>>

ScanNext == Test \/ Visit \/ Publish \/ WritePriority

ScanSpec == ScanInit /\ [][ScanNext]_scanVars

-----------------------------------------------------------------------------
\* When no priority moved under the scan, growing the table in the middle
\* neither hides a thread that was already published nor breaks the round
\* robin among those: an old thread is chosen only if an atomic scan would
\* have chosen it, a new one only if it is as good as every old one.  (Two
\* threads published within one scan may be missed until the next tick.)
OldThreadsNotHidden ==
  pc = "done" /\ ~prioWritten =>
    IF best < atStart
      THEN best = PickNext(state, prio, core, atStart, Self, from)
      ELSE \A j \in Candidates(state, core, atStart, Self) : prio[best] <= prio[j]

\* Whatever other cores write meanwhile, a runnable thread is found if the
\* partition had one, and the answer is a runnable thread of this partition:
\* a core never leaves its partition and never idles beside runnable work.
AnswerIsRunnable ==
  pc = "done" =>
    /\ best # NoThread => best \in Candidates(state, core, nthreads, Self)
    /\ best = NoThread => Candidates(state, core, atStart, Self) = {}

=============================================================================
