----------------------------- MODULE SchedTable -----------------------------
(***************************************************************************)
(* The selection functions of kernel/sched.c: pure operators over the TCB  *)
(* table.  A table is given by its columns: state, prio and core, functions*)
(* from thread ids to values; n is g_nthreads, so the published threads    *)
(* are 0 .. n-1.  Priorities are naturals and 0 is the highest.            *)
(***************************************************************************)
EXTENDS Integers

\* THREAD_UNUSED, THREAD_READY, THREAD_RUNNING, THREAD_BLOCKED of thread.h.
ThreadStates == {"UNUSED", "READY", "RUNNING", "BLOCKED"}

\* NO_THREAD is 0xFFFFFFFF in the code; any value that is no thread id serves.
NoThread == -1

\* Seeded fault: the scan does not test the affinity.
Candidates_anyCore(state, core, n, c) ==
  {i \in 0 .. n-1 : state[i] \in {"READY", "RUNNING"}}

\* The threads of a partition that the scan of pick_next() considers.
Candidates(state, core, n, c) ==
  {i \in 0 .. n-1 : core[i] = c /\ state[i] \in {"READY", "RUNNING"}}

\* The members of S with the best (numerically lowest) priority.
BestOf(prio, S) == {i \in S : \A j \in S : prio[i] <= prio[j]}

\* Seeded faults: the scan starts at thread 0; the scan starts at `from'.
ScanRank_fromZero(i, from, n)    == i
ScanRank_fromCurrent(i, from, n) == IF i >= from THEN i - from ELSE i - from + n

\* The iteration k \in 1..n of the circular scan i = (from + k) % n that looks
\* at thread i: the thread after `from' comes first, `from' itself last.
ScanRank(i, from, n) == IF i > from THEN i - from ELSE i - from + n

\* The member of S the scan meets first.
FirstAfter(S, from, n) ==
  CHOOSE i \in S : \A j \in S : ScanRank(i, from, n) <= ScanRank(j, from, n)

\* pick_next(core, from): best priority, ties broken by the circular order.
PickNext(state, prio, core, n, c, from) ==
  LET best == BestOf(prio, Candidates(state, core, n, c))
  IN  IF best = {} THEN NoThread ELSE FirstAfter(best, from, n)

\* The selection loop of sched_start(): only READY threads, lowest id first.
PickFirst(state, prio, core, n, c) ==
  LET best == BestOf(prio, {i \in 0 .. n-1 : core[i] = c /\ state[i] = "READY"})
  IN  IF best = {} THEN NoThread ELSE CHOOSE i \in best : \A j \in best : i <= j

=============================================================================
