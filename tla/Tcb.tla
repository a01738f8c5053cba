--------------------------------- MODULE Tcb ---------------------------------
(***************************************************************************)
(* The part of g_tcb that the selection functions read, shared by the      *)
(* modules about the scheduler: Sched (all of it, one step per function),  *)
(* PickScan (pick_next() iteration by iteration) and SchedStart            *)
(* (sched_start() instruction by instruction).                             *)
(***************************************************************************)
EXTENDS SchedTable

CONSTANTS
  Cores,       \* the CFG_NUM_CORES partitions
  MaxThreads,  \* CFG_MAX_THREADS
  Prios        \* the priorities threads are created with

ASSUME TcbAssumption ==
  /\ MaxThreads \in Nat \ {0}
  /\ Prios \subseteq Nat

VARIABLES
  nthreads,            \* g_nthreads
  state, prio, core    \* columns of g_tcb

Threads   == 0 .. MaxThreads-1
Published == 0 .. nthreads-1

\* The context of kmain and secondary_main, which is no thread.
Boot == -1

=============================================================================
