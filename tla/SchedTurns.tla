----------------------------- MODULE SchedTurns -----------------------------
(***************************************************************************)
(* Sched with a history variable that counts turns, to bound the waiting   *)
(* of equal-priority threads: turns[t][x] is how often a tick gave the core*)
(* to x since t last had it, while t stayed among the best runnable        *)
(* threads of the partition.  Counting stops at 2.                         *)
(***************************************************************************)
EXTENDS Sched

VARIABLE turns

NoTurns == [x \in Threads |-> 0]

TurnsInit == Init /\ turns = [t \in Threads |-> NoTurns]

\* A thread that is not waiting at the best level, or has just been given the
\* core, counts afresh.
Waiting(t) == IsBest(t) /\ current[core[t]] # t

CountTick(c) ==
  LET x == current'[c] IN
  turns' = [t \in Threads |->
             IF ~Waiting(t)' THEN NoTurns
             ELSE IF core[t] = c /\ turns[t][x] < 2 THEN [turns[t] EXCEPT ![x] = @ + 1]
             ELSE turns[t]]

TurnsNext ==
  \/ \E c \in Cores : Tick(c) /\ CountTick(c)
  \/ /\ \/ Create \/ Release
        \/ \E c \in Cores : Start(c)
        \/ \E t \in Threads : Return(t) \/ TrampolineBlock(t) \/ RestorePriority(t)
        \/ \E t \in Threads, p \in Prios : SetEffectivePriority(t, p)
     /\ turns' = [t \in Threads |-> IF Waiting(t)' THEN turns[t] ELSE NoTurns]

TurnsSpec == TurnsInit /\ [][TurnsNext]_<<vars, turns>> /\ Fairness

\* "At equal priority the preemptive scheduler round-robins them: no thread
\* can starve the others" (net_task.c): between two turns of one thread, every
\* thread that stayed runnable at the best level has had its own, even when
\* threads were created in between and the scan wraps at another modulus.
NobodyGoesTwice == \A t, x \in Threads : turns[t][x] <= 1

=============================================================================
