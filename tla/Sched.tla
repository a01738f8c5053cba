-------------------------------- MODULE Sched --------------------------------
(***************************************************************************)
(* The partitioned SMP scheduler: kernel/sched.c with the boot order of    *)
(* kernel/main.c and arch/aarch64/smp.c.  Every core schedules only the    *)
(* threads pinned to it, from a timer interrupt that may fall between any  *)
(* two steps of anything else, while threads are still being added to the  *)
(* table.                                                                  *)
(*                                                                         *)
(* What executes on a core is its context ctx[c]: Boot (kmain or           *)
(* secondary_main) or a thread.  frame[t] says whose registers the trap    *)
(* frame that g_tcb[t].sp points to holds: Unbuilt before it is built.     *)
(* The few instructions between the assignment of g_current and the first  *)
(* eret are the subject of SchedStart; here sched_start() is one step.     *)
(***************************************************************************)
EXTENDS Tcb

CONSTANT BootCore    \* the core that runs kmain (0)

ASSUME SchedAssumption == BootCore \in Cores

VARIABLES
  base, frame,   \* the other columns of g_tcb
  current,    \* g_current
  go,         \* g_sched_enabled and g_sched_go, set one after the other
  boot,       \* where a core's boot path stands
  ctx,        \* the context whose registers are live on a core
  making,     \* the thread_create_on() call in progress
  returned    \* threads whose entry function has returned

table == <<nthreads, state, prio, base, core, frame>>
vars  == <<table, current, go, boot, ctx, making, returned>>

Unbuilt  == -2
Contexts == Threads \cup {Boot}
NoCall   == [step |-> "idle", by |-> Boot, id |-> 0]

-----------------------------------------------------------------------------
\* sched_init() has run, no thread exists, the secondaries wait for the go.
Init ==
  /\ nthreads = 0
  /\ state = [t \in Threads |-> "UNUSED"]
  /\ prio  = [t \in Threads |-> 0]
  /\ base  = [t \in Threads |-> 0]
  /\ core  = [t \in Threads |-> BootCore]
  /\ frame = [t \in Threads |-> Unbuilt]
  /\ current = [c \in Cores |-> NoThread]
  /\ go = FALSE
  /\ boot = [c \in Cores |-> "wait"]
  /\ ctx = [c \in Cores |-> Boot]
  /\ making = NoCall
  /\ returned = {}

\* Whether context x can take a step now: kmain until it has started its own
\* scheduler, a thread while its registers are the live ones of its core.
Executing(x) ==
  IF x = Boot THEN boot[BootCore] = "wait" /\ ~go
  ELSE x < nthreads /\ ctx[core[x]] = x

-----------------------------------------------------------------------------
(* thread_create_on(), called by kmain and later by a running thread (the   *)
(* Core 2 supervisor creates its services with the scheduler running).      *)
(* The repository creates threads from one context at a time.               *)

\* Seeded fault: the table is extended before the frame is built.
CreateFill_published(x, p, c) ==
  /\ making.step = "idle"
  /\ Executing(x) /\ x \notin returned
  /\ nthreads < MaxThreads
  /\ prio'  = [prio  EXCEPT ![nthreads] = p]
  /\ base'  = [base  EXCEPT ![nthreads] = p]
  /\ core'  = [core  EXCEPT ![nthreads] = c]
  /\ state' = [state EXCEPT ![nthreads] = "READY"]
  /\ nthreads' = nthreads + 1
  /\ making' = [step |-> "filled", by |-> x, id |-> nthreads]
  /\ UNCHANGED <<frame, current, go, boot, ctx, returned>>

\* Seeded fault: no test for a full table.
CreateFill_unbounded(x, p, c) ==
  /\ making.step = "idle"
  /\ Executing(x) /\ x \notin returned
  /\ prio'  = [prio  EXCEPT ![nthreads] = p]
  /\ base'  = [base  EXCEPT ![nthreads] = p]
  /\ core'  = [core  EXCEPT ![nthreads] = c]
  /\ state' = [state EXCEPT ![nthreads] = "UNUSED"]
  /\ making' = [step |-> "filled", by |-> x, id |-> nthreads]
  /\ UNCHANGED <<nthreads, frame, current, go, boot, ctx, returned>>

\* Lines 99-109: the slot is filled, not schedulable yet; a full table is -1
\* and changes nothing.
CreateFill(x, p, c) ==
  /\ making.step = "idle"
  /\ Executing(x) /\ x \notin returned
  /\ nthreads < MaxThreads
  /\ prio'  = [prio  EXCEPT ![nthreads] = p]
  /\ base'  = [base  EXCEPT ![nthreads] = p]
  /\ core'  = [core  EXCEPT ![nthreads] = c]
  /\ state' = [state EXCEPT ![nthreads] = "UNUSED"]
  /\ making' = [step |-> "filled", by |-> x, id |-> nthreads]
  /\ UNCHANGED <<nthreads, frame, current, go, boot, ctx, returned>>

\* Lines 111-126: the initial trap frame enters the trampoline.
CreateFrame ==
  /\ making.step = "filled" /\ Executing(making.by)
  /\ frame'  = [frame EXCEPT ![making.id] = making.id]
  /\ making' = [making EXCEPT !.step = "framed"]
  /\ UNCHANGED <<nthreads, state, prio, base, core, current, go, boot, ctx, returned>>

\* Line 131: schedulable, but not yet inside the table.
CreateReady ==
  /\ making.step = "framed" /\ Executing(making.by)
  /\ state'  = [state EXCEPT ![making.id] = "READY"]
  /\ making' = [making EXCEPT !.step = "ready"]
  /\ UNCHANGED <<nthreads, prio, base, core, frame, current, go, boot, ctx, returned>>

\* Lines 132-133: after the barrier, the table grows by one.
CreatePublish ==
  /\ making.step = "ready" /\ Executing(making.by)
  /\ nthreads' = making.id + 1
  /\ making' = NoCall
  /\ UNCHANGED <<state, prio, base, core, frame, current, go, boot, ctx, returned>>

-----------------------------------------------------------------------------
\* kmain: g_sched_enabled = 1 and smp_release_schedulers(), once the
\* partitions are complete.
Release ==
  /\ ~go /\ making.step = "idle"
  /\ go' = TRUE
  /\ UNCHANGED <<table, current, boot, ctx, making, returned>>

\* sched_start() on core c: run the best READY thread of the partition, or
\* sleep for ever when it has none.
Start(c) ==
  LET first == PickFirst(state, prio, core, nthreads, c) IN
  /\ go /\ boot[c] = "wait"
  /\ IF first = NoThread
       THEN /\ boot' = [boot EXCEPT ![c] = "idle"]
            /\ UNCHANGED <<current, state, ctx>>
       ELSE /\ boot' = [boot EXCEPT ![c] = "run"]
            /\ current' = [current EXCEPT ![c] = first]
            /\ state' = [state EXCEPT ![first] = "RUNNING"]
            /\ ctx' = [ctx EXCEPT ![c] = frame[first]]
  /\ UNCHANGED <<nthreads, prio, base, core, frame, go, making, returned>>

\* What pick_next() returns to sched_on_tick() on core c, and what it does
\* with a NO_THREAD answer: the current thread stays.
Chosen(c, st) ==
  LET next == PickNext(st, prio, core, nthreads, c, current[c])
  IN  IF next = NoThread THEN current[c] ELSE next

\* Seeded fault: the interrupted thread becomes READY in every state.
Tick_revives(c) ==
  LET cur   == current[c]
      saved == [state EXCEPT ![cur] = "READY"]
      stored == [frame EXCEPT ![cur] = ctx[c]]
      next  == Chosen(c, saved)
  IN
  /\ go /\ current[c] # NoThread
  /\ frame' = stored
  /\ state' = [saved EXCEPT ![next] = "RUNNING"]
  /\ current' = [current EXCEPT ![c] = next]
  /\ ctx' = [ctx EXCEPT ![c] = stored[next]]
  /\ UNCHANGED <<nthreads, prio, base, core, go, boot, making, returned>>

\* sched_on_tick(), from the timer interrupt or a reschedule IPI.  A core
\* without a current thread returns at once, so its ticks change nothing.
Tick(c) ==
  LET cur   == current[c]
      saved == [state EXCEPT ![cur] = IF @ = "RUNNING" THEN "READY" ELSE @]
      stored == [frame EXCEPT ![cur] = ctx[c]]
      next  == Chosen(c, saved)
  IN
  /\ go /\ current[c] # NoThread
  /\ frame' = stored
  /\ state' = [saved EXCEPT ![next] = "RUNNING"]
  /\ current' = [current EXCEPT ![c] = next]
  /\ ctx' = [ctx EXCEPT ![c] = stored[next]]
  /\ UNCHANGED <<nthreads, prio, base, core, go, boot, making, returned>>

-----------------------------------------------------------------------------
\* The entry function of the running thread t returns to its trampoline.
Return(t) ==
  /\ t \in Published \ returned
  /\ ctx[core[t]] = t
  /\ making.by # t \/ making.step = "idle"
  /\ returned' = returned \cup {t}
  /\ UNCHANGED <<table, current, go, boot, ctx, making>>

\* One turn of the trampoline's endless loop, executed by the returned thread
\* t: block the thread that is current on this core, then wait for the next
\* interrupt.
TrampolineBlock(t) ==
  /\ t \in returned
  /\ ctx[core[t]] = t /\ current[core[t]] # NoThread
  /\ state' = [state EXCEPT ![current[core[t]]] = "BLOCKED"]
  /\ UNCHANGED <<nthreads, prio, base, core, frame, current, go, boot, ctx, making, returned>>

\* thread_set_effective_priority() and thread_restore_priority(), as any core
\* may call them through the mutex code.
SetEffectivePriority(t, p) ==
  /\ t \in Published /\ p < prio[t]
  /\ prio' = [prio EXCEPT ![t] = p]
  /\ UNCHANGED <<nthreads, state, base, core, frame, current, go, boot, ctx, making, returned>>

RestorePriority(t) ==
  /\ t \in Published
  /\ prio' = [prio EXCEPT ![t] = base[t]]
  /\ UNCHANGED <<nthreads, state, base, core, frame, current, go, boot, ctx, making, returned>>

Create ==
  \/ \E x \in Contexts, p \in Prios, c \in Cores : CreateFill(x, p, c)
  \/ CreateFrame \/ CreateReady \/ CreatePublish

Next ==
  \/ Create
  \/ Release
  \/ \E c \in Cores : Start(c) \/ Tick(c)
  \/ \E t \in Threads : Return(t) \/ TrampolineBlock(t) \/ RestorePriority(t)
  \/ \E t \in Threads, p \in Prios : SetEffectivePriority(t, p)

\* The timer of a started core keeps firing.  A thread that is given its core
\* again and again has a millisecond each time, so it gets to its next
\* instruction even when the next tick takes the core away.
Fairness ==
  /\ \A c \in Cores : WF_vars(Tick(c))
  /\ \A t \in Threads : SF_vars(TrampolineBlock(t))

Spec     == Init /\ [][Next]_vars
FairSpec == Spec /\ Fairness

-----------------------------------------------------------------------------
\* The columns of the table, the per-core variables and the creation record
\* hold values of their types.
TypeOK ==
  /\ nthreads \in 0 .. MaxThreads
  /\ state \in [Threads -> ThreadStates]
  /\ prio \in [Threads -> Nat]
  /\ base \in [Threads -> Nat]
  /\ core \in [Threads -> Cores]
  /\ frame \in [Threads -> Contexts \cup {Unbuilt}]
  /\ current \in [Cores -> Threads \cup {NoThread}]
  /\ go \in BOOLEAN
  /\ boot \in [Cores -> {"wait", "run", "idle"}]
  /\ ctx \in [Cores -> Contexts \cup {Unbuilt}]
  /\ making \in [step : {"idle", "filled", "framed", "ready"}, by : Contexts, id : Threads]
  /\ returned \subseteq Threads

\* Strict affinity: the current thread of a core is a published thread pinned
\* to that core, and a thread marked RUNNING is the current one of its core,
\* so no thread is current on two cores and no core has two RUNNING threads.
CurrentIsPinned ==
  /\ \A c \in Cores : current[c] # NoThread =>
       /\ current[c] \in Published
       /\ core[current[c]] = c
       /\ state[current[c]] # "UNUSED"
  /\ \A t \in Threads : state[t] = "RUNNING" =>
       /\ t \in Published
       /\ current[core[t]] = t

\* What executes on a core is what g_current says, and the frame every
\* published thread would resume from is complete and its own: no core ever
\* returns from an interrupt into an unbuilt stack pointer or into the
\* registers of another thread.
ContextsOwned ==
  /\ \A c \in Cores : ctx[c] = IF current[c] = NoThread THEN Boot ELSE current[c]
  /\ \A t \in Published : frame[t] = t

\* A thread among the best runnable ones of a partition that is being
\* scheduled.
IsBest(t) ==
  LET c == core[t]
  IN  /\ current[c] # NoThread
      /\ t \in BestOf(prio, Candidates(state, core, nthreads, c))

\* "Fixed priorities, round-robin at equal priority" (thread.h): a thread that
\* stays among the best runnable ones of its partition is never starved, even
\* while the table grows and priorities are raised and restored.
BestThreadsKeepRunning ==
  \A t \in Threads : <>[]IsBest(t) => []<>(ctx[core[t]] = t)

\* "A thread must not return: block it cleanly" (thread_trampoline): once a
\* thread has returned, it stops using the core if its partition has a thread
\* that has not.
ReturnedThreadsRetire ==
  \A t, u \in Threads :
    <>[](/\ {t, u} \subseteq Published /\ core[t] = core[u]
         /\ t \in returned /\ u \notin returned
         /\ current[core[t]] # NoThread)
      => <>[](ctx[core[t]] # t)

=============================================================================
