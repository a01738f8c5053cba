------------------------------- MODULE PiMutex -------------------------------
(***************************************************************************)
(* The priority-inheritance mutex: kernel/mutex.c over the spinlock of     *)
(* kernel/sync.c and the priorities of kernel/sched.c, on cores that       *)
(* preempt their threads at any instant.                                   *)
(*                                                                         *)
(* A thread moves only while it is the current thread of its core.  It     *)
(* never leaves the run queue: a thread that waits for a mutex or a        *)
(* spinlock stays READY and polls.  Scheduling is the Tick of Sched over a *)
(* table in which every published thread is runnable; threads published    *)
(* later (Spawn) may be more urgent than the ones already running.         *)
(*                                                                         *)
(* The field owner_prio is written under the guard and read by nobody: it  *)
(* is left out.  The locals of a call that has returned are reset.         *)
(***************************************************************************)
EXTENDS SchedTable, FiniteSets

CONSTANTS
  Cores,
  NumThreads,   \* threads that will ever exist
  Booted,       \* threads created before the schedulers start
  CoreOf,       \* the core each thread is pinned to
  BasePrio,     \* its base priority
  Mutexes,
  TryLockers,   \* the threads whose code uses mutex_trylock()
  IrqCores      \* the cores with interrupts that do not schedule (UART, mailbox)

Threads == 0 .. NumThreads-1

ASSUME MutexAssumption ==
  /\ NumThreads \in Nat \ {0}
  /\ Booted \in 1 .. NumThreads
  /\ CoreOf \in [Threads -> Cores]
  /\ BasePrio \in [Threads -> Nat]
  /\ Mutexes # {}
  /\ TryLockers \subseteq Threads
  /\ IrqCores \subseteq Cores

VARIABLES
  nthreads, current, prio,         \* the scheduler's side of a thread
  guard,                           \* m->guard: the thread inside, or NoThread
  held, owner,                     \* the fields of mutex_t it protects
  pc, want, selfPrio, seen,        \* a thread's call: locals of mutex.c
  mine                             \* mutexes a thread's calls have acquired

sched == <<nthreads, current, prio>>
locks == <<guard, held, owner>>
calls == <<pc, want, selfPrio, seen, mine>>
vars  == <<sched, locks, calls>>

Published == 0 .. nthreads-1

\* Program points between taking the guard of want[t] and releasing it.
InGuard ==
  {"lock_in", "boost", "boost_write", "lock_busy", "lock_take", "lock_got",
   "try_in", "try_no", "try_take", "unlock_in", "unlock_clear", "unlock_out"}
\* Program points of a thread that has asked for want[t] and not got it.
Asking == {"lock", "lock_in", "boost", "boost_write", "lock_busy", "wait"}
Points == {"idle", "try", "unlock"} \cup InGuard \cup Asking

AnyMutex == CHOOSE m \in Mutexes : TRUE
AllReady == [t \in Threads |-> "READY"]

\* mutex_init() of every mutex; the cores have started their schedulers.
Init ==
  /\ nthreads = Booted
  /\ prio = BasePrio
  /\ current = [c \in Cores |-> PickFirst(AllReady, BasePrio, CoreOf, Booted, c)]
  /\ guard = [m \in Mutexes |-> NoThread]
  /\ held = [m \in Mutexes |-> FALSE]
  /\ owner = [m \in Mutexes |-> NoThread]
  /\ pc = [t \in Threads |-> "idle"]
  /\ want = [t \in Threads |-> AnyMutex]
  /\ selfPrio = [t \in Threads |-> 0]
  /\ seen = [t \in Threads |-> NoThread]
  /\ mine = [t \in Threads |-> {}]

\* thread_self() is t.
Runs(t) == t \in Published /\ current[CoreOf[t]] = t

At(t, point)  == Runs(t) /\ pc[t] = point
Goto(t, point) == pc' = [pc EXCEPT ![t] = point]

-----------------------------------------------------------------------------
\* Calls.  Mutexes are not recursive, and only the holder unlocks.
CallLock(t, m) ==
  /\ At(t, "idle") /\ m \notin mine[t]
  /\ Goto(t, "lock")
  /\ want' = [want EXCEPT ![t] = m]
  /\ selfPrio' = [selfPrio EXCEPT ![t] = prio[t]]
  /\ UNCHANGED <<sched, locks, seen, mine>>

CallTrylock(t, m) ==
  /\ At(t, "idle") /\ t \in TryLockers /\ m \notin mine[t]
  /\ Goto(t, "try")
  /\ want' = [want EXCEPT ![t] = m]
  /\ UNCHANGED <<sched, locks, selfPrio, seen, mine>>

CallUnlock(t, m) ==
  /\ At(t, "idle") /\ m \in mine[t]
  /\ Goto(t, "unlock")
  /\ want' = [want EXCEPT ![t] = m]
  /\ mine' = [mine EXCEPT ![t] = @ \ {m}]
  /\ UNCHANGED <<sched, locks, selfPrio, seen>>

\* Seeded fault: the guard is taken without looking at it.
SpinLock_blind(t) ==
  /\ \/ At(t, "lock") /\ Goto(t, "lock_in")
     \/ At(t, "try") /\ Goto(t, "try_in")
     \/ At(t, "unlock") /\ Goto(t, "unlock_in")
  /\ guard' = [guard EXCEPT ![want[t]] = t]
  /\ UNCHANGED <<sched, held, owner, want, selfPrio, seen, mine>>

\* spin_lock(&m->guard): spins, without masking interrupts, until it is free.
SpinLock(t) ==
  /\ \/ At(t, "lock") /\ Goto(t, "lock_in")
     \/ At(t, "try") /\ Goto(t, "try_in")
     \/ At(t, "unlock") /\ Goto(t, "unlock_in")
  /\ guard[want[t]] = NoThread
  /\ guard' = [guard EXCEPT ![want[t]] = t]
  /\ UNCHANGED <<sched, held, owner, want, selfPrio, seen, mine>>

\* mutex_lock() and mutex_trylock() under the guard: the mutex is free.
SeesFree(t) ==
  /\ \/ At(t, "lock_in") /\ Goto(t, "lock_take")
     \/ At(t, "try_in") /\ Goto(t, "try_take")
  /\ ~held[want[t]]
  /\ UNCHANGED <<sched, locks, want, selfPrio, seen, mine>>

\* Then take it.
Take(t) ==
  /\ At(t, "lock_take") \/ At(t, "try_take")
  /\ Goto(t, "lock_got")
  /\ held' = [held EXCEPT ![want[t]] = TRUE]
  /\ owner' = [owner EXCEPT ![want[t]] = t]
  /\ UNCHANGED <<sched, guard, want, selfPrio, seen, mine>>

\* mutex_lock(): busy, compare with the holder's effective priority.
LockBusy(t) ==
  LET o == owner[want[t]] IN
  /\ At(t, "lock_in") /\ held[want[t]]
  /\ seen' = [seen EXCEPT ![t] = o]
  /\ Goto(t, IF o # NoThread /\ selfPrio[t] < prio[o] THEN "boost" ELSE "lock_busy")
  /\ UNCHANGED <<sched, locks, want, selfPrio, mine>>

\* Seeded fault: the boost lowers the urgency (inverted comparison).
BoostTest_inverted(t) ==
  /\ At(t, "boost")
  /\ Goto(t, IF selfPrio[t] > prio[seen[t]] THEN "boost_write" ELSE "lock_busy")
  /\ UNCHANGED <<sched, locks, want, selfPrio, seen, mine>>

\* thread_set_effective_priority(): its test, then its assignment; the
\* priority is not protected by this mutex's guard alone.
BoostTest(t) ==
  /\ At(t, "boost")
  /\ Goto(t, IF selfPrio[t] < prio[seen[t]] THEN "boost_write" ELSE "lock_busy")
  /\ UNCHANGED <<sched, locks, want, selfPrio, seen, mine>>

BoostWrite(t) ==
  /\ At(t, "boost_write")
  /\ Goto(t, "lock_busy")
  /\ prio' = [prio EXCEPT ![seen[t]] = selfPrio[t]]
  /\ UNCHANGED <<nthreads, current, locks, want, selfPrio, seen, mine>>

\* mutex_trylock(): busy, give up.
TryFail(t) ==
  /\ At(t, "try_in") /\ held[want[t]]
  /\ Goto(t, "try_no")
  /\ UNCHANGED <<sched, locks, want, selfPrio, seen, mine>>

\* Seeded fault: the priority is not restored.
UnlockRestore_missing(t) ==
  /\ At(t, "unlock_in")
  /\ Goto(t, "unlock_clear")
  /\ UNCHANGED <<sched, locks, want, selfPrio, seen, mine>>

\* mutex_unlock(): thread_restore_priority(owner), inside the guard.
UnlockRestore(t) ==
  LET o == owner[want[t]] IN
  /\ At(t, "unlock_in")
  /\ Goto(t, "unlock_clear")
  /\ prio' = IF o = NoThread THEN prio ELSE [prio EXCEPT ![o] = BasePrio[o]]
  /\ UNCHANGED <<nthreads, current, locks, want, selfPrio, seen, mine>>

\* The mutex is free; only the guard is still to be released.
UnlockClear(t) ==
  /\ At(t, "unlock_clear")
  /\ Goto(t, "unlock_out")
  /\ owner' = [owner EXCEPT ![want[t]] = NoThread]
  /\ held' = [held EXCEPT ![want[t]] = FALSE]
  /\ UNCHANGED <<sched, guard, want, selfPrio, seen, mine>>

\* spin_unlock(&m->guard); the call returns, or waits for its next poll.
SpinUnlock(t) ==
  /\ guard' = [guard EXCEPT ![want[t]] = NoThread]
  /\ seen' = [seen EXCEPT ![t] = NoThread]
  /\ \/ /\ At(t, "lock_busy") /\ Goto(t, "wait")
        /\ UNCHANGED <<want, selfPrio, mine>>
     \/ /\ \/ At(t, "lock_got") /\ mine' = [mine EXCEPT ![t] = @ \cup {want[t]}]
           \/ (At(t, "try_no") \/ At(t, "unlock_out")) /\ UNCHANGED mine
        /\ Goto(t, "idle")
        /\ want' = [want EXCEPT ![t] = AnyMutex]
        /\ selfPrio' = [selfPrio EXCEPT ![t] = 0]
  /\ UNCHANGED <<sched, held, owner>>

\* thread_yield(): wfi until an interrupt of the core, then poll again.  This
\* is the wake-up by an interrupt that does not schedule; Tick is the other.
Wake(t) ==
  /\ At(t, "wait") /\ CoreOf[t] \in IrqCores
  /\ Goto(t, "lock")
  /\ UNCHANGED <<sched, locks, want, selfPrio, seen, mine>>

-----------------------------------------------------------------------------
\* sched_on_tick() on core c.  The thread it interrupts has left its wfi when
\* it gets the core again.
Tick(c) ==
  LET cur  == current[c]
      next == PickNext(AllReady, prio, CoreOf, nthreads, c, cur)
  IN
  /\ cur # NoThread /\ next # NoThread
  /\ current' = [current EXCEPT ![c] = next]
  /\ pc' = [pc EXCEPT ![cur] = IF @ = "wait" THEN "lock" ELSE @]
  /\ UNCHANGED <<nthreads, prio, locks, want, selfPrio, seen, mine>>

\* Seeded fault: no test for a full table.
Spawn_unbounded ==
  /\ nthreads' = nthreads + 1
  /\ UNCHANGED <<current, prio, locks, calls>>

\* thread_create_on() publishes the next thread while the system runs.
Spawn ==
  /\ nthreads < NumThreads
  /\ nthreads' = nthreads + 1
  /\ UNCHANGED <<current, prio, locks, calls>>

\* A step of a call in progress, or the end of a critical section: what a
\* thread does when it gets the CPU, whatever the application asks for.
Proceed(t) ==
  \/ SpinLock(t) \/ SeesFree(t) \/ Take(t) \/ LockBusy(t) \/ BoostTest(t) \/ BoostWrite(t)
  \/ TryFail(t) \/ UnlockRestore(t) \/ UnlockClear(t)
  \/ SpinUnlock(t)
  \/ \E m \in Mutexes : CallUnlock(t, m)

Next ==
  \/ \E t \in Threads :
       \/ Proceed(t) \/ Wake(t)
       \/ \E m \in Mutexes : CallLock(t, m) \/ CallTrylock(t, m)
  \/ \E c \in Cores : Tick(c)
  \/ Spawn

Spec == Init /\ [][Next]_vars

\* The timers keep firing.  A thread that gets its core again and again gets
\* on with its call: it has a whole tick each time, against the few
\* instructions of a step, and critical sections end.
FairSpec ==
  /\ Spec
  /\ \A c \in Cores : WF_vars(Tick(c))
  /\ \A t \in Threads : SF_vars(Proceed(t))

-----------------------------------------------------------------------------
TypeOK ==
  /\ nthreads \in 1 .. NumThreads
  /\ current \in [Cores -> Threads \cup {NoThread}]
  /\ prio \in [Threads -> Nat]
  /\ guard \in [Mutexes -> Threads \cup {NoThread}]
  /\ held \in [Mutexes -> BOOLEAN]
  /\ owner \in [Mutexes -> Threads \cup {NoThread}]
  /\ pc \in [Threads -> Points]
  /\ want \in [Threads -> Mutexes]
  /\ selfPrio \in [Threads -> Nat]
  /\ seen \in [Threads -> Threads \cup {NoThread}]
  /\ mine \in [Threads -> SUBSET Mutexes]

\* No two threads are inside the same mutex, and the record agrees with who
\* is: the owner field names the thread whose lock call succeeded.
MutualExclusion ==
  \A m \in Mutexes, t \in Threads :
    m \in mine[t] => held[m] /\ owner[m] = t

\* Priority inheritance leaves nothing behind: a thread runs above its base
\* priority only while it owns a mutex for which some thread is still asking,
\* at exactly the level of such a thread, whatever happens to its other
\* mutexes and on which cores ("On release, we restore L's base priority").
BoostJustified ==
  \A t \in Threads : prio[t] # BasePrio[t] =>
    /\ prio[t] < BasePrio[t]
    /\ \E m \in Mutexes, w \in Threads :
         /\ owner[m] = t
         /\ pc[w] \in Asking /\ want[w] = m
         /\ selfPrio[w] = prio[t]

-----------------------------------------------------------------------------
\* Thread w asks for the mutex m and is at least as urgent as every thread of
\* the core that t runs on.
UrgentlyAsks(w, m, t) ==
  /\ pc[w] \in Asking /\ want[w] = m
  /\ \A u \in Threads : CoreOf[u] = CoreOf[t] => BasePrio[w] <= BasePrio[u]

\* The purpose of the boost: a holder whose mutex is urgently asked for gets
\* to the end of its critical section even though threads of intermediate
\* priority on its core never sleep ("L cannot be indefinitely preempted by
\* intermediate-priority threads").
HolderReachesUnlock ==
  \A t, w \in Threads, m \in Mutexes :
    m \in mine[t] /\ UrgentlyAsks(w, m, t) ~> m \notin mine[t]

\* The same for a mutex that is urgently asked for, up to the instant where it
\* no longer belongs to the thread: mutex.c says that the boost lasts "as long
\* as L holds the mutex", so that no inversion is unbounded.
UrgentlyAskedIsReleased ==
  \A t, w \in Threads, m \in Mutexes :
    owner[m] = t /\ UrgentlyAsks(w, m, t) ~> owner[m] # t

=============================================================================
