------------------------------ MODULE Semaphore ------------------------------
(***************************************************************************)
(* The counting semaphore of kernel/mutex.c, on cores that preempt their   *)
(* threads at any instant.  As with the mutex, a waiting thread stays      *)
(* READY and polls; unlike the mutex, nobody's priority is ever raised.    *)
(* count-- and count++ are a load and a store, kept apart only by the      *)
(* guard.                                                                  *)
(*                                                                         *)
(* Users take a token and give it back, Producers only post, Consumers     *)
(* only wait.                                                              *)
(***************************************************************************)
EXTENDS SchedTable, FiniteSets

CONSTANTS
  Cores, NumThreads, CoreOf, Prio,
  Initial,                        \* sem_init()'s argument
  Users, Producers, Consumers,
  IrqCores,                       \* cores with interrupts that do not schedule
  MaxCount                        \* bound of the model: producers stop here

Threads == 0 .. NumThreads-1

ASSUME SemaphoreAssumption ==
  /\ NumThreads \in Nat \ {0}
  /\ CoreOf \in [Threads -> Cores]
  /\ Prio \in [Threads -> Nat]
  /\ {Initial, MaxCount} \subseteq Nat
  /\ IrqCores \subseteq Cores
  /\ Users \cup Producers \cup Consumers \subseteq Threads
  /\ Users \cap Consumers = {}

VARIABLES
  current,       \* g_current
  guard, count,  \* sem_t
  pc, blocking,  \* a call and whether it is sem_wait() rather than sem_trywait()
  value,         \* the count that a call has loaded
  has,           \* users that own a token
  balance        \* tokens posted by producers minus tokens gone to consumers

vars == <<current, guard, count, pc, blocking, value, has, balance>>

AllReady == [t \in Threads |-> "READY"]
Points ==
  {"idle", "try", "test", "dec", "got", "none", "wfi", "post", "load", "inc", "posted"}
Waiting(t) == blocking[t] /\ pc[t] # "idle"

Init ==
  /\ current = [c \in Cores |-> PickFirst(AllReady, Prio, CoreOf, NumThreads, c)]
  /\ guard = NoThread /\ count = Initial
  /\ pc = [t \in Threads |-> "idle"]
  /\ blocking = [t \in Threads |-> FALSE]
  /\ value = [t \in Threads |-> 0]
  /\ has = {} /\ balance = 0

At(t, point)   == current[CoreOf[t]] = t /\ pc[t] = point
Goto(t, point) == pc' = [pc EXCEPT ![t] = point]

-----------------------------------------------------------------------------
\* sem_wait() or sem_trywait() is called.
CallWait(t, blocks) ==
  /\ At(t, "idle") /\ t \in (Users \ has) \cup Consumers
  /\ Goto(t, "try")
  /\ blocking' = [blocking EXCEPT ![t] = blocks]
  /\ UNCHANGED <<current, guard, count, value, has, balance>>

\* sem_post() is called: a user gives its token back, a producer makes one.
CallPost(t) ==
  /\ At(t, "idle")
  /\ \/ t \in has /\ has' = has \ {t} /\ UNCHANGED balance
     \/ t \in Producers /\ count < MaxCount /\ balance' = balance + 1 /\ UNCHANGED has
  /\ Goto(t, "post")
  /\ UNCHANGED <<current, guard, count, blocking, value>>

\* Seeded fault: the guard is taken without looking at it.
SpinLock_blind(t) ==
  /\ \/ At(t, "try") /\ Goto(t, "test")
     \/ At(t, "post") /\ Goto(t, "load")
  /\ guard' = t
  /\ UNCHANGED <<current, count, blocking, value, has, balance>>

\* spin_lock(&s->guard), with interrupts enabled.
SpinLock(t) ==
  /\ \/ At(t, "try") /\ Goto(t, "test")
     \/ At(t, "post") /\ Goto(t, "load")
  /\ guard = NoThread /\ guard' = t
  /\ UNCHANGED <<current, count, blocking, value, has, balance>>

\* sem_trywait(): is there a token?
Test(t) ==
  /\ At(t, "test")
  /\ Goto(t, IF count > 0 THEN "dec" ELSE "none")
  /\ value' = [value EXCEPT ![t] = count]
  /\ UNCHANGED <<current, guard, count, blocking, has, balance>>

Decrement(t) ==
  /\ At(t, "dec") /\ Goto(t, "got")
  /\ count' = value[t] - 1
  /\ UNCHANGED <<current, guard, blocking, value, has, balance>>

\* sem_post(): s->count++.
LoadCount(t) ==
  /\ At(t, "load") /\ Goto(t, "inc")
  /\ value' = [value EXCEPT ![t] = count]
  /\ UNCHANGED <<current, guard, count, blocking, has, balance>>

Increment(t) ==
  /\ At(t, "inc") /\ Goto(t, "posted")
  /\ count' = value[t] + 1
  /\ UNCHANGED <<current, guard, blocking, value, has, balance>>

\* spin_unlock(&s->guard), and the end of the call or of the attempt.
SpinUnlock(t) ==
  /\ guard' = NoThread
  /\ value' = [value EXCEPT ![t] = 0]
  /\ \/ /\ At(t, "none") /\ blocking[t] /\ Goto(t, "wfi")
        /\ UNCHANGED <<blocking, has, balance>>
     \/ /\ \/ At(t, "got") /\ IF t \in Users
                                THEN has' = has \cup {t} /\ UNCHANGED balance
                                ELSE balance' = balance - 1 /\ UNCHANGED has
           \/ At(t, "none") /\ ~blocking[t] /\ UNCHANGED <<has, balance>>
           \/ At(t, "posted") /\ UNCHANGED <<has, balance>>
        /\ Goto(t, "idle")
        /\ blocking' = [blocking EXCEPT ![t] = FALSE]
  /\ UNCHANGED <<current, count>>

\* thread_yield() returns after an interrupt that does not schedule.
Wake(t) ==
  /\ At(t, "wfi") /\ CoreOf[t] \in IrqCores /\ Goto(t, "try")
  /\ UNCHANGED <<current, guard, count, blocking, value, has, balance>>

\* Seeded fault: the tick does not end the wfi.
Tick_sleepsOn(c) ==
  LET next == PickNext(AllReady, Prio, CoreOf, NumThreads, c, current[c]) IN
  /\ current[c] # NoThread
  /\ current' = [current EXCEPT ![c] = next]
  /\ UNCHANGED <<pc, guard, count, blocking, value, has, balance>>

\* sched_on_tick(); it also ends the wfi of thread_yield().
Tick(c) ==
  LET next == PickNext(AllReady, Prio, CoreOf, NumThreads, c, current[c]) IN
  /\ current[c] # NoThread
  /\ current' = [current EXCEPT ![c] = next]
  /\ pc' = [pc EXCEPT ![current[c]] = IF @ = "wfi" THEN "try" ELSE @]
  /\ UNCHANGED <<guard, count, blocking, value, has, balance>>

Proceed(t) ==
  \/ SpinLock(t) \/ Test(t) \/ Decrement(t) \/ LoadCount(t) \/ Increment(t)
  \/ SpinUnlock(t) \/ CallPost(t)

Next ==
  \/ \E t \in Threads : Proceed(t) \/ Wake(t) \/ CallWait(t, TRUE) \/ CallWait(t, FALSE)
  \/ \E c \in Cores : Tick(c)

Spec == Init /\ [][Next]_vars

\* As for the mutex: timers keep firing, and a thread that gets its core again
\* and again gets on with its program, which posts.
FairSpec ==
  /\ Spec
  /\ \A c \in Cores : WF_vars(Tick(c))
  /\ \A t \in Threads : SF_vars(Proceed(t))

-----------------------------------------------------------------------------
TypeOK ==
  /\ current \in [Cores -> Threads \cup {NoThread}]
  /\ guard \in Threads \cup {NoThread}
  /\ count \in Nat
  /\ pc \in [Threads -> Points]
  /\ blocking \in [Threads -> BOOLEAN]
  /\ value \in [Threads -> Nat]
  /\ has \subseteq Users
  /\ balance \in Int

\* Tokens on their way: taken from the count and not yet with the caller, or
\* given up by the caller and not yet in the count.
Moving == {t \in Threads : pc[t] \in {"got", "post", "load", "inc"}}

\* "P(): decrements; blocks if count <= 0", "V(): increments": no token is
\* lost or made by calls that meet inside the semaphore, on one core or on
\* several, so never more than Initial users are past their wait at once.
TokensConserved ==
  count + Cardinality(has) + Cardinality(Moving) = Initial + balance

\* The other threads either produce tokens or leave the semaphore alone.
OnlyOneAsking(t) == \A u \in Threads \ {t} : u \in Producers \/ pc[u] = "idle"

\* "blocked: yield until a post" (sem_wait): a thread that waits on the core of
\* the producers gets a token if from some time on only they use the semaphore
\* besides it: they keep posting, on the core that it polls on.  (Across cores
\* this takes real time: a poll could meet every attempt of a producer.)
WaiterIsServed ==
  \A t \in Threads :
    (\A u \in Producers : CoreOf[u] = CoreOf[t]) /\ <>[]OnlyOneAsking(t) => []<>~Waiting(t)

=============================================================================
