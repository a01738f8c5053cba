---------------------------- MODULE PiMutexProofs ----------------------------
(***************************************************************************)
(* Safety of the priority-inheritance mutex for every number of cores,     *)
(* threads and mutexes and every assignment of cores and priorities:       *)
(* mutual exclusion, that a boost never outlives its reason, and that      *)
(* neither a guard nor a mutex is ever left taken.                         *)
(***************************************************************************)
EXTENDS PiMutex, KernelLemmas

Releasing == {"unlock", "unlock_in", "unlock_clear"}

\* A thread inside a guard is the one the guard names.
GuardNames ==
  \A t \in Threads : pc[t] \in InGuard => guard[want[t]] = t

\* What a call knows about its mutex at each of its points.
CallsAgree ==
  \A t \in Threads :
    /\ pc[t] \in {"lock_take", "try_take"} => ~held[want[t]]
    /\ pc[t] = "lock_got" => owner[want[t]] = t
    /\ pc[t] \in Releasing => owner[want[t]] = t /\ want[t] \notin mine[t]
    /\ pc[t] \in {"boost", "boost_write"} => seen[t] \in Threads /\ seen[t] = owner[want[t]]

\* A mutex is held exactly when it has an owner.
HeldHasOwner == \A m \in Mutexes : held[m] <=> owner[m] # NoThread

CurrentPublished == \A c \in Cores : current[c] # NoThread => current[c] \in Published

\* The lock is safe: everything that does not speak of priorities.
LockInv ==
  /\ TypeOK /\ CurrentPublished
  /\ GuardNames /\ CallsAgree /\ HeldHasOwner /\ MutualExclusion

\* Thread w, asking for m, is a reason for the priority of its owner t.
Reason(t, m, w) ==
  owner[m] = t /\ pc[w] \in Asking /\ want[w] = m /\ selfPrio[w] = prio[t]

\* A raised priority has a reason; once an unlock has restored the priority,
\* the reason for a new boost is another mutex.
Reasons ==
  \A t \in Threads :
    /\ prio[t] <= BasePrio[t]
    /\ pc[t] = "boost_write" => selfPrio[t] < BasePrio[seen[t]]
    /\ prio[t] # BasePrio[t] =>
         \E m \in Mutexes, w \in Threads :
           /\ Reason(t, m, w)
           /\ pc[t] = "unlock_clear" => m # want[t]

PiInv == LockInv /\ Reasons

\* The program points by name.
LEMMA PointNames ==
  /\ {"idle", "lock", "wait", "try", "unlock"} \subseteq Points
  /\ InGuard \subseteq Points /\ Asking \subseteq Points
  /\ {"lock_in", "boost", "boost_write", "lock_busy", "lock_take", "lock_got", "try_in", "try_no",
      "try_take", "unlock_in", "unlock_clear", "unlock_out"} \subseteq InGuard
BY DEF Points, InGuard, Asking

LEMMA InitInv == Init => PiInv
<1> SUFFICES ASSUME Init PROVE PiInv
  OBVIOUS
<1> USE MutexAssumption DEF Threads, Published
<1>1. current \in [Cores -> Threads \cup {NoThread}] /\ CurrentPublished
  <2>1. Booted \in Nat /\ Booted <= NumThreads /\ \A i \in 0 .. Booted-1 : BasePrio[i] \in Nat
    OBVIOUS
  <2>2. ASSUME NEW c \in Cores, current[c] # NoThread PROVE current[c] \in 0 .. Booted-1
    <3>1. current[c] = PickFirst(AllReady, BasePrio, CoreOf, Booted, c)
      BY DEF Init
    <3>2. QED BY <2>1, <2>2, <3>1, PickFirstMember
  <2>3. QED BY <2>1, <2>2 DEF Init, CurrentPublished
<1>2. TypeOK
  <2>1. AnyMutex \in Mutexes
    BY DEF AnyMutex
  <2>2. QED BY <1>1, <2>1 DEF Init, TypeOK, Points
<1>3. GuardNames /\ CallsAgree
  BY DEF Init, GuardNames, CallsAgree, InGuard, Releasing
<1>4. HeldHasOwner /\ MutualExclusion
  BY DEF Init, HeldHasOwner, MutualExclusion
<1>5. Reasons
  BY DEF Init, Reasons
<1>6. QED BY <1>1, <1>2, <1>3, <1>4, <1>5 DEF PiInv, LockInv

\* Threads as an opaque set.
LEMMA ThreadFacts ==
  /\ NoThread \notin Threads
  /\ \A n \in 1 .. NumThreads : 0 .. n-1 \subseteq Threads
  /\ BasePrio \in [Threads -> Nat]
BY MutexAssumption DEF Threads, NoThread

\* sched_on_tick() keeps current threads published.
LEMMA TickCurrent ==
  ASSUME TypeOK, CurrentPublished, NEW c \in Cores, Tick(c)
  PROVE  \E next \in Published : current' = [current EXCEPT ![c] = next]
<1> USE MutexAssumption DEF Threads, Published
<1> DEFINE next == PickNext(AllReady, prio, CoreOf, nthreads, c, current[c])
<1>1. nthreads \in Nat /\ current[c] \in 0 .. nthreads-1 /\ \A i \in 0 .. nthreads-1 : prio[i] \in Nat
  BY DEF Tick, TypeOK, CurrentPublished
<1>2. next # NoThread /\ current' = [current EXCEPT ![c] = next]
  BY DEF Tick
<1>3. next \in BestOf(prio, Candidates(AllReady, CoreOf, nthreads, c))
  BY <1>1, <1>2, PickNextIsBest
<1>4. next \in Published
  <2> HIDE DEF next
  <2>1. QED BY <1>3 DEF BestOf, Candidates
<1>5. QED BY <1>2, <1>4

\* sched_on_tick().
LEMMA TickLockInv ==
  ASSUME LockInv, NEW c \in Cores, Tick(c) PROVE LockInv'
<1> USE DEF LockInv
<1>1. PICK next \in Published : current' = [current EXCEPT ![c] = next]
  BY TickCurrent
<1>2. /\ UNCHANGED <<nthreads, prio, guard, held, owner, want, selfPrio, seen, mine>>
      /\ pc' = [pc EXCEPT ![current[c]] = IF @ = "wait" THEN "lock" ELSE @]
  BY DEF Tick, locks
<1>3. \A t \in Threads : pc'[t] = pc[t] \/ (pc[t] = "wait" /\ pc'[t] = "lock")
  BY <1>2 DEF TypeOK
<1>4. pc' \in [Threads -> Points]
  BY <1>2, <1>3, PointNames DEF TypeOK
<1>5. current' \in [Cores -> Threads \cup {NoThread}] /\ CurrentPublished'
  <2>1. next \in Threads
    BY ThreadFacts DEF TypeOK, Published
  <2>2. QED BY <1>1, <1>2, <2>1 DEF TypeOK, CurrentPublished, Published
<1>6. TypeOK'
  BY <1>2, <1>4, <1>5 DEF TypeOK
<1>7. GuardNames'
  BY <1>2, <1>3 DEF GuardNames, InGuard
<1>8. CallsAgree'
  BY <1>2, <1>3 DEF CallsAgree, Releasing
<1>9. HeldHasOwner' /\ MutualExclusion'
  BY <1>2 DEF HeldHasOwner, MutualExclusion
<1>10. QED BY <1>5, <1>6, <1>7, <1>8, <1>9

\* thread_create_on() while the mutexes are in use.
LEMMA SpawnLockInv ==
  ASSUME LockInv, Spawn PROVE LockInv'
<1> USE DEF LockInv, Spawn, locks, calls
<1>1. nthreads' \in 1 .. NumThreads
  BY MutexAssumption DEF TypeOK
<1>2. TypeOK'
  BY <1>1 DEF TypeOK
<1>3. CurrentPublished'
  BY MutexAssumption DEF TypeOK, CurrentPublished, Published
<1>4. GuardNames' /\ CallsAgree' /\ HeldHasOwner' /\ MutualExclusion'
  BY DEF GuardNames, CallsAgree, HeldHasOwner, MutualExclusion
<1>5. QED BY <1>2, <1>3, <1>4

\* A step of t leaves the other threads' calls alone.
Others(t) ==
  \A u \in Threads \ {t} :
    /\ pc'[u] = pc[u] /\ want'[u] = want[u] /\ selfPrio'[u] = selfPrio[u]
    /\ seen'[u] = seen[u] /\ mine'[u] = mine[u]

\* The beginning of a call.
LEMMA CallLockInv ==
  ASSUME LockInv, NEW t \in Threads, NEW m \in Mutexes,
         CallLock(t, m) \/ CallTrylock(t, m) \/ CallUnlock(t, m)
  PROVE  LockInv'
<1> USE DEF LockInv
<1>1. /\ UNCHANGED <<nthreads, current, prio, guard, held, owner, seen>>
      /\ pc' = [pc EXCEPT ![t] = pc'[t]] /\ pc'[t] \in {"lock", "try", "unlock"}
      /\ want' = [want EXCEPT ![t] = m]
      /\ selfPrio' = selfPrio \/ selfPrio' = [selfPrio EXCEPT ![t] = prio[t]]
      /\ mine' = mine \/ (pc'[t] = "unlock" /\ mine' = [mine EXCEPT ![t] = @ \ {m}])
      /\ pc'[t] = "unlock" => m \in mine[t] /\ m \notin mine'[t]
  BY DEF CallLock, CallTrylock, CallUnlock, At, Goto, sched, locks, TypeOK
<1>2. Others(t) /\ want'[t] = m /\ \A u \in Threads : mine'[u] \subseteq mine[u]
  BY <1>1 DEF TypeOK, Others
<1>3. TypeOK'
  <2>1. pc'[t] \in Points /\ pc \in [Threads -> Points]
    BY <1>1, PointNames DEF TypeOK
  <2>5. pc' \in [Threads -> Points]
    BY <1>1, <2>1
  <2>2. want' \in [Threads -> Mutexes] /\ selfPrio' \in [Threads -> Nat]
    BY <1>1 DEF TypeOK
  <2>3. mine' \in [Threads -> SUBSET Mutexes]
    BY <1>1 DEF TypeOK
  <2>4. QED BY <1>1, <2>5, <2>2, <2>3 DEF TypeOK
<1>4. CurrentPublished' /\ HeldHasOwner'
  BY <1>1 DEF CurrentPublished, Published, HeldHasOwner
<1>5. GuardNames'
  BY <1>1, <1>2 DEF GuardNames, Others, InGuard
<1>6. pc'[t] = "unlock" => owner[m] = t
  BY <1>1 DEF MutualExclusion
<1>7. CallsAgree'
  BY <1>1, <1>2, <1>6 DEF CallsAgree, Others, Releasing
<1>8. MutualExclusion'
  BY <1>1, <1>2 DEF MutualExclusion
<1>9. QED BY <1>3, <1>4, <1>5, <1>7, <1>8

\* spin_lock().
LEMMA SpinLockInv ==
  ASSUME LockInv, NEW t \in Threads, SpinLock(t) PROVE LockInv'
<1> USE DEF LockInv
<1>1. /\ UNCHANGED <<nthreads, current, prio, held, owner, want, selfPrio, seen, mine>>
      /\ pc' = [pc EXCEPT ![t] = pc'[t]]
      /\ pc'[t] \in {"lock_in", "try_in", "unlock_in"}
      /\ pc'[t] = "unlock_in" => pc[t] = "unlock"
      /\ guard[want[t]] = NoThread /\ guard' = [guard EXCEPT ![want[t]] = t]
  BY DEF SpinLock, At, Goto, sched, TypeOK
<1>2. Others(t) /\ want[t] \in Mutexes
  BY <1>1 DEF TypeOK, Others
<1>3. TypeOK'
  <2>3. pc'[t] \in Points /\ pc \in [Threads -> Points]
    BY <1>1, PointNames DEF TypeOK
  <2>1. pc' \in [Threads -> Points] /\ guard' \in [Mutexes -> Threads \cup {NoThread}]
    BY <1>1, <1>2, <2>3 DEF TypeOK
  <2>2. QED BY <1>1, <2>1 DEF TypeOK
<1>4. GuardNames'
  <2>1. \A u \in Threads \ {t} : pc'[u] \in InGuard => guard[want[u]] = u /\ want[u] # want[t]
    BY <1>1, <1>2, ThreadFacts DEF GuardNames, Others
  <2>2. guard'[want[t]] = t /\ \A u \in Threads \ {t} : want[u] # want[t] => guard'[want[u]] = guard[want[u]]
    BY <1>1, <1>2 DEF TypeOK
  <2>3. QED BY <1>1, <2>1, <2>2 DEF GuardNames
<1>5. CallsAgree'
  BY <1>1, <1>2 DEF CallsAgree, Others, Releasing
<1>6. CurrentPublished' /\ HeldHasOwner' /\ MutualExclusion'
  BY <1>1 DEF CurrentPublished, Published, HeldHasOwner, MutualExclusion
<1>7. QED BY <1>3, <1>4, <1>5, <1>6

\* Inside the guard, before the mutex changes hands, and wake-ups.
LEMMA InsideLockInv ==
  ASSUME LockInv, NEW t \in Threads,
         SeesFree(t) \/ TryFail(t) \/ LockBusy(t) \/ BoostTest(t) \/ Wake(t)
  PROVE  LockInv'
<1> USE DEF LockInv
<1>0. want[t] \in Mutexes
  BY DEF TypeOK
<1>1. /\ UNCHANGED <<nthreads, current, prio, guard, held, owner, want, selfPrio, mine>>
      /\ pc' = [pc EXCEPT ![t] = pc'[t]]
      /\ pc'[t] \in {"lock_take", "try_take", "try_no", "boost", "boost_write", "lock_busy", "lock"}
      /\ pc'[t] \in InGuard => pc[t] \in InGuard
      /\ pc'[t] \in {"lock_take", "try_take"} => ~held[want[t]]
  BY DEF SeesFree, TryFail, LockBusy, BoostTest, Wake, At, Goto, sched, locks, TypeOK, InGuard
<1>2. /\ seen' \in [Threads -> Threads \cup {NoThread}]
      /\ \A u \in Threads \ {t} : seen'[u] = seen[u]
      /\ pc'[t] \in {"boost", "boost_write"} => seen'[t] \in Threads /\ seen'[t] = owner[want[t]]
  <2>1. CASE LockBusy(t)
    <3>1. owner[want[t]] \in Threads
      BY <1>0, <2>1 DEF LockBusy, HeldHasOwner, TypeOK
    <3>2. QED BY <2>1, <3>1 DEF LockBusy, TypeOK, Goto
  <2>2. CASE BoostTest(t)
    BY <2>2 DEF BoostTest, CallsAgree, TypeOK, At, Goto, locks, sched
  <2>3. CASE SeesFree(t) \/ TryFail(t) \/ Wake(t)
    BY <2>3 DEF SeesFree, TryFail, Wake, TypeOK, At, Goto
  <2>4. QED BY <2>1, <2>2, <2>3
<1>3. Others(t)
  BY <1>1, <1>2 DEF TypeOK, Others
<1>4. TypeOK'
  <2>1. pc'[t] \in Points /\ pc \in [Threads -> Points]
    BY <1>1, PointNames DEF TypeOK
  <2>2. pc' \in [Threads -> Points]
    BY <1>1, <2>1
  <2>3. QED BY <1>1, <1>2, <2>2 DEF TypeOK
<1>5. GuardNames'
  BY <1>1, <1>3 DEF GuardNames, Others
<1>6. CallsAgree'
  BY <1>1, <1>2, <1>3 DEF CallsAgree, Others, Releasing
<1>7. CurrentPublished' /\ HeldHasOwner' /\ MutualExclusion'
  BY <1>1 DEF CurrentPublished, Published, HeldHasOwner, MutualExclusion
<1>8. QED BY <1>4, <1>5, <1>6, <1>7

\* The two assignments to a priority.
LEMMA PriorityLockInv ==
  ASSUME LockInv, NEW t \in Threads, BoostWrite(t) \/ UnlockRestore(t)
  PROVE  LockInv'
<1> USE DEF LockInv
<1>1. /\ UNCHANGED <<nthreads, current, guard, held, owner, want, selfPrio, seen, mine>>
      /\ pc' = [pc EXCEPT ![t] = pc'[t]]
      /\ \/ pc[t] = "boost_write" /\ pc'[t] = "lock_busy"
         \/ pc[t] = "unlock_in" /\ pc'[t] = "unlock_clear"
  BY DEF BoostWrite, UnlockRestore, At, Goto, locks, TypeOK
<1>2. prio' \in [Threads -> Nat]
  <2>1. CASE BoostWrite(t)
    BY <2>1 DEF BoostWrite, CallsAgree, TypeOK, At
  <2>2. CASE UnlockRestore(t)
    <3>1. owner[want[t]] = t
      BY <2>2 DEF UnlockRestore, CallsAgree, Releasing, At
    <3>2. QED BY <2>2, <3>1, ThreadFacts DEF UnlockRestore, TypeOK
  <2>3. QED BY <2>1, <2>2
<1>3. Others(t)
  BY <1>1 DEF TypeOK, Others
<1>4. TypeOK'
  <2>1. pc'[t] \in Points /\ pc \in [Threads -> Points]
    BY <1>1, PointNames DEF TypeOK
  <2>2. pc' \in [Threads -> Points]
    BY <1>1, <2>1
  <2>3. QED BY <1>1, <1>2, <2>2 DEF TypeOK
<1>5. GuardNames'
  BY <1>1, <1>3 DEF GuardNames, Others, InGuard
<1>6. CallsAgree'
  BY <1>1, <1>3 DEF CallsAgree, Others, Releasing
<1>7. CurrentPublished' /\ HeldHasOwner' /\ MutualExclusion'
  BY <1>1 DEF CurrentPublished, Published, HeldHasOwner, MutualExclusion
<1>8. QED BY <1>4, <1>5, <1>6, <1>7

\* The mutex changes hands: nobody else is inside its guard, and nobody else
\* has it.
LEMMA HandLockInv ==
  ASSUME LockInv, NEW t \in Threads, Take(t) \/ UnlockClear(t)
  PROVE  LockInv'
<1> DEFINE m == want[t]
<1> USE DEF LockInv
<1>0. m \in Mutexes
  BY DEF TypeOK
<1>1. /\ UNCHANGED <<nthreads, current, prio, guard, want, selfPrio, seen, mine>>
      /\ pc' = [pc EXCEPT ![t] = pc'[t]]
      /\ \/ /\ pc[t] \in {"lock_take", "try_take"} /\ pc'[t] = "lock_got"
            /\ held' = [held EXCEPT ![m] = TRUE] /\ owner' = [owner EXCEPT ![m] = t]
         \/ /\ pc[t] = "unlock_clear" /\ pc'[t] = "unlock_out"
            /\ held' = [held EXCEPT ![m] = FALSE] /\ owner' = [owner EXCEPT ![m] = NoThread]
  BY DEF Take, UnlockClear, At, Goto, sched, TypeOK
<1>2. Others(t)
  BY <1>1 DEF TypeOK, Others
<1>3. \A u \in Threads \ {t} : pc[u] \in InGuard => want[u] # m
  BY <1>1 DEF GuardNames, InGuard
<1>4. owner[m] = NoThread \/ owner[m] = t
  BY <1>0, <1>1 DEF CallsAgree, HeldHasOwner, Releasing
<1>5. \A u \in Threads : m \notin mine[u]
  BY <1>0, <1>1, <1>4, ThreadFacts DEF MutualExclusion, CallsAgree, HeldHasOwner, Releasing
<1>6. held' \in [Mutexes -> BOOLEAN] /\ owner' \in [Mutexes -> Threads \cup {NoThread}]
  <2>1. owner' \in [Mutexes -> Threads \cup {NoThread}]
    BY <1>0, <1>1 DEF TypeOK
  <2>2. held \in [Mutexes -> BOOLEAN]
    BY DEF TypeOK
  <2>3. \E b \in BOOLEAN : held' = [held EXCEPT ![m] = b]
    BY <1>1
  <2>4. held' \in [Mutexes -> BOOLEAN]
    BY <1>0, <2>2, <2>3
  <2>5. QED BY <2>1, <2>4
<1>7. \A n \in Mutexes \ {m} : held'[n] = held[n] /\ owner'[n] = owner[n]
  BY <1>0, <1>1 DEF TypeOK
<1>8. \/ pc'[t] = "lock_got" /\ held'[m] = TRUE /\ owner'[m] = t
      \/ pc'[t] = "unlock_out" /\ held'[m] = FALSE /\ owner'[m] = NoThread
  BY <1>0, <1>1 DEF TypeOK
<1>9. TypeOK'
  <2>1. pc'[t] \in Points /\ pc \in [Threads -> Points]
    BY <1>1, PointNames DEF TypeOK
  <2>2. pc' \in [Threads -> Points]
    BY <1>1, <2>1
  <2>3. QED BY <1>1, <1>6, <2>2 DEF TypeOK
<1>10. GuardNames'
  BY <1>1, <1>2 DEF GuardNames, Others, InGuard
<1>11. CallsAgree'
  <2>1. ASSUME NEW u \in Threads \ {t}, want[u] = m
        PROVE  pc[u] \notin {"lock_take", "try_take", "lock_got", "boost", "boost_write"} \cup Releasing
    BY <1>3, <1>4, <2>1, ThreadFacts DEF CallsAgree, Releasing, InGuard
  <2>2. \A u \in Threads \ {t} : want[u] \in Mutexes /\ want'[u] = want[u] /\ pc'[u] = pc[u] /\ seen'[u] = seen[u] /\ mine'[u] = mine[u]
    BY <1>2 DEF Others, TypeOK
  <2>3. QED BY <1>1, <1>7, <1>8, <2>1, <2>2 DEF CallsAgree, Releasing
<1>12. HeldHasOwner'
  BY <1>0, <1>7, <1>8, ThreadFacts DEF HeldHasOwner
<1>13. MutualExclusion'
  BY <1>1, <1>5, <1>7 DEF MutualExclusion
<1>14. CurrentPublished'
  BY <1>1 DEF CurrentPublished, Published
<1>15. QED BY <1>9, <1>10, <1>11, <1>12, <1>13, <1>14

\* spin_unlock().
LEMMA SpinUnlockLockInv ==
  ASSUME LockInv, NEW t \in Threads, SpinUnlock(t) PROVE LockInv'
<1> DEFINE m == want[t]
<1> USE DEF LockInv
<1>0. m \in Mutexes /\ AnyMutex \in Mutexes
  BY MutexAssumption DEF TypeOK, AnyMutex
<1>1. /\ UNCHANGED <<nthreads, current, prio, held, owner>>
      /\ guard' = [guard EXCEPT ![m] = NoThread]
      /\ seen' = [seen EXCEPT ![t] = NoThread]
      /\ pc' = [pc EXCEPT ![t] = pc'[t]] /\ pc'[t] \in {"wait", "idle"}
      /\ pc[t] \in InGuard
      /\ want' = want \/ want' = [want EXCEPT ![t] = AnyMutex]
      /\ selfPrio' = selfPrio \/ selfPrio' = [selfPrio EXCEPT ![t] = 0]
      /\ \/ mine' = mine
         \/ pc[t] = "lock_got" /\ mine' = [mine EXCEPT ![t] = @ \cup {m}]
  BY DEF SpinUnlock, At, Goto, sched, TypeOK, InGuard
<1>2. Others(t)
  BY <1>1 DEF TypeOK, Others
<1>3. TypeOK'
  <2>1. pc'[t] \in Points /\ pc \in [Threads -> Points]
    BY <1>1, PointNames DEF TypeOK
  <2>2. pc' \in [Threads -> Points]
    BY <1>1, <2>1
  <2>3. guard' \in [Mutexes -> Threads \cup {NoThread}] /\ seen' \in [Threads -> Threads \cup {NoThread}]
    BY <1>1 DEF TypeOK
  <2>4. want' \in [Threads -> Mutexes] /\ selfPrio' \in [Threads -> Nat]
    BY <1>0, <1>1 DEF TypeOK
  <2>5. mine' \in [Threads -> SUBSET Mutexes]
    BY <1>0, <1>1 DEF TypeOK
  <2>6. QED BY <1>1, <2>2, <2>3, <2>4, <2>5 DEF TypeOK
<1>4. GuardNames'
  <2>1. \A u \in Threads \ {t} : pc[u] \in InGuard => want[u] # m /\ guard'[want[u]] = guard[want[u]]
    BY <1>0, <1>1 DEF GuardNames, TypeOK
  <2>2. pc'[t] \notin InGuard
    BY <1>1 DEF InGuard
  <2>3. QED BY <1>2, <2>1, <2>2 DEF GuardNames, Others
<1>5. CallsAgree'
  BY <1>1, <1>2 DEF CallsAgree, Others, Releasing
<1>6. MutualExclusion'
  <2>1. pc[t] = "lock_got" => held[m] /\ owner[m] = t
    BY <1>0, ThreadFacts DEF CallsAgree, HeldHasOwner
  <2>2. QED BY <1>0, <1>1, <2>1 DEF MutualExclusion, TypeOK
<1>7. CurrentPublished' /\ HeldHasOwner'
  BY <1>1 DEF CurrentPublished, Published, HeldHasOwner
<1>8. QED BY <1>3, <1>4, <1>5, <1>6, <1>7

\* Every step preserves the lock's invariant.
LEMMA LockNextInv == LockInv /\ [Next]_vars => LockInv'
<1> SUFFICES ASSUME LockInv, [Next]_vars PROVE LockInv'
  OBVIOUS
<1>1. CASE Spawn
  BY <1>1, SpawnLockInv
<1>2. ASSUME NEW c \in Cores, Tick(c) PROVE LockInv'
  BY <1>2, TickLockInv
<1>3. ASSUME NEW t \in Threads, NEW m \in Mutexes,
             CallLock(t, m) \/ CallTrylock(t, m) \/ CallUnlock(t, m)
      PROVE  LockInv'
  BY <1>3, CallLockInv
<1>4. ASSUME NEW t \in Threads, SpinLock(t) PROVE LockInv'
  BY <1>4, SpinLockInv
<1>5. ASSUME NEW t \in Threads,
             SeesFree(t) \/ TryFail(t) \/ LockBusy(t) \/ BoostTest(t) \/ Wake(t)
      PROVE  LockInv'
  BY <1>5, InsideLockInv
<1>6. ASSUME NEW t \in Threads, BoostWrite(t) \/ UnlockRestore(t) PROVE LockInv'
  BY <1>6, PriorityLockInv
<1>7. ASSUME NEW t \in Threads, Take(t) \/ UnlockClear(t) PROVE LockInv'
  BY <1>7, HandLockInv
<1>8. ASSUME NEW t \in Threads, SpinUnlock(t) PROVE LockInv'
  BY <1>8, SpinUnlockLockInv
<1>9. CASE UNCHANGED vars
  BY <1>9 DEF vars, sched, locks, calls, LockInv, TypeOK, CurrentPublished, Published, GuardNames,
              CallsAgree, HeldHasOwner, MutualExclusion
<1>10. QED
  BY <1>1, <1>2, <1>3, <1>4, <1>5, <1>6, <1>7, <1>8, <1>9 DEF Next, Proceed

-----------------------------------------------------------------------------
\* Steps that change neither priorities nor owners keep every reason: an
\* asking thread stops asking only by taking a mutex that has no owner.
LEMMA QuietReasons ==
  ASSUME LockInv, Reasons, [Next]_vars, prio' = prio, owner' = owner
  PROVE  Reasons'
<1> USE DEF LockInv
<1>1. ASSUME NEW w \in Threads, pc[w] \in Asking, owner[want[w]] # NoThread
      PROVE  pc'[w] \in Asking /\ want'[w] = want[w] /\ selfPrio'[w] = selfPrio[w]
  <2>1. want[w] \in Mutexes /\ held[want[w]]
    BY <1>1 DEF TypeOK, HeldHasOwner
  <2>2. CASE \E c \in Cores : Tick(c)
    BY <1>1, <2>2 DEF Tick, TypeOK, Asking
  <2>3. CASE Spawn \/ UNCHANGED vars
    BY <1>1, <2>3 DEF Spawn, calls, vars
  <2>4. ASSUME NEW t \in Threads, t # w, Proceed(t) \/ Wake(t) \/ \E m \in Mutexes : CallLock(t, m) \/ CallTrylock(t, m)
        PROVE  pc'[w] = pc[w] /\ want'[w] = want[w] /\ selfPrio'[w] = selfPrio[w]
    BY <2>4 DEF Proceed, Wake, CallLock, CallTrylock, CallUnlock, SpinLock, SeesFree, Take, LockBusy,
       BoostTest, BoostWrite, TryFail, UnlockRestore, UnlockClear, SpinUnlock, Goto, locks, TypeOK
  <2>5. CASE Proceed(w) \/ Wake(w) \/ \E m \in Mutexes : CallLock(w, m) \/ CallTrylock(w, m)
    BY <1>1, <2>1, <2>5 DEF Proceed, Wake, CallLock, CallTrylock, CallUnlock, SpinLock, SeesFree, Take, LockBusy,
       BoostTest, BoostWrite, TryFail, UnlockRestore, UnlockClear, SpinUnlock, At, Goto, locks, TypeOK, Asking
  <2>6. QED BY <1>1, <2>2, <2>3, <2>4, <2>5 DEF Next
<1>2. ASSUME NEW t \in Threads, pc'[t] = "unlock_clear"
      PROVE  (pc[t] = "unlock_clear" /\ want'[t] = want[t]) \/ (pc[t] = "unlock_in" /\ UnlockRestore(t))
  BY <1>2 DEF Next, vars, calls, Tick, Spawn, Proceed, Wake, CallLock, CallTrylock, CallUnlock, SpinLock, SeesFree, Take, LockBusy,
     BoostTest, BoostWrite, TryFail, UnlockRestore, UnlockClear, SpinUnlock, At, Goto, locks, TypeOK
<1>3. ASSUME NEW t \in Threads, pc'[t] = "boost_write"
      PROVE  selfPrio'[t] < BasePrio[seen'[t]]
  <2>1. \/ pc[t] = "boost_write" /\ selfPrio'[t] = selfPrio[t] /\ seen'[t] = seen[t]
        \/ BoostTest(t)
    BY <1>3 DEF Next, vars, calls, Tick, Spawn, Proceed, Wake, CallLock, CallTrylock, CallUnlock, SpinLock, SeesFree, Take, LockBusy,
       BoostTest, BoostWrite, TryFail, UnlockRestore, UnlockClear, SpinUnlock, At, Goto, locks, TypeOK
  <2>2. CASE BoostTest(t)
    <3>1. seen[t] \in Threads /\ selfPrio[t] < prio[seen[t]] /\ UNCHANGED <<selfPrio, seen>>
      BY <1>3, <2>2 DEF BoostTest, CallsAgree, At, Goto, TypeOK
    <3>2. prio[seen[t]] <= BasePrio[seen[t]] /\ prio[seen[t]] \in Nat /\ selfPrio[t] \in Nat
          /\ BasePrio[seen[t]] \in Nat
      BY <3>1, ThreadFacts DEF Reasons, TypeOK
    <3>3. QED BY <3>1, <3>2
  <2>3. QED BY <2>1, <2>2 DEF Reasons
<1>4. ASSUME NEW t \in Threads, prio'[t] # BasePrio[t]
      PROVE  \E m \in Mutexes, w \in Threads :
               Reason(t, m, w)' /\ (pc'[t] = "unlock_clear" => m # want'[t])
  <2>1. PICK m \in Mutexes, w \in Threads :
               Reason(t, m, w) /\ (pc[t] = "unlock_clear" => m # want[t])
    BY <1>4 DEF Reasons
  <2>2. Reason(t, m, w)'
    BY <1>1, <2>1, ThreadFacts DEF Reason
  <2>3. ~UnlockRestore(t)
    BY <1>4, ThreadFacts DEF UnlockRestore, CallsAgree, Releasing, At, TypeOK
  <2>4. QED BY <1>2, <2>1, <2>2, <2>3
<1>5. QED BY <1>3, <1>4 DEF Reasons

\* A new boost is its own reason.
LEMMA BoostReasons ==
  ASSUME LockInv, Reasons, NEW t \in Threads, BoostWrite(t)
  PROVE  Reasons'
<1> DEFINE s == seen[t]
<1> USE DEF LockInv
<1>1. /\ pc[t] = "boost_write" /\ s \in Threads /\ s = owner[want[t]] /\ want[t] \in Mutexes
      /\ selfPrio[t] < BasePrio[s] /\ selfPrio[t] \in Nat /\ BasePrio[s] \in Nat
  BY ThreadFacts DEF BoostWrite, At, CallsAgree, Reasons, TypeOK
<1>2. /\ UNCHANGED <<owner, want, selfPrio, seen>>
      /\ pc' = [pc EXCEPT ![t] = "lock_busy"]
      /\ prio' = [prio EXCEPT ![s] = selfPrio[t]]
  BY DEF BoostWrite, Goto, locks
<1>3. pc'[t] = "lock_busy" /\ \A u \in Threads \ {t} : pc'[u] = pc[u]
  BY <1>2 DEF TypeOK
<1>4. prio'[s] = selfPrio[t] /\ \A u \in Threads \ {s} : prio'[u] = prio[u]
  BY <1>1, <1>2 DEF TypeOK
<1>5. \A u \in Threads : prio'[u] <= BasePrio[u]
  BY <1>1, <1>4 DEF Reasons
<1>6. \A u \in Threads : pc'[u] = "boost_write" => selfPrio'[u] < BasePrio[seen'[u]]
  BY <1>2, <1>3 DEF Reasons
<1>7. Reason(s, want[t], t)' /\ (pc'[s] = "unlock_clear" => want[t] # want'[s])
  <2>1. Reason(s, want[t], t)'
    BY <1>1, <1>2, <1>3, <1>4 DEF Reason, Asking
  <2>2. ASSUME pc'[s] = "unlock_clear" PROVE want[t] # want[s]
    BY <1>1, <1>3, <2>2 DEF GuardNames, InGuard
  <2>3. QED BY <1>2, <2>1, <2>2
<1>8. ASSUME NEW u \in Threads \ {s}, prio'[u] # BasePrio[u]
      PROVE  \E m \in Mutexes, w \in Threads :
               Reason(u, m, w)' /\ (pc'[u] = "unlock_clear" => m # want'[u])
  <2>1. PICK m \in Mutexes, w \in Threads :
               Reason(u, m, w) /\ (pc[u] = "unlock_clear" => m # want[u])
    BY <1>4, <1>8 DEF Reasons
  <2>2. Reason(u, m, w)'
    BY <1>2, <1>3, <1>4, <2>1 DEF Reason, Asking
  <2>3. QED BY <1>2, <1>3, <2>1, <2>2
<1>9. \A u \in Threads : prio'[u] # BasePrio[u] =>
        \E m \in Mutexes, w \in Threads :
          Reason(u, m, w)' /\ (pc'[u] = "unlock_clear" => m # want'[u])
  <2>1. ASSUME NEW u \in Threads, u = s
        PROVE  Reason(u, want[t], t)' /\ (pc'[u] = "unlock_clear" => want[t] # want'[u])
    BY <1>2, <1>7, <2>1 DEF Reason
  <2>2. ASSUME NEW u \in Threads, u = s
        PROVE  \E m \in Mutexes, w \in Threads :
                 Reason(u, m, w)' /\ (pc'[u] = "unlock_clear" => m # want'[u])
    BY <1>1, <1>2, <2>1, <2>2 DEF Reason
  <2>3. QED BY <1>8, <2>2
<1>10. QED BY <1>5, <1>6, <1>9 DEF Reasons

\* The steps of t that restore a priority or change the owner of a mutex.
LEMMA OwnerReasons ==
  ASSUME LockInv, Reasons, NEW t \in Threads, Take(t) \/ UnlockRestore(t) \/ UnlockClear(t)
  PROVE  Reasons'
<1> DEFINE m0 == want[t]
<1> USE DEF LockInv
<1>1. /\ UNCHANGED <<want, selfPrio, seen>> /\ m0 \in Mutexes
      /\ pc' = [pc EXCEPT ![t] = pc'[t]]
      /\ \/ /\ pc[t] \in {"lock_take", "try_take"} /\ pc'[t] = "lock_got"
            /\ prio' = prio /\ owner[m0] = NoThread
         \/ /\ pc[t] = "unlock_in" /\ pc'[t] = "unlock_clear"
            /\ prio' = [prio EXCEPT ![t] = BasePrio[t]] /\ owner' = owner
         \/ /\ pc[t] = "unlock_clear" /\ pc'[t] = "unlock_out"
            /\ prio' = prio /\ owner[m0] = t
  BY ThreadFacts DEF Take, UnlockRestore, UnlockClear, At, Goto, sched, locks, TypeOK, CallsAgree,
     HeldHasOwner, Releasing
<1>2. \A n \in Mutexes \ {m0} : owner'[n] = owner[n]
  BY <1>1 DEF Take, UnlockClear, UnlockRestore, TypeOK, locks
<1>3. \A u \in Threads \ {t} : pc'[u] = pc[u]
  BY <1>1 DEF TypeOK
<1>4. \A u \in Threads : prio'[u] = prio[u] \/ (u = t /\ prio'[u] = BasePrio[u])
  BY <1>1 DEF TypeOK
<1>5. \A u \in Threads : prio'[u] <= BasePrio[u]
  BY <1>4, ThreadFacts DEF Reasons
<1>6. \A u \in Threads : pc'[u] = "boost_write" => selfPrio'[u] < BasePrio[seen'[u]]
  BY <1>1, <1>3 DEF Reasons
<1>7. ASSUME NEW u \in Threads, prio'[u] # BasePrio[u]
      PROVE  \E m \in Mutexes, w \in Threads :
               Reason(u, m, w)' /\ (pc'[u] = "unlock_clear" => m # want'[u])
  <2>1. prio'[u] = prio[u] /\ ~(u = t /\ pc[t] = "unlock_in")
    BY <1>1, <1>4, <1>7 DEF TypeOK
  <2>2. PICK m \in Mutexes, w \in Threads :
               Reason(u, m, w) /\ (pc[u] = "unlock_clear" => m # want[u])
    BY <1>7, <2>1 DEF Reasons
  <2>3. w # t
    BY <1>1, <2>2, ThreadFacts DEF Reason, Asking
  <2>4. owner'[m] = u
    BY <1>1, <1>2, <2>1, <2>2, ThreadFacts DEF Reason
  <2>5. Reason(u, m, w)'
    BY <1>1, <1>3, <2>1, <2>2, <2>3, <2>4 DEF Reason
  <2>6. QED BY <1>1, <1>3, <2>1, <2>2, <2>5
<1>8. QED BY <1>5, <1>6, <1>7 DEF Reasons

\* Every step preserves the whole invariant.
LEMMA PiNextInv == PiInv /\ [Next]_vars => PiInv'
<1> SUFFICES ASSUME PiInv, [Next]_vars PROVE Reasons'
  BY LockNextInv DEF PiInv
<1>1. ASSUME NEW t \in Threads, BoostWrite(t) PROVE Reasons'
  BY <1>1, BoostReasons DEF PiInv
<1>2. ASSUME NEW t \in Threads, Take(t) \/ UnlockRestore(t) \/ UnlockClear(t) PROVE Reasons'
  BY <1>2, OwnerReasons DEF PiInv
<1>3. CASE prio' = prio /\ owner' = owner
  BY <1>3, QuietReasons DEF PiInv
<1>4. \/ prio' = prio /\ owner' = owner
      \/ \E t \in Threads : BoostWrite(t) \/ Take(t) \/ UnlockRestore(t) \/ UnlockClear(t)
  BY DEF Next, Proceed, vars, sched, locks, Tick, Spawn, Wake, CallLock, CallTrylock, CallUnlock,
     SpinLock, SeesFree, LockBusy, BoostTest, TryFail, SpinUnlock
<1>5. QED BY <1>1, <1>2, <1>3, <1>4

LEMMA PiInvariant == Spec => []PiInv
<1>1. QED BY InitInv, PiNextInv, PTL DEF Spec

\* Every variable of the mutex keeps its type.
THEOREM PiMutexTypeCorrect == Spec => []TypeOK
<1>1. PiInv => TypeOK
  BY DEF PiInv, LockInv
<1>2. QED BY <1>1, PiInvariant, PTL

\* mutex_lock(), mutex_trylock() and mutex_unlock() keep two threads out of
\* the same mutex, on any number of cores, with preemption at any point.
THEOREM PiMutexExclusion == Spec => []MutualExclusion
<1>1. PiInv => MutualExclusion
  BY DEF PiInv, LockInv
<1>2. QED BY <1>1, PiInvariant, PTL

\* A thread is boosted only while somebody asks for a mutex it owns, and at
\* the level of one who asks: mutex_unlock() leaves no boost behind.
THEOREM PiMutexBoostJustified == Spec => []BoostJustified
<1>1. ASSUME PiInv PROVE BoostJustified
  <2> SUFFICES ASSUME NEW t \in Threads, prio[t] # BasePrio[t]
               PROVE  /\ prio[t] < BasePrio[t]
                      /\ \E m \in Mutexes, w \in Threads : Reason(t, m, w)
    BY DEF BoostJustified, Reason
  <2>1. prio[t] \in Nat /\ BasePrio[t] \in Nat /\ prio[t] <= BasePrio[t]
    BY <1>1, ThreadFacts DEF PiInv, LockInv, Reasons, TypeOK
  <2>2. \E m \in Mutexes, w \in Threads : Reason(t, m, w)
    BY <1>1 DEF PiInv, Reasons
  <2>3. QED BY <2>1, <2>2
<1>2. QED BY <1>1, PiInvariant, PTL

-----------------------------------------------------------------------------
\* A guard names only a thread that is between spin_lock() and spin_unlock() of
\* its mutex (and every such thread, says GuardNames).
GuardNotLeaked ==
  \A m \in Mutexes, t \in Threads : guard[m] = t => pc[t] \in InGuard /\ want[t] = m

\* A mutex that is held belongs to a thread that is yet to unlock it: its call to
\* mutex_lock() is about to return, or it has the mutex, or it is unlocking.
HeldWillBeReleased ==
  \A m \in Mutexes, t \in Threads : owner[m] = t =>
    m \in mine[t] \/ (want[t] = m /\ pc[t] \in Releasing \cup {"lock_got"})

NothingLeaks == GuardNotLeaked /\ HeldWillBeReleased

\* A thread leaves a guard only by freeing it.
LEMMA GuardStep == LockInv /\ GuardNotLeaked /\ [Next]_vars => GuardNotLeaked'
<1> SUFFICES ASSUME LockInv, GuardNotLeaked, [Next]_vars PROVE GuardNotLeaked'
  OBVIOUS
<1> USE ThreadFacts DEF LockInv, TypeOK, At, Goto, GuardNotLeaked, InGuard
<1>1. ASSUME NEW t \in Threads,
             \/ SeesFree(t) \/ TryFail(t) \/ LockBusy(t) \/ BoostTest(t) \/ Wake(t)
             \/ BoostWrite(t) \/ UnlockRestore(t) \/ Take(t) \/ UnlockClear(t)
      PROVE  GuardNotLeaked'
  <2>1. UNCHANGED <<guard, want>> /\ \A u \in Threads : pc[u] \in InGuard => pc'[u] \in InGuard
    BY <1>1 DEF SeesFree, TryFail, LockBusy, BoostTest, Wake, BoostWrite, UnlockRestore, Take,
       UnlockClear, locks
  <2>2. QED BY <2>1
<1>2. ASSUME NEW t \in Threads, NEW m \in Mutexes,
             CallLock(t, m) \/ CallTrylock(t, m) \/ CallUnlock(t, m)
      PROVE  GuardNotLeaked'
  <2>1. /\ UNCHANGED guard /\ pc[t] = "idle"
        /\ \A u \in Threads \ {t} : pc'[u] = pc[u] /\ want'[u] = want[u]
    BY <1>2 DEF CallLock, CallTrylock, CallUnlock, locks
  <2>2. QED BY <2>1
<1>3. ASSUME NEW t \in Threads, SpinLock(t) PROVE GuardNotLeaked'
  <2>1. /\ guard' = [guard EXCEPT ![want[t]] = t] /\ want' = want /\ pc'[t] \in InGuard
        /\ \A u \in Threads \ {t} : pc'[u] = pc[u]
    BY <1>3 DEF SpinLock
  <2>2. QED BY <2>1
<1>4. ASSUME NEW t \in Threads, SpinUnlock(t) PROVE GuardNotLeaked'
  <2>1. /\ guard' = [guard EXCEPT ![want[t]] = NoThread] /\ pc[t] \in InGuard
        /\ \A u \in Threads \ {t} : pc'[u] = pc[u] /\ want'[u] = want[u]
    BY <1>4 DEF SpinUnlock
  <2>2. \A m \in Mutexes : m # want[t] => guard[m] # t
    OBVIOUS
  <2>3. QED BY <2>1, <2>2
<1>5. ASSUME NEW c \in Cores, Tick(c) PROVE GuardNotLeaked'
  <2>1. \A t \in Threads : pc'[t] = pc[t] \/ (pc[t] = "wait" /\ pc'[t] = "lock")
    BY <1>5 DEF Tick
  <2>2. QED BY <1>5, <2>1 DEF Tick, locks
<1>6. CASE Spawn \/ UNCHANGED vars
  BY <1>6 DEF Spawn, vars, locks, calls
<1>7. QED
  <2> HIDE DEF GuardNotLeaked
  <2>1. QED BY <1>1, <1>2, <1>3, <1>4, <1>5, <1>6 DEF Next, Proceed

\* A thread lets go of an owned mutex only by unlocking it.
LEMMA HeldStep == LockInv /\ HeldWillBeReleased /\ [Next]_vars => HeldWillBeReleased'
<1> SUFFICES ASSUME LockInv, HeldWillBeReleased, [Next]_vars PROVE HeldWillBeReleased'
  OBVIOUS
<1> USE ThreadFacts DEF LockInv, TypeOK, At, Goto, HeldWillBeReleased, Releasing
<1>1. ASSUME NEW t \in Threads,
             \/ SpinLock(t) \/ SeesFree(t) \/ TryFail(t) \/ LockBusy(t) \/ BoostTest(t)
             \/ Wake(t) \/ BoostWrite(t) \/ UnlockRestore(t)
      PROVE  HeldWillBeReleased'
  <2>1. /\ UNCHANGED <<owner, want, mine>>
        /\ \A u \in Threads : pc[u] \in Releasing \cup {"lock_got"}
                              => pc'[u] \in Releasing \cup {"lock_got"}
    BY <1>1 DEF SpinLock, SeesFree, TryFail, LockBusy, BoostTest, Wake, BoostWrite, UnlockRestore,
       locks
  <2>2. QED BY <2>1
<1>2. ASSUME NEW t \in Threads, NEW m \in Mutexes,
             CallLock(t, m) \/ CallTrylock(t, m) \/ CallUnlock(t, m)
      PROVE  HeldWillBeReleased'
  <2>1. /\ UNCHANGED owner /\ pc[t] = "idle" /\ want'[t] = m
        /\ mine'[t] = mine[t] \/ (pc'[t] = "unlock" /\ mine'[t] = mine[t] \ {m})
        /\ \A u \in Threads \ {t} : pc'[u] = pc[u] /\ want'[u] = want[u] /\ mine'[u] = mine[u]
    BY <1>2 DEF CallLock, CallTrylock, CallUnlock, locks
  <2>2. QED BY <2>1
<1>3. ASSUME NEW t \in Threads, Take(t) PROVE HeldWillBeReleased'
  <2>1. /\ owner' = [owner EXCEPT ![want[t]] = t] /\ pc'[t] = "lock_got"
        /\ UNCHANGED <<want, mine>> /\ pc[t] \notin Releasing \cup {"lock_got"}
        /\ \A u \in Threads \ {t} : pc'[u] = pc[u]
    BY <1>3 DEF Take
  <2>2. QED BY <2>1
<1>4. ASSUME NEW t \in Threads, UnlockClear(t) PROVE HeldWillBeReleased'
  <2>1. /\ owner' = [owner EXCEPT ![want[t]] = NoThread] /\ UNCHANGED <<want, mine>>
        /\ \A u \in Threads \ {t} : pc'[u] = pc[u]
    BY <1>4 DEF UnlockClear
  <2>2. \A m \in Mutexes \ {want[t]} : owner[m] = t => m \in mine[t]
    OBVIOUS
  <2>3. QED BY <2>1, <2>2
<1>5. ASSUME NEW t \in Threads, SpinUnlock(t) PROVE HeldWillBeReleased'
  <2>1. /\ UNCHANGED owner
        /\ pc[t] \in {"lock_busy", "lock_got", "try_no", "unlock_out"}
        /\ pc[t] = "lock_got" => mine'[t] = mine[t] \cup {want[t]}
        /\ pc[t] # "lock_got" => mine'[t] = mine[t]
        /\ \A u \in Threads \ {t} : pc'[u] = pc[u] /\ want'[u] = want[u] /\ mine'[u] = mine[u]
    BY <1>5 DEF SpinUnlock
  <2>2. QED BY <2>1
<1>6. ASSUME NEW c \in Cores, Tick(c) PROVE HeldWillBeReleased'
  <2>1. \A t \in Threads : pc'[t] = pc[t] \/ (pc[t] = "wait" /\ pc'[t] = "lock")
    BY <1>6 DEF Tick
  <2>2. QED BY <1>6, <2>1 DEF Tick, locks
<1>7. CASE Spawn \/ UNCHANGED vars
  BY <1>7 DEF Spawn, vars, locks, calls
<1>8. QED
  <2> HIDE DEF HeldWillBeReleased
  <2>1. QED BY <1>1, <1>2, <1>3, <1>4, <1>5, <1>6, <1>7 DEF Next, Proceed

\* mutex.c 47-103: whatever calls meet and wherever they are preempted, no guard
\* stays taken by a thread that has left it, and no mutex stays held by a thread
\* that will not unlock it: the safety half of HolderReachesUnlock.
THEOREM PiMutexNothingLeaks == Spec => []NothingLeaks
<1>1. Init => NothingLeaks
  BY ThreadFacts DEF Init, NothingLeaks, GuardNotLeaked, HeldWillBeReleased
<1>2. LockInv /\ NothingLeaks /\ [Next]_vars => NothingLeaks'
  BY GuardStep, HeldStep DEF NothingLeaks
<1>3. PiInv => LockInv
  BY DEF PiInv
<1>4. QED BY PiInvariant, <1>1, <1>2, <1>3, PTL DEF Spec

=============================================================================
