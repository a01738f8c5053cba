--------------------------- MODULE SemaphoreProofs ---------------------------
(***************************************************************************)
(* Safety of the counting semaphore for every number of cores, threads and *)
(* tokens and every assignment of cores and priorities: calls that meet    *)
(* inside it neither lose a token nor make one.                            *)
(***************************************************************************)
EXTENDS Semaphore, KernelLemmas, FiniteSetTheorems

\* The points between spin_lock() and spin_unlock(), and those of a wait.
Inside == {"test", "dec", "got", "none", "load", "inc", "posted"}
InWait == {"try", "test", "dec", "got", "none", "wfi"}

\* A thread inside the guard is the one the guard names.
GuardNamesInsider == \A t \in Threads : pc[t] \in Inside => guard = t

\* Nobody has changed the count since the thread that is about to write it
\* loaded it; a thread about to decrement has found a token.
LoadsAreFresh ==
  \A t \in Threads :
    /\ pc[t] \in {"dec", "inc"} => value[t] = count
    /\ pc[t] = "dec" => count > 0

\* A user asks only for a token that it does not own.
OwnersDoNotWait == \A t \in Threads : pc[t] \in InWait => t \notin has

\* What a call knows at each of its points.
CallInv == TypeOK /\ GuardNamesInsider /\ LoadsAreFresh /\ OwnersDoNotWait

\* The inductive invariant.
SemInv == CallInv /\ TokensConserved

LEMMA ThreadsAreNat == Threads \subseteq Nat /\ NoThread \notin Threads
BY SemaphoreAssumption DEF Threads, NoThread

-----------------------------------------------------------------------------
LEMMA InitSem == Init => SemInv
<1> SUFFICES ASSUME Init PROVE SemInv
  OBVIOUS
<1>1. current \in [Cores -> Threads \cup {NoThread}]
  <2> DEFINE first(c) == PickFirst(AllReady, Prio, CoreOf, NumThreads, c)
  <2>1. ASSUME NEW c \in Cores PROVE first(c) \in Threads \cup {NoThread}
    BY PickFirstMember, SemaphoreAssumption DEF Threads
  <2>2. QED BY <2>1 DEF Init
<1>2. TypeOK
  BY <1>1, SemaphoreAssumption DEF Init, TypeOK, Points
<1>3. GuardNamesInsider /\ LoadsAreFresh /\ OwnersDoNotWait
  BY DEF Init, GuardNamesInsider, LoadsAreFresh, OwnersDoNotWait, Inside, InWait
<1>4. TokensConserved
  <2>1. Moving = {} /\ has = {}
    BY DEF Init, Moving
  <2>2. QED BY <2>1, FS_EmptySet, SemaphoreAssumption DEF Init, TokensConserved
<1>5. QED BY <1>2, <1>3, <1>4 DEF SemInv, CallInv

-----------------------------------------------------------------------------
\* sched_on_tick().
LEMMA TickCallInv ==
  ASSUME CallInv, NEW c \in Cores, Tick(c) PROVE CallInv'
<1> USE DEF CallInv
<1> DEFINE next == PickNext(AllReady, Prio, CoreOf, NumThreads, c, current[c])
<1>1. next \in Threads \cup {NoThread}
  <2>1. current[c] \in 0 .. NumThreads-1
    BY DEF Tick, TypeOK, Threads
  <2>2. /\ NumThreads \in Nat
        /\ \A i \in 0 .. NumThreads-1 : Prio[i] \in Nat
    BY SemaphoreAssumption DEF Threads
  <2>3. next = NoThread \/ next \in BestOf(Prio, Candidates(AllReady, CoreOf, NumThreads, c))
    BY <2>1, <2>2, PickNextIsBest
  <2> HIDE DEF next
  <2>4. QED BY <2>3 DEF BestOf, Candidates, Threads
<1>2. /\ current' = [current EXCEPT ![c] = next]
      /\ pc' = [pc EXCEPT ![current[c]] = IF @ = "wfi" THEN "try" ELSE @]
      /\ UNCHANGED <<guard, count, blocking, value, has, balance>>
  BY DEF Tick
<1> HIDE DEF next
<1>3. \A t \in Threads : pc'[t] = pc[t] \/ (pc[t] = "wfi" /\ pc'[t] = "try")
  BY <1>2 DEF TypeOK
<1>4. pc' \in [Threads -> Points]
  BY <1>2, <1>3 DEF TypeOK, Points
<1>5. TypeOK'
  BY <1>1, <1>2, <1>4 DEF TypeOK
<1>6. GuardNamesInsider' /\ LoadsAreFresh' /\ OwnersDoNotWait'
  BY <1>2, <1>3 DEF GuardNamesInsider, LoadsAreFresh, OwnersDoNotWait, Inside, InWait
<1>7. QED BY <1>5, <1>6

\* A call begins, takes the guard, fails or sleeps: nothing is loaded or stored.
LEMMA EnterCallInv ==
  ASSUME CallInv, NEW t \in Threads,
         \/ CallWait(t, TRUE) \/ CallWait(t, FALSE) \/ CallPost(t)
         \/ SpinLock(t) \/ Wake(t)
  PROVE  CallInv'
<1> USE SemaphoreAssumption, ThreadsAreNat
    DEF CallInv, TypeOK, Points, At, Goto, GuardNamesInsider, LoadsAreFresh,
        OwnersDoNotWait, Inside, InWait
<1>1. ASSUME NEW blocks \in BOOLEAN, CallWait(t, blocks) PROVE CallInv'
  <2>1. TypeOK'
    BY <1>1 DEF CallWait
  <2>2. GuardNamesInsider' /\ LoadsAreFresh'
    BY <1>1 DEF CallWait
  <2>3. t \notin has
    BY <1>1 DEF CallWait
  <2>4. OwnersDoNotWait'
    BY <1>1, <2>3 DEF CallWait
  <2>5. QED BY <2>1, <2>2, <2>4
<1>2. CASE CallPost(t)
  BY <1>2 DEF CallPost
<1>3. CASE SpinLock(t)
  BY <1>3 DEF SpinLock
<1>4. CASE Wake(t)
  BY <1>4 DEF Wake
<1>5. QED
  <2> HIDE DEF CallInv
  <2>1. QED BY <1>1, <1>2, <1>3, <1>4

\* Steps under the guard, and the one that leaves it.
LEMMA InsideCallInv ==
  ASSUME CallInv, NEW t \in Threads,
         \/ Test(t) \/ Decrement(t) \/ LoadCount(t) \/ Increment(t) \/ SpinUnlock(t)
  PROVE  CallInv'
<1> USE SemaphoreAssumption, ThreadsAreNat
    DEF CallInv, TypeOK, Points, At, Goto, GuardNamesInsider, LoadsAreFresh,
        OwnersDoNotWait, Inside, InWait
<1>1. CASE Test(t)
  BY <1>1 DEF Test
<1>2. CASE Decrement(t)
  BY <1>2 DEF Decrement
<1>3. CASE LoadCount(t)
  BY <1>3 DEF LoadCount
<1>4. CASE Increment(t)
  BY <1>4 DEF Increment
<1>5. CASE SpinUnlock(t)
  <2>1. /\ guard = t /\ guard' = NoThread /\ UNCHANGED <<current, count>>
        /\ value' = [value EXCEPT ![t] = 0]
        /\ pc' = [pc EXCEPT ![t] = "wfi"] \/ pc' = [pc EXCEPT ![t] = "idle"]
        /\ blocking' = blocking \/ blocking' = [blocking EXCEPT ![t] = FALSE]
    BY <1>5 DEF SpinUnlock
  <2>2. has' \in SUBSET Users /\ balance' \in Int
    BY <1>5 DEF SpinUnlock
  <2>3. TypeOK'
    BY <2>1, <2>2
  <2>4. GuardNamesInsider' /\ LoadsAreFresh'
    BY <2>1
  <2>5. /\ has' = has \/ has' = has \cup {t}
        /\ pc'[t] = "wfi" => pc[t] = "none" /\ has' = has
    BY <1>5 DEF SpinUnlock
  <2>6. OwnersDoNotWait'
    BY <2>1, <2>5
  <2>7. QED BY <2>3, <2>4, <2>6
<1>6. QED
  <2> HIDE DEF CallInv
  <2>1. QED BY <1>1, <1>2, <1>3, <1>4, <1>5

LEMMA CallStep ==
  ASSUME CallInv, [Next]_vars PROVE CallInv'
<1>1. ASSUME NEW t \in Threads, Proceed(t) \/ Wake(t) \/ CallWait(t, TRUE) \/ CallWait(t, FALSE)
      PROVE  CallInv'
  BY <1>1, EnterCallInv, InsideCallInv DEF Proceed
<1>2. ASSUME NEW c \in Cores, Tick(c) PROVE CallInv'
  BY <1>2, TickCallInv
<1>3. CASE UNCHANGED vars
  BY <1>3 DEF vars, CallInv, TypeOK, GuardNamesInsider, LoadsAreFresh, OwnersDoNotWait
<1>4. QED BY <1>1, <1>2, <1>3 DEF Next

-----------------------------------------------------------------------------
\* The tokens, step by step.  A step moves at most one thread into or out of
\* Moving, and the other summands make up for it.

LEMMA SetsFinite ==
  ASSUME TypeOK
  PROVE  /\ IsFiniteSet(has) /\ Cardinality(has) \in Nat
         /\ IsFiniteSet(Moving) /\ Cardinality(Moving) \in Nat
<1>1. IsFiniteSet(Threads)
  BY FS_Interval, SemaphoreAssumption DEF Threads
<1>2. has \in SUBSET Threads /\ Moving \in SUBSET Threads
  BY SemaphoreAssumption DEF TypeOK, Moving
<1>3. IsFiniteSet(has) /\ IsFiniteSet(Moving)
  BY <1>1, <1>2, FS_Subset
<1>4. QED BY <1>3, FS_CardinalityType

\* A thread that is not on its way with a token sets out with one.
LEMMA SetsOut ==
  ASSUME TypeOK, NEW t \in Threads, t \notin Moving, Moving' = Moving \cup {t}
  PROVE  Cardinality(Moving') = Cardinality(Moving) + 1
BY SetsFinite, FS_AddElement

\* A thread arrives with its token.
LEMMA Arrives ==
  ASSUME TypeOK, NEW t \in Threads, t \in Moving, Moving' = Moving \ {t}
  PROVE  Cardinality(Moving') = Cardinality(Moving) - 1
BY SetsFinite, FS_RemoveElement

LEMMA TokensStep ==
  ASSUME SemInv, [Next]_vars PROVE TokensConserved'
<1> USE DEF SemInv, CallInv
<1>1. /\ Cardinality(has) \in Nat /\ Cardinality(Moving) \in Nat
      /\ count \in Nat /\ balance \in Int /\ Initial \in Nat
      /\ IsFiniteSet(has)
  BY SetsFinite, SemaphoreAssumption DEF TypeOK
<1>2. count + Cardinality(has) + Cardinality(Moving) = Initial + balance
  BY DEF TokensConserved
\* Steps that leave tokens where they are.
<1>3. CASE Moving' = Moving /\ has' = has /\ count' = count /\ balance' = balance
  BY <1>2, <1>3 DEF TokensConserved
<1>4. ASSUME NEW t \in Threads,
             \/ CallWait(t, TRUE) \/ CallWait(t, FALSE) \/ SpinLock(t) \/ Wake(t)
             \/ Test(t) \/ LoadCount(t)
      PROVE  Moving' = Moving /\ has' = has /\ count' = count /\ balance' = balance
  BY <1>4 DEF CallWait, SpinLock, Wake, Test, LoadCount, At, Goto, TypeOK, Moving
<1>5. ASSUME NEW c \in Cores, Tick(c)
      PROVE  Moving' = Moving /\ has' = has /\ count' = count /\ balance' = balance
  <2>1. \A t \in Threads : pc'[t] = pc[t] \/ (pc[t] = "wfi" /\ pc'[t] = "try")
    BY <1>5 DEF Tick, TypeOK
  <2>2. QED BY <1>5, <2>1 DEF Tick, Moving
<1>6. CASE UNCHANGED vars
  BY <1>3, <1>6 DEF vars, Moving
\* sem_post() is called: a user's token, or a new one, sets out.
<1>7. ASSUME NEW t \in Threads, CallPost(t) PROVE TokensConserved'
  <2>1. t \notin Moving /\ Moving' = Moving \cup {t} /\ count' = count
    BY <1>7 DEF CallPost, At, Goto, Moving, TypeOK
  <2>2. Cardinality(Moving') = Cardinality(Moving) + 1
    BY <2>1, SetsOut
  <2>3. CASE t \in has /\ has' = has \ {t} /\ UNCHANGED balance
    <3>1. Cardinality(has') = Cardinality(has) - 1
      BY <1>1, <2>3, FS_RemoveElement
    <3>2. QED BY <1>1, <1>2, <2>1, <2>2, <2>3, <3>1 DEF TokensConserved
  <2>4. CASE balance' = balance + 1 /\ UNCHANGED has
    BY <1>1, <1>2, <2>1, <2>2, <2>4 DEF TokensConserved
  <2>5. QED BY <1>7, <2>3, <2>4 DEF CallPost
\* A token leaves the count, or gets there.
<1>8. ASSUME NEW t \in Threads, Decrement(t) PROVE TokensConserved'
  <2>1. t \notin Moving /\ Moving' = Moving \cup {t}
    BY <1>8 DEF Decrement, At, Goto, Moving, TypeOK
  <2>2. count' = count - 1 /\ has' = has /\ balance' = balance
    BY <1>8 DEF Decrement, At, LoadsAreFresh
  <2>3. Cardinality(Moving') = Cardinality(Moving) + 1
    BY <2>1, SetsOut
  <2>4. QED BY <1>1, <1>2, <2>2, <2>3 DEF TokensConserved
<1>9. ASSUME NEW t \in Threads, Increment(t) PROVE TokensConserved'
  <2>1. t \in Moving /\ Moving' = Moving \ {t}
    BY <1>9 DEF Increment, At, Goto, Moving, TypeOK
  <2>2. count' = count + 1 /\ has' = has /\ balance' = balance
    BY <1>9 DEF Increment, At, LoadsAreFresh
  <2>3. Cardinality(Moving') = Cardinality(Moving) - 1
    BY <2>1, Arrives
  <2>4. QED BY <1>1, <1>2, <2>2, <2>3 DEF TokensConserved
\* The guard is freed: the token of a wait that succeeded is with the caller.
<1>10. ASSUME NEW t \in Threads, SpinUnlock(t) PROVE TokensConserved'
  <2>1. CASE pc[t] \in {"none", "posted"}
    <3>1. Moving' = Moving /\ has' = has /\ count' = count /\ balance' = balance
      BY <1>10, <2>1 DEF SpinUnlock, At, Goto, Moving, TypeOK
    <3>2. QED BY <1>3, <3>1
  <2>2. CASE pc[t] = "got"
    <3>1. t \in Moving /\ Moving' = Moving \ {t} /\ count' = count
      BY <1>10, <2>2 DEF SpinUnlock, At, Goto, Moving, TypeOK
    <3>2. Cardinality(Moving') = Cardinality(Moving) - 1
      BY <3>1, Arrives
    <3>3. CASE has' = has \cup {t} /\ UNCHANGED balance
      <4>1. t \notin has
        BY <2>2 DEF OwnersDoNotWait, InWait
      <4>2. Cardinality(has') = Cardinality(has) + 1
        BY <1>1, <3>3, <4>1, FS_AddElement
      <4>3. QED BY <1>1, <1>2, <3>1, <3>2, <3>3, <4>2 DEF TokensConserved
    <3>4. CASE balance' = balance - 1 /\ UNCHANGED has
      BY <1>1, <1>2, <3>1, <3>2, <3>4 DEF TokensConserved
    <3>5. QED BY <1>10, <2>2, <3>3, <3>4 DEF SpinUnlock, At
  <2>3. QED BY <1>10, <2>1, <2>2 DEF SpinUnlock, At
<1>11. QED
  BY <1>3, <1>4, <1>5, <1>6, <1>7, <1>8, <1>9, <1>10 DEF Next, Proceed

-----------------------------------------------------------------------------
\* No call loses a token or makes one, whatever calls meet inside the semaphore
\* and wherever ticks preempt them: the tokens in the count, with the users and
\* on their way are those of sem_init() and those the producers have posted.
THEOREM SemaphoreTokens == Spec => []TokensConserved
<1>1. SemInv /\ [Next]_vars => SemInv'
  BY CallStep, TokensStep DEF SemInv
<1>2. SemInv => TokensConserved
  BY DEF SemInv
<1>3. QED BY InitSem, <1>1, <1>2, PTL DEF Spec

-----------------------------------------------------------------------------
\* The spinlock is exact: the guard names a thread exactly while that thread is
\* between spin_lock() and spin_unlock().
GuardIsExact == \A t \in Threads : guard = t <=> pc[t] \in Inside

LEMMA GuardStep == CallInv /\ GuardIsExact /\ [Next]_vars => GuardIsExact'
<1> SUFFICES ASSUME CallInv, GuardIsExact, [Next]_vars PROVE GuardIsExact'
  OBVIOUS
<1> USE ThreadsAreNat DEF CallInv, TypeOK, At, Goto, GuardIsExact, Inside
<1>1. ASSUME NEW t \in Threads,
             \/ CallWait(t, TRUE) \/ CallWait(t, FALSE) \/ CallPost(t) \/ Wake(t)
             \/ Test(t) \/ Decrement(t) \/ LoadCount(t) \/ Increment(t)
      PROVE  GuardIsExact'
  BY <1>1 DEF CallWait, CallPost, Wake, Test, Decrement, LoadCount, Increment
<1>2. ASSUME NEW t \in Threads, SpinLock(t) PROVE GuardIsExact'
  BY <1>2 DEF SpinLock
<1>3. ASSUME NEW t \in Threads, SpinUnlock(t) PROVE GuardIsExact'
  <2>1. /\ guard = t /\ guard' = NoThread
        /\ pc' = [pc EXCEPT ![t] = "wfi"] \/ pc' = [pc EXCEPT ![t] = "idle"]
    BY <1>3 DEF SpinUnlock
  <2>2. QED BY <2>1
<1>4. ASSUME NEW c \in Cores, Tick(c) PROVE GuardIsExact'
  <2>1. \A t \in Threads : pc'[t] = pc[t] \/ (pc[t] = "wfi" /\ pc'[t] = "try")
    BY <1>4 DEF Tick
  <2>2. QED BY <1>4, <2>1 DEF Tick
<1>5. CASE UNCHANGED vars
  BY <1>5 DEF vars
<1>6. QED
  <2> HIDE DEF GuardIsExact
  <2>1. QED BY <1>1, <1>2, <1>3, <1>4, <1>5 DEF Next, Proceed

\* mutex.c 111-137: no path through sem_wait(), sem_trywait() or sem_post(), the
\* attempts that find no token included, keeps the guard or gives back another
\* thread's.
THEOREM SemaphoreGuardIsExact == Spec => []GuardIsExact
<1>1. Init => GuardIsExact
  BY ThreadsAreNat DEF Init, GuardIsExact, Inside
<1>2. SemInv /\ [Next]_vars => SemInv'
  BY CallStep, TokensStep DEF SemInv
<1>3. SemInv => CallInv
  BY DEF SemInv
<1>4. QED BY InitSem, GuardStep, <1>1, <1>2, <1>3, PTL DEF Spec

=============================================================================
