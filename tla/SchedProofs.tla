----------------------------- MODULE SchedProofs -----------------------------
(***************************************************************************)
(* Safety of the scheduler for every number of cores and threads and every *)
(* set of priorities: affinity and contexts, the retirement of threads     *)
(* that return, round robin (SchedTurns), the loop of pick_next()          *)
(* (PickScan) and the first thread of a core (SchedStart).                 *)
(***************************************************************************)
EXTENDS SchedTurns, PickScan, SchedStart, KernelLemmas

\* The creation in progress works on the slot after the published ones, and
\* the frame is complete before the slot can be published.
CreationOrder ==
  making.step # "idle" =>
    /\ making.id = nthreads
    /\ nthreads < MaxThreads
    /\ state[making.id] \in {"UNUSED", "READY"}
    /\ making.step \in {"framed", "ready"} => frame[making.id] = making.id
    /\ making.step = "ready" => state[making.id] = "READY"

\* A core has a current thread exactly when its sched_start() found one.
StartedCores == \A c \in Cores : (current[c] # NoThread) <=> (boot[c] = "run")

\* Published threads have left THREAD_UNUSED.
PublishedInUse == \A t \in Published : state[t] # "UNUSED"

SchedInv ==
  /\ TypeOK
  /\ CurrentIsPinned
  /\ ContextsOwned
  /\ CreationOrder
  /\ StartedCores
  /\ PublishedInUse

\* sched_init() leaves a table in which everything is consistent.
LEMMA SchedInitInv == Init => SchedInv
<1> SUFFICES ASSUME Init PROVE SchedInv
  OBVIOUS
<1> USE SchedAssumption, TcbAssumption DEF Init, Threads, Published, NoThread, NoCall, Boot, Unbuilt
<1>1. TypeOK
  <2>1. 0 \in Threads
    OBVIOUS
  <2>2. making \in [step : {"idle", "filled", "framed", "ready"}, by : Contexts, id : Threads]
    BY <2>1 DEF Contexts
  <2>3. ctx \in [Cores -> Contexts \cup {Unbuilt}] /\ frame \in [Threads -> Contexts \cup {Unbuilt}]
    BY DEF Contexts
  <2>4. nthreads \in 0 .. MaxThreads
    OBVIOUS
  <2>5. state \in [Threads -> ThreadStates] /\ core \in [Threads -> Cores]
    BY DEF ThreadStates
  <2>6. prio \in [Threads -> Nat] /\ base \in [Threads -> Nat]
    OBVIOUS
  <2>7. current \in [Cores -> Threads \cup {NoThread}] /\ boot \in [Cores -> {"wait", "run", "idle"}]
    OBVIOUS
  <2>8. go \in BOOLEAN /\ returned \subseteq Threads
    BY Zenon
  <2> HIDE DEF Init, Threads
  <2>9. QED BY <2>2, <2>3, <2>4, <2>5, <2>6, <2>7, <2>8 DEF TypeOK
<1>2. CurrentIsPinned /\ ContextsOwned
  BY DEF CurrentIsPinned, ContextsOwned
<1>3. CreationOrder /\ StartedCores /\ PublishedInUse
  BY DEF CreationOrder, StartedCores, PublishedInUse
<1>4. QED BY <1>1, <1>2, <1>3 DEF SchedInv

USE SchedAssumption, TcbAssumption DEF Threads, Published

\* The steps of thread_create_on() touch the slot after the published ones.
LEMMA CreateInv == SchedInv /\ Create => SchedInv'
<1> SUFFICES ASSUME SchedInv, Create PROVE SchedInv'
  OBVIOUS
<1> USE DEF SchedInv, TypeOK
<1>1. ASSUME NEW x \in Contexts, NEW p \in Prios, NEW c \in Cores, CreateFill(x, p, c)
      PROVE  SchedInv'
  <2> USE <1>1 DEF CreateFill
  <2>0. /\ nthreads \in Threads
        /\ state[nthreads] # "RUNNING"
    BY DEF CurrentIsPinned
  <2>1. TypeOK'
    BY <2>0 DEF ThreadStates
  <2>2. CurrentIsPinned'
    BY <2>0 DEF CurrentIsPinned
  <2>3. ContextsOwned'
    BY DEF ContextsOwned
  <2>4. CreationOrder'
    BY <2>0 DEF CreationOrder
  <2>5. StartedCores' /\ PublishedInUse'
    BY <2>0 DEF StartedCores, PublishedInUse
  <2>6. QED BY <2>1, <2>2, <2>3, <2>4, <2>5
<1>2. CASE CreateFrame
  <2> USE <1>2 DEF CreateFrame
  <2>0. making.id = nthreads /\ nthreads \in Threads
    BY DEF CreationOrder
  <2>1. TypeOK'
    BY <2>0 DEF Contexts
  <2>2. CurrentIsPinned' /\ StartedCores' /\ PublishedInUse'
    BY DEF CurrentIsPinned, StartedCores, PublishedInUse
  <2>3. ContextsOwned'
    BY <2>0 DEF ContextsOwned
  <2>4. CreationOrder'
    BY <2>0 DEF CreationOrder
  <2>5. QED BY <2>1, <2>2, <2>3, <2>4
<1>3. CASE CreateReady
  <2> USE <1>3 DEF CreateReady
  <2>0. making.id = nthreads /\ nthreads \in Threads /\ state[nthreads] # "RUNNING"
    BY DEF CreationOrder
  <2>1. TypeOK'
    BY <2>0 DEF ThreadStates
  <2>2. CurrentIsPinned'
    BY <2>0 DEF CurrentIsPinned
  <2>3. ContextsOwned' /\ StartedCores'
    BY DEF ContextsOwned, StartedCores
  <2>4. CreationOrder'
    BY <2>0 DEF CreationOrder
  <2>5. PublishedInUse'
    BY <2>0 DEF PublishedInUse
  <2>6. QED BY <2>1, <2>2, <2>3, <2>4, <2>5
<1>4. CASE CreatePublish
  <2> USE <1>4 DEF CreatePublish
  <2>0. /\ making.id = nthreads /\ nthreads \in Threads
        /\ state[nthreads] = "READY" /\ frame[nthreads] = nthreads
        /\ nthreads' = nthreads + 1
    BY DEF CreationOrder
  <2>1. TypeOK'
    <3>1. nthreads' \in 0 .. MaxThreads
      BY <2>0
    <3>2. making' \in [step : {"idle", "filled", "framed", "ready"}, by : Contexts, id : Threads]
      <4>1. Boot \in Contexts /\ 0 \in Threads
        BY <2>0 DEF Contexts
      <4>2. making' = NoCall
        OBVIOUS
      <4>3. QED BY <4>1, <4>2 DEF NoCall
    <3>3. QED BY <3>1, <3>2
  <2>2. CurrentIsPinned'
    BY <2>0 DEF CurrentIsPinned
  <2>3. ContextsOwned'
    <3>1. \A t \in 0 .. nthreads : frame[t] = t
      BY <2>0 DEF ContextsOwned
    <3>2. (0 .. nthreads-1)' = 0 .. nthreads
      BY <2>0
    <3>3. QED BY <3>1, <3>2 DEF ContextsOwned
  <2>4. CreationOrder' /\ StartedCores'
    BY DEF CreationOrder, StartedCores, NoCall
  <2>5. PublishedInUse'
    BY <2>0 DEF PublishedInUse
  <2>6. QED BY <2>1, <2>2, <2>3, <2>4, <2>5
<1>5. QED BY <1>1, <1>2, <1>3, <1>4 DEF Create

\* sched_start().
LEMMA StartInv ==
  ASSUME SchedInv, NEW c \in Cores, Start(c) PROVE SchedInv'
<1> DEFINE first == PickFirst(state, prio, core, nthreads, c)
<1> USE DEF SchedInv, TypeOK
<1>1. CASE first = NoThread
  <2>1. /\ boot[c] = "wait" /\ boot' = [boot EXCEPT ![c] = "idle"]
        /\ UNCHANGED <<nthreads, state, prio, base, core, frame, current, go, ctx, making, returned>>
    BY <1>1 DEF Start
  <2>2. TypeOK' /\ CurrentIsPinned' /\ ContextsOwned' /\ CreationOrder'
    BY <2>1 DEF CurrentIsPinned, ContextsOwned, CreationOrder
  <2>3. StartedCores' /\ PublishedInUse'
    BY <2>1 DEF StartedCores, PublishedInUse
  <2>4. QED BY <2>2, <2>3
<1>2. CASE first # NoThread
  <2>1. first \in Published /\ core[first] = c /\ state[first] = "READY"
    <3>1. nthreads \in Nat /\ \A i \in 0 .. nthreads-1 : prio[i] \in Nat
      OBVIOUS
    <3>2. QED BY <1>2, <3>1, PickFirstMember
  <2>2. /\ boot[c] = "wait" /\ boot' = [boot EXCEPT ![c] = "run"]
        /\ current' = [current EXCEPT ![c] = first]
        /\ state' = [state EXCEPT ![first] = "RUNNING"]
        /\ ctx' = [ctx EXCEPT ![c] = frame[first]]
        /\ UNCHANGED <<nthreads, prio, base, core, frame, go, making, returned>>
    BY <1>2 DEF Start
  <2> HIDE DEF first
  <2>3. current[c] = NoThread /\ first # NoThread
    BY <1>2, <2>2 DEF StartedCores
  <2>4. TypeOK'
    BY <2>1, <2>2 DEF ThreadStates
  <2>5. CurrentIsPinned'
    <3>1. \A d \in Cores : current'[d] # NoThread =>
            current'[d] \in Published /\ core[current'[d]] = d /\ state'[current'[d]] # "UNUSED"
      BY <2>1, <2>2, <2>3 DEF CurrentIsPinned
    <3>2. \A t \in Threads : state[t] = "RUNNING" =>
            t \in Published /\ core[t] # c /\ current'[core[t]] = t
      BY <2>2, <2>3 DEF CurrentIsPinned, NoThread
    <3>3. \A t \in Threads : state'[t] = "RUNNING" => t = first \/ state[t] = "RUNNING"
      BY <2>1, <2>2
    <3>4. current'[core[first]] = first
      BY <2>1, <2>2
    <3>5. QED BY <2>1, <2>2, <3>1, <3>2, <3>3, <3>4 DEF CurrentIsPinned
  <2>6. ContextsOwned'
    BY <2>1, <2>2, <2>3 DEF ContextsOwned
  <2>7. CreationOrder'
    BY <2>1, <2>2 DEF CreationOrder
  <2>8. StartedCores' /\ PublishedInUse'
    BY <2>1, <2>2, <2>3 DEF StartedCores, PublishedInUse
  <2>9. QED BY <2>4, <2>5, <2>6, <2>7, <2>8
<1>3. QED BY <1>1, <1>2

\* The table as sched_on_tick() hands it to pick_next() on core c.
SavedState(c) == [state EXCEPT ![current[c]] = IF @ = "RUNNING" THEN "READY" ELSE @]

\* sched_on_tick() keeps the current thread or takes a runnable one of the
\* partition.
LEMMA TickChoice ==
  ASSUME SchedInv, NEW c \in Cores, Tick(c)
  PROVE  LET next == Chosen(c, SavedState(c))
         IN  /\ current[c] \in Published /\ core[current[c]] = c
             /\ state[current[c]] # "UNUSED" /\ current[c] # NoThread
             /\ next \in Published /\ core[next] = c
             /\ next = current[c] \/ SavedState(c)[next] \in {"READY", "RUNNING"}
<1> DEFINE cur   == current[c]
           saved == SavedState(c)
           next  == Chosen(c, saved)
<1>1. cur \in Published /\ core[cur] = c /\ state[cur] # "UNUSED" /\ cur # NoThread
  BY DEF SchedInv, TypeOK, CurrentIsPinned, Tick
<1>2. /\ next \in Published /\ core[next] = c
      /\ next = cur \/ saved[next] \in {"READY", "RUNNING"}
  <2> DEFINE pick == PickNext(saved, prio, core, nthreads, c, cur)
             S == Candidates(saved, core, nthreads, c)
  <2>1. CASE pick = NoThread
    BY <2>1, <1>1 DEF Chosen
  <2>2. CASE pick # NoThread
    <3>1. pick \in BestOf(prio, S)
      <4>1. nthreads \in Nat /\ cur \in 0 .. nthreads-1 /\ \A i \in 0 .. nthreads-1 : prio[i] \in Nat
        BY <1>1 DEF SchedInv, TypeOK
      <4> HIDE DEF cur, saved
      <4>2. QED BY <4>1, <2>2, PickNextIsBest
    <3>2. pick \in S
      BY <3>1 DEF BestOf
    <3>3. pick \in Published /\ core[pick] = c /\ saved[pick] \in {"READY", "RUNNING"}
      <4> HIDE DEF saved, pick
      <4>1. QED BY <3>2 DEF Candidates
    <3>4. next = pick
      BY <2>2 DEF Chosen
    <3>5. QED BY <3>3, <3>4
  <2>3. QED BY <2>1, <2>2
<1>3. QED BY <1>1, <1>2

\* sched_on_tick().
LEMMA TickInv ==
  ASSUME SchedInv, NEW c \in Cores, Tick(c) PROVE SchedInv'
<1> DEFINE cur    == current[c]
           saved  == SavedState(c)
           stored == [frame EXCEPT ![cur] = ctx[c]]
           next   == Chosen(c, saved)
<1>1. cur \in Published /\ core[cur] = c /\ state[cur] # "UNUSED" /\ cur # NoThread
  BY TickChoice
<1>2. stored = frame
  BY <1>1 DEF SchedInv, TypeOK, ContextsOwned
<1>3. /\ next \in Published /\ core[next] = c
      /\ next = cur \/ saved[next] \in {"READY", "RUNNING"}
  BY TickChoice
<1>4. /\ frame' = frame
      /\ state' = [saved EXCEPT ![next] = "RUNNING"]
      /\ current' = [current EXCEPT ![c] = next]
      /\ ctx' = [ctx EXCEPT ![c] = frame[next]]
      /\ UNCHANGED <<nthreads, prio, base, core, go, boot, making, returned>>
  BY <1>2 DEF Tick, SavedState
<1>5. saved \in [Threads -> ThreadStates]
      /\ \A t \in Threads : /\ saved[t] = "RUNNING" => t # cur /\ state[t] = "RUNNING"
                            /\ saved[t] = "UNUSED" <=> state[t] = "UNUSED"
                            /\ t # cur => saved[t] = state[t]
  BY <1>1 DEF SchedInv, TypeOK, ThreadStates, SavedState
<1> HIDE DEF saved, stored, next
<1> USE DEF SchedInv, TypeOK, NoThread
<1>6. TypeOK'
  <2>1. next \in Threads
    BY <1>3
  <2>2. state' \in [Threads -> ThreadStates] /\ current' \in [Cores -> Threads \cup {NoThread}]
    BY <1>4, <1>5, <2>1 DEF ThreadStates
  <2>3. ctx' \in [Cores -> Contexts \cup {Unbuilt}]
    BY <1>4, <2>1
  <2>4. QED BY <1>4, <2>2, <2>3
<1>7. CurrentIsPinned'
  <2>1. next \in Threads /\ state' = [saved EXCEPT ![next] = "RUNNING"]
    BY <1>3, <1>4
  <2>2. state'[next] = "RUNNING" /\ \A t \in Threads \ {next} : state'[t] = saved[t]
    BY <1>5, <2>1
  <2>3. \A t \in Threads \ {next} : state'[t] = "RUNNING" => t \in Published /\ core[t] # c /\ current[core[t]] = t
    BY <1>5, <2>2 DEF CurrentIsPinned
  <2>4. \A t \in Threads : state'[t] = "RUNNING" => t \in Published /\ current'[core[t]] = t
    BY <1>3, <1>4, <2>3
  <2>5. \A d \in Cores : current'[d] # NoThread =>
          current'[d] \in Published /\ core[current'[d]] = d /\ state'[current'[d]] # "UNUSED"
    BY <1>3, <1>4, <1>5, <2>2 DEF CurrentIsPinned
  <2>6. QED BY <1>4, <2>4, <2>5 DEF CurrentIsPinned
<1>8. ContextsOwned'
  BY <1>1, <1>3, <1>4 DEF ContextsOwned
<1>9. CreationOrder'
  BY <1>1, <1>3, <1>4, <1>5 DEF CreationOrder
<1>10. StartedCores' /\ PublishedInUse'
  BY <1>1, <1>3, <1>4, <1>5 DEF StartedCores, PublishedInUse
<1>11. QED BY <1>6, <1>7, <1>8, <1>9, <1>10

\* What threads do, and what the mutex code does to their priorities.
LEMMA ThreadInv ==
  ASSUME SchedInv, NEW t \in Threads,
         \/ Return(t) \/ TrampolineBlock(t) \/ RestorePriority(t)
         \/ \E p \in Prios : SetEffectivePriority(t, p)
  PROVE  SchedInv'
<1> USE DEF SchedInv, TypeOK
<1>1. CASE Return(t)
  <2>1. returned' \subseteq Threads /\ UNCHANGED <<table, current, go, boot, ctx, making>>
    BY <1>1 DEF Return
  <2>2. QED BY <2>1 DEF table, CurrentIsPinned, ContextsOwned, CreationOrder, StartedCores, PublishedInUse
<1>2. CASE TrampolineBlock(t)
  <2> DEFINE cur == current[core[t]]
  <2>1. /\ cur \in Published
        /\ state' = [state EXCEPT ![cur] = "BLOCKED"]
        /\ UNCHANGED <<nthreads, prio, base, core, frame, current, go, boot, ctx, making, returned>>
    BY <1>2 DEF TrampolineBlock, CurrentIsPinned
  <2> HIDE DEF cur
  <2>2. TypeOK'
    BY <2>1 DEF ThreadStates
  <2>3. CurrentIsPinned'
    BY <2>1 DEF CurrentIsPinned
  <2>4. ContextsOwned' /\ CreationOrder'
    BY <2>1 DEF ContextsOwned, CreationOrder
  <2>5. StartedCores' /\ PublishedInUse'
    BY <2>1 DEF StartedCores, PublishedInUse
  <2>6. QED BY <2>2, <2>3, <2>4, <2>5
<1>3. ASSUME \/ RestorePriority(t)
             \/ \E p \in Prios : SetEffectivePriority(t, p)
      PROVE  SchedInv'
  <2>1. /\ UNCHANGED <<nthreads, state, base, core, frame, current, go, boot, ctx, making, returned>>
        /\ \E p \in Nat : prio' = [prio EXCEPT ![t] = p]
    <3>1. CASE RestorePriority(t)
      BY <3>1 DEF RestorePriority
    <3>2. CASE \E p \in Prios : SetEffectivePriority(t, p)
      BY <3>2 DEF SetEffectivePriority
    <3>3. QED BY <1>3, <3>1, <3>2
  <2>2. QED BY <2>1 DEF CurrentIsPinned, ContextsOwned, CreationOrder, StartedCores, PublishedInUse
<1>4. QED BY <1>1, <1>2, <1>3

\* The invariant is inductive.
LEMMA SchedNextInv == SchedInv /\ [Next]_vars => SchedInv'
<1> SUFFICES ASSUME SchedInv, [Next]_vars PROVE SchedInv'
  OBVIOUS
<1>1. CASE Create
  BY <1>1, CreateInv
<1>2. CASE Release
  BY <1>2 DEF Release, table, SchedInv, TypeOK, CurrentIsPinned, ContextsOwned, CreationOrder,
              StartedCores, PublishedInUse
<1>3. ASSUME NEW c \in Cores, Start(c) PROVE SchedInv'
  BY <1>3, StartInv
<1>4. ASSUME NEW c \in Cores, Tick(c) PROVE SchedInv'
  BY <1>4, TickInv
<1>5. ASSUME NEW t \in Threads,
             \/ Return(t) \/ TrampolineBlock(t) \/ RestorePriority(t)
             \/ \E p \in Prios : SetEffectivePriority(t, p)
      PROVE  SchedInv'
  BY <1>5, ThreadInv
<1>6. CASE UNCHANGED vars
  BY <1>6 DEF vars, table, SchedInv, TypeOK, CurrentIsPinned, ContextsOwned, CreationOrder,
              StartedCores, PublishedInUse
<1>7. QED BY <1>1, <1>2, <1>3, <1>4, <1>5, <1>6 DEF Next

LEMMA SchedInvariant == Spec => []SchedInv
BY SchedInitInv, SchedNextInv, PTL DEF Spec

\* The table, the per-core variables and the creation record are well typed.
THEOREM SchedTypeCorrect == Spec => []TypeOK
BY SchedInvariant, PTL DEF SchedInv

\* Strict affinity: g_current of a core is a published thread of its own
\* partition, and only the current thread of its core is marked RUNNING.
THEOREM SchedAffinity == Spec => []CurrentIsPinned
BY SchedInvariant, PTL DEF SchedInv

\* What a core executes is its current thread, and no published thread can be
\* resumed from anything but its own complete frame.
THEOREM SchedContexts == Spec => []ContextsOwned
BY SchedInvariant, PTL DEF SchedInv

-----------------------------------------------------------------------------
(* Retirement.                                                              *)

\* Only a thread that has returned is ever blocked, and only published threads
\* return.
BlockedHaveReturned ==
  /\ \A t \in Threads : state[t] = "BLOCKED" => t \in returned
  /\ returned \subseteq Published

\* A blocked thread that has lost its core is off it for good.
Retired(t) == t \in Threads /\ state[t] = "BLOCKED" /\ current[core[t]] # t

\* sched_start() takes a READY thread for a core that has none.
LEMMA StartRetires ==
  ASSUME SchedInv, NEW c \in Cores, Start(c)
  PROVE  /\ UNCHANGED <<nthreads, core, returned>>
         /\ \A t \in Threads : state[t] = "BLOCKED" <=> state'[t] = "BLOCKED"
         /\ \A t \in Threads : Retired(t) => Retired(t)'
<1> DEFINE first == PickFirst(state, prio, core, nthreads, c)
<1> USE DEF SchedInv, TypeOK
<1>1. CASE first = NoThread
  BY <1>1 DEF Start, Retired
<1>2. CASE first # NoThread
  <2>1. first \in Published /\ core[first] = c /\ state[first] = "READY"
    <3>1. nthreads \in Nat /\ \A i \in 0 .. nthreads-1 : prio[i] \in Nat
      OBVIOUS
    <3>2. QED BY <1>2, <3>1, PickFirstMember
  <2>2. /\ current' = [current EXCEPT ![c] = first]
        /\ state' = [state EXCEPT ![first] = "RUNNING"]
        /\ UNCHANGED <<nthreads, core, returned>>
    BY <1>2 DEF Start
  <2> HIDE DEF first
  <2>3. \A t \in Threads : state[t] = "BLOCKED" <=> state'[t] = "BLOCKED"
    BY <2>1, <2>2
  <2>4. QED BY <2>1, <2>2, <2>3 DEF Retired
<1>3. QED BY <1>1, <1>2

\* A tick may keep a blocked thread that is current, and takes no other.
LEMMA TickRetires ==
  ASSUME SchedInv, NEW c \in Cores, Tick(c)
  PROVE  /\ UNCHANGED <<nthreads, core, returned>>
         /\ \A t \in Threads : state'[t] = "BLOCKED" => state[t] = "BLOCKED"
         /\ \A t \in Threads : Retired(t) => Retired(t)'
<1> DEFINE cur   == current[c]
           saved == SavedState(c)
           next  == Chosen(c, saved)
<1>1. /\ cur \in Published /\ core[cur] = c /\ next \in Published /\ core[next] = c
      /\ next = cur \/ saved[next] \in {"READY", "RUNNING"}
  BY TickChoice
<1>2. /\ state' = [saved EXCEPT ![next] = "RUNNING"]
      /\ current' = [current EXCEPT ![c] = next]
      /\ UNCHANGED <<nthreads, core, returned>>
  BY DEF Tick, SavedState
<1>3. \A t \in Threads : saved[t] = "BLOCKED" <=> state[t] = "BLOCKED"
  BY DEF SavedState, SchedInv, TypeOK
<1>4. saved \in [Threads -> ThreadStates]
  BY <1>1 DEF SavedState, SchedInv, TypeOK, ThreadStates
<1> HIDE DEF saved, next
<1>5. \A t \in Threads : state'[t] = "BLOCKED" => state[t] = "BLOCKED"
  BY <1>2, <1>3, <1>4
<1>6. ASSUME NEW t \in Threads, Retired(t) PROVE Retired(t)'
  <2>1. t # next
    BY <1>1, <1>3, <1>6 DEF Retired
  <2>2. state'[t] = "BLOCKED"
    BY <1>2, <1>3, <1>4, <1>6, <2>1 DEF Retired
  <2>3. core[t] \in Cores /\ current'[core[t]] # t
    BY <1>2, <1>6, <2>1 DEF Retired, SchedInv, TypeOK
  <2>4. QED BY <1>2, <1>6, <2>2, <2>3 DEF Retired
<1>7. QED BY <1>2, <1>5, <1>6

\* A table that grows keeps its threads.
LEMMA TableGrows ==
  ASSUME NEW m \in Nat, NEW n \in Nat, n >= m PROVE 0 .. m-1 \subseteq 0 .. n-1
OBVIOUS

\* No step calls a retired thread back, and the trampoline blocks the thread it
\* runs in and no other.
LEMMA RetirementStep ==
  SchedInv /\ BlockedHaveReturned /\ [Next]_vars
    => /\ BlockedHaveReturned'
       /\ \A t \in Threads : Retired(t) => Retired(t)'
<1> SUFFICES ASSUME SchedInv, BlockedHaveReturned, [Next]_vars
             PROVE  /\ BlockedHaveReturned'
                    /\ \A t \in Threads : Retired(t) => Retired(t)'
  OBVIOUS
<1> USE DEF BlockedHaveReturned
<1>1. nthreads \in Nat /\ \A t \in Threads : state[t] = "BLOCKED" => t < nthreads
  BY DEF SchedInv, TypeOK
<1>2. CASE Create
  <2>1. current' = current /\ returned' = returned
    BY <1>2 DEF Create, CreateFill, CreateFrame, CreateReady, CreatePublish
  <2>2. nthreads' \in Nat /\ nthreads' >= nthreads
    BY <1>1, <1>2 DEF Create, CreateFill, CreateFrame, CreateReady, CreatePublish, SchedInv,
                      CreationOrder
  <2>3. \A t \in Published : core'[t] = core[t]
    BY <1>2 DEF Create, CreateFill, CreateFrame, CreateReady, CreatePublish, SchedInv, TypeOK
  <2>4. UNCHANGED state \/ \E s \in {"UNUSED", "READY"} : state' = [state EXCEPT ![nthreads] = s]
    BY <1>2 DEF Create, CreateFill, CreateFrame, CreateReady, CreatePublish, SchedInv, CreationOrder
  <2>5. \A t \in Threads : state'[t] = "BLOCKED" => state[t] = "BLOCKED"
    BY <2>4 DEF SchedInv, TypeOK
  <2>6. \A t \in Threads : state[t] = "BLOCKED" => state'[t] = "BLOCKED"
    BY <1>1, <2>4 DEF SchedInv, TypeOK
  <2>7. returned' \subseteq Published'
    <3>1. 0 .. nthreads-1 \subseteq 0 .. nthreads'-1
      BY <1>1, <2>2, TableGrows
    <3>2. QED BY <2>1, <3>1
  <2>8. QED BY <1>1, <2>1, <2>3, <2>5, <2>6, <2>7 DEF Retired
<1>3. ASSUME NEW c \in Cores, Start(c) \/ Tick(c)
      PROVE  BlockedHaveReturned' /\ \A t \in Threads : Retired(t) => Retired(t)'
  BY <1>3, StartRetires, TickRetires
<1>4. ASSUME NEW u \in Threads, TrampolineBlock(u)
      PROVE  BlockedHaveReturned' /\ \A t \in Threads : Retired(t) => Retired(t)'
  <2>1. current[core[u]] = u
    BY <1>4 DEF TrampolineBlock, SchedInv, TypeOK, ContextsOwned
  <2>2. QED BY <1>4, <2>1 DEF TrampolineBlock, Retired, SchedInv, TypeOK
<1>5. ASSUME NEW u \in Threads, Return(u)
      PROVE  BlockedHaveReturned' /\ \A t \in Threads : Retired(t) => Retired(t)'
  BY <1>5 DEF Return, table, Retired
<1>6. ASSUME UNCHANGED <<nthreads, state, core, current, returned>>
      PROVE  BlockedHaveReturned' /\ \A t \in Threads : Retired(t) => Retired(t)'
  BY <1>6 DEF Retired
<1>7. CASE Release \/ UNCHANGED vars
  BY <1>6, <1>7 DEF Release, vars, table
<1>8. ASSUME NEW u \in Threads, RestorePriority(u) \/ \E p \in Prios : SetEffectivePriority(u, p)
      PROVE  UNCHANGED <<nthreads, state, core, current, returned>>
  BY <1>8 DEF RestorePriority, SetEffectivePriority
<1>9. QED
  <2> HIDE DEF BlockedHaveReturned
  <2>1. QED BY <1>2, <1>3, <1>4, <1>5, <1>6, <1>7, <1>8 DEF Next

\* Nobody has returned yet.
LEMMA InitRetirement == Init => BlockedHaveReturned
BY DEF Init, BlockedHaveReturned

\* thread_trampoline() blocks whatever g_current names when it gets there: that is
\* always the thread it runs in, wherever ticks come between.
THEOREM SchedBlocksOnlyReturned == Spec => []BlockedHaveReturned
<1>1. SchedInv /\ BlockedHaveReturned /\ [Next]_vars => BlockedHaveReturned'
  BY RetirementStep
<1>2. QED BY InitRetirement, SchedInvariant, <1>1, PTL DEF Spec

\* "A thread must not return: block it cleanly": once a blocked thread has lost
\* its core it never gets it again, whatever is created, raised or restored; the
\* safety half of ReturnedThreadsRetire.
THEOREM SchedRetiredStayOff == Spec => [][\A t \in Threads : Retired(t) => Retired(t)']_vars
<1>1. SchedInv /\ BlockedHaveReturned /\ [Next]_vars
        => [\A t \in Threads : Retired(t) => Retired(t)']_vars
  BY RetirementStep
<1>2. QED BY SchedInvariant, SchedBlocksOnlyReturned, <1>1, PTL DEF Spec

-----------------------------------------------------------------------------
(* Turns.                                                                   *)

\* In the circular order of the table, x comes after t and not after cur: the
\* threads the scans have passed since t was current, if cur is now.
Passed(t, x, cur) ==
  IF cur > t THEN t < x /\ x <= cur ELSE x > t \/ x <= cur

\* Since t had the core, only threads passed by the scan got it, each once.
TurnsInOrder ==
  /\ turns \in [Threads -> [Threads -> {0, 1}]]
  /\ \A t \in Threads : ~Waiting(t) => turns[t] = NoTurns
  /\ \A t, x \in Threads : turns[t][x] = 1 => Passed(t, x, current[core[t]])

\* Outside the ticks, no thread that goes on waiting sees its core's current
\* thread change; a thread that begins to wait starts from nothing.
LEMMA QuietStep ==
  ASSUME SchedInv, TurnsInOrder,
         \/ Create \/ Release
         \/ \E c \in Cores : Start(c)
         \/ \E t \in Threads : Return(t) \/ TrampolineBlock(t) \/ RestorePriority(t)
         \/ \E t \in Threads, p \in Prios : SetEffectivePriority(t, p),
         NEW u \in Threads, Waiting(u)', turns[u] # NoTurns
  PROVE  core'[u] = core[u] /\ current'[core[u]] = current[core[u]]
<1>1. Waiting(u)
  BY DEF TurnsInOrder
<1>2. /\ u \in 0 .. nthreads-1 /\ core[u] \in Cores
      /\ current[core[u]] # NoThread
  BY <1>1 DEF Waiting, IsBest, BestOf, Candidates, SchedInv, TypeOK
<1>3. core'[u] = core[u]
  <2>1. CASE Create
    <3>1. nthreads \in Nat /\ core \in [Threads -> Cores]
      BY DEF SchedInv, TypeOK
    <3>2. QED BY <2>1, <1>2, <3>1 DEF Create, CreateFill, CreateFrame, CreateReady, CreatePublish
  <2>2. CASE ~Create
    BY <2>2 DEF Release, table, Start, Return, TrampolineBlock, RestorePriority, SetEffectivePriority
  <2>3. QED BY <2>1, <2>2
<1>4. current'[core[u]] = current[core[u]]
  <2>1. ASSUME NEW c \in Cores, Start(c) PROVE current'[core[u]] = current[core[u]]
    <3>1. boot[c] = "wait" /\ (current' = current \/ \E t : current' = [current EXCEPT ![c] = t])
      BY <2>1 DEF Start
    <3>2. core[u] # c
      BY <1>2, <3>1 DEF SchedInv, StartedCores
    <3>3. QED BY <1>2, <3>1, <3>2 DEF SchedInv, TypeOK
  <2>2. CASE ~(\E c \in Cores : Start(c))
    BY <2>2 DEF Create, CreateFill, CreateFrame, CreateReady, CreatePublish, Release, table, Return,
                TrampolineBlock, RestorePriority, SetEffectivePriority
  <2>3. QED BY <2>1, <2>2
<1>5. QED BY <1>3, <1>4

\* A tick gives the core to a thread that lies, in the order of the table,
\* after the current thread and before each thread that goes on waiting.
LEMMA TickPasses ==
  ASSUME SchedInv, NEW c \in Cores, Tick(c),
         NEW t \in Threads, Waiting(t)', core[t] = c
  PROVE  /\ current'[c] \in 0 .. nthreads-1
         /\ current'[c] # t
         /\ ScanRank(current'[c], current[c], nthreads) <= ScanRank(t, current[c], nthreads)
<1> DEFINE cur   == current[c]
           saved == [state EXCEPT ![cur] = IF @ = "RUNNING" THEN "READY" ELSE @]
           pick  == PickNext(saved, prio, core, nthreads, c, cur)
           x     == Chosen(c, saved)
           S     == Candidates(saved, core, nthreads, c)
<1>1. /\ nthreads \in Nat /\ nthreads <= MaxThreads
      /\ state \in [Threads -> ThreadStates] /\ current \in [Cores -> Threads \cup {NoThread}]
      /\ \A i \in 0 .. nthreads-1 : prio[i] \in Nat
  BY DEF SchedInv, TypeOK
<1>2. cur \in 0 .. nthreads-1 /\ core[cur] = c
  BY DEF SchedInv, CurrentIsPinned, Tick
<1>3. /\ state' = [saved EXCEPT ![x] = "RUNNING"]
      /\ current' = [current EXCEPT ![c] = x]
      /\ UNCHANGED <<nthreads, prio, core>>
  BY DEF Tick
<1>4. saved \in [Threads -> ThreadStates]
  BY <1>1, <1>2 DEF ThreadStates
<1>5. x = IF pick = NoThread THEN cur ELSE pick
  BY DEF Chosen
<1> HIDE DEF saved, pick, x
<1>6. /\ t \in BestOf(prio, Candidates(state', core, nthreads, c))
      /\ t # current'[c] /\ current'[c] = x
  BY <1>1, <1>3 DEF Waiting, IsBest
<1>7. t \in S
  <2>1. t \in 0 .. nthreads-1 /\ core[t] = c /\ state'[t] \in {"READY", "RUNNING"}
    BY <1>6 DEF BestOf, Candidates
  <2>2. state'[t] = saved[t]
    BY <1>3, <1>4, <1>6
  <2>3. QED BY <2>1, <2>2 DEF Candidates
<1>8. x = pick /\ pick \in BestOf(prio, S)
  <2>1. pick # NoThread /\ pick \in BestOf(prio, S)
    <3> HIDE DEF cur
    <3>1. QED BY <1>1, <1>2, <1>7, PickNextIsBest DEF pick
  <2>2. QED BY <1>5, <2>1
<1>9. x \in S /\ x \in 0 .. nthreads-1
  BY <1>8 DEF BestOf, Candidates
<1>10. Candidates(state', core, nthreads, c) = S
  BY <1>1, <1>3, <1>4, <1>9 DEF Candidates
<1>11. t \in BestOf(prio, S)
  BY <1>6, <1>10
<1>12. ScanRank(pick, cur, nthreads) <= ScanRank(t, cur, nthreads)
  <2> HIDE DEF cur
  <2>1. QED BY <1>1, <1>2, <1>11, PickNextIsFirst DEF pick
<1>13. QED BY <1>6, <1>8, <1>9, <1>12

\* A thread between the current and the waiting one has not been passed yet;
\* it is once it is current, and so are those passed before.
LEMMA PassedOn ==
  ASSUME NEW n \in Nat, NEW t \in 0 .. n-1, NEW cur \in 0 .. n-1, NEW x \in 0 .. n-1,
         x # t, t # cur, ScanRank(x, cur, n) <= ScanRank(t, cur, n)
  PROVE  /\ ~Passed(t, x, cur)
         /\ Passed(t, x, x)
         /\ \A y \in Int : Passed(t, y, cur) => Passed(t, y, x)
BY DEF Passed, ScanRank

\* A step outside the ticks.
LEMMA QuietTurns ==
  ASSUME SchedInv, TurnsInOrder,
         \/ Create \/ Release
         \/ \E c \in Cores : Start(c)
         \/ \E t \in Threads : Return(t) \/ TrampolineBlock(t) \/ RestorePriority(t)
         \/ \E t \in Threads, p \in Prios : SetEffectivePriority(t, p),
         turns' = [t \in Threads |-> IF Waiting(t)' THEN turns[t] ELSE NoTurns]
  PROVE  TurnsInOrder'
<1>1. ASSUME NEW t \in Threads, NEW x \in Threads, turns'[t][x] = 1
      PROVE  Passed(t, x, current'[core'[t]])
  <2>1. Waiting(t)' /\ turns'[t] = turns[t] /\ turns[t][x] = 1
    BY <1>1 DEF NoTurns
  <2>2. turns[t] # NoTurns
    BY <2>1 DEF NoTurns
  <2>3. core'[t] = core[t] /\ current'[core[t]] = current[core[t]]
    BY <2>1, <2>2, QuietStep
  <2>4. Passed(t, x, current[core[t]])
    BY <2>1 DEF TurnsInOrder
  <2>5. QED BY <2>3, <2>4
<1>2. turns' \in [Threads -> [Threads -> {0, 1}]]
  <2>1. NoTurns \in [Threads -> {0, 1}]
    BY DEF NoTurns
  <2>2. QED BY <2>1 DEF TurnsInOrder
<1>3. \A t \in Threads : ~Waiting(t)' => turns'[t] = NoTurns
  OBVIOUS
<1>4. QED BY <1>1, <1>2, <1>3 DEF TurnsInOrder

\* A tick.
LEMMA TickTurns ==
  ASSUME SchedInv, TurnsInOrder, NEW c \in Cores, Tick(c), CountTick(c)
  PROVE  TurnsInOrder'
<1> DEFINE x == current'[c]
           cur == current[c]
<1>1. /\ nthreads \in Nat /\ core \in [Threads -> Cores] /\ cur \in 0 .. nthreads-1
      /\ core' = core /\ \A d \in Cores \ {c} : current'[d] = current[d]
  <2>1. /\ core' = core
        /\ \E u : current' = [current EXCEPT ![c] = u]
        /\ current[c] # NoThread
    BY DEF Tick
  <2>2. QED BY <2>1 DEF SchedInv, TypeOK, CurrentIsPinned
<1>2. turns' = [t \in Threads |->
                 IF ~Waiting(t)' THEN NoTurns
                 ELSE IF core[t] = c /\ turns[t][x] < 2 THEN [turns[t] EXCEPT ![x] = @ + 1]
                 ELSE turns[t]]
  BY DEF CountTick
<1>3. turns \in [Threads -> [Threads -> {0, 1}]] /\ NoTurns \in [Threads -> {0, 1}]
  BY DEF TurnsInOrder, NoTurns
<1> HIDE DEF x
<1>4. ASSUME NEW t \in Threads
      PROVE  /\ turns'[t] \in [Threads -> {0, 1}]
             /\ ~Waiting(t)' => turns'[t] = NoTurns
             /\ \A y \in Threads : turns'[t][y] = 1 => Passed(t, y, current'[core'[t]])
  <2>1. CASE ~Waiting(t)'
    <3>1. turns'[t] = NoTurns
      BY <1>2, <2>1
    <3>2. QED BY <1>3, <2>1, <3>1 DEF NoTurns
  <2>2. CASE Waiting(t)' /\ core[t] # c
    <3>1. turns'[t] = turns[t]
      BY <1>2, <2>2
    <3>2. current'[core'[t]] = current[core[t]]
      BY <1>1, <2>2
    <3>3. QED BY <1>3, <2>2, <3>1, <3>2 DEF TurnsInOrder
  <2>3. CASE Waiting(t)' /\ core[t] = c
    <3>1. x \in 0 .. nthreads-1 /\ x # t /\ ScanRank(x, cur, nthreads) <= ScanRank(t, cur, nthreads)
      BY <2>3, TickPasses DEF x
    <3>2. current'[core'[t]] = x
      BY <1>1, <2>3 DEF x
    <3>3. x \in Threads
      BY <3>1 DEF SchedInv, TypeOK
    <3>4. turns[t][x] = 0 /\ Passed(t, x, x) /\ \A y \in Threads : turns[t][y] = 1 => Passed(t, y, x)
      <4>1. CASE cur = t
        <5>1. ~Waiting(t)
          BY <2>3, <4>1 DEF Waiting
        <5>2. turns[t] = NoTurns
          BY <5>1 DEF TurnsInOrder
        <5>3. \A y \in Threads : turns[t][y] = 0
          BY <5>2 DEF NoTurns
        <5>4. QED BY <3>1, <3>3, <5>3 DEF Passed
      <4>2. CASE cur # t
        <5>1. t \in 0 .. nthreads-1
          <6>1. t \in Published'
            BY <2>3 DEF Waiting, IsBest, BestOf, Candidates
          <6>2. nthreads' = nthreads
            BY DEF Tick
          <6>3. QED BY <6>1, <6>2
        <5> HIDE DEF cur
        <5>2. /\ ~Passed(t, x, cur) /\ Passed(t, x, x)
              /\ \A y \in Int : Passed(t, y, cur) => Passed(t, y, x)
          BY <1>1, <3>1, <4>2, <5>1, PassedOn
        <5>3. \A y \in Threads : turns[t][y] = 1 => Passed(t, y, cur)
          BY <2>3 DEF TurnsInOrder, cur
        <5>4. turns[t][x] # 1
          BY <3>3, <5>2, <5>3
        <5>5. turns[t][x] = 0
          BY <1>3, <3>3, <5>4
        <5>6. Threads \subseteq Int
          OBVIOUS
        <5>7. QED BY <5>2, <5>3, <5>5, <5>6
      <4>3. QED BY <4>1, <4>2
    <3>5. turns'[t] = [turns[t] EXCEPT ![x] = 1]
      <4>1. turns'[t] = [turns[t] EXCEPT ![x] = @ + 1]
        BY <1>2, <2>3, <3>4
      <4>2. QED BY <3>4, <4>1
    <3>6. QED BY <1>3, <2>3, <3>2, <3>3, <3>4, <3>5
  <2>4. QED BY <2>1, <2>2, <2>3
<1>5. turns' \in [Threads -> [Threads -> {0, 1}]]
  BY <1>2, <1>4
<1>6. QED BY <1>4, <1>5 DEF TurnsInOrder

\* The counted steps are those of Sched.
LEMMA TurnsStep == TurnsNext => Next
BY DEF TurnsNext, Next

LEMMA TurnsNextInv ==
  SchedInv /\ TurnsInOrder /\ [TurnsNext]_<<vars, turns>> => TurnsInOrder'
<1> SUFFICES ASSUME SchedInv, TurnsInOrder, [TurnsNext]_<<vars, turns>> PROVE TurnsInOrder'
  OBVIOUS
<1>1. CASE UNCHANGED <<vars, turns>>
  BY <1>1 DEF vars, table, TurnsInOrder, Waiting, IsBest
<1>2. ASSUME NEW c \in Cores, Tick(c), CountTick(c) PROVE TurnsInOrder'
  BY <1>2, TickTurns
<1>3. CASE TurnsNext /\ ~(\E c \in Cores : Tick(c) /\ CountTick(c))
  BY <1>3, QuietTurns DEF TurnsNext
<1>4. QED BY <1>1, <1>2, <1>3 DEF TurnsNext

\* "At equal priority the preemptive scheduler round-robins them" (net_task.c):
\* between two turns of one thread, every thread that stayed runnable at the
\* best level has had its own.
THEOREM SchedRoundRobin == TurnsSpec => []NobodyGoesTwice
<1>1. TurnsInit => SchedInv /\ TurnsInOrder
  <2>1. TurnsInit => SchedInv
    BY SchedInitInv DEF TurnsInit
  <2>2. TurnsInit => TurnsInOrder
    BY DEF TurnsInit, TurnsInOrder, NoTurns
  <2>3. QED BY <2>1, <2>2
<1>2. SchedInv /\ TurnsInOrder /\ [TurnsNext]_<<vars, turns>> => (SchedInv /\ TurnsInOrder)'
  <2>1. [TurnsNext]_<<vars, turns>> => [Next]_vars
    BY TurnsStep
  <2>2. QED BY <2>1, SchedNextInv, TurnsNextInv
<1>3. SchedInv /\ TurnsInOrder => NobodyGoesTwice
  <2>1. \A i \in {0, 1} : i <= 1
    OBVIOUS
  <2>2. QED BY <2>1 DEF TurnsInOrder, NobodyGoesTwice
<1>4. QED BY <1>1, <1>2, <1>3, PTL DEF TurnsSpec

-----------------------------------------------------------------------------
(* The scan of pick_next() while the table moves.                           *)

\* The candidates among the threads published before the scan began.
OldCandidates == Candidates(state, core, atStart, Self)

\* The scan has still to come to the slot of the old thread j: growing the
\* table moves it back on the part behind the wrap, never forward.
Ahead(j) == IF j > from THEN from + k <= j ELSE from + k - nthreads <= j

\* The best thread found so far is as good as j.
Beaten(j) == best # NoThread /\ (~prioWritten => bestPrio <= prio[j])

ScanTypes ==
  /\ nthreads \in 1 .. MaxThreads
  /\ prio \in [Threads -> Prios]
  /\ atStart \in 1 .. nthreads
  /\ from \in 0 .. atStart-1
  /\ k \in Nat \ {0}
  /\ pc \in {"test", "visit", "done"}
  /\ pc = "visit" => k <= nthreads
  /\ pc = "done" => k > nthreads

\* The locals of the scan describe a runnable thread of the partition, if any.
BestFound ==
  /\ best = NoThread => bestPrio = Infinite
  /\ best # NoThread => best \in Candidates(state, core, nthreads, Self)
  /\ best # NoThread /\ ~prioWritten => bestPrio = prio[best]

\* No old thread is passed over.
OldMetOrAhead == \A j \in OldCandidates : Ahead(j) \/ Beaten(j)

\* No old thread that comes earlier in the order is as good as an old answer.
EarlierAreWorse ==
  best \in 0 .. atStart-1 /\ ~prioWritten =>
    \A j \in OldCandidates :
      ScanRank(j, from, atStart) < ScanRank(best, from, atStart) => prio[best] < prio[j]

ScanInv == ScanTypes /\ BestFound /\ OldMetOrAhead /\ EarlierAreWorse

LEMMA ScanInitInv == ScanInit => ScanInv
<1> SUFFICES ASSUME ScanInit PROVE ScanInv
  OBVIOUS
<1>1. ScanTypes
  BY DEF ScanInit, ScanTypes
<1>2. BestFound /\ EarlierAreWorse
  BY DEF ScanInit, BestFound, EarlierAreWorse, NoThread
<1>3. OldMetOrAhead
  BY <1>1 DEF ScanInit, ScanTypes, OldMetOrAhead, OldCandidates, Candidates, Ahead
<1>4. QED BY <1>1, <1>2, <1>3 DEF ScanInv

\* All priorities are below the initial value of the scan's minimum.
LEMMA PriorityLevels ==
  ASSUME ScanInv PROVE \A j \in 0 .. nthreads-1 : prio[j] \in 0 .. 31
<1> TAKE j \in 0 .. nthreads-1
<1>1. j \in Threads
  BY DEF ScanInv, ScanTypes
<1>2. prio[j] \in Prios
  BY <1>1 DEF ScanInv, ScanTypes
<1>3. QED BY <1>2, ScanAssumption

\* Where the visit of iteration k looks.
LEMMA VisitedSlot ==
  ASSUME ScanInv, pc = "visit"
  PROVE  /\ Slot \in 0 .. nthreads-1
         /\ from + k < nthreads => Slot = from + k
         /\ from + k >= nthreads => Slot = from + k - nthreads
<1>1. nthreads \in Nat \ {0} /\ from \in Nat /\ k \in Nat /\ from + k \in 0 .. 2*nthreads-1
  BY DEF ScanInv, ScanTypes
<1>2. PICK x \in 0 .. 2*nthreads-1 : x = from + k
  BY <1>1
<1>3. Slot = x % nthreads
  BY <1>2, Zenon DEF Slot
<1>4. (x < nthreads => Slot = x) /\ (x >= nthreads => Slot = x - nthreads)
  BY <1>1, <1>3, RingMod
<1>5. Slot \in 0 .. nthreads-1
  BY <1>1, <1>4
<1>6. QED BY <1>1, <1>2, <1>4, <1>5

\* One iteration.
LEMMA VisitInv == ScanInv /\ Visit => ScanInv'
<1> SUFFICES ASSUME ScanInv, Visit PROVE ScanInv'
  OBVIOUS
<1> DEFINE i == Slot
           better == core[i] = Self /\ state[i] \in {"READY", "RUNNING"} /\ prio[i] < bestPrio
<1>1. /\ i \in 0 .. nthreads-1
      /\ from + k < nthreads => i = from + k
      /\ from + k >= nthreads => i = from + k - nthreads
  BY VisitedSlot DEF Visit
<1>2. /\ better => best' = i /\ bestPrio' = prio[i]
      /\ ~better => best' = best /\ bestPrio' = bestPrio
      /\ k' = k + 1 /\ pc' = "test"
      /\ UNCHANGED <<nthreads, state, prio, core, from, atStart, prioWritten>>
  BY DEF Visit
<1> HIDE DEF i
<1>3. /\ nthreads \in Nat /\ nthreads <= MaxThreads /\ atStart \in 1 .. nthreads
      /\ from \in 0 .. atStart-1 /\ k \in Nat
      /\ \A j \in 0 .. nthreads-1 : prio[j] \in 0 .. 31
  <2>1. /\ nthreads \in 1 .. MaxThreads /\ atStart \in 1 .. nthreads
        /\ from \in 0 .. atStart-1 /\ k \in Nat
    BY DEF ScanInv, ScanTypes
  <2>2. \A j \in 0 .. nthreads-1 : prio[j] \in 0 .. 31
    BY PriorityLevels
  <2>3. QED BY <2>1, <2>2
<1>4. ScanTypes'
  BY <1>2 DEF ScanInv, ScanTypes
<1>5. BestFound'
  <2>1. CASE better
    <3>1. i \in Candidates(state, core, nthreads, Self) /\ i # NoThread
      BY <1>1, <2>1 DEF Candidates, NoThread
    <3>2. QED BY <1>2, <2>1, <3>1 DEF BestFound
  <2>2. CASE ~better
    BY <1>2, <2>2 DEF ScanInv, BestFound
  <2>3. QED BY <2>1, <2>2
\* A candidate that has been passed or is visited is not better than the
\* answer after the visit.
<1>6. ASSUME NEW j \in OldCandidates PROVE Ahead(j)' \/ Beaten(j)'
  <2>1. j \in 0 .. atStart-1 /\ core[j] = Self /\ state[j] \in {"READY", "RUNNING"}
    BY DEF OldCandidates, Candidates
  <2>2. prio[j] \in 0 .. 31
    BY <1>3, <2>1
  <2>3. bestPrio \in Int \/ prioWritten
    <3>1. best # NoThread => best \in 0 .. nthreads-1
      BY DEF ScanInv, BestFound, Candidates
    <3>2. QED BY <1>3, <3>1 DEF ScanInv, BestFound, Infinite
  <2>4. CASE Beaten(j)
    <3>1. CASE better
      <4>1. i # NoThread
        BY <1>1 DEF NoThread
      <4>2. ~prioWritten => prio[i] <= prio[j]
        <5>1. prio[i] < bestPrio /\ prio[i] \in Int /\ prio[j] \in Int
          BY <1>1, <1>3, <2>2, <3>1
        <5>2. ~prioWritten => bestPrio <= prio[j]
          BY <2>4 DEF Beaten
        <5>3. QED BY <2>3, <5>1, <5>2
      <4>3. QED BY <1>2, <3>1, <4>1, <4>2 DEF Beaten
    <3>2. CASE ~better
      BY <1>2, <2>4, <3>2 DEF Beaten
    <3>3. QED BY <3>1, <3>2
  <2>5. CASE Ahead(j) /\ j # i
    <3>1. Ahead(j)'
      <4>1. Ahead(j)' <=> (IF j > from THEN from + (k + 1) <= j ELSE from + (k + 1) - nthreads <= j)
        BY <1>2 DEF Ahead
      <4>2. IF j > from THEN from + k <= j ELSE from + k - nthreads <= j
        BY <2>5 DEF Ahead
      <4>3. QED BY <1>1, <1>3, <2>1, <2>5, <4>1, <4>2
    <3>2. QED BY <3>1
  <2>6. CASE j = i
    <3>1. CASE better
      BY <1>1, <1>2, <2>2, <2>6, <3>1 DEF Beaten, NoThread
    <3>2. CASE ~better
      <4>1. ~(prio[j] < bestPrio)
        BY <2>1, <2>6, <3>2
      <4>2. best # NoThread
        BY <2>2, <4>1 DEF ScanInv, BestFound, Infinite
      <4>3. ~prioWritten => bestPrio <= prio[j]
        BY <2>2, <2>3, <4>1
      <4>4. QED BY <1>2, <3>2, <4>2, <4>3 DEF Beaten
    <3>3. QED BY <3>1, <3>2
  <2>7. QED BY <2>4, <2>5, <2>6 DEF ScanInv, OldMetOrAhead
<1>7. OldMetOrAhead'
  BY <1>2, <1>6 DEF OldMetOrAhead, OldCandidates
<1>8. EarlierAreWorse'
  <2>1. CASE ~better
    BY <1>2, <2>1 DEF ScanInv, EarlierAreWorse, OldCandidates
  <2>2. CASE better
    <3>1. ASSUME NEW j \in OldCandidates, i \in 0 .. atStart-1, ~prioWritten,
                 ScanRank(j, from, atStart) < ScanRank(i, from, atStart)
          PROVE  prio[i] < prio[j]
      <4>1. j \in 0 .. atStart-1
        BY DEF OldCandidates, Candidates
      <4>2. prio[i] \in Int /\ prio[j] \in Int
        BY <1>1, <1>3, <4>1
      <4>3. ~Ahead(j)
        <5>1. i > from => ScanRank(i, from, atStart) = i - from
          BY DEF ScanRank
        <5>2. ~(i > from) => ScanRank(i, from, atStart) = i - from + atStart
          BY DEF ScanRank
        <5>3. j > from => ScanRank(j, from, atStart) = j - from
          BY DEF ScanRank
        <5>4. ~(j > from) => ScanRank(j, from, atStart) = j - from + atStart
          BY DEF ScanRank
        <5>5. CASE j > from
          <6>1. SUFFICES ASSUME from + k <= j PROVE FALSE
            BY <5>5 DEF Ahead
          <6>2. i = from + k
            BY <1>1, <1>3, <4>1, <6>1
          <6>3. i > from
            BY <1>3, <6>2 DEF ScanInv, ScanTypes
          <6>4. QED BY <1>1, <1>3, <3>1, <4>1, <5>1, <5>3, <5>5, <6>1, <6>2, <6>3
        <5>6. CASE ~(j > from)
          <6>1. SUFFICES ASSUME from + k - nthreads <= j PROVE FALSE
            BY <5>6 DEF Ahead
          <6>2. CASE i > from
            BY <1>1, <1>3, <3>1, <4>1, <5>1, <5>4, <5>6, <6>2
          <6>3. CASE ~(i > from)
            <7>1. k > 0
              BY DEF ScanInv, ScanTypes
            <7>2. from + k >= nthreads
              BY <1>1, <1>3, <6>3, <7>1
            <7>3. i <= j
              BY <1>1, <6>1, <7>2
            <7>4. QED BY <1>1, <1>3, <3>1, <4>1, <5>2, <5>4, <5>6, <6>3, <7>3
          <6>4. QED BY <6>2, <6>3
        <5>7. QED BY <5>5, <5>6
      <4>4. Beaten(j)
        BY <4>3 DEF ScanInv, OldMetOrAhead
      <4>5. best # NoThread /\ bestPrio <= prio[j] /\ bestPrio = prio[best] /\ best \in 0 .. nthreads-1
        BY <3>1, <4>4 DEF Beaten, ScanInv, BestFound, Candidates
      <4>6. bestPrio \in Int
        BY <1>3, <4>5
      <4>7. prio[i] < bestPrio
        BY <2>2
      <4>8. QED BY <4>2, <4>5, <4>6, <4>7
    <3>2. QED BY <1>2, <2>2, <3>1 DEF EarlierAreWorse, OldCandidates
  <2>3. QED BY <2>1, <2>2
<1>9. QED BY <1>4, <1>5, <1>7, <1>8 DEF ScanInv

\* The table grows under the scan.
LEMMA PublishInv == ScanInv /\ Publish => ScanInv'
<1> SUFFICES ASSUME ScanInv, Publish PROVE ScanInv'
  OBVIOUS
<1>1. /\ nthreads' = nthreads + 1 /\ nthreads < MaxThreads /\ pc # "done"
      /\ UNCHANGED <<state, prio, core, from, pc, k, best, bestPrio, atStart, prioWritten>>
  BY DEF Publish
<1>2. ScanTypes'
  BY <1>1 DEF ScanInv, ScanTypes
<1>3. BestFound'
  <2>1. nthreads \in Nat
    BY DEF ScanInv, ScanTypes
  <2>2. Candidates(state, core, nthreads, Self) \subseteq Candidates(state, core, nthreads', Self)
    BY <1>1, <2>1 DEF Candidates
  <2>3. QED BY <1>1, <2>2 DEF ScanInv, BestFound
<1>4. OldMetOrAhead'
  <2>1. ASSUME NEW j \in OldCandidates PROVE Ahead(j)' \/ Beaten(j)'
    <3>1. j \in Int /\ from \in Int /\ k \in Int /\ nthreads \in Int
      BY DEF OldCandidates, Candidates, ScanInv, ScanTypes
    <3>2. Ahead(j) => Ahead(j)'
      BY <1>1, <3>1 DEF Ahead
    <3>3. Beaten(j) => Beaten(j)'
      BY <1>1 DEF Beaten
    <3>4. QED BY <3>2, <3>3 DEF ScanInv, OldMetOrAhead
  <2>2. QED BY <1>1, <2>1 DEF OldMetOrAhead, OldCandidates
<1>5. EarlierAreWorse'
  BY <1>1 DEF ScanInv, EarlierAreWorse, OldCandidates
<1>6. QED BY <1>2, <1>3, <1>4, <1>5 DEF ScanInv

LEMMA ScanNextInv == ScanInv /\ [ScanNext]_scanVars => ScanInv'
<1> SUFFICES ASSUME ScanInv, [ScanNext]_scanVars PROVE ScanInv'
  OBVIOUS
<1>1. CASE Test
  <2>1. /\ UNCHANGED <<nthreads, state, prio, core, from, k, best, bestPrio, atStart, prioWritten>>
        /\ pc' = IF k <= nthreads THEN "visit" ELSE "done"
    BY <1>1 DEF Test
  <2>2. ScanTypes'
    BY <2>1 DEF ScanInv, ScanTypes
  <2>3. QED BY <2>1, <2>2 DEF ScanInv, BestFound, OldMetOrAhead, OldCandidates, EarlierAreWorse, Ahead, Beaten
<1>2. CASE Visit
  BY <1>2, VisitInv
<1>3. CASE Publish
  BY <1>3, PublishInv
<1>4. CASE WritePriority
  <2>1. /\ prio' \in [Threads -> Prios] /\ prioWritten'
        /\ UNCHANGED <<nthreads, state, core, from, pc, k, best, bestPrio, atStart>>
    BY <1>4 DEF WritePriority, ScanInv, ScanTypes
  <2>2. ScanTypes'
    BY <2>1 DEF ScanInv, ScanTypes
  <2>3. OldMetOrAhead'
    BY <2>1 DEF ScanInv, OldMetOrAhead, OldCandidates, Ahead, Beaten
  <2>4. BestFound' /\ EarlierAreWorse'
    BY <2>1 DEF ScanInv, BestFound, EarlierAreWorse
  <2>5. QED BY <2>2, <2>3, <2>4 DEF ScanInv
<1>5. CASE UNCHANGED scanVars
  BY <1>5 DEF scanVars, ScanInv, ScanTypes, BestFound, OldMetOrAhead, OldCandidates, EarlierAreWorse, Ahead, Beaten
<1>6. QED BY <1>1, <1>2, <1>3, <1>4, <1>5 DEF ScanNext

LEMMA ScanInvariant == ScanSpec => []ScanInv
BY ScanInitInv, ScanNextInv, PTL DEF ScanSpec

\* When the loop has ended, it has met every old candidate.
LEMMA ScanEnded ==
  ASSUME ScanInv, pc = "done"
  PROVE  \A j \in OldCandidates : Beaten(j)
<1> SUFFICES ASSUME NEW j \in OldCandidates PROVE ~Ahead(j)
  BY DEF ScanInv, OldMetOrAhead
<1>1. j \in 0 .. atStart-1
  BY DEF OldCandidates, Candidates
<1>2. k > nthreads /\ k \in Nat /\ atStart \in 1 .. nthreads /\ nthreads \in Nat /\ from \in 0 .. atStart-1
  BY DEF ScanInv, ScanTypes
<1>3. QED BY <1>1, <1>2 DEF Ahead

\* Whatever other cores write under the scan, pick_next() answers a runnable
\* thread of the partition, and NO_THREAD only if none was published before.
THEOREM ScanAnswerIsRunnable == ScanSpec => []AnswerIsRunnable
<1>1. ScanInv => AnswerIsRunnable
  <2> SUFFICES ASSUME ScanInv, pc = "done" PROVE AnswerIsRunnable
    BY DEF AnswerIsRunnable
  <2>1. best = NoThread => OldCandidates = {}
    BY ScanEnded DEF Beaten
  <2>2. best # NoThread => best \in Candidates(state, core, nthreads, Self)
    BY DEF ScanInv, BestFound
  <2>3. QED BY <2>1, <2>2 DEF AnswerIsRunnable, OldCandidates
<1>2. QED BY <1>1, ScanInvariant, PTL

\* A table that grows under the scan neither hides an old thread nor changes
\* the round robin among the old ones.
THEOREM ScanHidesNobody == ScanSpec => []OldThreadsNotHidden
<1>1. ScanInv => OldThreadsNotHidden
  <2> SUFFICES ASSUME ScanInv, pc = "done", ~prioWritten
               PROVE  IF best < atStart
                        THEN best = PickNext(state, prio, core, atStart, Self, from)
                        ELSE \A j \in OldCandidates : prio[best] <= prio[j]
    BY DEF OldThreadsNotHidden, OldCandidates
  <2>1. \A j \in OldCandidates : best # NoThread /\ prio[best] <= prio[j]
    BY ScanEnded DEF Beaten, ScanInv, BestFound
  <2>2. /\ atStart \in Nat /\ from \in 0 .. atStart-1
        /\ \A j \in 0 .. atStart-1 : prio[j] \in Nat
    <3>1. atStart \in 1 .. nthreads /\ nthreads \in Nat /\ from \in 0 .. atStart-1
      BY DEF ScanInv, ScanTypes
    <3>2. \A j \in 0 .. nthreads-1 : prio[j] \in Nat
      BY PriorityLevels
    <3>3. QED BY <3>1, <3>2
  <2>3. CASE best = NoThread
    <3>1. OldCandidates = {}
      BY <2>1, <2>3
    <3>2. PickNext(state, prio, core, atStart, Self, from) = NoThread
      BY <2>2, <3>1, PickNextIsBest DEF OldCandidates
    <3>3. best < atStart
      BY <2>2, <2>3 DEF NoThread
    <3>4. QED BY <2>3, <3>2, <3>3
  <2>4. CASE best # NoThread /\ best < atStart
    <3>1. best \in OldCandidates
      BY <2>2, <2>4 DEF ScanInv, BestFound, OldCandidates, Candidates
    <3>2. best \in BestOf(prio, OldCandidates)
      BY <2>1, <3>1 DEF BestOf
    <3>3. ASSUME NEW j \in BestOf(prio, OldCandidates)
          PROVE  ScanRank(best, from, atStart) <= ScanRank(j, from, atStart)
      <4>1. j \in OldCandidates /\ prio[j] <= prio[best]
        BY <3>1 DEF BestOf
      <4>2. best \in 0 .. atStart-1 /\ j \in 0 .. atStart-1
        BY <3>1, <4>1 DEF OldCandidates, Candidates
      <4>3. ~(prio[best] < prio[j])
        BY <2>2, <4>1, <4>2
      <4>4. ~(ScanRank(j, from, atStart) < ScanRank(best, from, atStart))
        BY <4>1, <4>2, <4>3 DEF ScanInv, EarlierAreWorse
      <4>5. ScanRank(j, from, atStart) \in Int /\ ScanRank(best, from, atStart) \in Int
        BY <2>2, <4>2 DEF ScanRank
      <4>6. QED BY <4>4, <4>5
    <3>4. best = PickNext(state, prio, core, atStart, Self, from)
      BY <2>2, <3>2, <3>3, PickNextIsFirst DEF OldCandidates
    <3>5. QED BY <2>4, <3>4
  <2>5. QED BY <2>1, <2>3, <2>4
<1>2. QED BY <1>1, ScanInvariant, PTL

-----------------------------------------------------------------------------
(* The start of a core.                                                     *)

\* The points of the boot path after the assignment of g_current, up to the
\* first eret.
LatePoints == {"mark", "load", "movsp", "elr", "regs", "add", "eret"}

BootAt(point) == live.who = Boot /\ live.pc = point

\* Where a stack pointer may point, the emptied stack included.
Places == Stacks \X (0 .. MaxDepth)

\* Context c may be resumed from a frame at address a: the boot path after the
\* assignment of g_current, with a frame left for it above when it is about to
\* load ELR_EL1; or the first thread from the top of its own stack.
Good(c, a) ==
  \/ c.who = Boot /\ c.pc \in LatePoints /\ (c.pc = "elr" => a[2] >= 2)
  \/ c.who = picked /\ a = <<picked, 1>>

\* Every frame from p to the top of its stack may be resumed.
Readable(p) ==
  /\ p \in Places /\ p[1] \in {Boot, picked}
  /\ \A i \in 1 .. p[2] : Good(mem[<<p[1], i>>], <<p[1], i>>)

Loadable(p) == Readable(p) /\ p[2] >= 1

StartTypes ==
  /\ nthreads = MaxThreads /\ core = [t \in Threads |-> StartCore]
  /\ prio \in [Threads -> Nat]
  /\ state \in [Threads -> {"READY", "RUNNING"}]
  /\ gCurrent = NoThread => state = [t \in Threads |-> "READY"]
  /\ mem = [a \in Addrs |-> mem[a]]
  /\ tcbSp \in [Threads -> Places]
  /\ picked \in Threads \cup {NoThread} /\ gCurrent \in Threads \cup {NoThread}

\* The threads that were not picked, and all until g_current is assigned.
PeersUntouched ==
  \A t \in Threads : t # picked \/ gCurrent = NoThread => tcbSp[t] = <<t, 1>> /\ mem[<<t, 1>>].who = t

\* What executes belongs to what is current, at every point of the boot path.
LiveIsCurrent ==
  /\ BootAt("pick") \/ BootAt("set") => gCurrent = NoThread /\ sp = <<Boot, 0>>
  /\ live.who = Boot => live.pc \in {"pick", "set", "astray"} \cup LatePoints /\ Readable(sp)
  /\ live.who = Boot /\ live.pc \in LatePoints \cup {"astray"} => gCurrent = picked
  /\ live.who # Boot => gCurrent = live.who /\ sp = <<live.who, 0>>
  /\ ~BootAt("pick") => picked # NoThread

\* The frame in the slot of the first thread, and the address of it that the
\* boot path, executing or saved, is about to move into sp.
ArgumentLoadable ==
  /\ gCurrent # NoThread => Loadable(tcbSp[picked])
  /\ BootAt("movsp") => Loadable(x0)
  /\ \A a \in Addrs : mem[a].who = Boot /\ mem[a].pc = "movsp"
                        => gCurrent # NoThread /\ Loadable(mem[a].x0)

\* Where the eret of the boot path goes, and what it finds in x0 there.
ReturnFits ==
  /\ BootAt("elr") => sp[2] >= 1
  /\ BootAt("regs") => /\ Good(elr, sp)
                       /\ elr.who = Boot /\ elr.pc = "movsp" => Loadable(mem[sp].x0)
  /\ BootAt("add") => /\ Good(elr, sp)
                      /\ elr.who = Boot /\ elr.pc = "movsp" => Loadable(x0)
  /\ BootAt("eret") => /\ Good(elr, Below(sp))
                       /\ elr.who = Boot /\ elr.pc = "movsp" => Loadable(x0)

BootInv ==
  /\ StartTypes
  /\ PeersUntouched
  /\ LiveIsCurrent
  /\ ArgumentLoadable
  /\ ReturnFits

LEMMA BootIsNoThread == \A t \in Threads : t # Boot /\ t # NoThread
BY DEF Threads, Boot, NoThread

\* Moving the stack pointer by one frame.
LEMMA PlaceFacts ==
  ASSUME NEW p \in Places
  PROVE  /\ p = <<p[1], p[2]>> /\ p[1] \in Stacks /\ p[2] \in 0 .. MaxDepth
         /\ p[2] < MaxDepth => Below(p) \in Addrs /\ Below(p) \in Places
         /\ p[2] > 0 => p \in Addrs /\ Above(p) \in Places
         /\ Below(p)[1] = p[1] /\ Below(p)[2] = p[2] + 1 /\ Above(Below(p)) = p
         /\ Above(p)[1] = p[1] /\ Above(p)[2] = p[2] - 1 /\ Below(Above(p)) = p
BY StartAssumption DEF Places, Addrs, Below, Above

\* A place in a readable stack, and what is there.
LEMMA ReadableAbove ==
  ASSUME NEW p, Loadable(p)
  PROVE  p \in Addrs /\ Readable(Above(p)) /\ Good(mem[p], p)
<1>1. p \in Places /\ p[2] >= 1 /\ p[1] \in {Boot, picked}
  BY DEF Loadable, Readable
<1>2. p = <<p[1], p[2]>> /\ p[2] \in 1 .. p[2] /\ p[2] \in Nat
  BY <1>1, PlaceFacts
<1>3. Good(mem[p], p)
  BY <1>1, <1>2 DEF Loadable, Readable
<1>4. Readable(Above(p))
  <2>1. Above(p) \in Places /\ Above(p)[1] = p[1] /\ Above(p)[2] = p[2] - 1
    BY <1>1, <1>2, PlaceFacts
  <2>2. \A i \in 1 .. p[2] - 1 : i \in 1 .. p[2]
    BY <1>2
  <2>3. QED BY <1>1, <2>1, <2>2 DEF Loadable, Readable
<1>5. QED BY <1>1, <1>2, <1>3, <1>4, PlaceFacts

\* The same of what an interrupt leaves in memory.
LEMMA ReadableAboveNext ==
  ASSUME NEW p, Loadable(p)'
  PROVE  p \in Addrs /\ p \in Places /\ Readable(Above(p))' /\ Good(mem[p], p)'
<1>1. p \in Places /\ p[2] >= 1 /\ p[1] \in {Boot, picked'}
  BY DEF Loadable, Readable
<1>2. p = <<p[1], p[2]>> /\ p[2] \in 1 .. p[2] /\ p[2] \in Nat
  BY <1>1, PlaceFacts
<1>3. Good(mem[p], p)'
  BY <1>1, <1>2 DEF Loadable, Readable
<1>4. Readable(Above(p))'
  <2>1. Above(p) \in Places /\ Above(p)[1] = p[1] /\ Above(p)[2] = p[2] - 1
    BY <1>1, <1>2, PlaceFacts
  <2>2. \A i \in 1 .. p[2] - 1 : i \in 1 .. p[2]
    BY <1>2
  <2>3. QED BY <1>1, <2>1, <2>2 DEF Loadable, Readable
<1>5. QED BY <1>1, <1>2, <1>3, <1>4, PlaceFacts

\* Resuming a context keeps its owner, and the boot path its point.
LEMMA ResumeFacts ==
  ASSUME NEW c, Resume(c)
  PROVE  /\ live'.who = c.who
         /\ c.pc # "entry" => live'.pc = c.pc
BY DEF Resume, Run

LEMMA BootInitInv == StartInit => BootInv
<1> SUFFICES ASSUME StartInit PROVE BootInv
  OBVIOUS
<1>1. /\ live.who = Boot /\ live.pc = "pick" /\ sp = <<Boot, 0>>
      /\ gCurrent = NoThread /\ picked = NoThread
  BY DEF StartInit, At
<1>2. \A t \in Threads : <<t, 1>> \in Addrs /\ <<t, 1>> \in Places
  BY StartAssumption DEF Addrs, Places, Stacks
<1>3. /\ mem = [a \in Addrs |-> IF a[1] # Boot /\ a[2] = 1 THEN Frame(Entry(a[1]), NoAddr) ELSE NoFrame]
      /\ tcbSp = [t \in Threads |-> <<t, 1>>]
  BY DEF StartInit
<1>4. StartTypes
  <2>1. nthreads = MaxThreads /\ core = [t \in Threads |-> StartCore] /\ prio \in [Threads -> Nat]
        /\ state = [t \in Threads |-> "READY"]
    BY TcbAssumption DEF StartInit
  <2>2. mem = [a \in Addrs |-> mem[a]]
    BY <1>3
  <2>3. QED BY <1>1, <1>2, <1>3, <2>1, <2>2 DEF StartTypes
<1>5. PeersUntouched
  <2> SUFFICES ASSUME NEW t \in Threads PROVE tcbSp[t] = <<t, 1>> /\ mem[<<t, 1>>].who = t
    BY DEF PeersUntouched
  <2>1. mem[<<t, 1>>] = Frame(Entry(t), NoAddr)
    BY <1>2, <1>3, BootIsNoThread
  <2>2. QED BY <1>3, <2>1 DEF Frame, Entry
<1>6. LiveIsCurrent
  <2>1. Readable(sp)
    BY <1>1, StartAssumption DEF Readable, Places, Stacks
  <2>2. QED BY <1>1, <2>1 DEF LiveIsCurrent, BootAt, LatePoints
<1>7. ArgumentLoadable
  <2> SUFFICES ASSUME NEW a \in Addrs PROVE mem[a].pc # "movsp"
    BY <1>1 DEF ArgumentLoadable, BootAt
  <2>1. mem[a] \in {Frame(Entry(a[1]), NoAddr), NoFrame}
    BY <1>3
  <2>2. QED BY <2>1 DEF Frame, NoFrame, Entry, At
<1>8. ReturnFits
  BY <1>1 DEF ReturnFits, BootAt
<1>9. QED BY <1>4, <1>5, <1>6, <1>7, <1>8 DEF BootInv

\* The selection loop finds a thread: all are READY.
LEMMA SelectInv == BootInv /\ Select => BootInv'
<1> SUFFICES ASSUME BootInv, Select PROVE BootInv'
  OBVIOUS
<1>1. /\ live.who = Boot /\ live.pc = "pick" /\ live'.who = Boot /\ live'.pc = "set"
      /\ picked' = PickFirst(state, prio, core, nthreads, StartCore)
      /\ UNCHANGED <<nthreads, prio, core, state, mem, tcbSp, gCurrent, sp, x0, elr>>
  BY DEF Select, given, At
<1>2. gCurrent = NoThread /\ sp = <<Boot, 0>>
  BY <1>1 DEF BootInv, LiveIsCurrent, BootAt
<1>3. picked' \in Threads /\ picked' # NoThread
  <2>1. /\ nthreads = MaxThreads /\ prio \in [Threads -> Nat]
        /\ \A t \in 0 .. nthreads-1 : core[t] = StartCore /\ state[t] = "READY"
    BY <1>2 DEF BootInv, StartTypes, Threads
  <2>2. nthreads \in Nat \ {0} /\ \A i \in 0 .. nthreads-1 : prio[i] \in Nat
    BY <2>1, TcbAssumption DEF Threads
  <2>3. picked' # NoThread
    BY <1>1, <2>1, <2>2, PickFirstFinds
  <2>4. QED BY <1>1, <2>1, <2>2, <2>3, PickFirstMember DEF Threads
<1>4. StartTypes'
  BY <1>1, <1>3 DEF BootInv, StartTypes
<1>5. PeersUntouched'
  BY <1>1, <1>2 DEF BootInv, PeersUntouched
<1>6. LiveIsCurrent'
  <2>1. Readable(sp)'
    BY <1>1, <1>2, StartAssumption DEF Readable, Places, Stacks
  <2>2. QED BY <1>1, <1>2, <1>3, <2>1 DEF LiveIsCurrent, BootAt, LatePoints
<1>7. ArgumentLoadable'
  BY <1>1, <1>2 DEF BootInv, ArgumentLoadable, BootAt
<1>8. ReturnFits'
  BY <1>1 DEF ReturnFits, BootAt
<1>9. QED BY <1>4, <1>5, <1>6, <1>7, <1>8 DEF BootInv

\* From the assignment of g_current to cpu_start_first's first instruction.
LEMMA StartFirstInv ==
  BootInv /\ (SetCurrent \/ MarkRunning \/ LoadArgument \/ MoveSp) => BootInv'
<1> SUFFICES ASSUME BootInv, SetCurrent \/ MarkRunning \/ LoadArgument \/ MoveSp PROVE BootInv'
  OBVIOUS
<1> USE DEF At, LatePoints, BootAt
<1>1. CASE SetCurrent
  <2>1. /\ live.who = Boot /\ live.pc = "set" /\ live'.who = Boot /\ live'.pc = "mark"
        /\ gCurrent' = picked
        /\ UNCHANGED <<nthreads, prio, core, state, mem, tcbSp, sp, x0, elr, picked>>
    BY <1>1 DEF SetCurrent, given
  <2>2. gCurrent = NoThread /\ picked \in Threads /\ picked # NoThread
    BY <2>1 DEF BootInv, LiveIsCurrent, StartTypes
  <2>3. \A p : Readable(p) => Readable(p)'
    BY <2>1 DEF Readable, Good
  <2>4. StartTypes'
    BY <2>1, <2>2 DEF BootInv, StartTypes
  <2>5. PeersUntouched'
    BY <2>1, <2>2 DEF BootInv, PeersUntouched
  <2>6. LiveIsCurrent'
    BY <2>1, <2>2, <2>3 DEF BootInv, LiveIsCurrent
  <2>7. ArgumentLoadable'
    <3>1. tcbSp[picked] = <<picked, 1>> /\ mem[<<picked, 1>>].who = picked
      BY <2>2 DEF BootInv, PeersUntouched
    <3>2. <<picked, 1>> \in Places
      BY <2>2, StartAssumption DEF Places, Stacks
    <3>3. Loadable(tcbSp[picked])
      BY <3>1, <3>2 DEF Loadable, Readable, Good
    <3>4. QED BY <2>1, <2>2, <2>3, <3>3 DEF BootInv, ArgumentLoadable, Loadable
  <2>8. ReturnFits'
    BY <2>1 DEF ReturnFits
  <2>9. QED BY <2>4, <2>5, <2>6, <2>7, <2>8 DEF BootInv
<1>2. CASE MarkRunning
  <2>1. /\ live.who = Boot /\ live.pc = "mark" /\ live'.who = Boot /\ live'.pc = "load"
        /\ state' = [state EXCEPT ![picked] = "RUNNING"]
        /\ UNCHANGED <<nthreads, prio, core, mem, tcbSp, gCurrent, sp, x0, elr, picked>>
    BY <1>2 DEF MarkRunning, given
  <2>2. gCurrent = picked /\ picked # NoThread
    BY <2>1 DEF BootInv, LiveIsCurrent
  <2>3. \A p : Readable(p) => Readable(p)'
    BY <2>1 DEF Readable, Good
  <2>4. StartTypes'
    BY <2>1, <2>2 DEF BootInv, StartTypes
  <2>5. PeersUntouched' /\ ArgumentLoadable'
    BY <2>1, <2>3 DEF BootInv, PeersUntouched, ArgumentLoadable, Loadable
  <2>6. LiveIsCurrent' /\ ReturnFits'
    BY <2>1, <2>2, <2>3 DEF BootInv, LiveIsCurrent, ReturnFits
  <2>7. QED BY <2>4, <2>5, <2>6 DEF BootInv
<1>3. CASE LoadArgument
  <2>1. /\ live.who = Boot /\ live.pc = "load" /\ live'.who = Boot /\ live'.pc = "movsp"
        /\ x0' = tcbSp[picked]
        /\ UNCHANGED <<nthreads, prio, core, state, mem, tcbSp, gCurrent, sp, elr, picked>>
    BY <1>3 DEF LoadArgument, given
  <2>2. gCurrent = picked /\ picked # NoThread
    BY <2>1 DEF BootInv, LiveIsCurrent
  <2>3. \A p : Readable(p) => Readable(p)'
    BY <2>1 DEF Readable, Good
  <2>4. StartTypes' /\ PeersUntouched'
    BY <2>1 DEF BootInv, StartTypes, PeersUntouched
  <2>5. ArgumentLoadable'
    BY <2>1, <2>2, <2>3 DEF BootInv, ArgumentLoadable, Loadable
  <2>6. LiveIsCurrent' /\ ReturnFits'
    BY <2>1, <2>2, <2>3 DEF BootInv, LiveIsCurrent, ReturnFits
  <2>7. QED BY <2>4, <2>5, <2>6 DEF BootInv
<1>4. CASE MoveSp
  <2>1. /\ live.who = Boot /\ live.pc = "movsp" /\ live'.who = Boot /\ live'.pc = "elr"
        /\ sp' = x0
        /\ UNCHANGED <<nthreads, prio, core, state, mem, tcbSp, gCurrent, x0, elr, picked>>
    BY <1>4 DEF MoveSp, given
  <2>2. gCurrent = picked /\ picked # NoThread /\ Loadable(x0)
    BY <2>1 DEF BootInv, LiveIsCurrent, ArgumentLoadable
  <2>3. \A p : Readable(p) => Readable(p)'
    BY <2>1 DEF Readable, Good
  <2>4. StartTypes' /\ PeersUntouched'
    BY <2>1 DEF BootInv, StartTypes, PeersUntouched
  <2>5. ArgumentLoadable'
    BY <2>1, <2>3 DEF BootInv, ArgumentLoadable, Loadable
  <2>6. LiveIsCurrent'
    <3>1. Readable(sp)'
      BY <2>1, <2>2, <2>3 DEF Loadable, Readable, Good
    <3>2. QED BY <2>1, <2>2, <3>1 DEF LiveIsCurrent
  <2>7. ReturnFits'
    BY <2>1, <2>2 DEF ReturnFits, Loadable
  <2>8. QED BY <2>4, <2>5, <2>6, <2>7 DEF BootInv
<1>5. QED BY <1>1, <1>2, <1>3, <1>4

\* From the load of ELR_EL1 to the eret: the frame and the emptied stack.
LEMMA PopInv == BootInv /\ (WriteElr \/ LoadRegs \/ PopFrame) => BootInv'
<1> SUFFICES ASSUME BootInv, WriteElr \/ LoadRegs \/ PopFrame PROVE BootInv'
  OBVIOUS
<1> USE DEF At, Astray, LatePoints, BootAt
<1>1. /\ live.who = Boot /\ live.pc \in {"elr", "regs", "add"} /\ live'.who = Boot
      /\ UNCHANGED <<nthreads, prio, core, state, mem, tcbSp, gCurrent, picked>>
  BY DEF WriteElr, LoadRegs, PopFrame, given
<1>2. gCurrent = picked /\ picked # NoThread /\ Readable(sp) /\ sp \in Places
  BY <1>1 DEF BootInv, LiveIsCurrent, Readable
<1>3. \A p : Readable(p) => Readable(p)'
  BY <1>1 DEF Readable, Good
<1>4. StartTypes' /\ PeersUntouched'
  BY <1>1 DEF BootInv, StartTypes, PeersUntouched
<1>5. CASE WriteElr
  <2>1. /\ live.pc = "elr" /\ live'.pc = "regs" /\ UNCHANGED <<sp, x0>>
        /\ elr'.who = mem[sp].who /\ elr'.pc = mem[sp].pc
    BY <1>5 DEF WriteElr, Context
  <2>2. sp[2] >= 1
    BY <1>1, <2>1 DEF BootInv, ReturnFits
  <2>3. sp \in Addrs /\ Good(mem[sp], sp)
    BY <1>2, <2>2, ReadableAbove DEF Loadable
  <2>4. ArgumentLoadable'
    BY <1>1, <1>3, <2>1 DEF BootInv, ArgumentLoadable, Loadable
  <2>5. LiveIsCurrent'
    BY <1>1, <1>2, <1>3, <2>1 DEF LiveIsCurrent, Readable, Good
  <2>6. ReturnFits'
    <3>1. Good(elr, sp)'
      BY <1>1, <2>1, <2>3 DEF Good
    <3>2. mem[sp].who = Boot /\ mem[sp].pc = "movsp" => Loadable(mem[sp].x0)
      BY <2>3 DEF BootInv, ArgumentLoadable
    <3>3. Loadable(mem[sp].x0) => Loadable(mem[sp].x0)'
      BY <1>1, <2>1 DEF Loadable, Readable, Good
    <3>4. QED BY <1>1, <2>1, <3>1, <3>2, <3>3 DEF ReturnFits
  <2>7. QED BY <1>4, <2>4, <2>5, <2>6 DEF BootInv
<1>6. CASE (LoadRegs \/ PopFrame) /\ sp[2] = 0
  <2>1. live'.pc = "astray" /\ UNCHANGED <<sp, x0, elr>>
    BY <1>6 DEF LoadRegs, PopFrame
  <2>2. LiveIsCurrent'
    BY <1>1, <1>2, <2>1 DEF LiveIsCurrent, Readable, Good
  <2>3. ArgumentLoadable'
    BY <1>1, <1>3, <2>1 DEF BootInv, ArgumentLoadable, Loadable
  <2>4. ReturnFits'
    BY <1>1, <2>1 DEF ReturnFits
  <2>5. QED BY <1>4, <2>2, <2>3, <2>4 DEF BootInv
<1>7. CASE LoadRegs /\ sp[2] # 0
  <2>1. /\ live.pc = "regs" /\ live'.pc = "add" /\ x0' = mem[sp].x0 /\ UNCHANGED <<sp, elr>>
    BY <1>7 DEF LoadRegs
  <2>2. LiveIsCurrent'
    BY <1>1, <1>2, <2>1 DEF LiveIsCurrent, Readable, Good
  <2>3. ArgumentLoadable'
    BY <1>1, <1>3, <2>1 DEF BootInv, ArgumentLoadable, Loadable
  <2>4. ReturnFits'
    <3>1. Good(elr, sp) /\ (elr.who = Boot /\ elr.pc = "movsp" => Loadable(mem[sp].x0))
      BY <1>1, <2>1 DEF BootInv, ReturnFits
    <3>2. Good(elr, sp)'
      BY <1>1, <2>1, <3>1 DEF Good
    <3>3. Loadable(mem[sp].x0) => Loadable(x0)'
      BY <1>1, <2>1 DEF Loadable, Readable, Good
    <3>4. QED BY <1>1, <2>1, <3>1, <3>2, <3>3 DEF ReturnFits
  <2>5. QED BY <1>4, <2>2, <2>3, <2>4 DEF BootInv
<1>8. CASE PopFrame /\ sp[2] # 0
  <2>1. /\ live.pc = "add" /\ live'.pc = "eret" /\ sp' = Above(sp) /\ UNCHANGED <<x0, elr>>
    BY <1>8 DEF PopFrame
  <2>2. Loadable(sp) /\ Readable(Above(sp)) /\ Below(Above(sp)) = sp
    <3>1. sp[2] >= 1
      BY <1>2, <1>8, PlaceFacts
    <3>2. QED BY <1>2, <3>1, ReadableAbove, PlaceFacts DEF Loadable
  <2>3. LiveIsCurrent'
    <3>1. Readable(sp)'
      BY <1>1, <2>1, <2>2 DEF Readable, Good
    <3>2. QED BY <1>1, <1>2, <2>1, <3>1 DEF LiveIsCurrent
  <2>4. ArgumentLoadable'
    BY <1>1, <1>3, <2>1 DEF BootInv, ArgumentLoadable, Loadable
  <2>5. ReturnFits'
    <3>1. Good(elr, sp) /\ (elr.who = Boot /\ elr.pc = "movsp" => Loadable(x0))
      BY <1>1, <2>1 DEF BootInv, ReturnFits
    <3>2. Below(sp)' = sp
      BY <2>1, <2>2 DEF Below, Above
    <3>3. Good(elr, Below(sp))'
      BY <1>1, <2>1, <3>1, <3>2 DEF Good
    <3>4. Loadable(x0) => Loadable(x0)'
      BY <1>1, <2>1 DEF Loadable, Readable, Good
    <3>5. QED BY <1>1, <2>1, <3>1, <3>3, <3>4 DEF ReturnFits
  <2>6. QED BY <1>4, <2>3, <2>4, <2>5 DEF BootInv
<1>9. QED BY <1>5, <1>6, <1>7, <1>8

\* The eret of cpu_start_first.
LEMMA EretInv == BootInv /\ Eret => BootInv'
<1> SUFFICES ASSUME BootInv, Eret PROVE BootInv'
  OBVIOUS
<1> USE DEF BootAt
<1>1. /\ live.who = Boot /\ live.pc = "eret" /\ Resume(elr)
      /\ UNCHANGED <<nthreads, prio, core, state, mem, tcbSp, gCurrent, sp, x0, elr, picked>>
  BY DEF Eret, given, At
<1>2. gCurrent = picked /\ picked # NoThread /\ picked \in Threads /\ Readable(sp) /\ sp \in Places
  BY <1>1 DEF BootInv, LiveIsCurrent, Readable, LatePoints, StartTypes
<1>3. Good(elr, Below(sp)) /\ (elr.who = Boot /\ elr.pc = "movsp" => Loadable(x0))
  BY <1>1 DEF BootInv, ReturnFits
<1>4. \A p : Readable(p) => Readable(p)'
  BY <1>1 DEF Readable, Good
<1>5. StartTypes' /\ PeersUntouched'
  BY <1>1 DEF BootInv, StartTypes, PeersUntouched
<1>6. CASE elr.who = Boot /\ elr.pc \in LatePoints /\ (elr.pc = "elr" => Below(sp)[2] >= 2)
  <2>1. live'.who = Boot /\ live'.pc = elr.pc
    BY <1>1, <1>6, ResumeFacts DEF LatePoints
  <2>2. LiveIsCurrent'
    BY <1>1, <1>2, <1>6, <2>1 DEF LiveIsCurrent, LatePoints, Readable, Good
  <2>3. ArgumentLoadable'
    <3>1. gCurrent # NoThread => Loadable(tcbSp[picked])'
      BY <1>1, <1>4 DEF BootInv, ArgumentLoadable, Loadable
    <3>2. elr.pc = "movsp" => Loadable(x0)'
      BY <1>1, <1>3, <1>4, <1>6 DEF Loadable
    <3>3. ASSUME NEW a \in Addrs, mem[a].who = Boot, mem[a].pc = "movsp"
          PROVE  gCurrent # NoThread /\ Loadable(mem[a].x0)'
      BY <1>1, <1>4, <3>3 DEF BootInv, ArgumentLoadable, Loadable
    <3>4. QED BY <1>1, <2>1, <3>1, <3>2, <3>3 DEF ArgumentLoadable
  <2>4. ReturnFits'
    <3>1. elr.pc = "elr" => sp[2] >= 1
      BY <1>2, <1>6, PlaceFacts
    <3>2. elr.pc \in {"regs", "add", "eret"} => Good(elr, sp)' /\ Good(elr, Below(sp))'
      BY <1>1, <1>6 DEF Good, LatePoints
    <3>3. QED BY <1>1, <2>1, <3>1, <3>2 DEF ReturnFits
  <2>5. QED BY <1>5, <2>2, <2>3, <2>4 DEF BootInv
<1>7. CASE elr.who = picked /\ Below(sp) = <<picked, 1>>
  <2>1. live'.who = picked /\ picked # Boot
    BY <1>1, <1>2, <1>7, ResumeFacts, BootIsNoThread
  <2>2. sp = <<picked, 0>>
    <3>1. sp[1] = picked /\ sp[2] = 0 /\ sp = <<sp[1], sp[2]>>
      BY <1>2, <1>7, PlaceFacts
    <3>2. QED BY <3>1
  <2>3. LiveIsCurrent' /\ ReturnFits'
    BY <1>1, <1>2, <2>1, <2>2 DEF LiveIsCurrent, ReturnFits
  <2>4. ArgumentLoadable'
    BY <1>1, <1>4, <2>1 DEF BootInv, ArgumentLoadable, Loadable
  <2>5. QED BY <1>5, <2>3, <2>4 DEF BootInv
<1>8. QED BY <1>3, <1>6, <1>7 DEF Good

\* What an interrupt saves is a context that may be resumed there, or that of
\* another thread than the first.
LEMMA SaveFits ==
  ASSUME BootInv, gCurrent # NoThread, live.pc # "astray", sp[2] < MaxDepth
  PROVE  /\ sp \in Places /\ Below(sp) \in Addrs /\ Below(sp) \in Places
         /\ picked \in Threads /\ gCurrent \in Threads
         /\ \/ live.who = Boot /\ live.pc \in LatePoints /\ gCurrent = picked /\ Readable(sp)
            \/ live.who = gCurrent /\ sp = <<gCurrent, 0>>
         /\ sp[1] \in {Boot, picked} => Good(live, Below(sp))
<1>1. gCurrent \in Threads
  BY DEF BootInv, StartTypes
<1>2. CASE live.who = Boot
  <2>1. live.pc \in LatePoints /\ gCurrent = picked /\ Readable(sp) /\ sp \in Places
    BY <1>2 DEF BootInv, LiveIsCurrent, BootAt, Readable
  <2>2. live.pc = "elr" => Below(sp)[2] >= 2
    <3>1. live.pc = "elr" => sp[2] >= 1
      BY <1>2 DEF BootInv, ReturnFits, BootAt
    <3>2. QED BY <2>1, <3>1, PlaceFacts
  <2>3. QED BY <1>1, <1>2, <2>1, <2>2, PlaceFacts DEF Good
<1>3. CASE live.who # Boot
  <2>1. live.who = gCurrent /\ sp = <<gCurrent, 0>>
    BY <1>3 DEF BootInv, LiveIsCurrent
  <2>2. sp \in Places
    BY <1>1, <2>1, StartAssumption DEF Places, Stacks
  <2>3. picked \in Threads
    BY <1>3 DEF BootInv, LiveIsCurrent, BootAt, StartTypes
  <2>4. gCurrent = picked => Below(sp) = <<picked, 1>>
    BY <2>1 DEF Below
  <2>5. QED BY <1>1, <1>3, <2>1, <2>2, <2>3, <2>4, PlaceFacts, BootIsNoThread DEF Good
<1>4. QED BY <1>2, <1>3

\* The address at which an interrupt saves, and the others.
LEMMA SavedAt ==
  ASSUME StartTypes, Below(sp) \in Addrs, mem' = Saved
  PROVE  /\ mem' = [a \in Addrs |-> mem'[a]]
         /\ mem'[Below(sp)] = Frame(live, x0)
         /\ \A a \in Addrs : a # Below(sp) => mem'[a] = mem[a]
BY DEF StartTypes, Saved

\* So it keeps readable what was, and makes its own place readable.
LEMMA SaveKeepsReadable ==
  ASSUME BootInv, gCurrent # NoThread, live.pc # "astray", sp[2] < MaxDepth,
         mem' = Saved, picked' = picked
  PROVE  /\ \A p : Readable(p) => Readable(p)'
         /\ \A q : q = Below(sp) /\ (Readable(sp) \/ sp = <<picked, 0>>) => Loadable(q)'
<1>1. /\ sp \in Places /\ Below(sp) \in Addrs /\ Below(sp) \in Places /\ picked \in Threads
      /\ sp[1] \in {Boot, picked} => Good(live, Below(sp))
  BY SaveFits
<1>2. /\ mem'[Below(sp)] = Frame(live, x0)
      /\ \A a \in Addrs : a # Below(sp) => mem'[a] = mem[a]
  BY <1>1, SavedAt DEF BootInv
<1>3. ASSUME NEW a \in Addrs, a[1] \in {Boot, picked}, Good(mem[a], a) \/ a = Below(sp)
      PROVE  Good(mem[a], a)'
  <2>1. CASE a = Below(sp)
    <3>1. sp[1] \in {Boot, picked}
      BY <1>1, <1>3, <2>1, PlaceFacts
    <3>2. mem'[a].who = live.who /\ mem'[a].pc = live.pc
      BY <1>2, <2>1 DEF Frame
    <3>3. QED BY <1>1, <2>1, <3>1, <3>2 DEF Good
  <2>2. CASE a # Below(sp)
    BY <1>2, <1>3, <2>2 DEF Good
  <2>3. QED BY <2>1, <2>2
<1>4. ASSUME NEW p \in Places, NEW i \in 1 .. p[2]
      PROVE  <<p[1], i>> \in Addrs
  BY <1>4, StartAssumption DEF Places, Addrs
<1>5. ASSUME NEW p, Readable(p)
      PROVE  Readable(p)'
  <2>1. \A i \in 1 .. p[2] : <<p[1], i>> \in Addrs /\ Good(mem[<<p[1], i>>], <<p[1], i>>)
    BY <1>4, <1>5 DEF Readable
  <2>2. \A i \in 1 .. p[2] : Good(mem[<<p[1], i>>], <<p[1], i>>)'
    <3> TAKE i \in 1 .. p[2]
    <3>1. <<p[1], i>>[1] \in {Boot, picked}
      BY <1>5 DEF Readable
    <3>2. QED BY <1>3, <2>1, <3>1
  <2>3. QED BY <1>5, <2>2 DEF Readable
<1>6. ASSUME NEW q, q = Below(sp), Readable(sp) \/ sp = <<picked, 0>>
      PROVE  Loadable(q)'
  <2>1. /\ sp[1] \in {Boot, picked} /\ q \in Places /\ q[1] = sp[1] /\ q[2] = sp[2] + 1
        /\ q = <<sp[1], sp[2] + 1>> /\ sp[2] \in Nat
    BY <1>1, <1>6, PlaceFacts DEF Readable, Below
  <2>2. \A i \in 1 .. sp[2] : Good(mem[<<sp[1], i>>], <<sp[1], i>>)
    BY <1>6 DEF Readable
  <2>3. \A i \in 1 .. q[2] : Good(mem[<<q[1], i>>], <<q[1], i>>)'
    <3> TAKE i \in 1 .. q[2]
    <3>1. i \in 1 .. sp[2] \/ i = sp[2] + 1
      BY <2>1
    <3>2. Good(mem[<<q[1], i>>], <<q[1], i>>) \/ <<q[1], i>> = Below(sp)
      BY <1>6, <2>1, <2>2, <3>1
    <3>3. <<q[1], i>> \in Addrs /\ <<q[1], i>>[1] \in {Boot, picked}
      BY <1>4, <2>1
    <3>4. QED BY <1>3, <3>2, <3>3
  <2>4. QED BY <1>1, <2>1, <2>3 DEF Loadable, Readable
<1>7. QED BY <1>5, <1>6

\* It keeps the other threads' frames theirs, and the addresses that saved boot
\* contexts are about to move into sp loadable.
LEMMA SaveKeepsFrames ==
  ASSUME BootInv, gCurrent # NoThread, live.pc # "astray", sp[2] < MaxDepth,
         mem' = Saved, picked' = picked
  PROVE  /\ \A t \in Threads : t # picked => mem'[<<t, 1>>].who = t
         /\ gCurrent # picked => Below(sp) = <<gCurrent, 1>>
         /\ \A a \in Addrs : mem'[a].who = Boot /\ mem'[a].pc = "movsp" => Loadable(mem[a].x0)'
<1>1. /\ Below(sp) \in Addrs /\ gCurrent \in Threads /\ sp \in Places
      /\ \/ live.who = Boot /\ gCurrent = picked /\ sp[1] \in {Boot, picked}
         \/ live.who = gCurrent /\ sp = <<gCurrent, 0>>
  BY SaveFits DEF Readable
<1>2. /\ mem'[Below(sp)].who = live.who /\ mem'[Below(sp)].pc = live.pc /\ mem'[Below(sp)].x0 = x0
      /\ \A a \in Addrs : a # Below(sp) => mem'[a] = mem[a]
  BY <1>1, SavedAt DEF BootInv, Frame
<1>3. ASSUME NEW t \in Threads, t # picked
      PROVE  mem'[<<t, 1>>].who = t
  <2>1. <<t, 1>> \in Addrs /\ mem[<<t, 1>>].who = t
    BY <1>3, StartAssumption DEF BootInv, PeersUntouched, Addrs, Stacks
  <2>2. CASE Below(sp) = <<t, 1>>
    <3>1. sp[1] = t
      BY <1>1, <2>2, PlaceFacts
    <3>2. live.who = t
      BY <1>1, <1>3, <3>1, BootIsNoThread
    <3>3. QED BY <1>2, <2>2, <3>2
  <2>3. QED BY <1>2, <2>1, <2>2
<1>4. gCurrent # picked => Below(sp) = <<gCurrent, 1>>
  BY <1>1 DEF Below
<1>5. ASSUME NEW a \in Addrs, mem'[a].who = Boot, mem'[a].pc = "movsp"
      PROVE  Loadable(mem[a].x0)'
  <2>1. Loadable(mem'[a].x0)
    <3>1. CASE a = Below(sp)
      BY <1>2, <1>5, <3>1 DEF BootInv, ArgumentLoadable, BootAt
    <3>2. CASE a # Below(sp)
      BY <1>2, <1>5, <3>2 DEF BootInv, ArgumentLoadable
    <3>3. QED BY <3>1, <3>2
  <2>2. PICK r : r = mem'[a].x0
    OBVIOUS
  <2>3. Loadable(r)'
    BY <2>1, <2>2, SaveKeepsReadable DEF Loadable
  <2>4. QED BY <2>2, <2>3
<1>6. QED BY <1>3, <1>4, <1>5

\* An interrupt that does not schedule: one level down and up again.
LEMMA OtherIrqInv == BootInv /\ OtherIrq => BootInv'
<1> SUFFICES ASSUME BootInv, OtherIrq PROVE BootInv'
  OBVIOUS
<1> USE DEF BootAt
<1>1. /\ live.pc # "astray" /\ sp[2] < MaxDepth /\ mem' = Saved /\ elr' = live
      /\ UNCHANGED <<nthreads, prio, core, state, tcbSp, gCurrent, live, sp, picked>>
      /\ x0' = Saved[Below(sp)].x0
  BY DEF OtherIrq, given, RestoredX0
<1>2. ASSUME Below(sp) \in Addrs
      PROVE  /\ StartTypes' /\ x0' = x0
             /\ \A a \in Addrs : a # Below(sp) => mem'[a] = mem[a]
             /\ mem'[Below(sp)].who = live.who /\ mem'[Below(sp)].pc = live.pc
  <2>1. /\ mem' = [a \in Addrs |-> mem'[a]] /\ mem'[Below(sp)] = Frame(live, x0)
        /\ \A a \in Addrs : a # Below(sp) => mem'[a] = mem[a]
    BY <1>1, <1>2, SavedAt DEF BootInv
  <2>2. x0' = x0
    BY <1>1, <2>1 DEF Frame
  <2>3. StartTypes'
    BY <1>1, <2>1 DEF BootInv, StartTypes
  <2>4. QED BY <2>1, <2>2, <2>3 DEF Frame
<1>3. CASE gCurrent = NoThread
  <2>1. live.who = Boot /\ live.pc \in {"pick", "set"} /\ sp = <<Boot, 0>> /\ Readable(sp)
    BY <1>1, <1>3, BootIsNoThread DEF BootInv, LiveIsCurrent, LatePoints, StartTypes, Boot, NoThread
  <2>2. Below(sp) = <<Boot, 1>> /\ <<Boot, 1>> \in Addrs
    BY <2>1, StartAssumption DEF Below, Addrs, Stacks
  <2>3. StartTypes'
    BY <1>2, <2>2
  <2>4. PeersUntouched'
    <3>1. \A t \in Threads : <<t, 1>> \in Addrs /\ <<t, 1>> # <<Boot, 1>>
      BY StartAssumption, BootIsNoThread DEF Addrs, Stacks
    <3>2. QED BY <1>1, <1>2, <2>2, <3>1 DEF BootInv, PeersUntouched
  <2>5. LiveIsCurrent'
    <3>1. Readable(sp)'
      BY <1>1, <2>1 DEF Readable
    <3>2. QED BY <1>1, <2>1, <3>1 DEF BootInv, LiveIsCurrent, LatePoints
  <2>6. ArgumentLoadable'
    <3>1. \A a \in Addrs : ~(mem'[a].who = Boot /\ mem'[a].pc = "movsp")
      BY <1>2, <1>3, <2>1, <2>2 DEF BootInv, ArgumentLoadable
    <3>2. QED BY <1>1, <1>3, <2>1, <3>1 DEF ArgumentLoadable
  <2>7. ReturnFits'
    BY <1>1, <2>1 DEF ReturnFits
  <2>8. QED BY <2>3, <2>4, <2>5, <2>6, <2>7 DEF BootInv
<1>4. CASE gCurrent # NoThread
  <2>1. Below(sp) \in Addrs /\ picked \in Threads
    BY <1>1, <1>4, SaveFits
  <2>2. StartTypes' /\ x0' = x0
    BY <1>2, <2>1
  <2>3. /\ \A p : Readable(p) => Readable(p)'
        /\ \A p : Loadable(p) => Loadable(p)'
    BY <1>1, <1>4, SaveKeepsReadable DEF Loadable
  <2>4. /\ \A t \in Threads : t # picked => mem'[<<t, 1>>].who = t
        /\ \A a \in Addrs : mem'[a].who = Boot /\ mem'[a].pc = "movsp" => Loadable(mem[a].x0)'
    BY <1>1, <1>4, SaveKeepsFrames
  <2>5. PeersUntouched'
    BY <1>1, <1>4, <2>4 DEF BootInv, PeersUntouched
  <2>6. LiveIsCurrent'
    <3>1. Readable(sp) => Readable(sp)'
      BY <1>1, <2>3
    <3>2. QED BY <1>1, <3>1 DEF BootInv, LiveIsCurrent
  <2>7. ArgumentLoadable'
    <3>1. Loadable(tcbSp[picked])'
      BY <1>1, <1>4, <2>3 DEF BootInv, ArgumentLoadable
    <3>2. live.who = Boot /\ live.pc = "movsp" => Loadable(x0)'
      BY <2>2, <2>3 DEF BootInv, ArgumentLoadable
    <3>3. QED BY <1>1, <1>4, <2>4, <3>1, <3>2 DEF ArgumentLoadable
  <2>8. ReturnFits'
    <3>1. live.who = Boot /\ live.pc \in {"regs", "add", "eret"} => Good(elr, sp)' /\ Good(elr, Below(sp))'
      BY <1>1 DEF Good, LatePoints
    <3>2. QED BY <1>1, <3>1 DEF BootInv, ReturnFits
  <2>9. QED BY <2>2, <2>5, <2>6, <2>7, <2>8 DEF BootInv
<1>5. QED BY <1>3, <1>4

\* A tick saves what executes in the slot of the current thread and resumes
\* what the slot of the next one holds.
LEMMA StartTickInv == BootInv /\ StartTick => BootInv'
<1> SUFFICES ASSUME BootInv, StartTick PROVE BootInv'
  OBVIOUS
<1> USE DEF BootAt
<1> DEFINE spOf  == [tcbSp EXCEPT ![gCurrent] = Below(sp)]
           ready == [state EXCEPT ![gCurrent] = IF @ = "RUNNING" THEN "READY" ELSE @]
           next  == PickNext(ready, prio, core, nthreads, StartCore, gCurrent)
           S     == Candidates(ready, core, nthreads, StartCore)
           a     == spOf[next]
           f     == Saved[a]
<1>1. /\ gCurrent # NoThread /\ live.pc # "astray" /\ sp[2] < MaxDepth
      /\ mem' = Saved /\ tcbSp' = spOf /\ gCurrent' = next
      /\ state' = [ready EXCEPT ![next] = "RUNNING"]
      /\ sp' = Above(a) /\ x0' = f.x0 /\ elr' = Context(f) /\ Resume(Context(f))
      /\ UNCHANGED <<nthreads, prio, core, picked>>
  BY DEF StartTick, given, RestoredX0
<1>2. /\ gCurrent \in Threads /\ picked \in Threads /\ Below(sp) \in Addrs /\ Below(sp) \in Places
      /\ nthreads = MaxThreads /\ core = [t \in Threads |-> StartCore] /\ prio \in [Threads -> Nat]
      /\ state \in [Threads -> {"READY", "RUNNING"}] /\ tcbSp \in [Threads -> Places]
  BY <1>1, SaveFits DEF BootInv, StartTypes
<1>3. ready \in [Threads -> {"READY", "RUNNING"}]
  BY <1>2
<1>4. next \in Threads /\ next # NoThread
  <2>1. S = Threads
    <3> HIDE DEF ready
    <3>1. QED BY <1>2, <1>3 DEF Candidates, Threads
  <2>2. nthreads \in Nat /\ gCurrent \in 0 .. nthreads-1 /\ \A i \in 0 .. nthreads-1 : prio[i] \in Nat
    BY <1>2, TcbAssumption DEF Threads
  <2> HIDE DEF ready
  <2>3. next # NoThread /\ next \in BestOf(prio, S)
    BY <1>2, <2>1, <2>2, PickNextIsBest DEF Threads
  <2>4. QED BY <2>1, <2>3 DEF BestOf
<1> HIDE DEF ready, next
<1>5. /\ \A p : Readable(p) => Readable(p)'
      /\ \A p : Loadable(p) => Loadable(p)'
      /\ \A q : q = Below(sp) /\ (Readable(sp) \/ sp = <<picked, 0>>) => Loadable(q)'
  BY <1>1, SaveKeepsReadable DEF Loadable
<1>6. /\ \A t \in Threads : t # picked => mem'[<<t, 1>>].who = t
      /\ gCurrent # picked => Below(sp) = <<gCurrent, 1>>
      /\ \A b \in Addrs : mem'[b].who = Boot /\ mem'[b].pc = "movsp" => Loadable(mem[b].x0)'
  BY <1>1, SaveKeepsFrames
<1>7. spOf \in [Threads -> Places] /\ \A t \in Threads : t # picked => spOf[t] = <<t, 1>>
  BY <1>1, <1>2, <1>6 DEF BootInv, PeersUntouched
<1>8. \A q : q = spOf[picked] => Loadable(q)'
  <2>1. CASE gCurrent = picked
    <3>1. spOf[picked] = Below(sp)
      BY <1>2, <2>1
    <3>2. Readable(sp) \/ sp = <<picked, 0>>
      BY <1>1, <2>1, SaveFits
    <3>3. QED BY <1>5, <3>1, <3>2
  <2>2. CASE gCurrent # picked
    <3>1. spOf[picked] = tcbSp[picked]
      BY <1>2, <2>2
    <3>2. Loadable(tcbSp[picked])
      BY <1>1 DEF BootInv, ArgumentLoadable
    <3>3. QED BY <1>5, <3>1, <3>2
  <2>3. QED BY <2>1, <2>2
<1> HIDE DEF spOf
<1>9. StartTypes'
  <2>1. state' \in [Threads -> {"READY", "RUNNING"}]
    BY <1>1, <1>3
  <2>2. mem' = [b \in Addrs |-> mem'[b]]
    BY <1>1, <1>2, SavedAt DEF BootInv
  <2>3. QED BY <1>1, <1>2, <1>4, <1>7, <2>1, <2>2 DEF StartTypes
<1>10. PeersUntouched'
  BY <1>1, <1>4, <1>6, <1>7 DEF PeersUntouched
<1>11. f = mem'[a] /\ elr'.who = f.who /\ elr'.pc = f.pc
       /\ live'.who = f.who /\ (f.pc # "entry" => live'.pc = f.pc)
  <2>1. Context(f).who = f.who /\ Context(f).pc = f.pc
    BY DEF Context
  <2>2. QED BY <1>1, <2>1, ResumeFacts
<1>12. /\ Loadable(tcbSp[picked])'
       /\ \A b \in Addrs : (mem[b].who = Boot /\ mem[b].pc = "movsp" => Loadable(mem[b].x0))'
  BY <1>1, <1>6, <1>8
<1> HIDE DEF f
<1>13. CASE next # picked
  <2>1. a = <<next, 1>> /\ f.who = next
    BY <1>4, <1>6, <1>7, <1>11, <1>13
  <2>2. live'.who = next /\ next # Boot /\ sp' = <<next, 0>>
    BY <1>1, <1>4, <1>11, <2>1, BootIsNoThread DEF Above
  <2>3. LiveIsCurrent' /\ ReturnFits' /\ ArgumentLoadable'
    BY <1>1, <1>2, <1>4, <1>12, <2>2, BootIsNoThread DEF LiveIsCurrent, ReturnFits, ArgumentLoadable
  <2>4. QED BY <1>9, <1>10, <2>3 DEF BootInv
<1>14. CASE next = picked
  <2>1. PICK p : p = a
    OBVIOUS
  <2>2. Loadable(p)'
    BY <1>8, <1>14, <2>1
  <2>3. p \in Addrs /\ p \in Places /\ Readable(Above(p))' /\ Good(mem[p], p)'
    BY <2>2, ReadableAboveNext
  <2>4. sp' = Above(p) /\ f = mem'[p]
    BY <1>1, <1>11, <2>1
  <2>5. CASE f.who = Boot /\ f.pc \in LatePoints /\ (f.pc = "elr" => p[2] >= 2)
    <3>1. live'.who = Boot /\ live'.pc = f.pc
      BY <1>11, <2>5 DEF LatePoints
    <3>2. LiveIsCurrent'
      <4>1. Readable(sp)'
        BY <2>3, <2>4 DEF Readable
      <4>2. QED BY <1>1, <1>2, <1>14, <2>5, <3>1, <4>1, BootIsNoThread DEF LiveIsCurrent, LatePoints
    <3>3. f.pc = "movsp" => Loadable(x0)'
      <4>1. f.pc = "movsp" => Loadable(mem[p].x0)'
        BY <1>12, <2>3, <2>4, <2>5
      <4>2. x0' = mem'[p].x0
        BY <1>1, <2>4
      <4>3. QED BY <4>1, <4>2 DEF Loadable, Readable
    <3>4. ArgumentLoadable'
      BY <1>1, <1>4, <1>12, <3>1, <3>3 DEF ArgumentLoadable
    <3>5. ReturnFits'
      <4>1. f.pc = "elr" => sp'[2] >= 1
        BY <2>3, <2>4, <2>5, PlaceFacts
      <4>2. f.pc \in {"regs", "add", "eret"} => Good(elr, sp)' /\ Good(elr, Below(sp))'
        BY <1>11, <2>5 DEF Good, LatePoints
      <4>3. QED BY <1>11, <3>1, <4>1, <4>2 DEF ReturnFits
    <3>6. QED BY <1>9, <1>10, <3>2, <3>4, <3>5 DEF BootInv
  <2>6. CASE f.who = picked /\ p = <<picked, 1>>
    <3>1. live'.who = picked /\ picked # Boot /\ sp' = <<picked, 0>>
      BY <1>2, <1>11, <2>4, <2>6, BootIsNoThread DEF Above
    <3>2. LiveIsCurrent' /\ ReturnFits' /\ ArgumentLoadable'
      BY <1>1, <1>2, <1>4, <1>12, <1>14, <3>1, BootIsNoThread
         DEF LiveIsCurrent, ReturnFits, ArgumentLoadable
    <3>3. QED BY <1>9, <1>10, <3>2 DEF BootInv
  <2>7. QED BY <1>1, <2>3, <2>4, <2>5, <2>6 DEF Good
<1>15. QED BY <1>13, <1>14

LEMMA BootNextInv == BootInv /\ [StartNext]_startVars => BootInv'
<1> SUFFICES ASSUME BootInv, [StartNext]_startVars PROVE BootInv'
  OBVIOUS
<1>1. CASE Step
  BY <1>1, SelectInv, StartFirstInv, PopInv, EretInv DEF Step
<1>2. CASE StartTick
  BY <1>2, StartTickInv
<1>3. CASE OtherIrq
  BY <1>3, OtherIrqInv
<1>4. CASE UNCHANGED startVars
  <2>1. UNCHANGED <<nthreads, prio, core, state, mem, tcbSp, gCurrent, live, sp, x0, elr, picked>>
    BY <1>4 DEF startVars, given
  <2>2. /\ \A p : Readable(p) => Readable(p)'
        /\ \A p : Loadable(p) => Loadable(p)'
    BY <2>1 DEF Loadable, Readable, Good
  <2>3. StartTypes' /\ PeersUntouched'
    BY <2>1 DEF BootInv, StartTypes, PeersUntouched
  <2>4. LiveIsCurrent'
    BY <2>1, <2>2 DEF BootInv, LiveIsCurrent, BootAt
  <2>5. ArgumentLoadable'
    BY <2>1, <2>2 DEF BootInv, ArgumentLoadable, BootAt
  <2>6. ReturnFits'
    BY <2>1, <2>2 DEF BootInv, ReturnFits, BootAt, Good
  <2>7. QED BY <2>3, <2>4, <2>5, <2>6 DEF BootInv
<1>5. QED BY <1>1, <1>2, <1>3, <1>4 DEF StartNext

\* Wherever interrupts cut the start of a core, until the boot path has run off
\* its stack it is found in no slot but the first thread's, and every other
\* thread is resumed from its own stack.
THEOREM BootConfined == StartSpec => []BootStaysInFirstSlot
<1>1. ASSUME BootInv PROVE BootStaysInFirstSlot
  <2>1. \A t \in Threads : t # picked => tcbSp[t] = <<t, 1>> /\ mem[<<t, 1>>].who = t
    BY <1>1 DEF BootInv, PeersUntouched
  <2>2. picked # NoThread => mem[tcbSp[picked]].who \in {Boot, picked}
    <3>1. CASE gCurrent = NoThread
      BY <1>1, <3>1 DEF BootInv, PeersUntouched, StartTypes
    <3>2. CASE gCurrent # NoThread
      BY <1>1, <3>2, ReadableAbove DEF BootInv, ArgumentLoadable, Good
    <3>3. QED BY <3>1, <3>2
  <2>3. /\ live.who = Boot => gCurrent \in {NoThread, picked}
        /\ live.who # Boot => gCurrent = live.who /\ sp = <<live.who, 0>>
    BY <1>1 DEF BootInv, LiveIsCurrent, BootAt
  <2>4. QED BY <2>1, <2>2, <2>3 DEF BootStaysInFirstSlot
<1>2. QED BY <1>1, BootInitInv, BootNextInv, PTL DEF StartSpec

=============================================================================
