----------------------------- MODULE KlogProofs -----------------------------
(***************************************************************************)
(* The kernel log for every number of cores and slots and every budget:    *)
(* its rings are bounded queues, however long the console takes; threads   *)
(* print one at a time, and a pass keeps its budget.                       *)
(***************************************************************************)
EXTENDS Klog, KernelLemmas

LEMMA SlotRange == N \in Nat \ {0, 1} /\ Slots = 0 .. N-1 /\ 0 \in Slots
BY KlogAssumption DEF Slots

LEMMA NextSlot ==
  /\ \A i \in Slots : RingNext(i, N) \in Slots
  /\ \A i, j \in Slots : i # j => RingNext(i, N) # RingNext(j, N)
<1>1. ASSUME NEW i \in Slots
      PROVE  /\ RingNext(i, N) \in Slots
             /\ i = N-1 => RingNext(i, N) = 0
             /\ i < N-1 => RingNext(i, N) = i + 1
  <2>1. i \in 0 .. N-1
    BY SlotRange
  <2>2. QED BY SlotRange, <2>1, RingNextFacts
<1>2. ASSUME NEW i \in Slots, NEW j \in Slots, i # j
      PROVE  RingNext(i, N) # RingNext(j, N)
  BY <1>1, <1>2, SlotRange
<1>3. QED BY <1>1, <1>2

LEMMA CoreRange == 0 \in Cores /\ \A c \in Cores : c # NumCores-1 => c+1 \in Cores
BY KlogAssumption DEF Cores

-----------------------------------------------------------------------------
\* The inductive invariant.

Content == Entries \cup {AnyEntry}

TypeOK ==
  /\ head \in [Cores -> Slots] /\ tail \in [Cores -> Slots]
  /\ dropped \in [Cores -> Nat]
  /\ buf \in [Cores -> [Slots -> Content]]
  /\ filling \in [Cores -> BOOLEAN]
  /\ ring \in Cores

\* A ring that had room keeps it until the entry is published: only the drain
\* moves the tail.
FillInv(c) ==
  filling[c] => RingNext(head[c], N) # tail[c] /\ buf[c][head[c]] \in Entries

\* The entry that is being printed stays in its ring until it is given back.
PrintInv == dpc = "print" => tail[ring] # head[ring]

KlogInv ==
  /\ TypeOK
  /\ \A c \in Cores : FillInv(c)
  /\ PrintInv

LEMMA InitKlog == Init => KlogInv
<1> SUFFICES ASSUME Init PROVE KlogInv
  OBVIOUS
<1>1. TypeOK
  BY SlotRange, CoreRange DEF Init, TypeOK, Content
<1>2. (\A c \in Cores : FillInv(c)) /\ PrintInv
  BY DEF Init, FillInv, PrintInv
<1>3. QED BY <1>1, <1>2 DEF KlogInv

\* A step that leaves the rings, the writers and the drain alone.
LEMMA LogUntouched ==
  ASSUME KlogInv, UNCHANGED <<rings, filling, drain>> PROVE KlogInv'
<1>1. TypeOK' /\ PrintInv'
  BY DEF KlogInv, TypeOK, PrintInv, rings, drain
<1>2. \A c \in Cores : FillInv(c)'
  BY DEF KlogInv, FillInv, rings
<1>3. QED BY <1>1, <1>2 DEF KlogInv

LEMMA WriteInv ==
  ASSUME KlogInv, NEW c \in Cores,
         WriteFull(c) \/ WritePublish(c) \/ \E e \in Says[c] : WriteEntry(c, e)
  PROVE  KlogInv'
<1> USE DEF KlogInv, TypeOK
<1>1. CASE WriteFull(c)
  <2>1. TypeOK' /\ PrintInv' /\ \A d \in Cores : FillInv(d)'
    BY <1>1 DEF WriteFull, PrintInv, FillInv, drain
  <2>2. QED BY <2>1
<1>2. CASE WritePublish(c)
  <2>1. /\ head' = [head EXCEPT ![c] = RingNext(@, N)]
        /\ filling' = [filling EXCEPT ![c] = FALSE]
        /\ UNCHANGED <<tail, dropped, buf, dpc, ring>>
        /\ filling[c]
    BY <1>2 DEF WritePublish, drain
  <2>2. head[c] \in Slots /\ RingNext(head[c], N) \in Slots
    BY NextSlot
  <2>3. TypeOK'
    BY <2>1, <2>2
  <2>4. \A d \in Cores : FillInv(d)'
    BY <2>1 DEF FillInv
  <2>5. PrintInv'
    BY <2>1 DEF PrintInv, FillInv
  <2>6. QED BY <2>3, <2>4, <2>5
<1>3. ASSUME NEW e \in Says[c], WriteEntry(c, e) PROVE KlogInv'
  <2>1. e \in Entries
    BY KlogAssumption
  <2>2. /\ buf' = [buf EXCEPT ![c][head[c]] = e]
        /\ filling' = [filling EXCEPT ![c] = TRUE]
        /\ UNCHANGED <<head, tail, dropped, dpc, ring>>
        /\ RingNext(head[c], N) # tail[c]
    BY <1>3 DEF WriteEntry, drain
  <2>3. TypeOK'
    BY <2>1, <2>2 DEF Content
  <2>4. ASSUME NEW d \in Cores PROVE FillInv(d)'
    <3>1. CASE d = c
      BY <2>1, <2>2, <3>1 DEF FillInv
    <3>2. CASE d # c
      <4>1. buf'[d] = buf[d] /\ filling'[d] = filling[d]
        BY <2>2, <3>2
      <4>2. QED BY <2>2, <4>1 DEF FillInv
    <3>3. QED BY <3>1, <3>2
  <2>5. PrintInv'
    BY <2>2 DEF PrintInv
  <2>6. QED BY <2>3, <2>4, <2>5
<1>4. QED BY <1>1, <1>2, <1>3

LEMMA DrainInv == ASSUME KlogInv, DrainStart \/ DrainStep PROVE KlogInv'
<1> USE DEF KlogInv, TypeOK
<1>1. CASE DrainAdvance
  <2>1. /\ tail' = [tail EXCEPT ![ring] = RingNext(@, N)]
        /\ dpc' = "ring" /\ UNCHANGED <<head, dropped, buf, filling, ring>>
        /\ tail[ring] # head[ring]
    BY <1>1 DEF DrainAdvance, Draining, PrintInv
  <2>2. PICK r \in Cores : r = ring
    OBVIOUS
  <2>3. tail[r] \in Slots /\ head[r] \in Slots /\ RingNext(tail[r], N) \in Slots
    BY NextSlot
  <2>4. TypeOK' /\ PrintInv'
    BY <2>1, <2>2, <2>3 DEF PrintInv
  <2>5. ASSUME NEW d \in Cores PROVE FillInv(d)'
    <3>1. CASE d = r
      <4>1. RingNext(head[r], N) # RingNext(tail[r], N)
        BY <2>1, <2>2, <2>3, NextSlot
      <4>2. QED BY <2>1, <2>2, <3>1, <4>1 DEF FillInv
    <3>2. CASE d # r
      BY <2>1, <2>2, <3>2 DEF FillInv
    <3>3. QED BY <3>1, <3>2
  <2>6. QED BY <2>4, <2>5
<1>2. CASE DrainStart \/ DrainEmpty \/ DrainSome \/ DrainField
  <2>1. UNCHANGED <<head, tail, dropped, buf, filling>>
    BY <1>2 DEF DrainStart, DrainEmpty, DrainSome, DrainField, rings
  <2>2. ring' \in Cores
    BY <1>2, CoreRange DEF DrainStart, DrainEmpty, DrainSome, DrainField, PassEnd, PrintField
  <2>3. PrintInv'
    BY <1>2, <2>1 DEF DrainStart, DrainEmpty, DrainSome, DrainField, PassEnd, PrintField,
                      PrintInv, Draining
  <2>4. \A d \in Cores : FillInv(d)'
    BY <2>1 DEF FillInv
  <2>5. QED BY <2>1, <2>2, <2>3, <2>4
<1>3. QED BY <1>1, <1>2 DEF DrainStep

LEMMA KlogStep == KlogInv /\ [Next]_vars => KlogInv'
<1> SUFFICES ASSUME KlogInv, [Next]_vars PROVE KlogInv'
  OBVIOUS
<1>1. CASE UNCHANGED vars
  BY <1>1, LogUntouched DEF vars
<1>2. ASSUME NEW t \in Threads, Puts(t) \/ Acquire(t) \/ Release(t) PROVE KlogInv'
  BY <1>2, LogUntouched DEF Puts, Acquire, Release
<1>3. CASE Tick
  BY <1>3, LogUntouched DEF Tick
<1>4. QED BY <1>1, <1>2, <1>3, WriteInv, DrainInv DEF Next

LEMMA KlogInvariant == Spec => []KlogInv
BY InitKlog, KlogStep, PTL DEF Spec

-----------------------------------------------------------------------------
\* The refinement.

LEMMA ContentsIsRing ==
  ASSUME NEW c \in Cores
  PROVE  /\ Contents(c) = RingContents(head[c], tail[c], buf[c], N)
         /\ Contents(c)' = RingContents(head'[c], tail'[c], buf'[c], N)
BY Zenon DEF Contents

LEMMA RingTypes ==
  ASSUME KlogInv, NEW c \in Cores
  PROVE  /\ N \in Nat \ {0, 1} /\ head[c] \in 0 .. N-1 /\ tail[c] \in 0 .. N-1
         /\ buf[c] \in [0 .. N-1 -> Content]
BY SlotRange DEF KlogInv, TypeOK

Queues == [c \in Cores |-> Contents(c)]

LEMMA InitRefines == Init => Fifo!Init
<1> SUFFICES ASSUME Init PROVE Fifo!Init
  OBVIOUS
<1>1. ASSUME NEW c \in Cores PROVE Contents(c) = <<>>
  <2>1. head[c] = 0 /\ tail[c] = 0
    BY DEF Init
  <2>2. RingLength(0, 0, N) = 0
    BY SlotRange, RingLengthFacts
  <2>3. QED BY <2>1, <2>2 DEF Contents, RingContents
<1>2. QED BY <1>1 DEF Init, Fifo!Init

LEMMA RingsUntouched ==
  ASSUME UNCHANGED rings PROVE Queues' = Queues /\ dropped' = dropped
<1>1. head' = head /\ tail' = tail /\ buf' = buf /\ dropped' = dropped
  BY DEF rings
<1>2. \A c \in Cores : Contents(c)' = Contents(c)
  BY <1>1, ContentsIsRing
<1>3. QED BY <1>1, <1>2 DEF Queues

\* WriteFull refuses the entry that a full ring has no room for.
LEMMA FullRefines ==
  ASSUME KlogInv, NEW c \in Cores, WriteFull(c) PROVE Fifo!Refuse(c)
<1>1. /\ RingNext(head[c], N) = tail[c]
      /\ head' = head /\ tail' = tail /\ buf' = buf
      /\ dropped' = [dropped EXCEPT ![c] = @ + 1]
  BY DEF WriteFull
<1>2. Len(Contents(c)) = N-1
  <2>1. /\ N \in Nat \ {0, 1} /\ head[c] \in 0 .. N-1 /\ tail[c] \in 0 .. N-1
        /\ buf[c] \in [0 .. N-1 -> Content]
    BY RingTypes
  <2>2. Len(RingContents(head[c], tail[c], buf[c], N)) = N-1
    BY <1>1, <2>1, RingFull
  <2>3. QED BY <2>2, ContentsIsRing
<1>3. \A d \in Cores : Contents(d)' = Contents(d)
  BY <1>1, ContentsIsRing
<1>4. QED BY <1>1, <1>2, <1>3 DEF Fifo!Refuse

\* WriteEntry fills a slot outside of the queue.
LEMMA EntryRefines ==
  ASSUME KlogInv, NEW c \in Cores, NEW e, WriteEntry(c, e)
  PROVE  Queues' = Queues /\ dropped' = dropped
<1>1. /\ buf' = [buf EXCEPT ![c][head[c]] = e]
      /\ head' = head /\ tail' = tail /\ dropped' = dropped
  BY DEF WriteEntry
<1>2. ASSUME NEW d \in Cores PROVE Contents(d)' = Contents(d)
  <2>1. /\ N \in Nat \ {0, 1} /\ head[d] \in 0 .. N-1 /\ tail[d] \in 0 .. N-1
        /\ buf[d] \in [0 .. N-1 -> Content]
    BY RingTypes
  <2>2. RingContents(head[d], tail[d], [buf[d] EXCEPT ![head[d]] = e], N)
          = RingContents(head[d], tail[d], buf[d], N)
    BY <2>1, RingWrite
  <2>3. buf'[d] = buf[d] \/ buf'[d] = [buf[d] EXCEPT ![head[d]] = e]
    BY <1>1 DEF KlogInv, TypeOK
  <2>4. QED BY <1>1, <2>2, <2>3, ContentsIsRing
<1>3. QED BY <1>1, <1>2 DEF Queues

\* WritePublish accepts the entry.
LEMMA PublishRefines ==
  ASSUME KlogInv, NEW c \in Cores, WritePublish(c)
  PROVE  \E e \in Entries : Fifo!Accept(c, e)
<1>1. PICK e \in Entries : buf[c][head[c]] = e /\ RingNext(head[c], N) # tail[c]
  BY DEF WritePublish, KlogInv, FillInv
<1>2. /\ head' = [head EXCEPT ![c] = RingNext(@, N)]
      /\ tail' = tail /\ buf' = buf /\ dropped' = dropped
  BY DEF WritePublish
<1>3. Contents(c)' = Append(Contents(c), e) /\ Len(Contents(c)) < N-1
  <2>1. head'[c] = RingNext(head[c], N) /\ tail'[c] = tail[c] /\ buf'[c] = buf[c]
    BY <1>2 DEF KlogInv, TypeOK
  <2>2. /\ N \in Nat \ {0, 1} /\ head[c] \in 0 .. N-1 /\ tail[c] \in 0 .. N-1
        /\ buf[c] \in [0 .. N-1 -> Content]
    BY RingTypes
  <2>3. /\ RingContents(RingNext(head[c], N), tail[c], buf[c], N)
             = Append(RingContents(head[c], tail[c], buf[c], N), buf[c][head[c]])
        /\ Len(RingContents(head[c], tail[c], buf[c], N)) < N-1
    BY <1>1, <2>2, RingAppend
  <2>4. QED BY <1>1, <2>1, <2>3, ContentsIsRing
<1>4. ASSUME NEW d \in Cores, d # c PROVE Contents(d)' = Contents(d)
  <2>1. head'[d] = head[d] /\ tail'[d] = tail[d] /\ buf'[d] = buf[d]
    BY <1>2, <1>4 DEF KlogInv, TypeOK
  <2>2. QED BY <2>1, ContentsIsRing
<1>5. Fifo!Accept(c, e)
  BY <1>2, <1>3, <1>4 DEF Fifo!Accept
<1>6. QED BY <1>5

\* DrainAdvance extracts the entry that has been printed.
LEMMA AdvanceRefines ==
  ASSUME KlogInv, DrainAdvance PROVE ring \in Cores /\ Fifo!Extract(ring)
<1>1. PICK r \in Cores : r = ring /\ tail[r] # head[r]
  BY DEF DrainAdvance, Draining, KlogInv, TypeOK, PrintInv
<1>2. /\ tail' = [tail EXCEPT ![r] = RingNext(@, N)]
      /\ head' = head /\ buf' = buf /\ dropped' = dropped
  BY <1>1 DEF DrainAdvance
<1>3. Contents(r) # <<>> /\ Contents(r)' = Tail(Contents(r))
  <2>1. head'[r] = head[r] /\ tail'[r] = RingNext(tail[r], N) /\ buf'[r] = buf[r]
    BY <1>2 DEF KlogInv, TypeOK
  <2>2. /\ N \in Nat \ {0, 1} /\ head[r] \in 0 .. N-1 /\ tail[r] \in 0 .. N-1
        /\ buf[r] \in [0 .. N-1 -> Content]
    BY RingTypes
  <2>3. /\ RingContents(head[r], tail[r], buf[r], N) # <<>>
        /\ RingContents(head[r], RingNext(tail[r], N), buf[r], N)
             = Tail(RingContents(head[r], tail[r], buf[r], N))
    BY <1>1, <2>2, RingTail
  <2>4. QED BY <2>1, <2>3, ContentsIsRing
<1>4. ASSUME NEW d \in Cores, d # r PROVE Contents(d)' = Contents(d)
  <2>1. head'[d] = head[d] /\ tail'[d] = tail[d] /\ buf'[d] = buf[d]
    BY <1>2, <1>4 DEF KlogInv, TypeOK
  <2>2. QED BY <2>1, ContentsIsRing
<1>5. Fifo!Extract(r)
  BY <1>2, <1>3, <1>4 DEF Fifo!Extract
<1>6. QED BY <1>1, <1>5

LEMMA StepRefines ==
  ASSUME KlogInv, [Next]_vars
  PROVE  Fifo!Next \/ (Queues' = Queues /\ dropped' = dropped)
<1>1. CASE UNCHANGED rings
  BY <1>1, RingsUntouched
<1>2. ASSUME NEW c \in Cores,
             WriteFull(c) \/ WritePublish(c) \/ \E e \in Says[c] : WriteEntry(c, e)
      PROVE  Fifo!Next \/ (Queues' = Queues /\ dropped' = dropped)
  <2>1. CASE WriteFull(c)
    BY <2>1, FullRefines DEF Fifo!Next
  <2>2. CASE WritePublish(c)
    BY <2>2, PublishRefines DEF Fifo!Next
  <2>3. CASE \E e \in Says[c] : WriteEntry(c, e)
    BY <2>3, EntryRefines
  <2>4. QED BY <1>2, <2>1, <2>2, <2>3
<1>3. CASE DrainAdvance
  BY <1>3, AdvanceRefines DEF Fifo!Next
<1>4. CASE \/ UNCHANGED vars \/ Tick
           \/ \E t \in Threads : Puts(t) \/ Acquire(t) \/ Release(t)
           \/ DrainStart \/ DrainEmpty \/ DrainSome \/ DrainField
  <2>1. UNCHANGED rings
    BY <1>4 DEF vars, Tick, Puts, Acquire, Release, DrainStart, DrainEmpty, DrainSome, DrainField
  <2>2. QED BY <2>1, <1>1
<1>5. QED BY <1>2, <1>3, <1>4 DEF Next, DrainStep

-----------------------------------------------------------------------------
\* For every number of cores and slots and every budget: the rings of the log are
\* bounded queues. An entry that was accepted is printed from its slot before
\* anything overwrites it, once and in order, and every refusal is counted.
THEOREM LogsAreFifos == Spec => LogIsFifo
<1>1. KlogInv /\ [Next]_vars => [Fifo!Next]_<<Queues, dropped>>
  BY StepRefines
<1>2. QED
  BY InitRefines, KlogInvariant, <1>1, PTL DEF Spec, LogIsFifo, Fifo!Spec, Queues

-----------------------------------------------------------------------------
\* The console: a thread is inside the driver exactly when the transmit lock
\* names it, so characters of two threads never mix and the lock never leaks.
ConsoleIsExclusive == \A t \in Threads : tpc[t] = "send" <=> lock = t

ConsoleInv ==
  /\ lock \in Threads \cup {NoThread}
  /\ tpc \in [Threads -> {"idle", "spin", "send"}]
  /\ ConsoleIsExclusive

LEMMA ThreadRange == Logs \in Threads /\ NoThread \notin Threads
BY KlogAssumption DEF Threads, Logs, NoThread

\* A driver call that begins only spins.
LEMMA CallKeepsConsole ==
  ASSUME ConsoleInv, NEW t \in Threads, tpc[t] = "idle",
         lock' = lock, tpc' = [tpc EXCEPT ![t] = "spin"]
  PROVE  ConsoleInv'
BY DEF ConsoleInv, ConsoleIsExclusive

LEMMA ConsoleStep == ConsoleInv /\ [Next]_vars => ConsoleInv'
<1> SUFFICES ASSUME ConsoleInv, [Next]_vars PROVE ConsoleInv'
  OBVIOUS
<1>1. ASSUME UNCHANGED uart PROVE ConsoleInv'
  BY <1>1 DEF ConsoleInv, ConsoleIsExclusive, uart
<1>2. CASE PrintField /\ tpc[Logs] = "idle"
  BY <1>2, ThreadRange, CallKeepsConsole DEF PrintField
<1>3. ASSUME NEW t \in Threads, Puts(t) PROVE ConsoleInv'
  BY <1>3, CallKeepsConsole DEF Puts
<1>4. ASSUME NEW t \in Threads, Acquire(t) PROVE ConsoleInv'
  BY <1>4, ThreadRange DEF Acquire, ConsoleInv, ConsoleIsExclusive
<1>5. ASSUME NEW t \in Threads, Release(t) PROVE ConsoleInv'
  BY <1>5, ThreadRange DEF Release, ConsoleInv, ConsoleIsExclusive
<1>6. ASSUME NEW c \in Cores, WriteFull(c) \/ WritePublish(c) \/ \E e \in Says[c] : WriteEntry(c, e)
      PROVE  UNCHANGED uart
  BY <1>6 DEF WriteFull, WritePublish, WriteEntry
<1>7. CASE DrainStep
  <2>1. UNCHANGED uart \/ (PrintField /\ tpc[Logs] = "idle")
    BY <1>7 DEF DrainStep, DrainEmpty, DrainSome, DrainField, DrainAdvance, PassEnd, Draining, uart
  <2>2. QED BY <1>1, <1>2, <2>1
<1>8. CASE DrainStart \/ Tick \/ UNCHANGED vars
  BY <1>1, <1>8 DEF DrainStart, Tick, vars
<1>9. QED BY <1>1, <1>3, <1>4, <1>5, <1>6, <1>7, <1>8 DEF Next

\* uart.c 210-276: wherever ticks preempt the threads that print, one of them at
\* most is sending, and it has the lock.
THEOREM ConsoleExclusion == Spec => []ConsoleIsExclusive
<1>1. Init => ConsoleInv
  BY ThreadRange DEF Init, ConsoleInv, ConsoleIsExclusive
<1>2. ConsoleInv => ConsoleIsExclusive
  BY DEF ConsoleInv
<1>3. QED BY <1>1, <1>2, ConsoleStep, PTL DEF Spec

-----------------------------------------------------------------------------
\* The promise of a pass: as many entries as the budget allows and no more, the
\* one that is being printed included; 0 means no limit.
PassIsBounded ==
  Budget # 0 => emitted + (IF dpc = "print" THEN 1 ELSE 0) <= Budget

BudgetInv == emitted \in Nat /\ PassIsBounded

LEMMA BudgetStep == BudgetInv /\ [Next]_vars => BudgetInv'
<1> SUFFICES ASSUME BudgetInv, [Next]_vars PROVE BudgetInv'
  OBVIOUS
<1> USE KlogAssumption DEF BudgetInv, PassIsBounded
<1>1. ASSUME dpc' = dpc, emitted' = emitted PROVE BudgetInv'
  BY <1>1
<1>2. CASE PassEnd
  BY <1>2 DEF PassEnd
<1>3. CASE DrainStart
  BY <1>3 DEF DrainStart
<1>4. CASE DrainEmpty
  BY <1>1, <1>2, <1>4 DEF DrainEmpty
<1>5. CASE DrainSome
  BY <1>2, <1>5 DEF DrainSome, PrintField, Spent
<1>6. CASE DrainField
  BY <1>1, <1>6 DEF DrainField, PrintField, Draining
<1>7. CASE DrainAdvance
  <2>1. dpc = "print" /\ dpc' = "ring" /\ emitted' = emitted + 1
    BY <1>7 DEF DrainAdvance, Draining
  <2>2. QED BY <2>1
<1>8. ASSUME NEW c \in Cores, WriteFull(c) \/ WritePublish(c) \/ \E e \in Says[c] : WriteEntry(c, e)
      PROVE  BudgetInv'
  BY <1>1, <1>8 DEF WriteFull, WritePublish, WriteEntry, drain
<1>9. ASSUME NEW t \in Threads, Puts(t) \/ Acquire(t) \/ Release(t) PROVE BudgetInv'
  BY <1>1, <1>9 DEF Puts, Acquire, Release, drain
<1>10. CASE Tick \/ UNCHANGED vars
  BY <1>1, <1>10 DEF Tick, vars, drain
<1>11. QED
  <2> HIDE DEF BudgetInv, PassIsBounded
  <2>1. QED BY <1>3, <1>4, <1>5, <1>6, <1>7, <1>8, <1>9, <1>10 DEF Next, DrainStep

\* klog.c 157-193: a pass never prints more entries than its budget, although
\* other cores log while it prints and its tests of the budget come between the
\* entries.  This is the safety half of PassEnds.
THEOREM PassKeepsItsBudget == Spec => []PassIsBounded
<1>1. Init => BudgetInv
  BY KlogAssumption DEF Init, BudgetInv, PassIsBounded
<1>2. BudgetInv => PassIsBounded
  BY DEF BudgetInv
<1>3. QED BY <1>1, <1>2, BudgetStep, PTL DEF Spec

=============================================================================
