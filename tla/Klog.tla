-------------------------------- MODULE Klog --------------------------------
(***************************************************************************)
(* The kernel log and the console it is printed on: the per-core rings of  *)
(* kernel/klog.c, written by every core without a lock, and the thread     *)
(* io2_logs of core 2 (net/net_task.c) that drains them with a budget      *)
(* through drivers/uart/uart.c, whose transmit lock it shares with the     *)
(* other threads of core 2.  These threads are equally urgent and a tick   *)
(* may take the core from any of them at any point, the lock included.     *)
(*                                                                         *)
(* An entry is printed by several calls of the driver, one per field of    *)
(* its line (Fields of them here), and the slot is given back after the    *)
(* last one.                                                               *)
(***************************************************************************)
EXTENDS SchedTable, Ring, Sequences

CONSTANTS
  NumCores,     \* CFG_NUM_CORES
  N,            \* CFG_LOG_RING_ENTRIES
  Entries,      \* what may be logged
  Says,         \* the entries that each core logs
  Budget,       \* KLOG_DRAIN_BUDGET
  Fields,       \* driver calls that print one entry
  NumThreads,   \* threads of core 2; 0 is io2_logs, the others print, too
  MaxDropped    \* bound of the model on the drop counters

Cores   == 0 .. NumCores-1
Threads == 0 .. NumThreads-1
Logs    == 0

ASSUME KlogAssumption ==
  /\ NumCores \in Nat \ {0}
  /\ Says \in [Cores -> SUBSET Entries]
  /\ N \in Nat \ {0, 1}
  /\ Budget \in Nat
  /\ Fields \in Nat \ {0}
  /\ NumThreads \in Nat \ {0}
  /\ MaxDropped \in Nat

VARIABLES
  head, tail, dropped, buf,   \* log_ring_t of every core
  filling,                    \* ring_push() on each core has filled its slot
  dpc, ring, emitted, field,  \* klog_drain_budgeted(): locals
  current,                    \* g_current of core 2
  lock,                       \* g_tx_lock: the thread inside, or NoThread
  tpc                         \* where the driver call of each thread stands

rings  == <<head, tail, dropped, buf>>
drain  == <<dpc, ring, emitted, field>>
uart   == <<lock, tpc>>
vars   == <<rings, filling, drain, current, uart>>

Slots    == 0 .. N-1
AnyEntry == CHOOSE e \in Entries : TRUE

\* klog_init() has run; core 2 has started its threads.
Init ==
  /\ head = [c \in Cores |-> 0] /\ tail = [c \in Cores |-> 0]
  /\ dropped = [c \in Cores |-> 0]
  /\ buf = [c \in Cores |-> [i \in Slots |-> AnyEntry]]
  /\ filling = [c \in Cores |-> FALSE]
  /\ dpc = "idle" /\ ring = 0 /\ emitted = 0 /\ field = 0
  /\ current = Logs
  /\ lock = NoThread
  /\ tpc = [t \in Threads |-> "idle"]

-----------------------------------------------------------------------------
\* klog_write() on core c: ring_push() finds the ring full, counts the drop and
\* does not block ...
WriteFull(c) ==
  /\ ~filling[c] /\ RingNext(head[c], N) = tail[c]
  /\ dropped[c] < MaxDropped
  /\ dropped' = [dropped EXCEPT ![c] = @ + 1]
  /\ UNCHANGED <<head, tail, buf, filling, drain, current, uart>>

\* Seeded fault: the full ring is not refused.
WriteEntry_overFull(c, e) ==
  /\ ~filling[c]
  /\ buf' = [buf EXCEPT ![c][head[c]] = e]
  /\ filling' = [filling EXCEPT ![c] = TRUE]
  /\ UNCHANGED <<head, tail, dropped, drain, current, uart>>

\* ... or fills the slot at head, which nobody reads yet ...
WriteEntry(c, e) ==
  /\ ~filling[c] /\ RingNext(head[c], N) # tail[c]
  /\ buf' = [buf EXCEPT ![c][head[c]] = e]
  /\ filling' = [filling EXCEPT ![c] = TRUE]
  /\ UNCHANGED <<head, tail, dropped, drain, current, uart>>

\* ... and publishes it after the barrier.
WritePublish(c) ==
  /\ filling[c]
  /\ head' = [head EXCEPT ![c] = RingNext(@, N)]
  /\ filling' = [filling EXCEPT ![c] = FALSE]
  /\ UNCHANGED <<tail, dropped, buf, drain, current, uart>>

-----------------------------------------------------------------------------
\* uart_puts(), uart_putc() or uart_write() by a thread of core 2: it spins
\* for the transmit lock, sends its characters, and releases the lock.
Acquire(t) ==
  /\ current = t /\ tpc[t] = "spin"
  /\ lock = NoThread /\ lock' = t
  /\ tpc' = [tpc EXCEPT ![t] = "send"]
  /\ UNCHANGED <<rings, filling, drain, current>>

\* Seeded fault: the lock is not released.
Release_kept(t) ==
  /\ current = t /\ tpc[t] = "send"
  /\ tpc' = [tpc EXCEPT ![t] = "idle"]
  /\ UNCHANGED <<rings, filling, drain, current, lock>>

Release(t) ==
  /\ current = t /\ tpc[t] = "send"
  /\ lock' = NoThread
  /\ tpc' = [tpc EXCEPT ![t] = "idle"]
  /\ UNCHANGED <<rings, filling, drain, current>>

\* A thread other than io2_logs prints something.
Puts(t) ==
  /\ current = t /\ t # Logs /\ tpc[t] = "idle"
  /\ tpc' = [tpc EXCEPT ![t] = "spin"]
  /\ UNCHANGED <<rings, filling, drain, current, lock>>

-----------------------------------------------------------------------------
\* klog_drain_budgeted() by io2_logs.
Draining(point) == current = Logs /\ dpc = point /\ tpc[Logs] = "idle"

\* Seeded fault: the budget is spent one entry too early.
Spent_early == Budget # 0 /\ emitted + 1 >= Budget

Spent == Budget # 0 /\ emitted >= Budget

DrainStart ==
  /\ Draining("idle")
  /\ dpc' = "ring" /\ ring' = 0 /\ emitted' = 0
  /\ UNCHANGED <<rings, filling, field, current, uart>>

PassEnd ==
  dpc' = "idle" /\ ring' = 0 /\ emitted' = 0 /\ UNCHANGED <<field, uart>>

PrintField ==
  /\ dpc' = "print"
  /\ field' = field + 1
  /\ tpc' = [tpc EXCEPT ![Logs] = "spin"]
  /\ UNCHANGED <<ring, emitted, lock>>

\* The ring is empty: the next one, unless the budget is spent.
DrainEmpty ==
  /\ Draining("ring") /\ tail[ring] = head[ring]
  /\ IF Spent \/ ring = NumCores-1
       THEN PassEnd
       ELSE ring' = ring + 1 /\ UNCHANGED <<dpc, emitted, field, uart>>
  /\ UNCHANGED <<rings, filling, current>>

\* It is not: print the oldest entry, unless the budget is spent.
DrainSome ==
  /\ Draining("ring") /\ tail[ring] # head[ring]
  /\ IF Spent THEN PassEnd ELSE PrintField
  /\ UNCHANGED <<rings, filling, current>>

\* One field is out: the next one, or give the slot back.
DrainField ==
  /\ Draining("print") /\ field < Fields
  /\ PrintField
  /\ UNCHANGED <<rings, filling, current>>

\* Seeded fault: printed entries are not counted.
DrainAdvance_uncounted ==
  /\ Draining("print") /\ field = Fields
  /\ tail' = [tail EXCEPT ![ring] = RingNext(@, N)]
  /\ field' = 0 /\ dpc' = "ring"
  /\ UNCHANGED <<head, dropped, buf, filling, ring, emitted, current, uart>>

DrainAdvance ==
  /\ Draining("print") /\ field = Fields
  /\ tail' = [tail EXCEPT ![ring] = RingNext(@, N)]
  /\ emitted' = emitted + 1
  /\ field' = 0 /\ dpc' = "ring"
  /\ UNCHANGED <<head, dropped, buf, filling, ring, current, uart>>

DrainStep == DrainEmpty \/ DrainSome \/ DrainField \/ DrainAdvance

-----------------------------------------------------------------------------
\* The tick of core 2: round robin among its threads.
Tick ==
  /\ current' = PickNext([t \in Threads |-> "READY"], [t \in Threads |-> 10],
                         [t \in Threads |-> 2], NumThreads, 2, current)
  /\ UNCHANGED <<rings, filling, drain, uart>>

\* What a thread of core 2 does when it has the core.
Proceed(t) ==
  \/ Acquire(t) \/ Release(t)
  \/ t = Logs /\ (DrainStart \/ DrainStep)

Next ==
  \/ \E c \in Cores : WriteFull(c) \/ WritePublish(c) \/ \E e \in Says[c] : WriteEntry(c, e)
  \/ \E t \in Threads : Puts(t) \/ Acquire(t) \/ Release(t)
  \/ DrainStart \/ DrainStep
  \/ Tick

Spec == Init /\ [][Next]_vars

\* Ticks keep coming, and a thread that gets the core again and again gets on.
\* The loops of core 2 pause between their passes (net_delay_us), so a tick does
\* not always fall into a transmission.
FairSpec ==
  /\ Spec
  /\ WF_vars(Tick) /\ SF_vars(lock = NoThread /\ Tick)
  /\ \A t \in Threads : SF_vars(Proceed(t))

-----------------------------------------------------------------------------
\* The entries of a core's ring, oldest first.
Contents(c) == RingContents(head[c], tail[c], buf[c], N)

\* The rings are bounded queues: an accepted entry is neither lost nor changed
\* nor overtaken while the slow console prints it, field by field, and a
\* refused one is counted.
Fifo == INSTANCE MailboxFifo WITH
  Links <- Cores, Messages <- Entries, Capacity <- N-1,
  queue <- [c \in Cores |-> Contents(c)]
LogIsFifo == Fifo!Spec

\* "So it can never freeze the network" (net_task.c): a pass of the drain ends
\* although other cores keep logging while it prints.
PassEnds == []<>(dpc = "idle")

\* Every pass begins with ring 0, so the log of a core is printed if the cores
\* before it fall silent; otherwise the budget may always be spent before it.
QuietRingsAreDrained ==
  \A c \in Cores :
    <>[](\A b \in 0 .. c-1 : head[b] = tail[b])
      => []<>(head[c] = tail[c] \/ (dpc = "print" /\ ring = c))

\* A thread that prints gets its message out, whoever else uses the console.
PrintersFinish == \A t \in Threads : tpc[t] # "idle" ~> tpc[t] = "idle"

=============================================================================
