# OROS in TLA+

OROS is a bare-metal, partitioned SMP real-time operating system for a
four-core ARMv8-A chip. These modules model the part of it that every other
part stands on and that tests hardly reach: the preemptive scheduler of each
core, the first instructions of a core's scheduler, the blocking primitives,
the lock-free queues between cores, the kernel log, the timing of the periodic
loops, the EtherCAT master on its lossy bus, and the SSH server between lwIP's
callbacks and a client that may leave at any moment. The source modelled is
`src/template/`, the production tree; `src/demo/` is an earlier demonstration
of the same kernel.

Contents: [1 the system](#1-the-system), [2 the plan](#2-the-plan),
[3 the modules](#3-the-modules), [4 the runs](#4-the-runs),
[5 fairness](#5-fairness), [6 the proofs](#6-the-proofs),
[7 disagreements](#7-where-the-code-and-its-words-disagree),
[8 limits](#8-what-is-not-modelled).

## 1 The system

Four cores, four roles: core 0 runs the EtherCAT cycle, core 1 the PLC scan,
core 2 all input and output (USB, network, shells, logs), core 3 soft periodic
work. A thread is pinned to a core for ever. A core's 1 ms timer interrupt
calls `sched_on_tick()`, which stores the interrupted thread's trap frame and
picks the best READY thread of the partition. There are no sleeping queues:
a thread that waits for anything stays READY and polls, with `wfi` between the
polls (`thread_yield`).

| component | state it keeps | operations | talks to | hard behaviour | correct when |
|---|---|---|---|---|---|
| scheduler `kernel/sched.c`, `thread.h` | `g_tcb[]` (state, priorities, core, sp), `g_nthreads`, `g_current[]` | create, start, tick, trampoline, set and restore priority | every core reads the one table; the mutex writes priorities of other cores' threads | tick between any two instructions; table grows under a running scan | affinity, every frame belongs to its thread, round robin without starvation |
| core start-up `main.c`, `smp.c`, `context.S`, `vectors.S` | go flag, `g_current`, `ELR_EL1` | release, `irq_enable`, `sched_start`, `cpu_start_first` | scheduler, timer, UART and mailbox interrupts | interrupts are enabled before the first `eret` | the first thread of a core reaches its entry |
| mutex `kernel/mutex.c`, `sync.c` | guard, held, owner; priority of the owner | lock, trylock, unlock | scheduler (priorities, preemption) | guard held across a preemption; two guards that touch one priority | exclusion, no boost without a reason, bounded inversion |
| semaphore `kernel/mutex.c` | guard, count | wait, trywait, post | scheduler | polling waiters keep their core | no token lost or made, waiters served |
| mailboxes `kernel/mailbox.c` | 4x4 rings: head, tail, dropped, buffer | send, send_notify, recv, recv_any | writer and reader on different cores | weak memory, full ring, wrap-around | bounded FIFO per pair of cores |
| kernel log `kernel/klog.c` | a ring per core | write, budgeted drain | console | budget spent on low cores, several writers per core | entries printed once and whole |
| console `drivers/uart/uart.c`, `net/uart_shell.c` | transmit lock, receive ring, line buffer | puts, write, receive interrupt, getc | log, shells, printf | lock held across a preemption | whole messages, no lost input below the ring size |
| PLC engine `kernel/plc.c`, `app_core1.c`, `app_core3.c` | deadline, cycle and overrun counts | one cycle, registration | timer | overrun and resynchronisation | no cycle starts early, lag does not accumulate |
| EtherCAT master `lib/ethercat/`, `net/ecat_diag.c` | datagram index, indices awaited, slave and domain state, diagnostics | activation, cycle | GMAC, slaves, shell | late or lost frames, index wrap, refusing or fallen slaves | an answer is matched with its own request, the cycle never stops, process data comes back with the bus |
| GMAC driver `drivers/gmac/gmac.c` | descriptor rings | send, receive | EtherCAT | ownership bits shared with DMA, full receive ring | a descriptor has one owner |
| network `net/net_task.c`, `netif_r8152.c` | interface, link state | bring-up, poll, hot-plug | lwIP, USB | unplugging while in use | services come back with the link |
| TCP shell, SSH server `net/tcp_shell.c`, `ssh_server.c` | session slot, receive ring, output ring | accept, receive, poll, error, close | lwIP callbacks, wolfSSH | callbacks of a closed connection, acknowledged but dropped bytes, a full TCP buffer, a client gone without a word | session, wolfSSH object and connection begin and end together; a session whose client left ends; printed output is delivered |
| shell commands `net/net_shell.c` | little of its own | formatting, files | everything read-only | reads other cores' statistics unlocked | – |
| USB `drivers/usb/` | controller state, keyboard state | enumerate, poll, hot-plug | services of core 2 | device gone during a transfer; shared controller selection | – |
| file system, SD card `fs/`, `drivers/sdmmc/` | mount state, card state | mount, path check, blocks | SSH, shell | partial failure of a transfer | paths stay inside the jail |
| board support `arch/aarch64/`, `drivers/gpio/`, `newlib_stubs.c` | device registers | set-up | – | – | – |
| vendored lwIP, wolfSSL, wolfSSH, FatFs | – | – | – | third party | – |

`PROJECT.json` has the same list under `components`, and under `hazards` what is
hard to test, each at its line, with the properties that would catch it.

## 2 The plan

The order follows dependence: what every thread stands on comes first.

1. **Scheduler** – `SchedTable` (selection as pure operators), `Sched` (the state
   machine), `SchedTurns` (waiting bound), `PickScan` (the selection loop at the
   grain of loads), `SchedStart` (first `eret`). Proved: selection, affinity,
   ownership of frames, round robin, what the open selection loop answers, and
   that an interrupted start stays in one slot until the boot path runs off its
   stack. *Done.*
2. **Blocking primitives** – `PiMutex`, `Semaphore`, both over `SchedTable`'s
   selection. Proved: exclusion and justified boosts of the mutex, conservation
   of the semaphore's tokens. *Done.*
3. **Inter-core queues** – `Ring`, `Mailbox` against `MailboxFifo`. Proved: the
   refinement, for every ring size. *Done.*
4. **Log and console** – `Klog` (rings, budgeted drain, transmit lock under
   preemption). Proved: the refinement of the same queues. *Done.*
5. **Cyclic engines** – `Cyclic` (the scan engine and the paced loops), proved, and
   `EcatMaster` (activation and cycle against frames that are lost, late or refused).
   Proved for every range of indices: answers are matched with their datagrams, no
   AL state is skipped. *Done* for one slave.
6. **Services of core 2** – `SshServer` (session life cycle against lwIP and wolfSSH,
   both external). Proved: all its safety. *Done.* Left: the TCP shell, whose
   life cycle is a simpler instance of the same questions.

Abstract specification: the bounded FIFO, which two components implement. Every
safety property of the runs is a theorem; what is only model-checked is liveness.

## 3 The modules

### SchedTable, Tcb, Sched
`SchedTable` holds `pick_next()` and the loop of `sched_start()` as operators over
the columns of the table: the candidates of a partition, the best of them, the
first of those in the circular order after the current thread. All other modules
that schedule use these operators and no others. `Tcb` declares the columns of
`g_tcb` that selection reads, and the constants they range over; `Sched`,
`PickScan` and `SchedStart` extend it, so the three look at the same table at three
grains.

`Sched` is the state machine. Its variables are the columns of `g_tcb`,
`g_nthreads` and `g_current`, plus three that make the hardware visible: `ctx[c]`,
the context whose registers are live on core c; `frame[t]`, whose registers the
frame at `g_tcb[t].sp` holds; `returned`, the threads whose entry function has
returned. `thread_create_on()` is four actions (`CreateFill`, `CreateFrame`,
`CreateReady`, `CreatePublish`) because ticks of all cores fall between them;
`making` is the one call in progress (threads are created by `kmain` first and by
the core 2 supervisor later, never by two contexts at once, and the slots of two
simultaneous calls would collide). `Start` is `sched_start`, `Tick` all of
`sched_on_tick`, `TrampolineBlock` a turn of the trampoline's endless loop,
`SetEffectivePriority` and `RestorePriority` what the mutex code does to any
thread at any time.

All proofs about selection and rings rest on `KernelLemmas`, a library of facts
about `SchedTable` and `Ring`.

### SchedTurns, PickScan, SchedStart
`SchedTurns` adds a history variable that counts the turns others get while a
thread waits at the best level. `PickScan` opens the step `Tick` once more: the
selection loop reads `g_nthreads` twice per iteration and reads priorities one by
one, while other cores publish threads and write priorities. `SchedStart` opens
the step `Start`: `irq_enable()` precedes `sched_start()`, so between the
assignment of `g_current` and the first `eret` ticks and other interrupts may hit.
Its state is what executes (`live`), the frames at their addresses (`mem`, an address
being a stack and a depth counted in frames), `g_tcb[].sp`, and the registers SP, x0
and `ELR_EL1`, the last of which belongs to no context: every interrupt overwrites
it. `sched_start()` is `Select`, `SetCurrent`, `MarkRunning` and `LoadArgument`;
`cpu_start_first` is `MoveSp`, `WriteElr`, `LoadRegs`, `PopFrame` (the `add` of 800)
and `Eret`, which goes wherever `ELR_EL1` points, back among these instructions
included. `StartTick` and `OtherIrq` save below SP and restore, at every instruction.
When a repeated `PopFrame` or `LoadRegs` would go above the top of its stack the boot
path is `Astray` and the model ends. `spoiled` records that an interrupt has come at an
instant where it does harm.

### PiMutex, Semaphore
Threads move only while they are the current thread of their core. A call is a
path through the program points in `pc`, one action per load or store that another
core could see between; `spin_lock` is one atomic step because its exclusive
pair is. `mine[t]` are the mutexes whose lock call has returned to t. The
priority a waiter has read (`selfPrio`) and the holder it has read (`seen`) are
locals, so stale values are in the model, as is the write of another thread's
priority by two cores through two guards. `owner_prio` is written and never read
in the code and is left out. In the semaphore `count--` and `count++` are a load
and a store; `has` and `balance` record the tokens that are with the callers.

### Ring, MailboxFifo, Mailbox
`Ring` has the arithmetic that mailboxes and log share: the next slot, and what a
ring contains from tail to head. `Mailbox` has a ring per pair of cores and a program counter per call in
progress, one action per load or store. Where `reorder` holds, the load of the slot may be
satisfied before the load of the head, which ARMv8 allows because
`mailbox_recv()` has no barrier between them. `MailboxFifo` is what
`mailbox.h` promises of the queues; the refinement mapping reads each ring from
tail to head. `ProducerAssumption` is "exactly one producer" (`mailbox.c:22`): no two
sending threads share a core. That the contents of the queues are what the callers pass and get
is `MessagesIntact`: what is published is what the sender was given, and what is
returned is the oldest message, as long as loads are not reordered.

### Klog
The log rings of all cores and the thread that prints them. A writer's test and
store are one step and its publication another; the drain's locals, and each
call of the UART driver, are separate steps, because core 2's tick may take the
core away anywhere: in the middle of an entry, or inside the transmit lock, for
which the other printing threads then spin until they lose the core in turn.
`current` is the scheduled thread and `Tick` uses `SchedTable`'s selection. The
specification it implements is again `MailboxFifo`, a queue per core.

### Cyclic
The scan engine of `plc.c` and the loops that pace themselves the other way, the
soft loop of core 3 and the permanent cycle of the EtherCAT master. They share
`now`, the system counter, which advances between any two steps: hooks,
interrupts and waits take any time. `t0`, `lt0`, `prev`, `finished`, `looked` and `runs`
are history: when a loop began, the tick of the last cycle and when it had been
measured, when a paced loop last looked whether it is late, how often a task has run.

### EcatMaster
`step` is where `ecrt_master_activate()` or the loop of `ecat_task_entry()` stands;
each step is one exchange of `do_single_datagram()` (`Issue`, then the polling) or
the process data frame (`QueueAndSend`, polled for in the next cycle's
`receive`). Polling is `PollTake`, `PollDrop` (a frame with another index) and
`Deadline`. `ask` and `polls` are the loop of `request_state()`. What comes out is
`Answered` for single datagrams, with every early return of the activation, and
`Received` for the process data. The rest is the world: `Carry` takes a frame round
the ring and through the slave, `Lose` loses it before or behind the slave, `Fall`
is the slave's watchdog, `calm` says whether frames may be late or lost. Frames
carry the ghost field `awaited`, so that `took` can record whether the answer that
was taken was the one asked for. Time is abstract: a deadline passes only when
the receive ring has been read empty, and on a calm bus only if no answer is on
its way. (The code reads the clock before each poll; but the eight descriptors are
read in microseconds, against 300 µs and 5 ms, by a thread that is alone on its
core, so a frame that slips in between the last poll and the deadline is the
model's frame that arrives after it.)

`SendFails` is a `gmac_send()` that returns an error: every descriptor is busy, or
the frame has not left within 10 ms and leaves later. `do_single_datagram()` then
returns at once, having drawn an index and read nothing, so answers pile up in the
receive ring while the index moves on. `ecrt_master_send()` ignores the result, so
for the process data a refused frame is one that is lost or late. Indices return
after `IndexMod` frames; `Age` counts how many frames have been built since a frame
was. `MaxLate` bounds the age at which a frame leaves the ring (section 7, stalled
transmission), and `EcatAssumption` asks for more indices than can be unread:
`MaxLate + MaxPolls + 1` while a state is being read, `MaxLate + 6` for the writes
of the activation that nobody waits for if they cannot be sent.

### SshServer
Everything runs in the `io2_net` thread, so a callback of lwIP or a turn of
`ssh_server_poll()` is one step. `s_sess` and `s_ssh` are the file's variables of that
name; `conn[p]` is what lwIP knows of a control block. `AdvanceAccept`, `AdvanceRun`
and `AdvanceSftp` are the three branches of `ssh_advance()`, each with everything it
does in one turn: it reads up to a bound, executes, prints, flushes, and closes
if that is wanted and its ring is empty. `ssh_close_session` unhooks the receive and
error callbacks and leaves the poll hook, as the code does. A unit of input is an
SSH packet and a unit of output what one command prints. The client sends what a
regular client may send in its phase, closes, resets, or vanishes; after a lost
packet everything it sends is garbage to the decryption. wolfSSH is the state of
its channel (end of file, close, key exchange: no more output) and the one packet
it holds back when TCP has no room: shell output, or the reply to an SFTP request,
before which it reads no further request (`SftpPump`). `cut` counts what a close of
the server throws away.

## 4 The runs

| run | instance | what it shows |
|---|---|---|
| `Sched` | `SchedTurns`, 2 cores, 3 slots, 2 priorities, fair timers | in every interleaving of creation, release, ticks, priority writes and returning threads: a core runs only its own published threads (`CurrentIsPinned`); nobody is resumed into an unbuilt or foreign frame (`ContextsOwned`); no starvation at the best level (`BestThreadsKeepRunning`), at most one turn of each other thread in between (`NobodyGoesTwice`), and a returned thread gives up the core (`ReturnedThreadsRetire`) |
| `PickScan` | 4 slots, 2 cores, every table | the torn scan answers a runnable thread of the partition (`AnswerIsRunnable`) and a table that grows does not hide an old thread (`OldThreadsNotHidden`) |
| `SchedStart` | 3 threads, 2 priorities, interrupts at every instruction, stacks 3 frames deep | until the boot path runs off its stack only the first thread's slot holds it (`BootStaysInFirstSlot`); without an interrupt at a harmful instant the first thread enters, and until then its peers do, whether it enters or not (`StartReachesEntries`) |
| `PiMutex` | L and M on one core, H on another, M created late, 1 mutex | exclusion, no boost without a reason, and the boost gets L to its unlock although M never sleeps |
| `PiMutex_inversion` | L and H on one core, 1 mutex | **violated**: `UrgentlyAskedIsReleased` |
| `Semaphore` | consumer and producer on one core, user on another, 3 tokens at most | `TokensConserved` across cores; `WaiterIsServed` among equals |
| `Mailbox` | 2 senders on 2 cores, 1 scanning receiver, rings of 3 slots | the rings implement bounded FIFOs through overflow and wrap-around, also with reordered loads; in order, messages arrive unchanged (`MessagesIntact`); no slot is read and written at once; `recv_any` reaches a source when the lower ones fall silent |
| `Klog` | 2 logging cores, rings of 3 slots, budget 1, 2 driver calls per entry, 2 threads of core 2 | the rings are bounded FIFOs while they are drained in place (`LogIsFifo`); a pass ends although the cores keep logging (`PassEnds`); a core's log is printed once lower cores fall silent (`QuietRingsAreDrained`); nobody waits for the console for ever (`PrintersFinish`) |
| `Cyclic` | period 2, tasks registered with 0 and 2, a paced loop of period 2, 8 ticks | the cadence is absolute (`CadenceIsAbsolute`), no cycle is early and no overrun leaves a backlog (`CyclesAnswerTheirTick`); the paced loop does its share and no more, and makes up for a delay with one body at most (`LoopsKeepPace`); tasks keep their period (`TasksKeepTheirPeriod`), the two overrun statistics agree (`LongCyclesAreCounted`) |
| `EcatMaster` | a slave found in INIT or left in OP, 9 indices, frames on the ring until 2 more are built, receive ring of 2, 2 status reads per request | no late answer passes for the one awaited (`AcceptedIsOwn`); no request skips a state of the slave (`NoStateSkipped`); the cycle goes on (`CycleGoesOn`); a calm bus gets its process data back in every cycle (`RecoversAfterLoss`) |
| `SshServer` | 2 connections, rings of 2, TCP buffer of 1, reads of 2, 3 packets per client | session, wolfSSH object and connection stay in step (`NoOrphans`); a closed connection does not touch the next session (`ClosedConnectionsAreMute`); the server's close throws away at most one packet, of a shell or of SFTP (`OnePacketCut`); a session whose client closed ends (`AbandonedSessionEnds`) |
| `SshServer_fin` | as above | **violated**: `HandshakeGivenUp` |

**Bounds.** Three thread slots are the smallest table in which a scan can wrap
around, tie, and skip a thread of another core or level; a full table is reached.
Two priorities are enough for better, equal and worse (three in `PiMutex`, where a
level in between matters). In `SchedStart` `MaxDepth` lets an interrupt hit on top of
two frames: the boot path saved, resumed, popped one frame too far and saved again. Two cores separate "my partition"
from "another", and nothing in the code depends on the number of the others.
`PickScan` starts from every table of four slots, not only reachable ones. A ring
of three slots holds two messages: it fills, refuses, empties and wraps, and a
sender can lap a receiver. `MaxDropped` stops a sender after its drops, `MaxCount`
a producer at its tokens; both only cut off repetition. In `Klog` each core logs
one entry of its own, which is enough to see a slot lost, repeated or read twice;
a budget of 1 is spent by every entry, the hardest case for the higher cores. In
`Cyclic` eight ticks hold four periods of the engine, with overruns by less and by
more than a period, and two resynchronisations of the loop. In `Mailbox` one sender
tells messages apart and the other always says the same: order within a link
needs only one. In `EcatMaster` the 8-bit index has nine values, the
fewest that `EcatAssumption` admits for these bounds, so the counter comes round to
indices it used before; with six or fewer TLC finds `AcceptedIsOwn` violated. The
real numbers are far inside the assumption: at most 100 status reads, 1 ms apart, in
the 100 ms of a request, eight transmit descriptors, 256 indices. Two frames in
flight and two stored ones are enough for an answer to be two exchanges late and
for a full receive ring; one slave suffices, as the code repeats the same
exchanges per slave. In `SshServer` two connections are one that is being closed
and the session after it; with three packets and rings of two, input is lost; with
a TCP buffer of one, a held packet, a parked SFTP reply and a full output ring happen. Deadlock
checking is on for `SshServer` and off elsewhere: an activation that failed leaves
the EtherCAT thread idle, the interrupts keep every modelled core going, and the
modules with caps stop when they are reached.

**Liveness with a limit.** `HolderReachesUnlock` is run with one mutex: with two and
nested locking the inner unlock takes back the boost of the outer one (section 7)
and then M may keep L away. `WaiterIsServed` is
run with equal priorities: a semaphore waiter more urgent than the producer of
its core polls for ever and the producer never runs; TLC confirms it when `Prio`
in `Semaphore.cfg` is given such levels. The comment "blocked: yield until a post"
(`mutex.c:128`) must be read with this in mind.

## 5 Fairness

- `WF(Tick(c))`: the generic timer of a started core is periodic and its interrupt
  is never masked for good. It is used for every core.
- `SF(Proceed(t))`, `SF(TrampolineBlock(t))`: a thread that is given its core again
  and again has about a millisecond each time, a million instructions against
  the handful of one step, so it gets to its next step even though a tick takes
  the core away in between. Weak fairness would let the tick always come first.
- `Proceed` includes `CallUnlock`: critical sections end. It does not include
  `CallLock`: no thread is obliged to ask again.
- `SF(Recv)` in `Mailbox`: `core2_drain_mailbox()` is called from the loop of a core 2
  thread, for ever. Nothing is assumed of senders.
- In `Klog`, `SF(lock = NoThread /\ Tick)` besides `WF(Tick)`: the service loops pause
  for 200 µs between passes (`net_delay_us`), so not every tick of a second falls
  into a transmission. Without it two printing threads of one core can take turns
  so that one always finds the other inside the lock. Nothing is assumed of
  `Puts` or of the writers.
- In `SchedStart`, `SF(Step)`: whenever the boot path has the core again it executes
  some of its instructions before the next interrupt. `WF(StartTick)`: the timer.
- `WF(MasterStep)` in `EcatMaster`: the `ecat_master` thread is the only one of core 0.
  `WF(Carry)`: a frame comes round, unless it is lost. Nothing is assumed of the
  weather; `RecoversAfterLoss` has it in its premise.
- `WF(ssh_server_poll)` in `SshServer`: the `io2_net` loop polls the server in every
  pass, for ever. `WF(Settle)`: TCP has its output acknowledged or gives up, and
  what was closed times out. Nothing is assumed of clients.

What fairness does not give: no progress is assumed of a thread whose core
prefers another one for ever.

## 6 The proofs

All theorems hold for every value of the constants that the named assumptions
admit. `TcbAssumption`, `SchedAssumption`, `MutexAssumption`, `SemaphoreAssumption`,
`KlogAssumption`, `CyclicAssumption` and `SshServerAssumption` say that the boot core
is a core, the table is not empty, priorities are naturals, every thread has a
core, rings have two slots or more, periods and sizes are positive. `MailboxAssumption` and
`ProducerAssumption` add one sending thread per core; `ScanAssumption` that the
priorities are the 32 levels of `CFG_NUM_PRIORITIES`, below the scan's start value;
`StartAssumption` that the starting core is a core and stacks are at least one frame
deep; `EcatAssumption` that there are more indices than frames unread.

`KernelLemmas` – **PickNextIsBest**: for every table, `pick_next()` answers
NO_THREAD exactly when the partition has no runnable thread, and otherwise a best
runnable thread of the partition that no other best one precedes in the circular
order. It rests on the ranks of the circular scan being different for different
threads, and on a finite, non-empty set of naturals having a least element. The
ring lemmas say what a ring of any size contains after its free slot is written
(`RingWrite`: the same), its head has moved (`RingAppend`), its tail has moved
(`RingTail`), and when it is full (`RingFull`); `RingMod` reduces `%` to two cases.

`SchedProofs` – **SchedTypeCorrect**, **SchedAffinity** (`CurrentIsPinned`) and
**SchedContexts** (`ContextsOwned`). Neither invariant is inductive: a tick that
loads a frame is right only if the frame was complete when the thread was
published, and publication is right only if the creation call in progress has
already filled and framed its slot. The inductive invariant `SchedInv` adds what
is known of the call in progress at each of its four steps, that it works on the
slot `nthreads`, that unpublished slots are not RUNNING or current, and that no
core has a current thread before the release. Each action is one lemma-sized step.
On top of it, **SchedBlocksOnlyReturned**: the trampoline blocks whatever `g_current`
names when it gets there, which by `ContextsOwned` is always itself; and
**SchedRetiredStayOff**, an action property: a blocked thread that has lost its core
never gets it again (`TickChoice`: a tick keeps the current thread or takes a runnable
one). That it does lose the core is the liveness half, `ReturnedThreadsRetire`.

**SchedRoundRobin** (`NobodyGoesTwice`) – the counters alone do not say why a second
turn cannot come. `TurnsInOrder` adds where the scan stands: if t waits at the best
level and x has had its turn since, then x lies after t and not after the current
thread in the circular order of the table (`Passed`). A tick takes the first best
thread behind the current one, so it meets t before it can meet x again
(`TickPasses`). A thread published in between changes the modulus but not this.

**ScanAnswerIsRunnable** (`AnswerIsRunnable`) and **ScanHidesNobody**
(`OldThreadsNotHidden`) – the loop at the grain of its loads. `ScanInv` says that every
old candidate has been met and beaten, or is still ahead of the scan although the
modulus grows under it (`OldMetOrAhead`), that `best` is a candidate with the
priority recorded (`BestFound`), and that old candidates earlier in the order than an
old `best` are worse (`EarlierAreWorse`), which makes it the answer of the atomic scan.

**BootConfined** (`BootStaysInFirstSlot`) – for stacks of any depth, until the boot path
is `Astray`. `BootInv` follows the boot path through memory: wherever it may have been
saved, every frame from there to the top of that stack is one it, or the first thread
at its own top, may be resumed from (`Good`, `Readable`). That covers the argument
of `cpu_start_first`, in a register or saved with it (`ArgumentLoadable`), and what
`ELR_EL1` may hold when the `eret` comes, together with the stack pointer it will find
there (`ReturnFits`). Nothing it can reach so lies on the stack of a thread that was
not picked (`PeersUntouched`, `LiveIsCurrent`).

`PiMutexProofs` – **PiMutexTypeCorrect**, **PiMutexExclusion** (`MutualExclusion`)
and **PiMutexBoostJustified** (`BoostJustified`). Exclusion needs `LockInv`: a
thread at a program point inside a guard is the one recorded in the guard, the
fields held and owner agree at every point of the critical steps, and a thread
between its lock call's return and its unlock call is the owner. The boost needs
more: two guards may lead to the same priority, and the test and the write of
`thread_set_effective_priority()` are separate. `Reasons` says that a waiter that
is about to boost still names the present owner (it holds the guard, so the
owner cannot release), and that a raised priority is the captured priority of a
thread that asks for a mutex of the raised thread. `PiInv` is their conjunction;
every action of `Next` is a step of the proof of its preservation.
**PiMutexNothingLeaks** is the converse of exclusion: a guard that is taken has a
thread inside (`GuardNotLeaked`), and a held mutex an owner that has yet to unlock it
(`HeldWillBeReleased`).

`CyclicProofs` – **CyclicTypeCorrect**, **ScanKeepsCadence** (`CadenceIsAbsolute`),
**ScanShedsItsLag** (`CyclesAnswerTheirTick`), **ScanCountsLongCycles**,
**PacedLoopsKeepPace** (`LoopsKeepPace`) and **TasksKeepPace**. `CyclicInv` adds what holds between the steps: at the overrun test
a cycle longer than the period is late unless an overrun has been counted
(`Lateness`; the cycle began no earlier than its tick), and before a paced body
the next tick is already the one that the following body earns, while a loop that
waits was late by less than a period when it looked (`Ahead`). For
the tasks, `TasksInv` follows the number of runs through the cycle, and the
lemma `DueCycle` turns "the count is divisible by n" into "the count is n times
the runs so far", which is where `%` meets the invariant.

The second half of the module is about `EcatMaster`: **EcatTypeCorrect**,
**EcatAnswersOwn** (`AcceptedIsOwn`) and **EcatNoStateSkipped** (`NoStateSkipped`).
`EcatInv` follows every frame by its age. `InOrder`: ages fall along the ring and
along the receive ring, frames on the ring are younger than those received, and
none is old enough for its index to return; how old it may be depends on the
program point through `Unread`, the datagrams that can have been built since the
receive ring was last read empty. `Awaiting`: while the program polls, the index it
waits for is the newest and the frame of age 0 is the datagram of this step. So an
answer with the right index has age 0, is the awaited one, and nothing is left
behind it (`OwnAnswer`). For the states that is not enough: an AL request that was
given up may still be on the ring. `Phases` says that the requests on the ring belong to
one phase of the activation and that the slave is not below what that phase found;
`FreshStatus`, that the newest status still holds but for the watchdog; together
they make leaving a phase upwards safe (`Confirmation`). `Places` ties waiting and
polling to the program points. Two more theorems follow from this invariant.
**EcatNothingLeftBehind**: when an answer is taken, no frame is behind it, so late
frames cannot keep the process data one answer behind. **EcatConfirmedBeforeLeft**, an
action property: PREOP, SAFEOP and OP are left for the next step of the activation only
while the slave is in that state, its watchdog apart.

`SemaphoreProofs` – **SemaphoreTokens** (`TokensConserved`). `count--` is a load and a
store, so tokens are conserved only because a thread inside the guard is the one
it names (`GuardNamesInsider`) and hence what it has loaded is still the count
(`LoadsAreFresh`); `OwnersDoNotWait` keeps a user's own token out of its request.
**SemaphoreGuardIsExact**: no path, a failed attempt included, keeps the guard.

`MailboxProofs` – **MailboxesAreFifos** (`Mailbox`'s `Spec => ImplementsFifo`),
**SlotsAreNotShared** and **MessagesStayIntact**. `MailboxInv` says of a call in
progress that the head is where it was when the call computed `next`, that room
found stays room (only the receiver moves the tail), and that the slot holds the
message before it is published; of the receiver, that a ring found non-empty
stays so. Each action of `Mailbox` then is `Refuse`, `Accept` or `Extract` of
`MailboxFifo` or leaves the queues alone.

`KlogProofs` – **LogsAreFifos** (`Klog`'s `Spec => LogIsFifo`), along the same lines:
`FillInv` for the writer, `PrintInv` for the entry that stays in its slot while it
is printed. **ConsoleExclusion** (`ConsoleIsExclusive`): the transmit lock names exactly
the thread that is sending. **PassKeepsItsBudget** (`PassIsBounded`): the tests of the
budget lie between the entries, so the entry being printed is counted with those
printed before.

`SshServerProofs` – **SshTypeCorrect**, **SshNoOrphans**, **SshOnePacketCut** and
**SshClosedMute**. `SshInv` adds that a connection without a session has neither
receive nor error callback (`Unhooked`), and that a session has a channel, a state
and at most one held packet (`InStep`). `ssh_flush_tx`'s arithmetic is a lemma: what
leaves the ring is sent or held, and if the ring is emptied at most one packet
is held (`FlushBounds`). So is that of SFTP: no more requests are read than TCP takes
replies, but one (`PumpBounds`).

Only model-checked: the liveness properties (`BestThreadsKeepRunning`,
`ReturnedThreadsRetire`, `StartReachesEntries`, `HolderReachesUnlock`, `WaiterIsServed`,
`ScanReachesQuietestSource`, `PassEnds`, `QuietRingsAreDrained`, `PrintersFinish`,
`AbandonedSessionEnds`, `CycleGoesOn`, `RecoversAfterLoss`). They rest on fairness and
ENABLED, which are out of the prover's reach. Where what they promise has a safety
half, the theorems above prove it: `SchedRetiredStayOff`, `PiMutexNothingLeaks`,
`PassKeepsItsBudget` and `EcatNothingLeftBehind`.

## 7 Where the code and its words disagree

Two are runs of their own:

1. **Inversion through the guard** (`PiMutex_inversion`). `mutex_unlock()` restores the
   base priority inside the guard before it frees the mutex, and guards do not mask
   interrupts. A tick there, or elsewhere inside the guard, runs H, which spins on the
   guard for ever.
2. **Close during the handshake** (`SshServer_fin`). The branch of `ssh_advance()` for
   the handshake never looks at `want_close`. A client that closes while the server
   waits for its next packet, at the password prompt for example, leaves the only
   session in SSH_ST_ACCEPT, and `ssh_tcp_accept()` refuses everybody after it.

Met on the way, and not among the runs:

- **First eret.** `kmain` and `secondary_main` enable interrupts and then call
  `sched_start()`. An interrupt between `msr elr_el1` and `eret` in `cpu_start_first`
  (`context.S:38-60`) leaves `ELR_EL1` at the instruction it interrupted, so the `eret`
  does not go to the entry point of `sched.c:31-32` but back there: the loads that
  follow are repeated from what lies above the frame, and so is the `add` of 800, on
  every turn. The stack pointer runs off the stack of the first thread into its
  neighbours', where the next interrupt saves 800 bytes. A tick in time ends it, and
  leaves the boot path in the first thread's slot. With `SchedStart.cfg` TLC finds
  `FirstEretEnters` violated. What overwritten neighbours do then is not modelled.
- **The bye of quit.** "Only close once all pending output has been sent (the "bye." of
  quit must go out before cutting the session)" (`ssh_server.c:462-463`) is tested by
  `tx_used() == 0`, which looks at the server's own ring. When TCP has no room, wolfSSH
  has taken the last packet out of that ring and holds it, and `wolfSSH_free()` drops
  it: the client of quit sees the connection end without the bye. With `SshServer.cfg`
  TLC finds `ByeGoesOut` violated. A parked SFTP reply goes the same way (lines
  483-515) when the client's FIN asks for the close.
- **Nested mutexes.** Unlocking one mutex restores the base priority although
  another, held mutex has a waiter that has raised it; the waiter raises it again
  only at its next poll.
- **Missing load barrier.** `mailbox_recv()` orders the slot load before the tail store
  but not after the head load; `uart_getc()` has the barrier. With `Reorders = {TRUE}`
  TLC finds `AnswerIsOldest` violated. `klog_drain_budgeted()` has the same pair.
- **Two producers.** "Exactly one producer" (`mailbox.c:22`) holds per core, not per
  thread. Without `ProducerAssumption` TLC finds `ImplementsFifo` violated: a
  preempted `mailbox_send()` and another one of the same core use the same slot.
- **Whole lines.** "A whole line is emitted as one block" (`uart.c:210`) holds for the
  callers that pass whole lines; the drain prints an entry by several calls.
- **Close behind a dead channel.** The shell closes once its ring is empty
  (`ssh_server.c:462`), and the ring empties only while the channel takes output.
  After the client's EOF, CLOSE or key exchange a session with pending output waits
  for TCP to end. `AbandonedSessionEnds` asks for an open channel for this reason.
- **Held packet.** If the session goes on, the packet that wolfSSH keeps when TCP is full
  leaves with the next output, not with the next poll as `ssh_server.c:280-282` has it.
- **Incomplete working counter.** Any non-zero counter becomes `EC_WC_COMPLETE`
  (`ec_master.c:915`); `ecrt.h:115-117` has `EC_WC_INCOMPLETE` for a lost SM or FMMU
  write, which nobody retries.
- **Stalled transmission.** If the DMA stops transmitting while the cycle goes on,
  its frames wait in the descriptors and every further one is refused. After some
  250 refused frames the index has come round, and the first old answer with the
  current index would be taken: nothing but the index identifies it. `MaxLate`
  excludes it.
- **Diagnostics.** The slave states of `ecat diag` are published once, after the
  activation (`ecat_task.c:213`): a slave that falls later is still shown in OP.

## 8 What is not modelled

Section 1 lists every component. Register-level code (transmission of the GMAC, SD
card, USB host controllers, GIC, MMU, GPIO) has its difficulty in device
behaviour that the source does not define. The bring-up of the cores
(`smp_start_secondaries`) is a bounded handshake of one waiter and one writer before
there is any scheduler. The console's receive side and line editor, the shell
commands and the SFTP path checks are text handling by one thread. The network
loop, link changes and the keyboard service are single threads that poll one
driver after another; what they poll for the log and the SSH server is in `Klog`
and `SshServer`. The TCP shell has the same life cycle as the SSH server, without
a ring of output and without a library underneath. lwIP, wolfSSL, wolfSSH and
FatFs are third-party code.

Abstractions inside what is modelled: the NEON part of a trap frame and
synchronous exceptions are left out, and so is what happens after the boot path has
run off its stack (`Astray`); `spin_lock`'s exclusive pair is one step and
its fairness among cores is not modelled; memory is sequentially consistent
except for the one pair of loads in `Mailbox`;
each core has one log writer at a time; outside `Cyclic` time is the order of ticks; a
thread's own work between calls has no state. Thread names, stack contents and
entry arguments do not occur. In `SshServer` authentication, window adjustments, a
failing `wolfSSH_new()` and a key exchange during SFTP are left out. In `EcatMaster`
there is one slave and one domain, as `ecat_task.c` configures them, the EEPROM read
is one exchange, and the layout of the process image has no part.
