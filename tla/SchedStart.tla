----------------------------- MODULE SchedStart -----------------------------
(***************************************************************************)
(* The start of one core's scheduler, instruction by instruction: the end  *)
(* of kmain and secondary_main (irq_enable, then sched_start), and         *)
(* cpu_start_first in context.S, with the interrupts that may already hit. *)
(* Sched takes all of this as its one step Start.                          *)
(*                                                                         *)
(* What executes is the boot path at one of its program points, or a       *)
(* thread that has not reached its entry ("entry") or has ("run"): a       *)
(* record [who, pc].  An address <<s, d>> lies d trap frames below the top *)
(* of the stack of s, where a frame has the size 1.  ELR_EL1 belongs to no *)
(* context: every interrupt overwrites it.  The boot path is saved on the  *)
(* stack it happens to be on, and what has been popped there stays until   *)
(* it is overwritten.                                                      *)
(***************************************************************************)
EXTENDS Tcb

CONSTANTS
  StartCore,    \* the core that starts; all threads are pinned to it
  MaxDepth      \* bound of the model: no interrupt hits deeper in a stack

ASSUME StartAssumption ==
  /\ StartCore \in Cores
  /\ MaxDepth \in Nat \ {0}

VARIABLES
  mem,                  \* the frame at each address
  tcbSp,                \* g_tcb[t].sp
  gCurrent,             \* g_current of this core
  live,                 \* what executes
  sp, x0, elr,          \* registers SP, x0 and ELR_EL1
  picked,               \* the choice of sched_start()
  entered,              \* threads whose entry point has been reached
  spoiled               \* whether an interrupt has hit where it does harm (history)

\* What the start does not change: the table is complete by then.
given     == <<nthreads, prio, core>>
startVars == <<given, state, mem, tcbSp, gCurrent, live, sp, x0, elr, picked, entered, spoiled>>

Stacks == Threads \cup {Boot}
Addrs  == Stacks \X (1 .. MaxDepth)
Below(a) == <<a[1], a[2] + 1>>
Above(a) == <<a[1], a[2] - 1>>

At(point) == [who |-> Boot, pc |-> point]
Entry(t)  == [who |-> t, pc |-> "entry"]
Run(t)    == [who |-> t, pc |-> "run"]

\* The boot path has run off its stack: it reads what lies above, the stacks
\* of other threads for one, and the next interrupt would save a frame there.
\* The model ends here.
Astray == At("astray")

\* A frame with the context x; r is the x0 in it.
Frame(x, r) == [who |-> x.who, pc |-> x.pc, x0 |-> r]
Context(f)  == [who |-> f.who, pc |-> f.pc]

\* x0 where it holds no frame's address; memory where no frame has been saved.
NoAddr  == <<Boot, 0>>
NoFrame == Frame(At("none"), NoAddr)

\* irq_enable() has been executed; the pending tick, if any, was taken then.
\* thread_create_on() has built a frame at the top of each thread's stack.
StartInit ==
  /\ nthreads = MaxThreads
  /\ core = [t \in Threads |-> StartCore]
  /\ state = [t \in Threads |-> "READY"]
  /\ prio \in [Threads -> Prios]
  /\ mem = [a \in Addrs |-> IF a[1] # Boot /\ a[2] = 1 THEN Frame(Entry(a[1]), NoAddr) ELSE NoFrame]
  /\ tcbSp = [t \in Threads |-> <<t, 1>>]
  /\ gCurrent = NoThread
  /\ live = At("pick")
  /\ sp = <<Boot, 0>> /\ x0 = NoAddr /\ elr = At("pick")
  /\ picked = NoThread
  /\ entered = {} /\ spoiled = FALSE

\* Execution goes on at x.
Resume(x) ==
  IF x.pc = "entry" THEN live' = Run(x.who) /\ entered' = entered \cup {x.who}
                    ELSE live' = x /\ UNCHANGED entered

-----------------------------------------------------------------------------
\* The selection loop of sched_start().
Select ==
  /\ live = At("pick") /\ live' = At("set")
  /\ picked' = PickFirst(state, prio, core, nthreads, StartCore)
  /\ UNCHANGED <<given, state, mem, tcbSp, gCurrent, sp, x0, elr, entered, spoiled>>

\* Seeded fault: g_current is always written with thread 0.
SetCurrent_zero ==
  /\ live = At("set") /\ live' = At("mark")
  /\ gCurrent' = 0
  /\ UNCHANGED <<given, state, mem, tcbSp, sp, x0, elr, picked, entered, spoiled>>

\* The assignment of g_current, before the frame is loaded.
SetCurrent ==
  /\ live = At("set") /\ live' = At("mark")
  /\ gCurrent' = picked
  /\ UNCHANGED <<given, state, mem, tcbSp, sp, x0, elr, picked, entered, spoiled>>

MarkRunning ==
  /\ live = At("mark") /\ live' = At("load")
  /\ state' = [state EXCEPT ![picked] = "RUNNING"]
  /\ UNCHANGED <<given, mem, tcbSp, gCurrent, sp, x0, elr, picked, entered, spoiled>>

\* The argument of cpu_start_first: g_tcb[picked].sp as it is now.
LoadArgument ==
  /\ live = At("load") /\ live' = At("movsp")
  /\ x0' = tcbSp[picked]
  /\ UNCHANGED <<given, state, mem, tcbSp, gCurrent, sp, elr, picked, entered, spoiled>>

\* cpu_start_first: mov sp, x0.
MoveSp ==
  /\ live = At("movsp") /\ live' = At("elr")
  /\ sp' = x0
  /\ UNCHANGED <<given, state, mem, tcbSp, gCurrent, x0, elr, picked, entered, spoiled>>

\* ELR_EL1 is loaded from the frame and written: one step, for an interrupt
\* between the two saves below the frame and finds it again.
WriteElr ==
  /\ live = At("elr") /\ live' = At("regs")
  /\ elr' = Context(mem[sp])
  /\ UNCHANGED <<given, state, mem, tcbSp, gCurrent, sp, x0, picked, entered, spoiled>>

\* SPSR_EL1, and x0..x30 relative to sp, which a second turn through here has
\* left at the top of a stack.
LoadRegs ==
  /\ live = At("regs")
  /\ IF sp[2] = 0 THEN live' = Astray /\ UNCHANGED x0
                  ELSE live' = At("add") /\ x0' = mem[sp].x0
  /\ UNCHANGED <<given, state, mem, tcbSp, gCurrent, sp, elr, picked, entered, spoiled>>

\* add sp, sp, #800.
PopFrame ==
  /\ live = At("add")
  /\ IF sp[2] = 0 THEN live' = Astray /\ UNCHANGED sp
                  ELSE live' = At("eret") /\ sp' = Above(sp)
  /\ UNCHANGED <<given, state, mem, tcbSp, gCurrent, x0, elr, picked, entered, spoiled>>

\* The eret goes wherever ELR_EL1 points.
Eret ==
  /\ live = At("eret")
  /\ Resume(elr)
  /\ UNCHANGED <<given, state, mem, tcbSp, gCurrent, sp, x0, elr, picked, spoiled>>

-----------------------------------------------------------------------------
\* SAVE_CONTEXT: a frame below sp.
Saved == [mem EXCEPT ![Below(sp)] = Frame(live, x0)]

\* Seeded fault: x0 comes back as irq_handler() has returned it.
RestoredX0_result(f, a) == a

\* RESTORE_CONTEXT from the frame f at address a: every register.
RestoredX0(f, a) == f.x0

\* Between the write of ELR_EL1 and the eret.
ReturnWindow == {At("regs"), At("add"), At("eret")}

\* irq_entry, sched_on_tick(), RESTORE_CONTEXT and the eret of vectors.S.
StartTick ==
  LET spOf  == [tcbSp EXCEPT ![gCurrent] = Below(sp)]
      ready == [state EXCEPT ![gCurrent] = IF @ = "RUNNING" THEN "READY" ELSE @]
      next  == PickNext(ready, prio, core, nthreads, StartCore, gCurrent)
      f     == Saved[spOf[next]]
  IN
  /\ gCurrent # NoThread /\ live.pc # "astray" /\ sp[2] < MaxDepth
  /\ mem' = Saved /\ tcbSp' = spOf
  /\ gCurrent' = next
  /\ state' = [ready EXCEPT ![next] = "RUNNING"]
  /\ sp' = Above(spOf[next]) /\ x0' = RestoredX0(f, spOf[next]) /\ elr' = Context(f)
  /\ Resume(Context(f))
  /\ spoiled' = (spoiled \/ live \in ReturnWindow \cup {At("mark"), At("load")})
  /\ UNCHANGED <<given, picked>>

\* Any interrupt that does not schedule (UART reception, a mailbox IPI, or a
\* tick while g_current is empty): what was interrupted goes on.
OtherIrq ==
  /\ live.pc # "astray" /\ sp[2] < MaxDepth
  /\ mem' = Saved /\ x0' = RestoredX0(Saved[Below(sp)], Below(sp))
  /\ elr' = live
  /\ spoiled' = (spoiled \/ live \in ReturnWindow)
  /\ UNCHANGED <<given, state, tcbSp, gCurrent, live, sp, picked, entered>>

-----------------------------------------------------------------------------
Step == Select \/ SetCurrent \/ MarkRunning \/ LoadArgument \/ MoveSp
        \/ WriteElr \/ LoadRegs \/ PopFrame \/ Eret
StartNext == Step \/ StartTick \/ OtherIrq

\* The timer fires for ever, and whenever the boot path has the core again it
\* executes before the next tick.
StartSpec == StartInit /\ [][StartNext]_startVars /\ SF_startVars(Step) /\ WF_startVars(StartTick)

-----------------------------------------------------------------------------
\* Until the boot path runs off its stack, and wherever an interrupt cuts it,
\* it is found nowhere but in the slot of the first thread: every other thread
\* has its own frame on its own stack, and a thread that executes is the
\* current one, on its own stack, popped to the top.
BootStaysInFirstSlot ==
  /\ \A t \in Threads : t # picked => tcbSp[t] = <<t, 1>> /\ mem[<<t, 1>>].who = t
  /\ picked # NoThread => mem[tcbSp[picked]].who \in {Boot, picked}
  /\ live.who = Boot => gCurrent \in {NoThread, picked}
  /\ live.who # Boot => gCurrent = live.who /\ sp = <<live.who, 0>>

\* If no tick comes between the
\* assignment of g_current and the load of the frame's address, and no
\* interrupt between the write of ELR_EL1 and the eret, the first thread
\* reaches its entry point, whatever else hits its start.
FirstEntersUnlessSpoiled == <>(spoiled \/ picked \in entered)

MostUrgent(t) == \A u \in Threads : prio[t] <= prio[u]

\* Each other thread of the best priority does, once the first one is current,
\* as long as the boot path does not run off its stack.
PeersEnter ==
  \A t \in Threads : [](MostUrgent(t) /\ gCurrent # NoThread /\ t # picked
                        => <>(t \in entered \/ live = Astray))

\* The instants told above are all the harmful ones, and a first thread that is
\* hit there and never enters does not keep its peers from entering.
StartReachesEntries == FirstEntersUnlessSpoiled /\ PeersEnter

-----------------------------------------------------------------------------
\* "At the first eret, the CPU jumps to its entry point" (sched.c:31-32).  It
\* does not: TLC finds an interrupt between the write of ELR_EL1 and the eret.
FirstEretEnters == [][Eret => picked \in entered']_startVars

=============================================================================
