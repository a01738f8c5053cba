----------------------------- MODULE EcatMaster -----------------------------
(***************************************************************************)
(* The EtherCAT master of lib/ethercat/ec_master.c as ecat_task.c uses it: *)
(* activation of one slave (scan, station address, ESM, sync managers and  *)
(* FMMUs), then the cycle receive - reference clock - queue - send.        *)
(*                                                                         *)
(* Every exchange is a frame with one datagram that travels the ring of    *)
(* slaves and is polled for until a deadline; frames may be lost, refused  *)
(* by the driver, or come back too late and lie in the receive ring when   *)
(* the next answer is awaited.  An answer is recognised by an 8-bit index  *)
(* alone, drawn from one counter by the process data (LRW) and by          *)
(* everything else.  Time is abstract: a deadline may pass whenever the    *)
(* receive ring has been read empty, but on a calm bus only if the answer  *)
(* is not on its way.                                                      *)
(***************************************************************************)
EXTENDS Naturals, Sequences

CONSTANTS
  IndexMod,    \* values of the datagram index: 2^8
  RxRing,      \* RX_DESCR_NUM
  MaxPolls,    \* status reads in EC_STATE_TIMEOUT_US, each at least 1 ms apart
  MaxLate      \* a frame leaves the ring before so many more have been built

\* The six are the writes of the activation that nobody waits for if they
\* cannot be sent.
ASSUME EcatAssumption ==
  /\ {IndexMod, RxRing, MaxPolls, MaxLate} \subseteq Nat \ {0}
  /\ MaxLate + MaxPolls + 1 < IndexMod
  /\ MaxLate + 6 < IndexMod

VARIABLES
  step,     \* where the program is
  ask,      \* request_state(): the request, the status or the error code
  polls,    \* status reads of this request
  waiting,  \* polling for an answer
  index,    \* dg_index
  idx,      \* of each kind of exchange: the index it waits for
  sii,      \* the slave's EEPROM has been read
  domain,   \* working counter and wc_state
  flight,   \* frames on the ring
  rx,       \* answers in the receive ring
  slave,    \* its AL state, and what it has been configured with
  calm,     \* frames are neither lost nor late
  took      \* history: whether the last answer taken was the one awaited

master   == <<step, ask, polls, waiting, index, idx, sii, domain, took>>
ecatVars == <<step, ask, polls, waiting, index, idx, sii, domain, took, flight, rx, slave, calm>>

\* The AL states, upwards.
Rank(al) == [INIT |-> 1, PREOP |-> 2, SAFEOP |-> 3, OP |-> 4][al]
AlNames  == {"INIT", "PREOP", "SAFEOP", "OP"}

\* ecrt_master_activate() for one slave with outputs and inputs; then the loop
\* receive - reference clock - queue.
Follows(s) ==
  [scan |-> "addr", addr |-> "INIT", INIT |-> "PREOP", PREOP |-> "sii", sii |-> "smOut",
   smOut |-> "fmmuOut", fmmuOut |-> "smIn", smIn |-> "fmmuIn", fmmuIn |-> "dc",
   dc |-> "SAFEOP", SAFEOP |-> "blank", blank |-> "blankReceive", blankReceive |-> "OP",
   OP |-> "receive", receive |-> "clock", clock |-> "queue", queue |-> "receive"][s]

CycleSteps == {"receive", "clock", "queue"}
Steps == AlNames \cup CycleSteps \cup
         {"scan", "addr", "sii", "smOut", "fmmuOut", "smIn", "fmmuIn", "dc",
          "blank", "blankReceive", "idle"}

\* The bus is what a cold start finds, or what an earlier run has left.
EcatInit ==
  /\ step = "scan" /\ ask = "request" /\ polls = 0 /\ waiting = FALSE
  /\ index = 0 /\ idx = [LRW |-> 0, single |-> 0]
  /\ sii = FALSE /\ domain = [wkc |-> 0, wc_state |-> "ZERO"]
  /\ flight = <<>> /\ rx = <<>> /\ took = TRUE
  /\ slave \in {[al |-> "INIT", err |-> FALSE, addr |-> FALSE, sm |-> {}, fmmu |-> {}],
                [al |-> "OP", err |-> FALSE, addr |-> TRUE, sm |-> {"in", "out"},
                 fmmu |-> {"in", "out"}]}
  /\ calm \in BOOLEAN

Kind == IF step \in {"blank", "blankReceive", "receive", "queue"} THEN "LRW" ELSE "single"

\* The datagram of a step: for an AL state the request, then status reads.
Cmd == IF step \in AlNames /\ ask # "request" THEN ask
       ELSE IF Kind = "LRW" THEN "LRW" ELSE step

-----------------------------------------------------------------------------
\* Seeded fault: the counter is wider than the index field of the datagram.
NextIndex_unmasked == index + 1
\* dg_index++, a uint8_t.
NextIndex == (index + 1) % IndexMod

\* How many frames have been built after the last one with index i, if fewer
\* than there are indices and the next one gets the index n.
Age(i, n) == IF i < n THEN n - 1 - i ELSE n + IndexMod - 1 - i

\* Older frames of the kind are answers that nobody awaits any more.
Superseded(frames) ==
  [i \in DOMAIN frames |-> [frames[i] EXCEPT !.awaited = @ /\ frames[i].kind # Kind]]

NewFrame == [cmd |-> Cmd, kind |-> Kind, idx |-> index, awaited |-> TRUE,
             wkc |-> 0, good |-> sii, al |-> "INIT", err |-> FALSE]

\* A frame is built with the next index.  (Transmission is assumed not to be
\* stuck until the index of a frame that waits for it returns.)
Build ==
  /\ flight # <<>> => Age(Head(flight).idx, index) + 1 < MaxLate
  /\ rx' = Superseded(rx)
  /\ idx' = [idx EXCEPT ![Kind] = index]
  /\ index' = NextIndex

Emit == Build /\ flight' = Append(Superseded(flight), NewFrame)

\* do_single_datagram(): build, send, begin to poll.
Issue ==
  /\ ~waiting /\ Kind = "single" /\ step # "idle"
  /\ Emit /\ waiting' = TRUE
  /\ UNCHANGED <<step, ask, polls, sii, domain, slave, calm, took>>

\* ecrt_domain_queue() and ecrt_master_send(); the answer is read in the next
\* cycle, whatever gmac_send() says.
QueueAndSend ==
  /\ step \in {"blank", "queue"}
  /\ Emit
  /\ step' = Follows(step) /\ waiting' = TRUE
  /\ UNCHANGED <<ask, polls, sii, domain, slave, calm, took>>

\* Program step s begins; those of the LRW only poll.
GoTo(s) ==
  /\ step' = s /\ ask' = "request" /\ polls' = 0
  /\ waiting' = (s = "receive")

\* request_state() goes on with another datagram.
Ask(what) ==
  /\ ask' = what /\ polls' = (IF what = "status" THEN polls + 1 ELSE polls)
  /\ waiting' = FALSE /\ UNCHANGED step

\* Seeded fault: the request is taken for its success.
Confirm_skipped == GoTo(Follows(step))
\* An answered request is followed by reading AL_STATUS.
Confirm == Ask("status")

\* What the program makes of the answer f to its single datagram (of no
\* answer: wkc = 0, which is treated alike).  request_state() reads the status
\* after a request that was answered, until it shows the state or an error.
\* Its failure ends the activation, but not for INIT; a scan that finds nobody
\* ends it too; other writes are not looked at.
Failed == IF step = "INIT" THEN GoTo("PREOP") ELSE GoTo("idle")

Answered(f) ==
  CASE step = "scan" -> IF f.wkc = 0 THEN GoTo("idle") ELSE GoTo("addr")
    [] step \in AlNames /\ ask = "request" ->
         IF f.wkc = 0 THEN Failed
         ELSE Confirm
    [] step \in AlNames /\ ask = "status" ->
         CASE f.wkc # 0 /\ f.al = step -> GoTo(Follows(step))
           [] f.wkc # 0 /\ f.al # step /\ f.err -> Ask("code")
           [] OTHER -> (polls < MaxPolls /\ Ask("status")) \/ Failed
    [] step \in AlNames /\ ask = "code" -> Failed
    [] OTHER -> GoTo(Follows(step))

\* ecrt_master_receive(): the working counter of the answer, 0 without one.
Received(f) ==
  /\ domain' = [wkc |-> f.wkc, wc_state |-> IF f.wkc = 0 THEN "ZERO" ELSE "COMPLETE"]
  /\ GoTo(Follows(step))

NoAnswer == [wkc |-> 0]

Handle(f) ==
  IF Kind = "LRW" THEN Received(f) /\ UNCHANGED sii
  ELSE /\ Answered(f) /\ UNCHANGED domain
       /\ sii' = IF step = "sii" THEN f.wkc # 0 ELSE sii

\* gmac_send() fails: all descriptors are busy, or the frame has not left within
\* 10 ms and leaves later.  Nothing is read from the receive ring.
SendFails ==
  /\ ~waiting /\ Kind = "single" /\ step # "idle" /\ ~calm
  /\ Build /\ flight' \in {Superseded(flight), Append(Superseded(flight), NewFrame)}
  /\ Handle(NoAnswer)
  /\ UNCHANGED <<slave, calm, took>>

\* Seeded fault: the first frame that comes is taken.
Matches_any(f) == TRUE
\* An answer is taken if its index is the one awaited.
Matches(f) == f.idx = idx[Kind]

PollTake ==
  /\ waiting /\ rx # <<>> /\ Matches(Head(rx))
  /\ Handle(Head(rx)) /\ rx' = Tail(rx)
  /\ took' = (Head(rx).awaited /\ Head(rx).kind = Kind)
  /\ UNCHANGED <<index, idx, flight, slave, calm>>

\* Seeded fault: a frame that is not the answer ends the polling.
PollDrop_givesUp ==
  /\ waiting /\ rx # <<>> /\ ~Matches(Head(rx))
  /\ Handle(NoAnswer) /\ rx' = Tail(rx)
  /\ UNCHANGED <<index, idx, flight, slave, calm, took>>

\* Any other frame is dropped and the polling goes on.
PollDrop ==
  /\ waiting /\ rx # <<>> /\ ~Matches(Head(rx))
  /\ rx' = Tail(rx)
  /\ UNCHANGED <<master, flight, slave, calm>>

Expected(frames) == \E i \in DOMAIN frames : frames[i].awaited /\ frames[i].kind = Kind
OnItsWay == Expected(flight) \/ Expected(rx)

\* Seeded fault: ecrt_master_receive() polls until its answer comes.
Deadline_singleOnly ==
  /\ waiting /\ rx = <<>> /\ (calm => ~OnItsWay) /\ Kind = "single"
  /\ Handle(NoAnswer)
  /\ UNCHANGED <<index, idx, flight, rx, slave, calm, took>>

\* 5 ms for a single datagram, 300 us for the process data.
Deadline ==
  /\ waiting /\ rx = <<>> /\ (calm => ~OnItsWay)
  /\ Handle(NoAnswer)
  /\ UNCHANGED <<index, idx, flight, rx, slave, calm, took>>

-----------------------------------------------------------------------------
\* The slave, as far as the master can tell: a frame of another station's
\* address passes unchanged, a request for a state is obeyed if the state is
\* reachable and the sync managers are set, process data is exchanged where an
\* FMMU maps it.
Obeys(s) ==
  /\ Rank(s) <= Rank(slave.al) + 1
  /\ Rank(s) >= Rank("SAFEOP") => slave.sm = {"in", "out"}

Mapped == IF Rank(slave.al) >= Rank("SAFEOP") THEN slave.fmmu ELSE {}

Serve(f) ==
  CASE f.cmd = "addr" -> [slave EXCEPT !.addr = TRUE]
    [] ~slave.addr -> slave
    [] f.cmd \in AlNames -> IF Obeys(f.cmd) THEN [slave EXCEPT !.al = f.cmd, !.err = FALSE]
                            ELSE [slave EXCEPT !.err = TRUE]
    [] f.cmd = "smOut" /\ f.good -> [slave EXCEPT !.sm = @ \cup {"out"}]
    [] f.cmd = "smIn" /\ f.good -> [slave EXCEPT !.sm = @ \cup {"in"}]
    [] f.cmd = "fmmuOut" -> [slave EXCEPT !.fmmu = @ \cup {"out"}]
    [] f.cmd = "fmmuIn" -> [slave EXCEPT !.fmmu = @ \cup {"in"}]
    [] OTHER -> slave

Wkc(f) ==
  CASE f.cmd = "LRW" -> (IF "in" \in Mapped THEN 1 ELSE 0) + (IF "out" \in Mapped THEN 2 ELSE 0)
    [] f.cmd \in {"scan", "addr"} -> 1
    [] OTHER -> IF slave.addr THEN 1 ELSE 0

\* A frame makes its round; its answer is stored if a descriptor is free.
Carry ==
  /\ flight # <<>>
  /\ LET f == Head(flight)
     IN /\ slave' = Serve(f)
        /\ rx' = IF Len(rx) = RxRing THEN rx
                 ELSE Append(rx, [f EXCEPT !.wkc = Wkc(f), !.al = slave.al, !.err = slave.err])
  /\ flight' = Tail(flight)
  /\ UNCHANGED <<master, calm>>

\* A frame is lost before or behind the slave.
Lose ==
  /\ ~calm /\ flight # <<>>
  /\ slave' \in {slave, Serve(Head(flight))}
  /\ flight' = Tail(flight)
  /\ UNCHANGED <<master, rx, calm>>

\* The bus becomes calm, or stops being so.
Weather == calm' = ~calm /\ UNCHANGED <<master, flight, rx, slave>>

\* The slave's watchdog: it leaves OP by itself.
Fall ==
  /\ slave.al = "OP" /\ slave' = [slave EXCEPT !.al = "SAFEOP", !.err = TRUE]
  /\ UNCHANGED <<master, flight, rx, calm>>

MasterStep == Issue \/ SendFails \/ QueueAndSend \/ PollTake \/ PollDrop \/ Deadline
EcatNext == MasterStep \/ Carry \/ Lose \/ Weather \/ Fall

\* The ecat_master thread owns its core; frames on the ring come round.
EcatSpec == EcatInit /\ [][EcatNext]_ecatVars /\ WF_ecatVars(MasterStep) /\ WF_ecatVars(Carry)

-----------------------------------------------------------------------------
Frames == [cmd : Steps \cup {"LRW", "status", "code"}, kind : {"LRW", "single"},
           idx : 0 .. IndexMod-1, awaited : BOOLEAN, wkc : 0 .. 3, good : BOOLEAN,
           al : AlNames, err : BOOLEAN]

EcatTypeOK ==
  /\ step \in Steps /\ ask \in {"request", "status", "code"}
  /\ polls \in 0 .. MaxPolls /\ waiting \in BOOLEAN
  /\ index \in 0 .. IndexMod-1 /\ idx \in [{"LRW", "single"} -> 0 .. IndexMod-1]
  /\ sii \in BOOLEAN /\ calm \in BOOLEAN /\ took \in BOOLEAN
  /\ domain \in [wkc : 0 .. 3, wc_state : {"ZERO", "COMPLETE"}]
  /\ flight \in Seq(Frames) /\ Len(flight) <= MaxLate
  /\ rx \in Seq(Frames) /\ Len(rx) <= RxRing
  /\ slave \in [al : AlNames, err : BOOLEAN, addr : BOOLEAN,
                sm : SUBSET {"in", "out"}, fmmu : SUBSET {"in", "out"}]

\* Late answers never pass for the one awaited, however many deadlines were
\* missed before: neither for inputs nor for a slave's state.  That takes fewer
\* frames on the ring and in the receive ring than there are indices.
AcceptedIsOwn == took

\* Whatever is lost or late, no request for a state reaches the slave while it is
\* more than one state below.
NoStateSkipped ==
  [][\A s \in AlNames :
       flight # <<>> /\ flight' = Tail(flight) /\ Head(flight).cmd = s
       => Rank(s) <= Rank(slave.al) + 1]_ecatVars

\* No loss, no silence of the bus and no fallen slave stops the cycle.
CycleGoesOn == \A s \in CycleSteps : step = s ~> step = Follows(s)

\* When the bus is calm again the process data is, after some cycles, exchanged
\* in every cycle: frames left over from worse times do not leave the master
\* one answer behind for ever.
RecoversAfterLoss ==
  <>[](calm /\ step \in CycleSteps /\ slave.fmmu # {})
  => <>[](step = "clock" => domain.wkc > 0)

=============================================================================
