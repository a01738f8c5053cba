------------------------------- MODULE Mailbox -------------------------------
(***************************************************************************)
(* kernel/mailbox.c: one ring per pair of cores, written by the source and *)
(* read by the destination without a lock, at the grain of the loads and   *)
(* stores of shared memory.                                                *)
(*                                                                         *)
(* The dmb between the slot and the index makes stores visible in the      *)
(* order of the steps below.  On the receiving side there is no barrier    *)
(* between the load of head (the emptiness test) and the load of the slot: *)
(* where reorder holds, the second may be satisfied before the first, as   *)
(* ARMv8 allows; elsewhere loads happen in program order.                  *)
(*                                                                         *)
(* The IPI of mailbox_send_notify() only counts in the destination's       *)
(* interrupt handler and has no effect on the queues.                      *)
(***************************************************************************)
EXTENDS Ring, Sequences

CONSTANTS
  NumCores,     \* CFG_NUM_CORES
  N,            \* MBX_ENTRIES
  Messages,
  Says,         \* the messages each sending thread sends
  Senders,      \* sending threads
  CoreOf,       \* the core a sending thread is pinned to
  Links,        \* the <<source, destination>> pairs in use
  Receivers,    \* the cores that call mailbox_recv[_any]()
  MaxDropped,   \* bound of the model on the drop counter
  Reorders      \* whether loads are reordered: {FALSE}, {TRUE} or both

Cores == 0 .. NumCores-1

ASSUME MailboxAssumption ==
  /\ NumCores \in Nat \ {0}
  /\ N \in Nat \ {0, 1}
  /\ CoreOf \in [Senders -> Cores]
  /\ Says \in [Senders -> SUBSET Messages]
  /\ Links \subseteq Cores \X Cores
  /\ Receivers \subseteq Cores
  /\ MaxDropped \in Nat
  /\ Reorders \subseteq BOOLEAN

\* "exactly one producer" of each ring (mailbox.c): one sending thread per core.
ASSUME ProducerAssumption ==
  \A s, t \in Senders : CoreOf[s] = CoreOf[t] => s = t

VARIABLES
  head, tail, dropped, buf,     \* mailbox_t of every link
  spc, link, msg, next,         \* mailbox_send() of each sender: locals
  rpc, src, any, early, out,    \* mailbox_recv[_any]() of each core: locals
  reorder                       \* whether this behaviour reorders loads

rings == <<head, tail, dropped, buf>>
sends == <<spc, link, msg, next>>
recvs == <<rpc, src, any, early, out>>
vars  == <<rings, sends, recvs, reorder>>

NoMessage == <<>>
Slots == 0 .. N-1
AnyLink == CHOOSE l \in Links : TRUE
AnyMessage == CHOOSE m \in Messages : TRUE

\* mailbox_init(): the content of the buffers is never initialised.
Init ==
  /\ head = [l \in Links |-> 0] /\ tail = [l \in Links |-> 0]
  /\ dropped = [l \in Links |-> 0]
  /\ buf = [l \in Links |-> [i \in Slots |-> AnyMessage]]
  /\ spc = [s \in Senders |-> "idle"]
  /\ link = [s \in Senders |-> AnyLink]
  /\ msg = [s \in Senders |-> AnyMessage]
  /\ next = [s \in Senders |-> 0]
  /\ rpc = [c \in Receivers |-> "idle"]
  /\ src = [c \in Receivers |-> 0]
  /\ any = [c \in Receivers |-> FALSE]
  /\ early = [c \in Receivers |-> NoMessage]
  /\ out = [c \in Receivers |-> AnyMessage]
  /\ reorder \in Reorders

-----------------------------------------------------------------------------
\* mailbox_send(l[2], m) called on core l[1]: next is computed from head.
Send(s, l, m) ==
  /\ spc[s] = "idle" /\ CoreOf[s] = l[1]
  /\ dropped[l] < MaxDropped
  /\ spc' = [spc EXCEPT ![s] = "test"]
  /\ link' = [link EXCEPT ![s] = l]
  /\ msg' = [msg EXCEPT ![s] = m]
  /\ next' = [next EXCEPT ![s] = RingNext(head[l], N)]
  /\ UNCHANGED <<rings, recvs, reorder>>

SendDone(s) ==
  /\ spc' = [spc EXCEPT ![s] = "idle"]
  /\ link' = [link EXCEPT ![s] = AnyLink]
  /\ msg' = [msg EXCEPT ![s] = AnyMessage]
  /\ next' = [next EXCEPT ![s] = 0]

\* Full: count the message as dropped and do not block.
SendFull(s) ==
  LET l == link[s] IN
  /\ spc[s] = "test" /\ next[s] = tail[l]
  /\ dropped' = [dropped EXCEPT ![l] = @ + 1]
  /\ SendDone(s)
  /\ UNCHANGED <<head, tail, buf, recvs, reorder>>

\* Seeded fault: no test for a full ring.
SendRoom_always(s) ==
  /\ spc[s] = "test"
  /\ spc' = [spc EXCEPT ![s] = "write"]
  /\ UNCHANGED <<rings, link, msg, next, recvs, reorder>>

\* Seeded fault: the index is published before the slot is written.
SendRoom_publishes(s) ==
  /\ spc[s] = "test" /\ next[s] # tail[link[s]]
  /\ spc' = [spc EXCEPT ![s] = "write"]
  /\ head' = [head EXCEPT ![link[s]] = next[s]]
  /\ UNCHANGED <<tail, dropped, buf, link, msg, next, recvs, reorder>>

SendRoom(s) ==
  /\ spc[s] = "test" /\ next[s] # tail[link[s]]
  /\ spc' = [spc EXCEPT ![s] = "write"]
  /\ UNCHANGED <<rings, link, msg, next, recvs, reorder>>

\* Seeded fault: the message goes to the slot after the right one.
SendWrite_atNext(s) ==
  /\ spc[s] = "write"
  /\ buf' = [buf EXCEPT ![link[s]][next[s]] = msg[s]]
  /\ spc' = [spc EXCEPT ![s] = "publish"]
  /\ UNCHANGED <<head, tail, dropped, link, msg, next, recvs, reorder>>

\* The local `head' is one slot behind `next'.
SendWrite(s) ==
  LET slot == (next[s] + N - 1) % N IN
  /\ spc[s] = "write"
  /\ buf' = [buf EXCEPT ![link[s]][slot] = msg[s]]
  /\ spc' = [spc EXCEPT ![s] = "publish"]
  /\ UNCHANGED <<head, tail, dropped, link, msg, next, recvs, reorder>>

SendPublish(s) ==
  /\ spc[s] = "publish"
  /\ head' = [head EXCEPT ![link[s]] = next[s]]
  /\ SendDone(s)
  /\ UNCHANGED <<tail, dropped, buf, recvs, reorder>>

-----------------------------------------------------------------------------
\* mailbox_recv(s, &out) or mailbox_recv_any(&s, &out) on core c.
Recv(c, s, isAny) ==
  /\ rpc[c] = "idle"
  /\ isAny => s = 0
  /\ rpc' = [rpc EXCEPT ![c] = "test"]
  /\ src' = [src EXCEPT ![c] = s]
  /\ any' = [any EXCEPT ![c] = isAny]
  /\ UNCHANGED <<rings, sends, early, out, reorder>>

\* The link core c is looking at; a pair that is not in use is always empty.
Source(c) == <<src[c], c>>
Empty(c)  == Source(c) \in Links => tail[Source(c)] = head[Source(c)]

RecvDone(c) ==
  /\ rpc' = [rpc EXCEPT ![c] = "idle"]
  /\ src' = [src EXCEPT ![c] = 0]
  /\ any' = [any EXCEPT ![c] = FALSE]
  /\ early' = [early EXCEPT ![c] = NoMessage]
  /\ out' = [out EXCEPT ![c] = AnyMessage]

\* Where loads are reordered: the load of the slot is satisfied ahead of the load of head.
LoadEarly(c) ==
  /\ reorder /\ rpc[c] = "test" /\ early[c] = NoMessage /\ Source(c) \in Links
  /\ early' = [early EXCEPT ![c] = <<buf[Source(c)][tail[Source(c)]]>>]
  /\ UNCHANGED <<rings, sends, rpc, src, any, out, reorder>>

\* Seeded fault: the scan stops at the first empty source.
RecvEmpty_stops(c) ==
  /\ rpc[c] = "test" /\ Empty(c)
  /\ RecvDone(c)
  /\ UNCHANGED <<rings, sends, reorder>>

\* Empty: the scan goes on to the next source, or the call returns 0.
RecvEmpty(c) ==
  /\ rpc[c] = "test" /\ Empty(c)
  /\ IF any[c] /\ src[c] < NumCores-1
       THEN /\ src' = [src EXCEPT ![c] = @ + 1]
            /\ early' = [early EXCEPT ![c] = NoMessage]
            /\ UNCHANGED <<rpc, any, out>>
       ELSE RecvDone(c)
  /\ UNCHANGED <<rings, sends, reorder>>

RecvSome(c) ==
  /\ rpc[c] = "test" /\ ~Empty(c)
  /\ rpc' = [rpc EXCEPT ![c] = "read"]
  /\ UNCHANGED <<rings, sends, src, any, early, out, reorder>>

RecvRead(c) ==
  LET l == Source(c) IN
  /\ rpc[c] = "read"
  /\ out' = [out EXCEPT ![c] = IF early[c] # NoMessage THEN early[c][1] ELSE buf[l][tail[l]]]
  /\ rpc' = [rpc EXCEPT ![c] = "advance"]
  /\ UNCHANGED <<rings, sends, src, any, early, reorder>>

\* After the barrier the slot is given back, and the call returns out.
RecvAdvance(c) ==
  LET l == Source(c) IN
  /\ rpc[c] = "advance"
  /\ tail' = [tail EXCEPT ![l] = RingNext(@, N)]
  /\ RecvDone(c)
  /\ UNCHANGED <<head, dropped, buf, sends, reorder>>

RecvStep(c) ==
  \/ RecvEmpty(c) \/ RecvSome(c) \/ RecvRead(c) \/ RecvAdvance(c)

Next ==
  \/ \E s \in Senders :
       \/ \E l \in Links, m \in Says[s] : Send(s, l, m)
       \/ SendFull(s) \/ SendRoom(s) \/ SendWrite(s) \/ SendPublish(s)
  \/ \E c \in Receivers :
       \/ \E s \in Cores : Recv(c, s, TRUE) \/ Recv(c, s, FALSE)
       \/ LoadEarly(c) \/ RecvStep(c)

Spec == Init /\ [][Next]_vars

\* core2_drain_mailbox() calls mailbox_recv_any() again and again.
FairSpec ==
  Spec /\ \A c \in Receivers : WF_vars(RecvStep(c)) /\ SF_vars(Recv(c, 0, TRUE))

-----------------------------------------------------------------------------
\* The published messages of a link, oldest first.
Contents(l) == RingContents(head[l], tail[l], buf[l], N)

\* The rings implement the queues of MailboxFifo: whatever the order of the
\* loads and stores of the two cores, what has been accepted leaves the ring
\* once, unchanged and in order, the ring holds N-1 messages before it refuses
\* one, and every refusal is counted.
Fifo == INSTANCE MailboxFifo WITH
  Capacity <- N-1,
  queue    <- [l \in Links |-> Contents(l)]
ImplementsFifo == Fifo!Spec

\* The slot before next[s] is the one the call of s fills.
Filling(s) == (next[s] + N - 1) % N

\* What mailbox_recv() is about to return is the oldest message of the ring
\* whose slot it gives back ("retrieves a message", mailbox.h), whatever was
\* sent between its loads.
AnswerIsOldest ==
  \A c \in Receivers : rpc[c] = "advance" => out[c] = buf[Source(c)][tail[Source(c)]]

\* With loads in program order, nothing is changed on the way: what is
\* published is what the sender was given, and what is returned is the oldest
\* message.
MessagesIntact ==
  /\ \A s \in Senders : spc[s] = "publish" => buf[link[s]][Filling(s)] = msg[s]
  /\ ~reorder => AnswerIsOldest

\* A slot that is being read is never the slot that is being written: the
\* receiver never returns a message torn by a sender that has gone round the
\* ring.
NoSlotShared ==
  \A s \in Senders, c \in Receivers :
    /\ spc[s] \in {"write", "publish"} /\ rpc[c] \in {"read", "advance"}
    /\ link[s] = Source(c)
    => Filling(s) # tail[link[s]]

\* mailbox_recv_any() scans from source 0: a link makes progress if the links
\* it passes first fall silent; otherwise it may be passed over for ever.
ScanReachesQuietestSource ==
  \A l \in Links :
    l[2] \in Receivers /\ <>[](\A k \in Links : k[2] = l[2] /\ k[1] < l[1] => head[k] = tail[k])
      => []<>(head[l] = tail[l] \/ (rpc[l[2]] = "advance" /\ src[l[2]] = l[1]))

=============================================================================
