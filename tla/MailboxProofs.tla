---------------------------- MODULE MailboxProofs ----------------------------
(***************************************************************************)
(* The mailboxes for every number of cores, senders and slots: a slot is   *)
(* never read and written at once, and the rings are the bounded queues    *)
(* that mailbox.h promises, with one sending thread per core.              *)
(***************************************************************************)
EXTENDS Mailbox, KernelLemmas

LEMMA SlotRange == N \in Nat \ {0, 1} /\ Slots = 0 .. N-1 /\ 0 \in Slots
BY MailboxAssumption DEF Slots

LEMMA SlotFacts ==
  /\ \A i \in Slots : RingNext(i, N) \in Slots /\ (RingNext(i, N) + N - 1) % N = i
  /\ \A i, j \in Slots : i # j => RingNext(i, N) # RingNext(j, N)
<1>1. ASSUME NEW i \in Slots
      PROVE  /\ RingNext(i, N) \in Slots
             /\ i = N-1 => RingNext(i, N) = 0
             /\ i < N-1 => RingNext(i, N) = i + 1
             /\ (RingNext(i, N) + N - 1) % N = i
  <2>1. i \in 0 .. N-1
    BY SlotRange
  <2>2. QED BY SlotRange, <2>1, RingNextFacts
<1>2. ASSUME NEW i \in Slots, NEW j \in Slots, i # j
      PROVE  RingNext(i, N) # RingNext(j, N)
  BY <1>1, <1>2, SlotRange
<1>3. QED BY <1>1, <1>2

-----------------------------------------------------------------------------
\* The inductive invariant.

Content == Messages \cup {AnyMessage}

TypeOK ==
  /\ head \in [Links -> Slots] /\ tail \in [Links -> Slots]
  /\ dropped \in [Links -> Nat]
  /\ buf \in [Links -> [Slots -> Content]]
  /\ spc \in [Senders -> {"idle", "test", "write", "publish"}]
  /\ link \in [Senders -> Links \cup {AnyLink}]
  /\ msg \in [Senders -> Content]
  /\ next \in [Senders -> Slots]
  /\ rpc \in [Receivers -> {"idle", "test", "read", "advance"}]
  /\ src \in [Receivers -> Cores]
  /\ any \in [Receivers -> BOOLEAN]
  /\ early \in [Receivers -> {NoMessage} \cup {<<m>> : m \in Content}]
  /\ out \in [Receivers -> Content]
  /\ reorder \in BOOLEAN

\* A call of mailbox_send(): it is the only one on its link, so the head is where
\* it was when the call computed next, and once the ring has been found to have
\* room it stays so.
SendInv(s) ==
  spc[s] # "idle" =>
    /\ link[s] \in Links /\ CoreOf[s] = link[s][1] /\ msg[s] \in Messages
    /\ next[s] = RingNext(head[link[s]], N)
    /\ spc[s] # "test" => next[s] # tail[link[s]]
    /\ spc[s] = "publish" => buf[link[s]][head[link[s]]] = msg[s]

\* A call of mailbox_recv(): the ring it has found not empty stays so.
RecvInv(c) ==
  /\ rpc[c] \in {"read", "advance"} =>
       Source(c) \in Links /\ tail[Source(c)] # head[Source(c)]
  /\ ~reorder => early[c] = NoMessage
  /\ ~reorder /\ rpc[c] = "advance" => out[c] = buf[Source(c)][tail[Source(c)]]

MailboxInv ==
  /\ TypeOK
  /\ \A s \in Senders : SendInv(s)
  /\ \A c \in Receivers : RecvInv(c)

LEMMA InitMailbox == Init => MailboxInv
<1> SUFFICES ASSUME Init PROVE MailboxInv
  OBVIOUS
<1>1. 0 \in Slots /\ 0 \in Cores /\ AnyMessage \in Content
  BY MailboxAssumption, SlotRange DEF Cores, Content
<1>2. TypeOK
  BY <1>1, MailboxAssumption DEF Init, TypeOK
<1>3. (\A s \in Senders : SendInv(s)) /\ (\A c \in Receivers : RecvInv(c))
  BY DEF Init, SendInv, RecvInv
<1>4. QED BY <1>2, <1>3 DEF MailboxInv

\* Two calls of mailbox_send() in progress are on different links.
LEMMA OneSender ==
  ASSUME NEW s \in Senders, NEW t \in Senders, SendInv(s), SendInv(t),
         spc[s] # "idle", spc[t] # "idle", link[s] = link[t]
  PROVE  s = t
BY ProducerAssumption DEF SendInv

-----------------------------------------------------------------------------
\* The sender's steps.

LEMMA SendBegins ==
  ASSUME MailboxInv, NEW s \in Senders, NEW l \in Links, NEW m \in Says[s], Send(s, l, m)
  PROVE  MailboxInv'
<1> USE DEF MailboxInv
<1>1. m \in Messages /\ RingNext(head[l], N) \in Slots
  BY SlotFacts, MailboxAssumption DEF TypeOK
<1>2. TypeOK'
  BY <1>1 DEF Send, TypeOK, rings, recvs, Content
<1>3. ASSUME NEW t \in Senders PROVE SendInv(t)'
  BY <1>1 DEF Send, SendInv, TypeOK, rings, recvs
<1>4. ASSUME NEW c \in Receivers PROVE RecvInv(c)'
  BY DEF Send, RecvInv, Source, rings, recvs
<1>5. QED BY <1>2, <1>3, <1>4

LEMMA SendChecks ==
  ASSUME MailboxInv, NEW s \in Senders, SendFull(s) \/ SendRoom(s)
  PROVE  MailboxInv'
<1> USE DEF MailboxInv
<1>1. 0 \in Slots
  BY SlotRange
<1>2. TypeOK'
  <2>1. CASE SendFull(s)
    <3>1. link[s] \in Links
      BY <2>1 DEF SendFull, SendInv
    <3>2. QED BY <1>1, <2>1, <3>1 DEF SendFull, SendDone, TypeOK, recvs, Content
  <2>2. CASE SendRoom(s)
    BY <2>2 DEF SendRoom, TypeOK, rings, recvs
  <2>3. QED BY <2>1, <2>2
<1>3. ASSUME NEW t \in Senders PROVE SendInv(t)'
  BY DEF SendFull, SendDone, SendRoom, SendInv, TypeOK, rings, recvs
<1>4. ASSUME NEW c \in Receivers PROVE RecvInv(c)'
  BY DEF SendFull, SendRoom, RecvInv, Source, rings, recvs
<1>5. QED BY <1>2, <1>3, <1>4

\* The slot written is the one at the head, outside of what the receiver reads.
LEMMA SendWrites ==
  ASSUME MailboxInv, NEW s \in Senders, SendWrite(s)
  PROVE  /\ MailboxInv'
         /\ link[s] \in Links
         /\ buf' = [buf EXCEPT ![link[s]][head[link[s]]] = msg[s]]
<1> USE DEF MailboxInv
<1>1. link[s] \in Links /\ head[link[s]] \in Slots /\ next[s] = RingNext(head[link[s]], N)
  BY DEF SendWrite, SendInv, TypeOK
<1>2. buf' = [buf EXCEPT ![link[s]][head[link[s]]] = msg[s]]
  BY <1>1, SlotFacts DEF SendWrite
<1>3. /\ buf' \in [Links -> [Slots -> Content]]
      /\ buf'[link[s]][head[link[s]]] = msg[s]
      /\ \A l \in Links, i \in Slots :
           l # link[s] \/ i # head[l] => buf'[l][i] = buf[l][i]
  BY <1>1, <1>2 DEF TypeOK
<1>4. /\ UNCHANGED <<head, tail, dropped, link, msg, next, rpc, src, any, early, out, reorder>>
      /\ spc[s] = "write" /\ spc' = [spc EXCEPT ![s] = "publish"]
  BY DEF SendWrite, recvs
<1>5. TypeOK'
  BY <1>3, <1>4 DEF TypeOK
<1>6. ASSUME NEW t \in Senders PROVE SendInv(t)'
  <2>1. CASE t = s
    BY <1>1, <1>3, <1>4, <2>1 DEF SendInv, TypeOK
  <2>2. CASE t # s
    <3>1. spc[t] # "idle" => link[t] # link[s]
      BY <1>4, <2>2, OneSender
    <3>2. spc'[t] = spc[t]
      BY <1>4, <2>2 DEF TypeOK
    <3>3. QED BY <1>3, <1>4, <3>1, <3>2 DEF SendInv, TypeOK
  <2>3. QED BY <2>1, <2>2
<1>7. ASSUME NEW c \in Receivers PROVE RecvInv(c)'
  <2>1. Source(c)' = Source(c)
    BY <1>4 DEF Source
  <2>2. ASSUME rpc[c] \in {"read", "advance"}
        PROVE  buf'[Source(c)][tail[Source(c)]] = buf[Source(c)][tail[Source(c)]]
    BY <1>3, <2>2 DEF RecvInv, TypeOK
  <2>3. QED BY <1>4, <2>1, <2>2 DEF RecvInv
<1>8. QED BY <1>1, <1>2, <1>5, <1>6, <1>7

LEMMA SendPublishes ==
  ASSUME MailboxInv, NEW s \in Senders, SendPublish(s)
  PROVE  MailboxInv'
<1> USE DEF MailboxInv
<1>1. /\ link[s] \in Links /\ head[link[s]] \in Slots
      /\ next[s] = RingNext(head[link[s]], N) /\ next[s] # tail[link[s]]
  BY DEF SendPublish, SendInv, TypeOK
<1>2. TypeOK'
  <2>1. 0 \in Slots
    BY SlotRange
  <2>2. QED BY <1>1, <2>1 DEF SendPublish, SendDone, TypeOK, recvs, Content
<1>3. ASSUME NEW t \in Senders PROVE SendInv(t)'
  <2>1. CASE t = s
    BY <2>1 DEF SendPublish, SendDone, SendInv, TypeOK
  <2>2. CASE t # s
    <3>1. spc[t] # "idle" => link[t] # link[s]
      BY <2>2, OneSender DEF SendPublish
    <3>2. QED BY <1>1, <2>2, <3>1 DEF SendPublish, SendDone, SendInv, TypeOK
  <2>3. QED BY <2>1, <2>2
<1>4. ASSUME NEW c \in Receivers PROVE RecvInv(c)'
  BY <1>1 DEF SendPublish, RecvInv, Source, TypeOK, recvs
<1>5. QED BY <1>2, <1>3, <1>4

-----------------------------------------------------------------------------
\* The receiver's steps.

LEMMA RecvLooks ==
  ASSUME MailboxInv, NEW c \in Receivers,
         \/ \E s \in Cores : Recv(c, s, TRUE) \/ Recv(c, s, FALSE)
         \/ LoadEarly(c) \/ RecvEmpty(c) \/ RecvSome(c)
  PROVE  MailboxInv'
<1> USE DEF MailboxInv
<1>1. 0 \in Cores /\ AnyMessage \in Content
  BY MailboxAssumption DEF Cores, Content
<1>2. ASSUME NEW s \in Cores, NEW isAny \in BOOLEAN, Recv(c, s, isAny)
      PROVE  MailboxInv'
  <2>1. TypeOK'
    BY <1>2 DEF Recv, TypeOK, rings, sends
  <2>2. ASSUME NEW t \in Senders PROVE SendInv(t)'
    BY <1>2 DEF Recv, SendInv, rings, sends
  <2>3. ASSUME NEW d \in Receivers PROVE RecvInv(d)'
    BY <1>2 DEF Recv, RecvInv, Source, TypeOK, rings
  <2>4. QED BY <2>1, <2>2, <2>3
<1>3. CASE LoadEarly(c)
  <2>1. buf[Source(c)][tail[Source(c)]] \in Content
    BY <1>3 DEF LoadEarly, TypeOK
  <2>2. TypeOK'
    BY <1>3, <2>1 DEF LoadEarly, TypeOK, rings, sends
  <2>3. ASSUME NEW t \in Senders PROVE SendInv(t)'
    BY <1>3 DEF LoadEarly, SendInv, rings, sends
  <2>4. ASSUME NEW d \in Receivers PROVE RecvInv(d)'
    BY <1>3 DEF LoadEarly, RecvInv, Source, TypeOK, rings
  <2>5. QED BY <2>2, <2>3, <2>4
<1>4. CASE RecvEmpty(c)
  <2>1. any[c] /\ src[c] < NumCores-1 => src[c] + 1 \in Cores
    BY MailboxAssumption DEF TypeOK, Cores
  <2>2. TypeOK'
    BY <1>1, <1>4, <2>1 DEF RecvEmpty, RecvDone, TypeOK, rings, sends
  <2>3. ASSUME NEW t \in Senders PROVE SendInv(t)'
    BY <1>4 DEF RecvEmpty, SendInv, rings, sends
  <2>4. ASSUME NEW d \in Receivers PROVE RecvInv(d)'
    BY <1>4 DEF RecvEmpty, RecvDone, RecvInv, Source, TypeOK, rings
  <2>5. QED BY <2>2, <2>3, <2>4
<1>5. CASE RecvSome(c)
  <2>1. TypeOK'
    BY <1>5 DEF RecvSome, TypeOK, rings, sends
  <2>2. ASSUME NEW t \in Senders PROVE SendInv(t)'
    BY <1>5 DEF RecvSome, SendInv, rings, sends
  <2>3. ASSUME NEW d \in Receivers PROVE RecvInv(d)'
    BY <1>5 DEF RecvSome, RecvInv, Source, Empty, TypeOK, rings
  <2>4. QED BY <2>1, <2>2, <2>3
<1>6. QED BY <1>2, <1>3, <1>4, <1>5

LEMMA RecvReads ==
  ASSUME MailboxInv, NEW c \in Receivers, RecvRead(c)
  PROVE  MailboxInv'
<1> USE DEF MailboxInv
<1>1. Source(c) \in Links
  BY DEF RecvRead, RecvInv
<1>2. early[c] # NoMessage => early[c][1] \in Content
  BY DEF TypeOK, NoMessage
<1>3. TypeOK'
  BY <1>1, <1>2 DEF RecvRead, TypeOK, rings, sends
<1>4. ASSUME NEW t \in Senders PROVE SendInv(t)'
  BY DEF RecvRead, SendInv, rings, sends
<1>5. ASSUME NEW d \in Receivers PROVE RecvInv(d)'
  BY DEF RecvRead, RecvInv, Source, TypeOK, rings
<1>6. QED BY <1>3, <1>4, <1>5

LEMMA RecvAdvances ==
  ASSUME MailboxInv, NEW c \in Receivers, RecvAdvance(c)
  PROVE  MailboxInv'
<1> USE DEF MailboxInv
<1>1. /\ Source(c) \in Links /\ tail[Source(c)] # head[Source(c)]
      /\ tail[Source(c)] \in Slots /\ head[Source(c)] \in Slots
  BY DEF RecvAdvance, RecvInv, TypeOK
<1>2. tail' = [tail EXCEPT ![Source(c)] = RingNext(@, N)]
  BY DEF RecvAdvance
<1>3. TypeOK'
  <2>1. 0 \in Cores /\ AnyMessage \in Content
    BY MailboxAssumption DEF Cores, Content
  <2>2. QED BY <1>1, <1>2, <2>1, SlotFacts DEF RecvAdvance, RecvDone, TypeOK, sends
\* A ring that had room has more of it, since its tail was not its head.
<1>4. ASSUME NEW t \in Senders PROVE SendInv(t)'
  <2>1. RingNext(tail[Source(c)], N) # RingNext(head[Source(c)], N)
    BY <1>1, SlotFacts
  <2>2. QED BY <1>1, <1>2, <2>1 DEF RecvAdvance, SendInv, TypeOK, sends
<1>5. ASSUME NEW d \in Receivers PROVE RecvInv(d)'
  <2>1. d # c => Source(d) # Source(c)
    BY DEF Source
  <2>2. QED BY <1>1, <1>2, <2>1 DEF RecvAdvance, RecvDone, RecvInv, Source, TypeOK
<1>6. QED BY <1>3, <1>4, <1>5

LEMMA MailboxStep ==
  ASSUME MailboxInv, [Next]_vars PROVE MailboxInv'
<1>1. CASE UNCHANGED vars
  BY <1>1 DEF vars, rings, sends, recvs, MailboxInv, TypeOK, SendInv, RecvInv, Source
<1>2. ASSUME NEW s \in Senders,
             \/ \E l \in Links, m \in Says[s] : Send(s, l, m)
             \/ SendFull(s) \/ SendRoom(s) \/ SendWrite(s) \/ SendPublish(s)
      PROVE  MailboxInv'
  BY <1>2, SendBegins, SendChecks, SendWrites, SendPublishes
<1>3. ASSUME NEW c \in Receivers,
             \/ \E s \in Cores : Recv(c, s, TRUE) \/ Recv(c, s, FALSE)
             \/ LoadEarly(c) \/ RecvStep(c)
      PROVE  MailboxInv'
  BY <1>3, RecvLooks, RecvReads, RecvAdvances DEF RecvStep
<1>4. QED BY <1>1, <1>2, <1>3 DEF Next

THEOREM MailboxInvariant == Spec => []MailboxInv
BY InitMailbox, MailboxStep, PTL DEF Spec

-----------------------------------------------------------------------------
\* The refinement: each step of a ring is a step of its queue, or none.

LEMMA ContentsIsRing ==
  ASSUME NEW l \in Links
  PROVE  /\ Contents(l) = RingContents(head[l], tail[l], buf[l], N)
         /\ Contents(l)' = RingContents(head'[l], tail'[l], buf'[l], N)
BY Zenon DEF Contents

\* What TypeOK says of the ring of a link.
LEMMA RingTypes ==
  ASSUME TypeOK, NEW l \in Links
  PROVE  /\ N \in Nat \ {0, 1} /\ head[l] \in 0 .. N-1 /\ tail[l] \in 0 .. N-1
         /\ buf[l] \in [0 .. N-1 -> Content]
BY SlotRange DEF TypeOK

Queues == [l \in Links |-> Contents(l)]

LEMMA InitRefines == Init => Fifo!Init
<1> SUFFICES ASSUME Init PROVE Fifo!Init
  OBVIOUS
<1>1. ASSUME NEW l \in Links PROVE Contents(l) = <<>>
  <2>1. head[l] = 0 /\ tail[l] = 0
    BY DEF Init
  <2>2. RingLength(0, 0, N) = 0
    BY SlotRange, RingLengthFacts
  <2>3. QED BY <2>1, <2>2 DEF Contents, RingContents
<1>2. QED BY <1>1 DEF Init, Fifo!Init

\* A step that leaves heads, tails, buffers and the drop counters alone.
LEMMA RingsUntouched ==
  ASSUME UNCHANGED rings
  PROVE  Queues' = Queues /\ dropped' = dropped
<1>1. head' = head /\ tail' = tail /\ buf' = buf /\ dropped' = dropped
  BY DEF rings
<1>2. \A l \in Links : Contents(l)' = Contents(l)
  BY <1>1, ContentsIsRing
<1>3. QED BY <1>1, <1>2 DEF Queues

\* SendFull refuses the message that a full queue has no room for.
LEMMA FullRefines ==
  ASSUME MailboxInv, NEW s \in Senders, SendFull(s)
  PROVE  Fifo!Refuse(link[s])
<1>1. PICK k \in Links : k = link[s] /\ RingNext(head[k], N) = tail[k]
  BY DEF SendFull, MailboxInv, SendInv
<1>2. Len(Contents(k)) = N-1
  <2>1. /\ N \in Nat \ {0, 1} /\ head[k] \in 0 .. N-1 /\ tail[k] \in 0 .. N-1
        /\ buf[k] \in [0 .. N-1 -> Content]
    BY RingTypes DEF MailboxInv
  <2>2. Len(RingContents(head[k], tail[k], buf[k], N)) = N-1
    BY <1>1, <2>1, RingFull
  <2>3. QED BY <2>2, ContentsIsRing
<1>3. /\ head' = head /\ tail' = tail /\ buf' = buf
      /\ dropped' = [dropped EXCEPT ![k] = @ + 1]
  BY <1>1 DEF SendFull
<1>4. \A l \in Links : Contents(l)' = Contents(l)
  BY <1>3, ContentsIsRing
<1>5. QED BY <1>1, <1>2, <1>3, <1>4 DEF Fifo!Refuse

\* SendPublish accepts the message.
LEMMA PublishRefines ==
  ASSUME MailboxInv, NEW s \in Senders, SendPublish(s)
  PROVE  msg[s] \in Messages /\ Fifo!Accept(link[s], msg[s])
<1>1. PICK k \in Links :
        /\ k = link[s] /\ msg[s] \in Messages
        /\ next[s] = RingNext(head[k], N) /\ next[s] # tail[k] /\ buf[k][head[k]] = msg[s]
  BY DEF SendPublish, MailboxInv, SendInv
<1>2. /\ head' = [head EXCEPT ![k] = RingNext(head[k], N)]
      /\ tail' = tail /\ buf' = buf /\ dropped' = dropped
  BY <1>1 DEF SendPublish
<1>3. /\ Contents(k)' = Append(Contents(k), msg[s])
      /\ Len(Contents(k)) < N-1
  <2>1. head'[k] = RingNext(head[k], N) /\ tail'[k] = tail[k] /\ buf'[k] = buf[k]
    BY <1>1, <1>2 DEF MailboxInv, TypeOK
  <2>2. /\ RingContents(RingNext(head[k], N), tail[k], buf[k], N)
             = Append(RingContents(head[k], tail[k], buf[k], N), buf[k][head[k]])
        /\ Len(RingContents(head[k], tail[k], buf[k], N)) < N-1
    BY <1>1, RingTypes, RingAppend DEF MailboxInv
  <2>3. QED BY <1>1, <2>1, <2>2, ContentsIsRing
<1>4. ASSUME NEW l \in Links, l # k PROVE Contents(l)' = Contents(l)
  <2>1. head'[l] = head[l] /\ tail'[l] = tail[l] /\ buf'[l] = buf[l]
    BY <1>2, <1>4 DEF MailboxInv, TypeOK
  <2>2. QED BY <2>1, ContentsIsRing
<1>5. Fifo!Accept(k, msg[s])
  BY <1>2, <1>3, <1>4 DEF Fifo!Accept
<1>6. QED BY <1>1, <1>5

\* SendWrite fills a slot outside of the queue.
LEMMA WriteRefines ==
  ASSUME MailboxInv, NEW s \in Senders, SendWrite(s)
  PROVE  Queues' = Queues /\ dropped' = dropped
<1>1. PICK k \in Links : buf' = [buf EXCEPT ![k][head[k]] = msg[s]]
  BY SendWrites
<1>2. head' = head /\ tail' = tail /\ dropped' = dropped
  BY DEF SendWrite
<1>3. ASSUME NEW l \in Links PROVE Contents(l)' = Contents(l)
  <2>1. buf'[l] = buf[l] \/ buf'[l] = [buf[l] EXCEPT ![head[l]] = msg[s]]
    BY <1>1 DEF MailboxInv, TypeOK
  <2>2. /\ N \in Nat \ {0, 1} /\ head[l] \in 0 .. N-1 /\ tail[l] \in 0 .. N-1
        /\ buf[l] \in [0 .. N-1 -> Content]
    BY RingTypes DEF MailboxInv
  <2>3. RingContents(head[l], tail[l], [buf[l] EXCEPT ![head[l]] = msg[s]], N)
          = RingContents(head[l], tail[l], buf[l], N)
    BY <2>2, RingWrite
  <2>4. RingContents(head[l], tail[l], buf'[l], N) = RingContents(head[l], tail[l], buf[l], N)
    BY <2>1, <2>3
  <2>5. QED BY <1>2, <2>4, ContentsIsRing
<1>4. QED BY <1>2, <1>3 DEF Queues

\* RecvAdvance extracts the oldest message.
LEMMA AdvanceRefines ==
  ASSUME MailboxInv, NEW c \in Receivers, RecvAdvance(c)
  PROVE  Source(c) \in Links /\ Fifo!Extract(Source(c))
<1>1. PICK k \in Links : k = Source(c) /\ tail[k] # head[k]
  BY DEF RecvAdvance, MailboxInv, RecvInv
<1>2. /\ tail' = [tail EXCEPT ![k] = RingNext(@, N)]
      /\ head' = head /\ buf' = buf /\ dropped' = dropped
  BY <1>1 DEF RecvAdvance
<1>3. Contents(k) # <<>> /\ Contents(k)' = Tail(Contents(k))
  <2>1. head'[k] = head[k] /\ tail'[k] = RingNext(tail[k], N) /\ buf'[k] = buf[k]
    BY <1>1, <1>2 DEF MailboxInv, TypeOK
  <2>2. /\ RingContents(head[k], tail[k], buf[k], N) # <<>>
        /\ RingContents(head[k], RingNext(tail[k], N), buf[k], N) = Tail(RingContents(head[k], tail[k], buf[k], N))
    BY <1>1, RingTypes, RingTail DEF MailboxInv
  <2>3. QED BY <1>1, <2>1, <2>2, ContentsIsRing
<1>4. ASSUME NEW l \in Links, l # k PROVE Contents(l)' = Contents(l)
  <2>1. head'[l] = head[l] /\ tail'[l] = tail[l] /\ buf'[l] = buf[l]
    BY <1>2, <1>4 DEF MailboxInv, TypeOK
  <2>2. QED BY <2>1, ContentsIsRing
<1>5. Fifo!Extract(k)
  BY <1>2, <1>3, <1>4 DEF Fifo!Extract
<1>6. QED BY <1>1, <1>5

LEMMA StepRefines ==
  ASSUME MailboxInv, [Next]_vars
  PROVE  Fifo!Next \/ (Queues' = Queues /\ dropped' = dropped)
<1>1. CASE UNCHANGED vars
  BY <1>1, RingsUntouched DEF vars
<1>2. ASSUME NEW s \in Senders,
             \/ \E l \in Links, m \in Says[s] : Send(s, l, m)
             \/ SendFull(s) \/ SendRoom(s) \/ SendWrite(s) \/ SendPublish(s)
      PROVE  Fifo!Next \/ (Queues' = Queues /\ dropped' = dropped)
  <2>1. CASE SendRoom(s) \/ \E l \in Links, m \in Says[s] : Send(s, l, m)
    BY <2>1, RingsUntouched DEF Send, SendRoom
  <2>2. CASE SendFull(s)
    <3>1. link[s] \in Links
      BY <2>2 DEF SendFull, MailboxInv, SendInv
    <3>2. QED BY <2>2, <3>1, FullRefines DEF Fifo!Next
  <2>3. CASE SendWrite(s)
    BY <2>3, WriteRefines
  <2>4. CASE SendPublish(s)
    <3>1. link[s] \in Links
      BY <2>4 DEF SendPublish, MailboxInv, SendInv
    <3>2. QED BY <2>4, <3>1, PublishRefines DEF Fifo!Next
  <2>5. QED BY <1>2, <2>1, <2>2, <2>3, <2>4
<1>3. ASSUME NEW c \in Receivers,
             \/ \E s \in Cores : Recv(c, s, TRUE) \/ Recv(c, s, FALSE)
             \/ LoadEarly(c) \/ RecvStep(c)
      PROVE  Fifo!Next \/ (Queues' = Queues /\ dropped' = dropped)
  <2>1. CASE RecvAdvance(c)
    BY <2>1, AdvanceRefines DEF Fifo!Next
  <2>2. CASE ~RecvAdvance(c)
    <3>1. UNCHANGED rings
      BY <1>3, <2>2 DEF Recv, LoadEarly, RecvStep, RecvEmpty, RecvSome, RecvRead
    <3>2. QED BY <3>1, RingsUntouched
  <2>3. QED BY <2>1, <2>2
<1>4. QED BY <1>1, <1>2, <1>3 DEF Next

-----------------------------------------------------------------------------
\* For every number of cores, senders and slots, and whatever loads are
\* reordered: the rings are the bounded queues of mailbox.h. What has been
\* accepted leaves once, unchanged and in order, a ring holds N-1 messages, and
\* every refusal is counted.
THEOREM MailboxesAreFifos == Spec => ImplementsFifo
<1>1. MailboxInv /\ [Next]_vars => [Fifo!Next]_<<Queues, dropped>>
  BY StepRefines
<1>2. QED
  BY InitRefines, MailboxInvariant, <1>1, PTL DEF Spec, ImplementsFifo, Fifo!Spec, Queues

\* No slot is read while it is written, however far the sender goes round.
THEOREM SlotsAreNotShared == Spec => []NoSlotShared
<1>1. MailboxInv => NoSlotShared
  <2> SUFFICES ASSUME MailboxInv, NEW s \in Senders, NEW c \in Receivers,
                      spc[s] \in {"write", "publish"}, rpc[c] \in {"read", "advance"},
                      link[s] = Source(c)
               PROVE  Filling(s) # tail[link[s]]
    BY DEF NoSlotShared
  <2>1. /\ link[s] \in Links /\ next[s] = RingNext(head[link[s]], N)
        /\ tail[link[s]] # head[link[s]] /\ head[link[s]] \in Slots
    BY DEF MailboxInv, SendInv, RecvInv, TypeOK
  <2>2. Filling(s) = head[link[s]]
    BY <2>1, SlotFacts DEF Filling
  <2>3. QED BY <2>1, <2>2
<1>2. QED BY MailboxInvariant, <1>1, PTL

\* With loads in program order the sender publishes what it was given, and the
\* receiver returns the oldest message of the ring.
THEOREM MessagesStayIntact == Spec => []MessagesIntact
<1>1. MailboxInv => MessagesIntact
  <2> SUFFICES ASSUME MailboxInv PROVE MessagesIntact
    OBVIOUS
  <2>1. ASSUME NEW s \in Senders, spc[s] = "publish"
        PROVE  buf[link[s]][Filling(s)] = msg[s]
    <3>1. /\ next[s] = RingNext(head[link[s]], N) /\ head[link[s]] \in Slots
          /\ buf[link[s]][head[link[s]]] = msg[s]
      BY <2>1 DEF MailboxInv, SendInv, TypeOK
    <3>2. Filling(s) = head[link[s]]
      BY <3>1, SlotFacts DEF Filling
    <3>3. QED BY <3>1, <3>2
  <2>2. ~reorder => AnswerIsOldest
    BY DEF MailboxInv, RecvInv, AnswerIsOldest
  <2>3. QED BY <2>1, <2>2 DEF MessagesIntact
<1>2. QED BY MailboxInvariant, <1>1, PTL

=============================================================================
