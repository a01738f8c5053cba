----------------------------- MODULE MailboxFifo -----------------------------
(***************************************************************************)
(* What the mailboxes promise (kernel/mailbox.h): between each pair of     *)
(* cores a queue of bounded capacity.  A message is accepted at its end or *)
(* refused and counted when the queue is full; the receiver extracts the   *)
(* oldest accepted message.  Nothing is lost after it has been accepted,   *)
(* duplicated, reordered or invented.                                      *)
(***************************************************************************)
EXTENDS Naturals, Sequences

CONSTANTS
  Links,      \* pairs <<source, destination>>
  Messages,
  Capacity

VARIABLES
  queue,      \* accepted and not yet extracted
  dropped     \* how many were refused

Init ==
  /\ queue = [l \in Links |-> <<>>]
  /\ dropped = [l \in Links |-> 0]

Accept(l, m) ==
  /\ Len(queue[l]) < Capacity
  /\ queue' = [queue EXCEPT ![l] = Append(@, m)]
  /\ UNCHANGED dropped

Refuse(l) ==
  /\ Len(queue[l]) = Capacity
  /\ dropped' = [dropped EXCEPT ![l] = @ + 1]
  /\ UNCHANGED queue

Extract(l) ==
  /\ queue[l] # <<>>
  /\ queue' = [queue EXCEPT ![l] = Tail(@)]
  /\ UNCHANGED dropped

Next == \E l \in Links : Refuse(l) \/ Extract(l) \/ \E m \in Messages : Accept(l, m)

Spec == Init /\ [][Next]_<<queue, dropped>>

=============================================================================
