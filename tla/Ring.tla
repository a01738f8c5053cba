-------------------------------- MODULE Ring --------------------------------
(***************************************************************************)
(* The rings of kernel/mailbox.c and kernel/klog.c: pure operators over    *)
(* the n slots of a buffer b.  The head h is the slot to fill next, the    *)
(* tail t the oldest message; one slot always stays free.                  *)
(***************************************************************************)
EXTENDS Integers

\* (i + 1) & MASK
RingNext(i, n) == (i + 1) % n

\* The number of published messages, the slot of the i-th oldest, and the
\* messages themselves, oldest first.
RingLength(h, t, n)      == (h + n - t) % n
RingPlace(t, i, n)       == (t + i - 1) % n
RingContents(h, t, b, n) == [i \in 1 .. RingLength(h, t, n) |-> b[RingPlace(t, i, n)]]

=============================================================================
