----------------------------- MODULE MCSemaphore -----------------------------
(* Instances of Semaphore for TLC. *)
EXTENDS Semaphore, TLC

\* Threads 0 and 1 on one core, thread 2 on another, equally urgent.
TwoOfThree == (0 :> 0) @@ (1 :> 0) @@ (2 :> 1)
Equal      == (0 :> 1) @@ (1 :> 1) @@ (2 :> 1)
=============================================================================
