----------------------------- MODULE MCPiMutex -----------------------------
(***************************************************************************)
(* Instances of PiMutex for TLC.  H, M and L are the threads of the        *)
(* comment in mutex.c: L holds the mutex, H asks for it, M lies between.   *)
(***************************************************************************)
EXTENDS PiMutex, TLC

\* H alone on core 0; L and M, in this order of creation, on core 1.
RemoteCores == (0 :> 0) @@ (1 :> 1) @@ (2 :> 1)
ThreeLevels == (0 :> 0) @@ (1 :> 2) @@ (2 :> 1)

\* One thread per core: nobody is ever preempted.
OwnCores == (0 :> 0) @@ (1 :> 1) @@ (2 :> 2)

\* L, then H, on one core.
PairOnOneCore == (0 :> 0) @@ (1 :> 0)
LowThenHigh   == (0 :> 1) @@ (1 :> 0)

=============================================================================
