------------------------------ MODULE MCCyclic ------------------------------
(* Instances of Cyclic for TLC. *)
EXTENDS Cyclic, TLC

\* One task registered with period 0 and one with period 2.
CONSTANTS each, second
BothTasks  == {each, second}
ZeroAndTwo == (each :> 0) @@ (second :> 2)

\* The soft loop.
CONSTANT soft
SoftOnly  == {soft}
TwoLong   == soft :> 2

=============================================================================
