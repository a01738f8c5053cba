------------------------------- MODULE MCKlog -------------------------------
(* Instances of Klog for TLC. *)
EXTENDS Klog, TLC

\* Every core logs its own entry, again and again.
CONSTANTS a, b
AOrB    == {a, b}
OneEach == (0 :> {a}) @@ (1 :> {b})

=============================================================================
