----------------------------- MODULE MCMailbox -----------------------------
(* Instances of Mailbox for TLC. *)
EXTENDS Mailbox, TLC

\* Cores 0 and 1 both send to core 1.
TwoLinks  == {<<0, 1>>, <<1, 1>>}

\* p sends messages that can be told apart, q always the same.
CONSTANTS a, b
AOrB    == {a, b}
PTellsQ == ("p" :> {a, b}) @@ ("q" :> {a})

TwoCores   == ("p" :> 0) @@ ("q" :> 1)

=============================================================================
