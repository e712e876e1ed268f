------------------------------- MODULE MCSync -------------------------------
(* Small instances of the validator's sync. *)
EXTENDS ValidatorSync

\* A pin that stands for an operator's advance in block 2.
MCPins == {[epoch |-> 1, block |-> 2, root |-> 1, index |-> 0]}
=============================================================================
