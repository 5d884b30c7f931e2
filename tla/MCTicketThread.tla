--------------------------- MODULE MCTicketThread ---------------------------
(***************************************************************************)
(* Instances of TicketThread for TLC.                                      *)
(***************************************************************************)
EXTENDS TicketThread, TLC

\* A reply that may go out by itself, one that recommends a gated action, and
\* the escalation template.
MCOutcome ==
  {[resolution |-> "answered", gated |-> FALSE],
   [resolution |-> "answered", gated |-> TRUE],
   [resolution |-> "escalated", gated |-> FALSE]}

\* One that may go out by itself and one that may not.
MCTwoOutcomes == MCOutcome \ {[resolution |-> "answered", gated |-> TRUE]}

Symmetry == Permutations(Proc)
=============================================================================
