---------------------------- MODULE MCOutputRouter ----------------------------
(* Output routing for model checking: one kind of event that no rule        *)
(* matches, and an urgent one.  Emissions and reviews are interchangeable.  *)
EXTENDS OutputRouter, TLC

MCSymmetry == Permutations(Emissions) \cup Permutations(Reviews)

MCKinds == {
  [category |-> "insight", urgency |-> "soft", private |-> FALSE, actions |-> FALSE],
  [category |-> "insight", urgency |-> "urgent", private |-> TRUE, actions |-> FALSE] }

MCPicks == {{Device}}
=============================================================================
