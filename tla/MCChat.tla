------------------------------- MODULE MCChat -------------------------------
(* One post and one input event, on a session that was created and one that the input may   *)
(* create.  A turn calls the model at most twice.                                            *)
EXTENDS ChatTurns, Functions

\* The bound of the run: turns at work at the same time have made at most two calls together.
TwoCalls == FoldFunction(+, 0, round) <= 2
=============================================================================
