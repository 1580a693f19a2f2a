----------------------------- MODULE MCEventBus -----------------------------
(* EventBus for model checking.                                             *)
EXTENDS EventBus
=============================================================================
