----------------------------- MODULE MCScheduler -----------------------------
(* Scheduler on two schedules, one one-shot and one recurring when_spec.    *)
EXTENDS Scheduler
=============================================================================
