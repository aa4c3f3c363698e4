----------------------------- MODULE MCScheduler -----------------------------
(***************************************************************************)
(* Instances of Scheduler: two tasks, up to two cron slots.                *)
(***************************************************************************)
EXTENDS Scheduler

Two == 1..2
=============================================================================
