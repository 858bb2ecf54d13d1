--------------------------- MODULE MCSchedulerRunner ---------------------------
(* Instance of SchedulerRunner for TLC: one job of each kind shows what a job
   may do, which depends on its kind only. *)
EXTENDS SchedulerRunner
===============================================================================
