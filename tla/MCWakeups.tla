------------------------------- MODULE MCWakeups -------------------------------
(***************************************************************************)
(* The machine of MCScheduler for module SchedulerWakeups.                 *)
(***************************************************************************)
EXTENDS MCScheduler, SchedulerWakeups
================================================================================
