----------------------------- MODULE MCMonitor -----------------------------
(* The writer's main and one of its threads, which may run two handlers of a
   signal at once; a pipe that holds less than two names with their line
   feeds, so that write() blocks; four commands. *)
EXTENDS Monitor
============================================================================
