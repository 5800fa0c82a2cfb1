----------------------------- MODULE MCScheduler -----------------------------
(* Scheduler on a small kernel: four thread addresses (a first, a last     *)
(* and middle list elements exist at once) and two wait queues.            *)
EXTENDS Scheduler
==============================================================================
