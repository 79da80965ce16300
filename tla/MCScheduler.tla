----------------------------- MODULE MCScheduler -----------------------------
(* An instance of Scheduler for TLC. *)
EXTENDS Scheduler

CONSTANTS c1, c2, s1

TwoCallers == {c1, c2}
OneStream == {s1}
=============================================================================
