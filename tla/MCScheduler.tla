---------------------------- MODULE MCScheduler -----------------------------
(* Scheduler with small values for TLC. *)
EXTENDS Scheduler, TLC

\* Goroutines are interchangeable, and so are checks.
AllAlike == Permutations(Runs) \cup Permutations(Checks)
=============================================================================
