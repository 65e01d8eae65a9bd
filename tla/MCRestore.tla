----------------------------- MODULE MCRestore ------------------------------
(* Restore with small values for TLC. *)
EXTENDS Restore, TLC

\* Units of work and deliveries are interchangeable.
Alike == Permutations(Units) \cup Permutations(Mails)
=============================================================================
