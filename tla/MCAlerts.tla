------------------------------ MODULE MCAlerts ------------------------------
(* Alerts with small values for TLC. *)
EXTENDS Alerts, TLC

CONSTANTS c1, c2

\* No dependency; c2 below c1.
NoParent == [c \in Checks |-> Nobody]
Chain == [c \in Checks |-> IF c = c2 THEN c1 ELSE Nobody]

\* Runs and deliveries are interchangeable.
Slots == Permutations(Runs) \cup Permutations(Mails)
=============================================================================
