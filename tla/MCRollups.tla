----------------------------- MODULE MCRollups ------------------------------
(* Rollups with a scale on which everything happens within a day or two.   *)
EXTENDS Rollups

Kept == [raw |-> 2, five |-> 4, hour |-> 4, day |-> 0]
=============================================================================
