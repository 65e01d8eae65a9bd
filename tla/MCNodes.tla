------------------------------ MODULE MCNodes ------------------------------
(* Nodes with small sets for TLC: none of their members is special.        *)
EXTENDS Nodes, TLC

Symmetry == Permutations(NodeIds) \cup Permutations(Machines)
=============================================================================
