------------------------------ MODULE MCRules ------------------------------
\* Rules on a small installation: one check, one rule.
EXTENDS Rules

CONSTANTS c1, r1

LooksAtAll == [r \in RRules |-> RChecks]
=============================================================================
