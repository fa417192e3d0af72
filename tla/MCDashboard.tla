------------------------------ MODULE MCDashboard ------------------------------
EXTENDS Dashboard, TLC

CONSTANTS n1, a1, a2

\* A feed with two articles; the others have none.
PageArticles(n) == IF n = n1 THEN {a1, a2} ELSE {}

Symmetry == Permutations({a1, a2})
==============================================================================
