----------------------------- MODULE MCFetchJobs -----------------------------
EXTENDS FetchJobs, TLC

Symmetry == Permutations(Worker)
==============================================================================
