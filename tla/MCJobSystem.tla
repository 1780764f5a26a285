----------------------------- MODULE MCJobSystem -----------------------------
\* JobSystem for TLC, with the symmetry of its interchangeable sets.
EXTENDS JobSystemInv, TLC

Symmetry ==
  Permutations(BatchJobs) \cup Permutations(Clients)
    \cup Permutations(Workers) \cup Permutations(Workflows)
=============================================================================
