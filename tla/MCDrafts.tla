------------------------------ MODULE MCDrafts ------------------------------
EXTENDS Drafts, TLC

Symmetry == Permutations(Reqs) \cup Permutations(Mutexes)
=============================================================================
