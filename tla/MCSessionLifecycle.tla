-------------------------- MODULE MCSessionLifecycle --------------------------
EXTENDS SessionLifecycle, TLC

Symmetry == Permutations(Worker) \cup Permutations(Slot)
=============================================================================
