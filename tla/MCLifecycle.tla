----------------------------- MODULE MCLifecycle -----------------------------
EXTENDS LifecycleStore, TLC

Symmetry == Permutations(Cli) \cup Permutations(Proc) \cup Permutations(Disk)
=============================================================================
