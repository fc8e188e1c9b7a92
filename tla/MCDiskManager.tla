-------------------------- MODULE MCDiskManager --------------------------
EXTENDS DiskManager, TLC

\* Threads and handles are interchangeable.
Symmetry == Permutations(Threads) \cup Permutations(Handles)
=============================================================================
