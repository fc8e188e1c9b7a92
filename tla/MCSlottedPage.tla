-------------------------- MODULE MCSlottedPage --------------------------
EXTENDS SlottedPage, TLC

\* What is written is interchangeable.
Symmetry == Permutations(Values)
=============================================================================
