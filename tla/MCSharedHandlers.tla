-------------------------- MODULE MCSharedHandlers --------------------------
EXTENDS SharedHandlers, TLC

\* The workers of the pool are interchangeable.
Symmetry == Permutations(Workers)
=============================================================================
