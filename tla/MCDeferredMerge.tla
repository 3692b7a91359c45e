-------------------------- MODULE MCDeferredMerge --------------------------
EXTENDS DeferredMerge, TLC

Symmetry == Permutations(Handles)
=============================================================================
