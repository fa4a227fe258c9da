----------------------------- MODULE MCWeakRing -----------------------------
EXTENDS WeakRing, TLC

\* Producers are interchangeable.
Symmetry == Permutations(Producers)

=============================================================================
