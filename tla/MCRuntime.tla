----------------------------- MODULE MCRuntime -----------------------------
EXTENDS Runtime, TLC

\* The host's threads are interchangeable.
Symmetry == Permutations(Threads)

\* All variables but preceding, a history that no step reads: for runs whose
\* properties read no more of it than its type.
WithoutPreceding ==
  <<engineVars, ringVars, loss, armed, errorVars, pc, locals, asked, answered>>

=============================================================================
