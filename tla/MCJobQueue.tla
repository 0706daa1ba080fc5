----------------------------- MODULE MCJobQueue ------------------------------
(* One pool of two workers and its callers, for TLC *)
EXTENDS JobQueue, TLC
CONSTANTS c1, c2
TwoCallers == {c1, c2}
\* shares for one of the workers and the caller, and for both workers
SomeMasks == {{0, 2}, {1, 2}}

\* Callers are interchangeable.
Symmetry == Permutations(Callers)
================================================================================
