---------------------------- MODULE MCThreadPool ----------------------------
(***************************************************************************)
(* Instances of ThreadPool for TLC.                                        *)
(***************************************************************************)
EXTENDS ThreadPool, TLC

CONSTANTS A, B      \* pools

TwoPools == {A, B}

\* Pools are interchangeable.
Symmetry == Permutations(Pools)

\* No behaviour is followed beyond a state in which more than two threads leave or
\* jobs wait, in all: a leaving thread touches no queue, and pools have their own.
Bounded ==
    Cardinality({s \in Workers : leaving[s] > 0}) + Len(jobs[A]) + Len(jobs[B]) <= 2
=============================================================================
