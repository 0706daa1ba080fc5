------------------------------ MODULE MCMutex ------------------------------
(* Instances of Mutex for TLC. *)
EXTENDS Mutex, TLC

CONSTANTS t1, t2

TwoTasks == {t1, t2}
OnlyLock == {"lock"}

\* Tasks are interchangeable (the safety run only).
Symmetry == Permutations(Threads)
=============================================================================
