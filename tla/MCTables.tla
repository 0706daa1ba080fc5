------------------------------ MODULE MCTables ------------------------------
(***************************************************************************)
(* Small instances of the tables that grow by jtextendunderlock.           *)
(***************************************************************************)
EXTENDS Tables, TLC

CONSTANTS t1, t2, t3, u1, u2, s1, s2, s3, s4, arg1, arg2, arg3, kernel, math

ThreeThreads == {t1, t2, t3}
TwoThreads == {u1, u2}
FourNames == {s1, s2, s3, s4}
Symmetry == Permutations(ThreeThreads) \union Permutations(TwoThreads)
                \union Permutations(FourNames)

\* Hash functions into the first table: all numbers in one slot, runs of neighbours in
\* either direction, and neighbours two slots apart, from either end and the middle.
Affine == {[n \in 0 .. 5 |-> p * n + q] : p \in {0, 1, 2, 4}, q \in {0, 2, 4}}

Libraries == [s \in {"hypot", "pow", "open"} |-> IF s = "open" THEN kernel ELSE math]
ThreeStrings == DOMAIN Libraries
OneOfEach == [cdstr |-> 1, cdarg |-> 1, cdhash |-> 9]

\* Hashes at either end of the table: the searches collide, or go around it.
ThreeArguments == {arg1, arg2, arg3}
Ends == [ThreeArguments -> {0, 7}]

\* The steps after a thread has used a table that was freed are not followed.
Bounded == ~emptied

\* No freed table of locales is used (sl.c:105-106).
OwnsOldTable == L!OwnsOldTable
=============================================================================
