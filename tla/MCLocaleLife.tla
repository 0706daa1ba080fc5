---------------------------- MODULE MCLocaleLife ----------------------------
(***************************************************************************)
(* A small instance of LocaleLife: the locale h has g in its path.         *)
(***************************************************************************)
EXTENDS LocaleLife, TLC

CONSTANTS console, worker, g, h, z

Two == {g, h}
Path == [l \in Two |-> IF l = h THEN {g} ELSE {}]

\* The steps after a thread has used a destroyed locale are not followed.
Bounded == toast = {} /\ raced = {}
=============================================================================
