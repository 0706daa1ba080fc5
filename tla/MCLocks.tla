------------------------------ MODULE MCLocks ------------------------------
(***************************************************************************)
(* Instances of the two locks of J programs under fairness: of RWLock,     *)
(* which this module extends, and of Mutex, for wake-ups.  The locks have  *)
(* nothing in common, so a behaviour uses one of them.                     *)
(***************************************************************************)
EXTENDS RWLock

CONSTANTS t1, t2, t3, t4, NoThread

FourThreads == {t1, t2, t3, t4}

VARIABLES
    which,      \* the lock in use
    v, owner, ct, pcM, op, waitval, depth, futexwt, futexwake, asleep, resume,
    adbreak, breaks, syslock, syslocks, kpc, ktask, todo

mutexVars == <<v, owner, ct, pcM, op, waitval, depth, futexwt, futexwake, asleep, resume,
               adbreak, breaks, syslock, syslocks, kpc, ktask, todo>>
allVars   == <<which, vars, mutexVars>>

\* Three tasks and one interrupt; a system lock puts the word out of order.
M == INSTANCE Mutex WITH
        pc <- pcM, Threads <- {t1, t2, t3}, Recursive <- FALSE,
        Ops <- {"lock", "trylock"}, MaxDepth <- 1, SysLocks <- 0, Breaks <- 1

LocksInit == which \in {"rwlock", "mutex"} /\ Init /\ M!Init

LocksNext ==
    \/ which = "rwlock" /\ Next   /\ UNCHANGED <<which, mutexVars>>
    \/ which = "mutex"  /\ M!Next /\ UNCHANGED <<which, vars>>

\* Nobody is in the lock that is not used: its fairness asks for nothing.
LocksSpec == LocksInit /\ [][LocksNext]_allVars /\ Fairness /\ M!Fairness

-----------------------------------------------------------------------------
\* The mutex: mt.c, Mutex.  No wake-up is lost.
NoLostWake == M!NoLostWake

\* Those who wait for the mutex do not all sleep while it is passed on or free.
SomebodyGetsIt == M!SomebodyGetsIt
=============================================================================
