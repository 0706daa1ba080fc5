----------------------------- MODULE MCReturns ------------------------------
(***************************************************************************)
(* Instances, under fairness, of Pyx, which this module extends, and of    *)
(* ThreadPool with calls from the master only: who waits for a result, for *)
(* a system lock, or for a thread to end or to begin, comes back.  The two *)
(* have nothing in common, so a behaviour uses one of them.                *)
(***************************************************************************)
EXTENDS Pyx

EVTIME == 1
EVDOMAIN == 3

GivesUp == {EVTIME}
Fails == {EVDOMAIN}

\* The pyx of a task, which another thread may fill with T. 6 or T. 7 as well.
TaskAndUser == {"worker", "u1"}

CONSTANTS A, AnyPool

VARIABLES
    which,      \* the one in use
    active, terminate, threadpoolno, ndxinthreadpool, wthreadhwmk, nthreads,
    jobs, wanted, osthreads, leaving, busy, owes, asleep, call, refused, ascending

poolVars == <<active, terminate, threadpoolno, ndxinthreadpool, wthreadhwmk, nthreads,
              jobs, wanted, osthreads, leaving, busy, owes, asleep, call, refused, ascending>>
allVars  == <<which, vars, poolVars>>

\* No thread is refused.
P == INSTANCE ThreadPool WITH
        Pools <- {A}, MaxWorkers <- 2, MaxInPool <- 2, WorkersCall <- FALSE,
        CreateFails <- FALSE, Masks <- {{2}, {1, 2}}, MaxJobs <- 2, MaxCalls <- 1, MaxLeaving <- 1

ReturnsInit == which \in {"pyx", "pool"} /\ Init /\ P!Init

ReturnsNext ==
    \/ which = "pyx"  /\ Next   /\ UNCHANGED <<which, poolVars>>
    \/ which = "pool" /\ P!Next /\ UNCHANGED <<which, vars>>

\* Nobody is in what is not used: its fairness asks for nothing.
ReturnsSpec == ReturnsInit /\ [][ReturnsNext]_allVars /\ Fairness /\ P!Fairness

-----------------------------------------------------------------------------
\* The threads: ct.c, ThreadPool.  Calls of T. come back, and who is told to end
\* ends.
CallsReturn == P!CallsReturn
=============================================================================
