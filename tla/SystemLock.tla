----------------------------- MODULE SystemLock -----------------------------
(***************************************************************************)
(* The system lock of jsrc/ct.c: jtsystemlock, by which a thread stops all *)
(* the others to extend the symbol table, change a locale path, count the  *)
(* memory in use or enter debug suspension; jtsystemlockaccept, by which   *)
(* the others stop; and jtsettaskrunning and jtclrtaskrunning, by which a  *)
(* thread starts and ends running J code.  The creation of a thread (0 T.) *)
(* appears as far as it must keep clear of a lock in progress.             *)
(*                                                                         *)
(* The lock is a barrier in rounds.  A round goes through the states of    *)
(* systemlock, and in each of the states 2, 3 and 5 one thread, the leader *)
(* (the executor in state 5), waits until all the other threads that run   *)
(* have checked in, counting systemlocktct down to 0 (DOINSTATE).          *)
(*                                                                         *)
(* A priority is a number, a higher priority a lower number; a byte of     *)
(* priority bits is a set of them.  The byte adbreak[1] of requests is the *)
(* byte breakbytes[1] of the error code while no break file is in use:     *)
(* here that code is the set {0}.  Each step makes one atomic access.      *)
(***************************************************************************)
EXTENDS Integers, FiniteSets

CONSTANTS
    MaxThreads,     \* MAXTHREADS, here the bound on the threads
    AtStart,        \* the number of threads that exist at the start
    Priorities      \* LOCKPRISYM, LOCKPRIPATH, LOCK78MEM, LOCKPRIDEBUG

ASSUME SystemLockAssumption ==
    /\ MaxThreads \in Nat /\ AtStart \in 1 .. MaxThreads
    /\ Priorities \subseteq Nat \ {0} /\ IsFiniteSet(Priorities)

Threads == 0 .. MaxThreads - 1
Nobody == -1
JERR == {0}                 \* the error code, in the byte of the requests

VARIABLES
    systemlock,             \* the state of the lock, 0..5
    systemlocktct,          \* how many threads have yet to check in
    systemlockthreadct,     \* how many threads the leader has marked
    breakbyte,              \* adbreak[1] and breakbytes[1]
    running,                \* TASKSTATERUNNING of each thread
    lockactive,             \* TASKSTATELOCKACTIVE of each thread
    nthreads,               \* NALLTHREADS
    flock,                  \* who holds the lock on the thread tables
    pc,                     \* where each thread is
    loc                     \* the locals of a call to the lock

vars == <<systemlock, systemlocktct, systemlockthreadct, breakbyte, running,
          lockactive, nthreads, flock, pc, loc>>

\* priority, oldpriority, finalpriority, nrunning and nlocked are the locals
\* of jtsystemlock; role is its local leader, or "acceptor" for a call of
\* jtsystemlockaccept, which returns to ret; phase is the n of DOINSTATE; i
\* is a loop counter.
Blank == [role |-> "none", ret |-> "user", phase |-> 0, priority |-> {}, old |-> {},
          final |-> {}, nrunning |-> 0, nlocked |-> 0, i |-> 0]

Init ==
    /\ systemlock = 0 /\ systemlocktct = 0 /\ systemlockthreadct = 0
    /\ breakbyte = {}
    /\ running = [t \in Threads |-> FALSE]
    /\ lockactive = [t \in Threads |-> FALSE]
    /\ nthreads = AtStart
    /\ flock = Nobody
    /\ pc = [t \in Threads |-> "out"]
    /\ loc = [t \in Threads |-> Blank]

Goto(t, to) == pc' = [pc EXCEPT ![t] = to]
shared == <<systemlock, systemlocktct, systemlockthreadct, breakbyte>>
tables == <<running, lockactive, nthreads, flock>>

\* jtsystemlockaccept(LOCKALL), called at ret.
AcceptAll(t, ret) ==
    /\ Goto(t, "await")
    /\ loc' = [loc EXCEPT ![t] = [Blank EXCEPT !.role = "acceptor", !.ret = ret,
                                               !.phase = 2, !.priority = Priorities]]

Top(S) == CHOOSE p \in S : \A q \in S : p <= q      \* LOWESTBIT

-----------------------------------------------------------------------------
\* Slips: plausible bugs, used by no action.

\* LOWESTBIT becomes the highest bit.
Winning_HighestBit(t) == CHOOSE p \in loc[t].final : \A q \in loc[t].final : p >= q

\* jtsettaskrunning does not look at the mark.
SetRunning_Marked(t) ==
    /\ pc[t] = "out" /\ t < nthreads
    /\ running' = [running EXCEPT ![t] = TRUE]
    /\ Goto(t, "entered")
    /\ UNCHANGED <<shared, lockactive, nthreads, flock, loc>>

\* jtsettaskrunning does not wait for state 5 to end.
EnterUser_At5(t) ==
    /\ pc[t] = "entered"
    /\ Goto(t, "user")
    /\ UNCHANGED <<shared, tables, loc>>

\* A wait looks for state 1 only.
Notice_State1(t) ==
    /\ pc[t] = "user"
    /\ systemlock = 1
    /\ AcceptAll(t, "user")
    /\ UNCHANGED <<shared, tables>>

\* 0 T. does not look at the lock once it holds flock.
CreateGo_Unchecked(t) ==
    /\ pc[t] = "creating"
    /\ Goto(t, "filling")
    /\ UNCHANGED <<shared, tables, loc>>

-----------------------------------------------------------------------------
Winning(t) == Top(loc[t].final)

\* executor=winningpri&priority&~oldpriority: the first to ask for what won.
Executor(t) ==
    /\ loc[t].role # "acceptor"
    /\ loc[t].final # {}
    /\ Winning(t) \in loc[t].priority \ loc[t].old

\* The thread that leads DOINSTATE.
Leads(t) == IF loc[t].phase = 5 THEN Executor(t) ELSE loc[t].role = "leader"

-----------------------------------------------------------------------------
\* jtsettaskrunning: the bit is set unless the thread was marked; then the
\* thread waits for the lock to wind down, lest it find itself in state 5.
SetRunning(t) ==
    /\ pc[t] = "out" /\ t < nthreads
    /\ ~lockactive[t]
    /\ running' = [running EXCEPT ![t] = TRUE]
    /\ Goto(t, "entered")
    /\ UNCHANGED <<shared, lockactive, nthreads, flock, loc>>

EnterUser(t) ==
    /\ pc[t] = "entered"
    /\ systemlock # 5
    /\ Goto(t, "user")
    /\ UNCHANGED <<shared, tables, loc>>

\* jtclrtaskrunning: a marked thread takes part in the lock first.
LeaveUser(t) ==
    /\ pc[t] = "user"
    /\ Goto(t, "clr")
    /\ UNCHANGED <<shared, tables, loc>>

ClrRunning(t) ==
    /\ pc[t] = "clr"
    /\ IF lockactive[t]
       THEN AcceptAll(t, "clr") /\ UNCHANGED running
       ELSE /\ running' = [running EXCEPT ![t] = FALSE]
            /\ Goto(t, "out")
            /\ UNCHANGED loc
    /\ UNCHANGED <<shared, lockactive, nthreads, flock>>

\* J code looks for a request at every sentence and wherever it waits: at
\* adbreak[1], or at the state of the lock (the waits of mt.c).
Notice(t) ==
    /\ pc[t] = "user"
    /\ breakbyte # {} \/ systemlock \in 1 .. 2
    /\ AcceptAll(t, "user")
    /\ UNCHANGED <<shared, tables>>

\* 0 T. fails when it is called from a locked function; it takes flock, and
\* lets a lock that has started go first.
CreateThread(t) ==
    /\ pc[t] = "user"
    /\ systemlock <= 2
    /\ Goto(t, "create")
    /\ UNCHANGED <<shared, tables, loc>>

CreateFlock(t) ==
    /\ pc[t] = "create" /\ flock = Nobody
    /\ flock' = t
    /\ Goto(t, "creating")
    /\ UNCHANGED <<shared, running, lockactive, nthreads, loc>>

CreateDefer(t) ==
    /\ pc[t] = "creating" /\ systemlock > 0
    /\ flock' = Nobody
    /\ AcceptAll(t, "create")
    /\ UNCHANGED <<shared, running, lockactive, nthreads>>

\* The check is over: the slot is filled and the thread started.
CreateGo(t) ==
    /\ pc[t] = "creating" /\ systemlock = 0
    /\ Goto(t, "filling")
    /\ UNCHANGED <<shared, tables, loc>>

CreateFill(t) ==
    /\ pc[t] = "filling"
    /\ nthreads' = IF nthreads < MaxThreads THEN nthreads + 1 ELSE nthreads
    /\ flock' = Nobody
    /\ Goto(t, "user")
    /\ UNCHANGED <<shared, running, lockactive, loc>>

-----------------------------------------------------------------------------
\* jtsystemlock.  In a locked function the system has only one thread: the
\* function that is asked for runs at once.
Request(t) ==
    /\ pc[t] = "user"
    /\ IF systemlock > 2
       THEN Goto(t, "direct") /\ UNCHANGED loc
       ELSE /\ Goto(t, "ask")
            /\ \E p \in Priorities :
                 loc' = [loc EXCEPT ![t] = [Blank EXCEPT !.priority = {p}]]
    /\ UNCHANGED <<shared, tables>>

\* The first to come leads.
Lead(t) ==
    /\ pc[t] = "ask" /\ systemlock = 0
    /\ systemlock' = 1
    /\ loc' = [loc EXCEPT ![t].role = "leader", ![t].phase = 2]
    /\ Goto(t, "flock")
    /\ UNCHANGED <<systemlocktct, systemlockthreadct, breakbyte, tables>>

Follow(t) ==
    /\ pc[t] = "ask" /\ systemlock # 0
    /\ loc' = [loc EXCEPT ![t].role = "follower", ![t].phase = 2]
    /\ Goto(t, "await")
    /\ UNCHANGED <<shared, tables>>

LeaderFlock(t) ==
    /\ pc[t] = "flock" /\ flock = Nobody
    /\ flock' = t
    /\ loc' = [loc EXCEPT ![t].nlocked = nthreads, ![t].i = nthreads]
    /\ Goto(t, "mark")
    /\ UNCHANGED <<shared, running, lockactive, nthreads>>

\* Every thread is marked, and counted if it runs.
Mark(t) ==
    LET u == loc[t].i - 1 IN
    /\ pc[t] = "mark" /\ loc[t].i > 0
    /\ lockactive' = [lockactive EXCEPT ![u] = TRUE]
    /\ loc' = [loc EXCEPT ![t].i = u,
                          ![t].nrunning = @ + IF running[u] THEN 1 ELSE 0]
    /\ UNCHANGED <<shared, running, nthreads, flock, pc>>

Marked(t) ==
    /\ pc[t] = "mark" /\ loc[t].i = 0
    /\ flock' = Nobody
    /\ Goto(t, "count")
    /\ UNCHANGED <<shared, running, lockactive, nthreads, loc>>

-----------------------------------------------------------------------------
\* DOINSTATE and DOINSTATEA, for the states 2, 3 and 5.  The one that leads
\* sets the count, moves the state and waits for the count to reach 0; the
\* others wait for the state and check in.
SetCount(t) ==
    /\ pc[t] = "count" /\ loc[t].phase # 4
    /\ systemlocktct' = loc[t].nrunning - 1
    /\ Goto(t, "state")
    /\ UNCHANGED <<systemlock, systemlockthreadct, breakbyte, tables, loc>>

SetState(t) ==
    /\ pc[t] = "state" /\ loc[t].phase # 4
    /\ systemlock' = loc[t].phase
    /\ Goto(t, "expr")
    /\ UNCHANGED <<systemlocktct, systemlockthreadct, breakbyte, tables, loc>>

Await(t) ==
    /\ pc[t] = "await" /\ loc[t].phase # 4
    /\ systemlock = loc[t].phase
    /\ Goto(t, "expr")
    /\ UNCHANGED <<shared, tables, loc>>

Synch(t) == Goto(t, IF Leads(t) THEN "drain" ELSE "checkin")

\* State 2: a requester adds its priority and sees who asked before.
AddRequest(t) ==
    /\ pc[t] = "expr" /\ loc[t].phase = 2
    /\ IF loc[t].role = "acceptor"
       THEN UNCHANGED <<breakbyte, loc>>
       ELSE /\ loc' = [loc EXCEPT ![t].old = breakbyte]
            /\ breakbyte' = breakbyte \union loc[t].priority
    /\ Synch(t)
    /\ UNCHANGED <<systemlock, systemlocktct, systemlockthreadct, tables>>

\* State 3: everybody sees all the requests.
SeeRequests(t) ==
    /\ pc[t] = "expr" /\ loc[t].phase = 3
    /\ loc' = [loc EXCEPT ![t].final = breakbyte]
    /\ Synch(t)
    /\ UNCHANGED <<shared, tables>>

\* State 5: an acceptor sees the error code, the others do not use it.  It is
\* kept in old, which an acceptor has no other use for.
SeeResult(t) ==
    /\ pc[t] = "expr" /\ loc[t].phase = 5
    /\ loc' = [loc EXCEPT ![t].old = IF loc[t].role = "acceptor" THEN breakbyte ELSE @]
    /\ Synch(t)
    /\ UNCHANGED <<shared, tables>>

\* What comes after the state n.  After 3 the leader hands over in state 4,
\* for which the executor waits.
NextPhase(t) ==
    CASE loc[t].phase = 2 -> 3
      [] loc[t].phase = 3 /\ (Leads(t) \/ Executor(t)) -> 4
      [] OTHER -> 5

\* The one that leads sees the count at 0.
Drained(t) ==
    /\ pc[t] = "drain" /\ systemlocktct = 0
    /\ Goto(t, IF loc[t].phase = 5 THEN "clearcode" ELSE "count")
    /\ loc' = [loc EXCEPT ![t].phase = NextPhase(t)]
    /\ UNCHANGED <<shared, tables>>

CheckIn(t) ==
    /\ pc[t] = "checkin"
    /\ systemlocktct' = systemlocktct - 1
    /\ Goto(t, IF loc[t].phase = 5 THEN "wait5" ELSE "await")
    /\ loc' = [loc EXCEPT ![t].phase = NextPhase(t)]
    /\ UNCHANGED <<systemlock, systemlockthreadct, breakbyte, tables>>

-----------------------------------------------------------------------------
\* State 4: the leader hands the counts over, and stops leading.
HandCounts(t) ==
    /\ pc[t] = "count" /\ loc[t].phase = 4
    /\ systemlocktct' = loc[t].nrunning
    /\ systemlockthreadct' = loc[t].nlocked
    /\ Goto(t, "state")
    /\ UNCHANGED <<systemlock, breakbyte, tables, loc>>

HandState(t) ==
    /\ pc[t] = "state" /\ loc[t].phase = 4
    /\ systemlock' = 4
    /\ loc' = [loc EXCEPT ![t].phase = IF Executor(t) THEN 4 ELSE 5,
                          ![t].nrunning = 0, ![t].nlocked = 0]
    /\ Goto(t, "await")
    /\ UNCHANGED <<systemlocktct, systemlockthreadct, breakbyte, tables>>

\* The executor picks them up, removes the requests and runs its function.
PickUp(t) ==
    /\ pc[t] = "await" /\ loc[t].phase = 4
    /\ systemlock = 4
    /\ loc' = [loc EXCEPT ![t].nrunning = systemlocktct, ![t].nlocked = systemlockthreadct]
    /\ Goto(t, "clearrequests")
    /\ UNCHANGED <<shared, tables>>

ClearRequests(t) ==
    /\ pc[t] = "clearrequests"
    /\ breakbyte' = {}
    /\ Goto(t, "function")
    /\ UNCHANGED <<systemlock, systemlocktct, systemlockthreadct, tables, loc>>

\* The function ends, in error or not; its code goes to the shared byte.
Function(t) ==
    /\ pc[t] = "function"
    /\ breakbyte' \in {{}, JERR}
    /\ loc' = [loc EXCEPT ![t].phase = 5]
    /\ Goto(t, "count")
    /\ UNCHANGED <<systemlock, systemlocktct, systemlockthreadct, tables>>

\* The executor winds the lock down: the code, the marks, the state.
ClearCode(t) ==
    /\ pc[t] = "clearcode"
    /\ breakbyte' = {}
    /\ loc' = [loc EXCEPT ![t].i = 0]
    /\ Goto(t, "unmark")
    /\ UNCHANGED <<systemlock, systemlocktct, systemlockthreadct, tables>>

Unmark(t) ==
    /\ pc[t] = "unmark" /\ loc[t].i < loc[t].nlocked
    /\ lockactive' = [lockactive EXCEPT ![loc[t].i] = FALSE]
    /\ loc' = [loc EXCEPT ![t].i = @ + 1]
    /\ UNCHANGED <<shared, running, nthreads, flock, pc>>

\* while(priority!=0): a request that was not served is made again.
AskAgain(t) ==
    LET left == loc[t].priority \ {Winning(t)} IN
    IF left = {}
    THEN loc' = [loc EXCEPT ![t] = Blank] /\ Goto(t, "user")
    ELSE loc' = [loc EXCEPT ![t] = [Blank EXCEPT !.priority = left]] /\ Goto(t, "ask")

Release(t) ==
    /\ pc[t] = "unmark" /\ loc[t].i = loc[t].nlocked
    /\ systemlock' = 0
    /\ AskAgain(t)
    /\ UNCHANGED <<systemlocktct, systemlockthreadct, breakbyte, tables>>

\* Every other thread waits for the state to move off 5.
RequesterLeaves(t) ==
    /\ pc[t] = "wait5" /\ loc[t].role # "acceptor"
    /\ systemlock # 5
    /\ AskAgain(t)
    /\ UNCHANGED <<shared, tables>>

\* An acceptor returns on an error, or when no request is left.
AcceptorLeaves(t) ==
    LET left == loc[t].priority \intersect (loc[t].final \ {Winning(t)}) IN
    /\ pc[t] = "wait5" /\ loc[t].role = "acceptor"
    /\ systemlock # 5
    /\ IF loc[t].old # {} \/ left = {}
       THEN loc' = [loc EXCEPT ![t] = Blank] /\ Goto(t, loc[t].ret)
       ELSE /\ loc' = [loc EXCEPT ![t] = [Blank EXCEPT
                         !.role = "acceptor", !.ret = loc[t].ret, !.phase = 2, !.priority = left]]
            /\ Goto(t, "await")
    /\ UNCHANGED <<shared, tables>>

-----------------------------------------------------------------------------
Step(t) ==      \* the steps a thread takes by itself
    \/ EnterUser(t) \/ ClrRunning(t) \/ Notice(t)
    \/ CreateFlock(t) \/ CreateDefer(t) \/ CreateGo(t) \/ CreateFill(t)
    \/ Lead(t) \/ Follow(t) \/ LeaderFlock(t) \/ Mark(t) \/ Marked(t)
    \/ SetCount(t) \/ SetState(t) \/ Await(t)
    \/ AddRequest(t) \/ SeeRequests(t) \/ SeeResult(t) \/ Drained(t) \/ CheckIn(t)
    \/ HandCounts(t) \/ HandState(t) \/ PickUp(t) \/ ClearRequests(t) \/ Function(t)
    \/ ClearCode(t) \/ Unmark(t) \/ Release(t) \/ RequesterLeaves(t) \/ AcceptorLeaves(t)

Next == \E t \in Threads :
    Step(t) \/ SetRunning(t) \/ LeaveUser(t) \/ CreateThread(t) \/ Request(t)

Spec == Init /\ [][Next]_vars

\* Every thread that the machine runs goes on, J code comes to a point where
\* it looks for a request, and locked functions end.  Nothing makes a thread
\* start, ask, create a thread, or end.
FairSpec == Spec /\ \A t \in Threads : WF_vars(Step(t))

-----------------------------------------------------------------------------
TypeOK ==
    /\ systemlock \in 0 .. 5
    /\ systemlocktct \in 0 .. MaxThreads
    /\ systemlockthreadct \in 0 .. MaxThreads
    /\ breakbyte \subseteq Priorities \union JERR
    /\ running \in [Threads -> BOOLEAN]
    /\ lockactive \in [Threads -> BOOLEAN]
    /\ nthreads \in AtStart .. MaxThreads
    /\ flock \in Threads \union {Nobody}
    /\ \A t \in Threads :
         /\ pc[t] \in {"out", "entered", "user", "clr", "create", "creating", "filling",
                       "direct", "ask", "flock", "mark", "count", "state", "await", "expr",
                       "drain", "checkin", "clearrequests", "function", "clearcode",
                       "unmark", "wait5"}
         /\ loc[t].role \in {"none", "leader", "follower", "acceptor"}
         /\ loc[t].ret \in {"user", "clr", "create"}
         /\ loc[t].phase \in {0, 2, 3, 4, 5}
         /\ loc[t].priority \subseteq Priorities
         /\ loc[t].nrunning \in 0 .. MaxThreads

\* Thread t has checked in at state n.
Arrived(t, n) ==
    CASE n = 2 -> pc[t] = "await" /\ loc[t].phase = 3
      [] n = 3 -> pc[t] = "await" /\ loc[t].phase \in {4, 5}
      [] n = 5 -> pc[t] = "wait5"

\* While a thread waits for the others, the counter is exactly the number of
\* other running threads that have not checked in at this state: threads that
\* start, end, come late from the round before or are created do not disturb
\* it (nrunning and systemlocktct, ct.c:88-97, 132, 141).
CountTrue == \A d \in Threads :
    (Leads(d) /\ pc[d] \in {"expr", "drain"}) =>
        systemlocktct = Cardinality({t \in Threads \ {d} :
                            running[t] /\ ~Arrived(t, loc[d].phase)})

\* adbreak[1] holds requests until state 4 and an error code in state 5, in
\* one byte: nobody takes an error code for a request, or a request that is
\* still there for an error, and nothing is left in the byte for a thread to
\* accept a lock that nobody asks for (ct.c:136-160, 181-185).
OneMeaning ==
    /\ systemlock \in {0, 1} => breakbyte = {}
    /\ \A t \in Threads :
         /\ loc[t].final \subseteq Priorities
         /\ IF loc[t].role = "acceptor" THEN loc[t].old \in {{}, JERR}
                                        ELSE loc[t].old \subseteq Priorities

\* No two threads take themselves for the executor, and none leads a round
\* when another does (ct.c:128, 139).
OneLeads == \A t, u \in Threads :
    /\ (t # u /\ loc[t].phase = loc[u].phase) => ~(Leads(t) /\ Leads(u))
    /\ (t # u /\ Executor(t) /\ Executor(u)) => pc[t] = "wait5" \/ pc[u] = "wait5"

\* In each round one thread leads and waits for exactly those that are still to
\* come (ct.c:88-97, 128-141), and all read the byte in the sense it then has.
BarrierExact == TypeOK /\ CountTrue /\ OneLeads /\ OneMeaning

\* "The RUNNING flag must not be changed while a system lock is in progress,
\* because the lock owner knows how many active tasks there are" (ct.c:345),
\* and no thread appears either (ct.c:1068).
RunningFrozen == [][(systemlock \in 2 .. 4) => UNCHANGED <<running, nthreads>>]_vars

\* The promise of the lock, seen from J code.
Status(t) ==
    CASE pc[t] \in {"out", "entered"} -> "out"
      [] pc[t] \in {"user", "clr", "create", "creating", "filling"} -> "running"
      [] pc[t] \in {"function", "direct"} -> "alone"
      [] OTHER -> "stopped"

FunctionOver == \E e \in Threads : Executor(e) /\ loc[e].phase = 5

Asked(t) ==
    CASE loc[t].role = "acceptor" -> {}
      [] loc[t].role # "acceptor" /\ loc[t].phase = 5 /\ (pc[t] = "wait5" \/ FunctionOver) ->
            loc[t].priority \ {Winning(t)}
      [] OTHER -> loc[t].priority

World == INSTANCE StopTheWorld WITH
    status <- [t \in Threads |-> Status(t)],
    asked <- [t \in Threads |-> Asked(t)]

\* jtsystemlock implements StopTheWorld (ct.c:117-191, 347-365).
StopsTheWorld == World!Spec

\* A lock that was started comes to an end, whatever the other threads are
\* doing when it starts, and threads that end, start, ask or create threads
\* meanwhile do not hold it up (ct.c:117-191).
LockEnds == systemlock # 0 ~> systemlock = 0

\* A request of the highest priority is served, however many others there are
\* (ct.c:139, 169).
TopIsServed == \A t \in Threads :
    (Top(Priorities) \in Asked(t)) ~> (Top(Priorities) \notin Asked(t))
=============================================================================
