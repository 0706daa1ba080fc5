-------------------------- MODULE SystemLockProofs --------------------------
(***************************************************************************)
(* The system lock for any number of threads and any priorities: the       *)
(* inductive invariant IndInv, in four parts. It holds in every reachable  *)
(* state, and gives the barrier, that no thread starts, ends or appears    *)
(* while the lock is held, and that jtsystemlock implements StopTheWorld.  *)
(***************************************************************************)
EXTENDS SystemLock, FiniteSetTheorems, TLAPS

(***************************************************************************)
(* Part 1: where each thread can be in each state of the lock. One thread  *)
(* leads the states 1 to 3, one executes in 4 and 5, and when the count is *)
(* 0 nobody is still to come, so the state moves on only when the others   *)
(* have arrived.                                                           *)
(***************************************************************************)

Requester(t) == loc[t].role \in {"leader", "follower"}
Joiner(t)    == loc[t].role \in {"follower", "acceptor"}
Running      == {t \in Threads : running[t]}

MarkedRunning(t) == {u \in Running : loc[t].i <= u}

\* The thread that leads the states 1 to 3, and hands over in state 4.
LeadsNow(t) ==
    /\ loc[t].role = "leader"
    /\ loc[t].phase \in {2, 3} \/ (loc[t].phase = 4 /\ pc[t] \in {"count", "state"})

\* The other threads that the one that leads still waits for.
Missing(d) == {t \in Threads \ {d} : running[t] /\ ~Arrived(t, loc[d].phase)}

\* A thread that knows the final requests.
Saw(t) ==
    \/ pc[t] \in {"checkin", "drain"} /\ loc[t].phase = 3
    \/ loc[t].phase = 4
    \/ loc[t].phase = 5 /\ pc[t] # "wait5"

\* A thread whose request is among those of this round.
Added(t) ==
    /\ Requester(t)
    /\ \/ pc[t] \in {"checkin", "drain"} /\ loc[t].phase = 2
       \/ loc[t].phase \in {3, 4}
       \/ loc[t].phase = 5 /\ pc[t] # "wait5"

\* The set of requests holds what the threads of this round have asked for.
AllRequests(set) ==
    \A p \in Priorities : p \in set <=> \E t \in Threads : Added(t) /\ p \in loc[t].priority

-----------------------------------------------------------------------------
Positions == {"out", "entered", "user", "clr", "create", "creating", "filling", "ask",
              "flock", "mark", "count", "state", "await", "expr", "drain", "checkin",
              "clearrequests", "function", "clearcode", "unmark", "wait5"}

Locals == [role : {"none", "leader", "follower", "acceptor"}, ret : {"user", "clr", "create"},
           phase : {0, 2, 3, 4, 5}, priority : SUBSET Priorities,
           old : SUBSET (Priorities \union JERR), final : SUBSET Priorities,
           nrunning : 0 .. MaxThreads, nlocked : 0 .. MaxThreads, i : 0 .. MaxThreads]

Typed ==
    /\ systemlock \in 0 .. 5
    /\ systemlocktct \in 0 .. MaxThreads
    /\ systemlockthreadct \in 0 .. MaxThreads
    /\ breakbyte \subseteq Priorities \union JERR
    /\ running \in [Threads -> BOOLEAN]
    /\ lockactive \in [Threads -> BOOLEAN]
    /\ nthreads \in AtStart .. MaxThreads
    /\ flock \in Threads \union {Nobody}
    /\ pc \in [Threads -> Positions]
    /\ loc \in [Threads -> Locals]

\* Where a thread can be in each state of the lock.
Idle(t) ==
    /\ loc[t] = Blank
    /\ \/ pc[t] = "out"
       \/ pc[t] = "entered" /\ systemlock \in {0, 1, 2, 5}
       \/ pc[t] \in {"user", "clr", "create", "creating"} /\ systemlock \in 0 .. 2
       \/ pc[t] = "filling" /\ systemlock \in 0 .. 1

Asking(t) ==
    /\ pc[t] = "ask" /\ systemlock \in 0 .. 2
    /\ loc[t].role = "none" /\ loc[t].phase = 0 /\ loc[t].final = {}

Leading(t) ==
    /\ loc[t].role = "leader"
    /\ \/ pc[t] \in {"flock", "mark", "count", "state"} /\ loc[t].phase = 2 /\ systemlock = 1
       \/ pc[t] \in {"expr", "drain"} /\ loc[t].phase = 2 /\ systemlock = 2
       \/ pc[t] \in {"count", "state"} /\ loc[t].phase = 3 /\ systemlock = 2
       \/ pc[t] \in {"expr", "drain"} /\ loc[t].phase = 3 /\ systemlock = 3
       \/ pc[t] \in {"count", "state"} /\ loc[t].phase = 4 /\ systemlock = 3

Joining(t) ==
    /\ Joiner(t)
    /\ \/ pc[t] = "await" /\ loc[t].phase = 2 /\ systemlock \in 0 .. 2
       \/ pc[t] \in {"expr", "checkin"} /\ loc[t].phase = 2 /\ systemlock = 2
       \/ pc[t] = "await" /\ loc[t].phase = 3 /\ systemlock \in 2 .. 3
       \/ pc[t] \in {"expr", "checkin"} /\ loc[t].phase = 3 /\ systemlock = 3

Executing(t) ==
    /\ Executor(t) /\ Requester(t)
    /\ \/ pc[t] = "await" /\ loc[t].phase = 4 /\ systemlock \in 3 .. 4
       \/ pc[t] \in {"clearrequests", "function"} /\ loc[t].phase = 4 /\ systemlock = 4
       \/ pc[t] \in {"count", "state"} /\ loc[t].phase = 5 /\ systemlock = 4
       \/ pc[t] \in {"expr", "drain", "clearcode", "unmark"} /\ loc[t].phase = 5 /\ systemlock = 5

Waiting(t) ==
    /\ ~Executor(t) /\ loc[t].phase = 5 /\ loc[t].role # "none"
    /\ \/ pc[t] = "await" /\ systemlock \in 3 .. 5
       \/ pc[t] \in {"expr", "checkin"} /\ systemlock = 5
       \/ pc[t] = "wait5" /\ systemlock \in {0, 1, 2, 5}

PlaceOf(t) ==
    /\ Idle(t) \/ Asking(t) \/ Leading(t) \/ Joining(t) \/ Executing(t) \/ Waiting(t)
    /\ loc[t].role = "leader" /\ pc[t] = "await" => systemlock \in 4 .. 5
    /\ loc[t].final # {} => Saw(t) \/ pc[t] = "wait5"

Place == \A t \in Threads : PlaceOf(t)

\* In each state there is one thread that leads or executes.
OneDriver ==
    /\ \A t, u \in Threads :
          /\ LeadsNow(t) /\ LeadsNow(u) => t = u
          /\ Executor(t) /\ Executor(u) => t = u
    /\ systemlock \in 1 .. 3 => \E t \in Threads : LeadsNow(t)
    /\ systemlock = 5 => \E t \in Threads :
          Executor(t) /\ pc[t] \in {"expr", "drain", "clearcode", "unmark"}

\* The barrier: when the count is over the others have arrived.
Passed == \A d, t \in Threads : d # t =>
    /\ pc[d] \in {"count", "state"} /\ loc[d].phase = 3 => pc[t] = "out" \/ Arrived(t, 2)
    /\ pc[d] \in {"count", "state"} /\ loc[d].phase = 4 => pc[t] = "out" \/ Arrived(t, 3)
    /\ pc[d] \in {"clearcode", "unmark"} => pc[t] \in {"out", "entered", "wait5"}

\* The marks, and the number of threads that the lock knows.
AllMarked == \A u \in Threads : lockactive[u] <=> u < nthreads
MarkedFrom(t) ==
    /\ \A u \in Threads : lockactive[u] <=> loc[t].i <= u /\ u < nthreads
    /\ loc[t].nlocked = nthreads /\ loc[t].i <= nthreads

MarksOf(t) ==
    /\ pc[t] \in {"creating", "filling", "mark"} => flock = t
    /\ pc[t] = "flock" => \A u \in Threads : ~lockactive[u]
    /\ pc[t] \in {"mark", "unmark"} => MarkedFrom(t)
    /\ pc[t] \in {"count", "state"} => AllMarked /\ \A u \in Threads : pc[u] # "filling"
    /\ pc[t] \in {"expr", "drain", "clearcode"} => AllMarked
    /\ LeadsNow(t) /\ pc[t] # "flock" => loc[t].nlocked = nthreads
    /\ Executor(t) /\ pc[t] \in {"clearrequests", "function", "clearcode"} =>
          loc[t].nlocked = nthreads
    /\ Executor(t) /\ pc[t] \in {"count", "state", "expr", "drain"} /\ loc[t].phase = 5 =>
          loc[t].nlocked = nthreads

Marks ==
    /\ systemlock = 0 => \A u \in Threads : ~lockactive[u]
    /\ systemlock \in 2 .. 4 => AllMarked
    /\ \A t \in Threads : MarksOf(t)

\* The counts of running threads, and of those that are still to come.
CountsOf(t) ==
    /\ running[t] <=> pc[t] # "out"
    /\ running[t] => t < nthreads
    /\ pc[t] \in {"ask", "flock"} => loc[t].nrunning = 0
    /\ pc[t] = "mark" => loc[t].nrunning = Cardinality(MarkedRunning(t))
    /\ LeadsNow(t) /\ pc[t] \notin {"flock", "mark"} => loc[t].nrunning = Cardinality(Running)
    /\ pc[t] \in {"clearrequests", "function", "count", "state"} =>
          loc[t].nrunning = Cardinality(Running)
    /\ pc[t] \in {"state", "expr", "drain"} /\ Leads(t) /\ loc[t].phase # 4 =>
          systemlocktct = Cardinality(Missing(t))

\* The counts are on their way from the leader to the executor.
Handing(t) ==
    /\ loc[t].phase = 4
    /\ pc[t] = "state" \/ (pc[t] = "await" /\ systemlock = 4)

Counts ==
    /\ \A t \in Threads : CountsOf(t)
    /\ (\E t \in Threads : Handing(t)) =>
          systemlocktct = Cardinality(Running) /\ systemlockthreadct = nthreads

\* The byte of the requests and of the error code.
BytesOf(t) ==
    /\ pc[t] = "function" => breakbyte = {}
    /\ pc[t] \in {"count", "state"} /\ loc[t].phase = 5 => breakbyte \in {{}, JERR}
    /\ pc[t] = "unmark" => breakbyte = {}
    /\ IF loc[t].role = "acceptor" THEN loc[t].old \in {{}, JERR}
                                   ELSE loc[t].old \subseteq Priorities

Bytes ==
    /\ systemlock \in 0 .. 1 => breakbyte = {}
    /\ systemlock \in 2 .. 3 => breakbyte \subseteq Priorities
    /\ systemlock = 5 => breakbyte \in {{}, JERR}
    /\ \A t \in Threads : BytesOf(t)

\* Who has asked for what, as the executor will see it.
Requests ==
    /\ systemlock \in 2 .. 3 => AllRequests(breakbyte)
    /\ systemlock \in 3 .. 4 => \A t \in Threads : Saw(t) => AllRequests(loc[t].final)
    /\ systemlock \in 2 .. 3 => \A t, u \in Threads :
          t # u /\ Added(t) /\ Added(u) =>
             \A p \in loc[t].priority \ loc[t].old : p \notin loc[u].priority \ loc[u].old

IndInv == Typed /\ Place /\ OneDriver /\ Passed /\ Marks /\ Counts /\ Bytes /\ Requests

Act(t) ==
    Step(t) \/ SetRunning(t) \/ LeaveUser(t) \/ CreateThread(t) \/ Request(t)
-----------------------------------------------------------------------------

\* Sets of threads are finite, and their sizes are numbers of threads.
LEMMA Finite ==
    ASSUME NEW S \in SUBSET Threads
    PROVE  IsFiniteSet(S) /\ Cardinality(S) \in 0 .. MaxThreads
<1>1. IsFiniteSet(Threads) /\ Cardinality(Threads) = MaxThreads
  <2>1. CASE MaxThreads = 0
    BY <2>1, SystemLockAssumption
  <2>2. CASE MaxThreads > 0
    BY <2>2, SystemLockAssumption, FS_Interval DEF Threads
  <2> QED BY <2>1, <2>2, SystemLockAssumption
<1>2. IsFiniteSet(S) /\ Cardinality(S) <= Cardinality(Threads)
  BY <1>1, FS_Subset
<1>3. Cardinality(S) \in Nat
  BY <1>2, FS_CardinalityType
<1> QED BY <1>1, <1>2, <1>3, SystemLockAssumption

\* A thread changes nothing of the others.
LEMMA Others ==
    ASSUME Typed, NEW t \in Threads, Act(t)
    PROVE  \A u \in Threads \ {t} : pc'[u] = pc[u] /\ loc'[u] = loc[u]
<1> USE DEF Typed, Goto
<1>1. CASE SetRunning(t)
  BY <1>1 DEF SetRunning, shared
<1>2. CASE EnterUser(t)
  BY <1>2 DEF EnterUser, shared, tables
<1>3. CASE LeaveUser(t)
  BY <1>3 DEF LeaveUser, shared, tables
<1>4. CASE ClrRunning(t)
  BY <1>4 DEF ClrRunning, AcceptAll, shared
<1>5. CASE Notice(t)
  BY <1>5 DEF Notice, AcceptAll, shared, tables
<1>6. CASE CreateThread(t)
  BY <1>6 DEF CreateThread, shared, tables
<1>7. CASE CreateFlock(t)
  BY <1>7 DEF CreateFlock, shared
<1>8. CASE CreateDefer(t)
  BY <1>8 DEF CreateDefer, AcceptAll, shared
<1>9. CASE CreateGo(t)
  BY <1>9 DEF CreateGo, shared, tables
<1>10. CASE CreateFill(t)
  BY <1>10 DEF CreateFill, shared
<1>11. CASE Request(t)
  BY <1>11 DEF Request, shared, tables
<1>12. CASE Lead(t)
  BY <1>12 DEF Lead, tables
<1>13. CASE Follow(t)
  BY <1>13 DEF Follow, shared, tables
<1>14. CASE LeaderFlock(t)
  BY <1>14 DEF LeaderFlock, shared
<1>15. CASE Mark(t)
  BY <1>15 DEF Mark, shared
<1>16. CASE Marked(t)
  BY <1>16 DEF Marked, shared
<1>17. CASE SetCount(t)
  BY <1>17 DEF SetCount, tables
<1>18. CASE SetState(t)
  BY <1>18 DEF SetState, tables
<1>19. CASE Await(t)
  BY <1>19 DEF Await, shared, tables
<1>20. CASE AddRequest(t)
  BY <1>20 DEF AddRequest, Synch, tables
<1>21. CASE SeeRequests(t)
  BY <1>21 DEF SeeRequests, Synch, shared, tables
<1>22. CASE SeeResult(t)
  BY <1>22 DEF SeeResult, Synch, shared, tables
<1>23. CASE Drained(t)
  BY <1>23 DEF Drained, shared, tables
<1>24. CASE CheckIn(t)
  BY <1>24 DEF CheckIn, tables
<1>25. CASE HandCounts(t)
  BY <1>25 DEF HandCounts, tables
<1>26. CASE HandState(t)
  BY <1>26 DEF HandState, tables
<1>27. CASE PickUp(t)
  BY <1>27 DEF PickUp, shared, tables
<1>28. CASE ClearRequests(t)
  BY <1>28 DEF ClearRequests, tables
<1>29. CASE Function(t)
  BY <1>29 DEF Function, tables
<1>30. CASE ClearCode(t)
  BY <1>30 DEF ClearCode, tables
<1>31. CASE Unmark(t)
  BY <1>31 DEF Unmark, shared
<1>32. CASE Release(t)
  BY <1>32 DEF Release, AskAgain, tables
<1>33. CASE RequesterLeaves(t)
  BY <1>33 DEF RequesterLeaves, AskAgain, shared, tables
<1>34. CASE AcceptorLeaves(t)
  BY <1>34 DEF AcceptorLeaves, shared, tables
<1> QED BY <1>1, <1>2, <1>3, <1>4, <1>5, <1>6, <1>7, <1>8, <1>9, <1>10, <1>11, <1>12, <1>13,
         <1>14, <1>15, <1>16, <1>17, <1>18, <1>19, <1>20, <1>21, <1>22, <1>23, <1>24, <1>25,
         <1>26, <1>27, <1>28, <1>29, <1>30, <1>31, <1>32, <1>33, <1>34
         DEF Step, Act

\* What some of the steps do to the locals of a thread, field by field.
LEMMA ClrRunningStep ==
    ASSUME Typed, NEW t \in Threads, ClrRunning(t)
    PROVE  \/ /\ lockactive[t] /\ pc'[t] = "await" /\ running' = running
              /\ loc'[t].role = "acceptor" /\ loc'[t].phase = 2 /\ loc'[t].final = {}
              /\ loc'[t].old = {}
           \/ /\ ~lockactive[t] /\ pc'[t] = "out" /\ loc'[t] = loc[t]
              /\ running' = [running EXCEPT ![t] = FALSE]
<1>1. CASE lockactive[t]
  <2>1. /\ loc'[t] = [Blank EXCEPT !.role = "acceptor", !.ret = "clr", !.phase = 2,
                                   !.priority = Priorities]
        /\ pc'[t] = "await" /\ running' = running
    BY <1>1 DEF Typed, ClrRunning, AcceptAll, Goto
  <2> QED BY <1>1, <2>1 DEF Blank
<1>2. CASE ~lockactive[t]
  BY <1>2 DEF Typed, ClrRunning, Goto
<1> QED BY <1>1, <1>2

\* State 2: the byte before the request is kept in old.
LEMMA AddRequestStep ==
    ASSUME Typed, NEW t \in Threads, AddRequest(t)
    PROVE  /\ loc[t].phase = 2 /\ loc'[t].phase = 2 /\ loc'[t].role = loc[t].role
           /\ loc'[t].final = loc[t].final /\ loc'[t].priority = loc[t].priority
           /\ loc'[t].nrunning = loc[t].nrunning /\ loc'[t].nlocked = loc[t].nlocked
           /\ loc'[t].old = IF loc[t].role = "acceptor" THEN loc[t].old ELSE breakbyte
           /\ breakbyte' = IF loc[t].role = "acceptor" THEN breakbyte
                           ELSE breakbyte \union loc[t].priority
           /\ pc'[t] = IF loc[t].role = "leader" THEN "drain" ELSE "checkin"
<1>typ. loc[t] \in Locals
  BY DEF Typed
<1>1. pc'[t] = IF loc[t].role = "leader" THEN "drain" ELSE "checkin"
  BY DEF AddRequest, Typed, Synch, Goto, Leads
<1>2. CASE loc[t].role = "acceptor"
  BY <1>1, <1>2 DEF AddRequest
<1>3. CASE loc[t].role # "acceptor"
  <2>1. loc'[t] = [loc[t] EXCEPT !.old = breakbyte] /\ loc[t].phase = 2
        /\ breakbyte' = breakbyte \union loc[t].priority
    BY <1>3 DEF AddRequest, Typed
  <2> QED BY <1>typ, <1>1, <1>3, <2>1 DEF Locals
<1> QED BY <1>2, <1>3

\* State 4: the counts leave the leader, and who executes stays the same.
LEMMA HandStateStep ==
    ASSUME Typed, NEW t \in Threads, HandState(t)
    PROVE  /\ pc'[t] = "await" /\ systemlock' = 4 /\ loc'[t].role = loc[t].role
           /\ loc'[t].final = loc[t].final /\ loc'[t].priority = loc[t].priority
           /\ loc'[t].old = loc[t].old /\ (Executor(t)' <=> Executor(t))
           /\ loc'[t].phase = IF Executor(t) THEN 4 ELSE 5
<1>1. /\ loc'[t] = [loc[t] EXCEPT !.phase = IF Executor(t) THEN 4 ELSE 5,
                                  !.nrunning = 0, !.nlocked = 0]
      /\ pc'[t] = "await" /\ systemlock' = 4 /\ loc[t] \in Locals
  BY DEF HandState, Typed, Goto
<1>2. /\ loc'[t].role = loc[t].role /\ loc'[t].final = loc[t].final
      /\ loc'[t].priority = loc[t].priority /\ loc'[t].old = loc[t].old
      /\ loc'[t].phase = IF Executor(t) THEN 4 ELSE 5
  BY <1>1 DEF Locals
<1> QED BY <1>1, <1>2 DEF Executor, Winning

\* An acceptor returns, or waits for the next round.
LEMMA AcceptorLeavesStep ==
    ASSUME Typed, NEW t \in Threads, AcceptorLeaves(t)
    PROVE  \/ loc'[t] = Blank /\ pc'[t] = loc[t].ret
           \/ /\ loc'[t].role = "acceptor" /\ loc'[t].phase = 2 /\ loc'[t].final = {}
              /\ loc'[t].old = {} /\ pc'[t] = "await"
<1> DEFINE left == loc[t].priority \intersect (loc[t].final \ {Winning(t)})
<1>1. CASE loc[t].old # {} \/ left = {}
  BY <1>1 DEF Typed, AcceptorLeaves, Goto
<1>2. CASE ~(loc[t].old # {} \/ left = {})
  <2>1. /\ loc' = [loc EXCEPT ![t] = [Blank EXCEPT !.role = "acceptor", !.ret = loc[t].ret,
                                         !.phase = 2, !.priority = left]]
        /\ pc' = [pc EXCEPT ![t] = "await"]
    BY <1>2 DEF AcceptorLeaves, Goto
  <2> QED BY <2>1 DEF Typed, Blank
<1> QED BY <1>1, <1>2

\* Who checks in is waited for: it is one of those that the count counts.
LEMMA Awaited ==
    ASSUME IndInv, NEW t \in Threads, pc[t] = "checkin"
    PROVE  \E d \in Threads \ {t} :
              /\ pc[d] \in {"expr", "drain"} /\ Leads(d) /\ loc[d].phase = loc[t].phase
              /\ t \in Missing(d) /\ systemlocktct = Cardinality(Missing(d))
              /\ loc[t].phase \in {2, 3, 5}
<1>1. \/ Joining(t) /\ loc[t].phase \in {2, 3} /\ systemlock = loc[t].phase
      \/ Waiting(t) /\ loc[t].phase = 5 /\ systemlock = 5
  BY DEF IndInv, Place, PlaceOf, Idle, Asking, Leading, Joining, Executing, Waiting, Blank
<1>2. ASSUME NEW d \in Threads \ {t}, pc[d] \in {"expr", "drain"}, Leads(d),
             loc[d].phase = loc[t].phase
      PROVE  t \in Missing(d) /\ systemlocktct = Cardinality(Missing(d))
  <2>1. running[t] /\ ~Arrived(t, loc[d].phase)
    BY <1>1, <1>2 DEF IndInv, Counts, CountsOf, Arrived
  <2>2. t \in Missing(d)
    BY <1>2, <2>1 DEF Missing
  <2>3. systemlocktct = Cardinality(Missing(d))
    BY <1>1, <1>2 DEF IndInv, Counts, CountsOf
  <2> QED BY <2>2, <2>3
<1>3. CASE Joining(t) /\ loc[t].phase \in {2, 3} /\ systemlock = loc[t].phase
  <2>1. PICK d \in Threads : LeadsNow(d)
    BY <1>3 DEF IndInv, OneDriver
  <2>2. d # t
    BY <1>3, <2>1 DEF LeadsNow, Joining, Joiner
  <2>3. Leading(d)
    BY <1>3, <2>1
       DEF LeadsNow, IndInv, Place, PlaceOf, Idle, Asking, Joining, Joiner, Executing, Waiting,
           Blank
  <2>4. ~(pc[d] \in {"count", "state"} /\ loc[d].phase \in {3, 4})
    <3>1. ~Arrived(t, 2) /\ ~Arrived(t, 3) /\ pc[t] # "out"
      BY <1>3 DEF Arrived
    <3> QED BY <2>2, <3>1 DEF IndInv, Passed
  <2>5. pc[d] \in {"expr", "drain"} /\ Leads(d) /\ loc[d].phase = loc[t].phase
    BY <1>3, <2>3, <2>4 DEF Leading, Leads
  <2> QED BY <1>2, <1>3, <2>2, <2>5
<1>4. CASE Waiting(t) /\ loc[t].phase = 5 /\ systemlock = 5
  <2>1. PICK d \in Threads : Executor(d) /\ pc[d] \in {"expr", "drain", "clearcode", "unmark"}
    BY <1>4 DEF IndInv, OneDriver
  <2>2. d # t
    BY <1>4, <2>1 DEF Waiting
  <2>3. pc[d] \in {"expr", "drain"}
    BY <2>1, <2>2 DEF IndInv, Passed
  <2>4. loc[d].phase = 5
    BY <1>4, <2>1, <2>3
       DEF IndInv, Place, PlaceOf, Idle, Asking, Leading, Joining, Executing, Waiting, Blank,
           Executor
  <2> QED BY <1>2, <1>4, <2>1, <2>2, <2>3, <2>4 DEF Leads
<1> QED BY <1>1, <1>3, <1>4

\* The count of those that a thread waits for is of some when it is waited for.
LEMMA CountedOnce ==
    ASSUME NEW S \in SUBSET Threads, NEW t \in S
    PROVE  Cardinality(S) >= 1 /\ Cardinality(S \ {t}) = Cardinality(S) - 1
BY Finite, FS_RemoveElement, FS_EmptySet

\* The locals that the steps build are locals.
LEMMA Records ==
    /\ Blank \in Locals
    /\ \A r \in {"user", "clr", "create"}, p \in SUBSET Priorities :
         [Blank EXCEPT !.role = "acceptor", !.ret = r, !.phase = 2, !.priority = p] \in Locals
    /\ \A p \in SUBSET Priorities : [Blank EXCEPT !.priority = p] \in Locals
<1>1. Blank \in Locals
  BY SystemLockAssumption DEF Locals, Blank
<1>2. ASSUME NEW r \in {"user", "clr", "create"}, NEW p \in SUBSET Priorities
      PROVE  [Blank EXCEPT !.role = "acceptor", !.ret = r, !.phase = 2, !.priority = p] \in Locals
  BY <1>1, <1>2 DEF Locals
<1>3. ASSUME NEW p \in SUBSET Priorities PROVE [Blank EXCEPT !.priority = p] \in Locals
  BY <1>1 DEF Locals
<1> QED BY <1>1, <1>2, <1>3

\* The leader marks one thread more, and counts it if it runs.
LEMMA MarkOne ==
    ASSUME IndInv, NEW t \in Threads, pc[t] = "mark", loc[t].i > 0
    PROVE  LET u == loc[t].i - 1
               n == loc[t].nrunning + IF running[u] THEN 1 ELSE 0
           IN  u \in Threads /\ u < nthreads /\ n = Cardinality({w \in Running : u <= w})
               /\ n \in 0 .. MaxThreads
<1> DEFINE u == loc[t].i - 1
           S == MarkedRunning(t)
           T == {w \in Running : u <= w}
<1>typ. loc[t].i \in 0 .. MaxThreads /\ loc[t].i <= nthreads /\ nthreads \in 0 .. MaxThreads
  BY SystemLockAssumption DEF IndInv, Typed, Locals, Marks, MarksOf, MarkedFrom
<1>1. u \in Threads /\ u < nthreads
  BY <1>typ, SystemLockAssumption DEF Threads
<1>2. S \in SUBSET Threads /\ T \in SUBSET Threads /\ u \notin S
  BY <1>typ, <1>1 DEF MarkedRunning, Running, Threads
<1>3. T = IF running[u] THEN S \union {u} ELSE S
  BY <1>typ, <1>1 DEF MarkedRunning, Running, Threads
<1>4. loc[t].nrunning = Cardinality(S)
  BY DEF IndInv, Counts, CountsOf
<1>5. IsFiniteSet(S) /\ Cardinality(S) \in Nat /\ Cardinality(T) \in 0 .. MaxThreads
  BY <1>2, Finite
<1>6. Cardinality(T) = Cardinality(S) + IF running[u] THEN 1 ELSE 0
  <2>1. CASE running[u]
    BY <1>2, <1>3, <1>5, <2>1, FS_AddElement
  <2>2. CASE ~running[u]
    <3>1. Cardinality(T) = Cardinality(S)
      BY <1>3, <2>2
    <3>2. (IF running[u] THEN 1 ELSE 0) = 0
      BY <2>2
    <3> QED BY <1>5, <3>1, <3>2
  <2> QED BY <2>1, <2>2
<1> QED BY <1>1, <1>4, <1>5, <1>6

\* Every step keeps the types; the count does not pass 0 since who checks in is counted.
LEMMA TypedKept ==
    ASSUME IndInv, NEW t \in Threads, Act(t)
    PROVE  Typed'
<1>typ. Typed /\ loc[t] \in Locals
  BY DEF IndInv, Typed
<1>1. CASE SetRunning(t)
  BY <1>1, <1>typ DEF SetRunning, Typed, Positions, Goto, shared
<1>2. CASE EnterUser(t)
  BY <1>2, <1>typ DEF EnterUser, Typed, Positions, Goto, shared, tables
<1>3. CASE LeaveUser(t)
  BY <1>3, <1>typ DEF LeaveUser, Typed, Positions, Goto, shared, tables
<1>4. CASE ClrRunning(t)
  <2>1. CASE lockactive[t]
    <3>1. [Blank EXCEPT !.role = "acceptor", !.ret = "clr", !.phase = 2, !.priority = Priorities]
             \in Locals
      BY Records
    <3> QED BY <1>4, <1>typ, <2>1, <3>1
             DEF ClrRunning, AcceptAll, Typed, Positions, Goto, shared
  <2>2. CASE ~lockactive[t]
    BY <1>4, <1>typ, <2>2 DEF ClrRunning, Typed, Positions, Goto, shared
  <2> QED BY <2>1, <2>2
<1>5. CASE Notice(t)
  BY <1>5, <1>typ, Records DEF Notice, AcceptAll, Typed, Positions, Goto, shared, tables, Nobody
<1>6. CASE CreateThread(t)
  BY <1>6, <1>typ DEF CreateThread, Typed, Positions, Goto, shared, tables
<1>7. CASE CreateFlock(t)
  BY <1>7, <1>typ DEF CreateFlock, Typed, Positions, Goto, shared
<1>8. CASE CreateDefer(t)
  BY <1>8, <1>typ, Records DEF CreateDefer, AcceptAll, Typed, Positions, Goto, shared, Nobody
<1>9. CASE CreateGo(t)
  BY <1>9, <1>typ DEF CreateGo, Typed, Positions, Goto, shared, tables
<1>10. CASE CreateFill(t)
  BY <1>10, <1>typ, SystemLockAssumption DEF CreateFill, Nobody, Typed, Positions, Goto, shared
<1>11. CASE Request(t)
  <2>1. systemlock <= 2
    BY <1>11
       DEF Request, IndInv, Typed, Place, PlaceOf, Idle, Asking, Leading, Joining, Executing,
           Waiting
  <2>2. PICK p \in Priorities : loc' = [loc EXCEPT ![t] = [Blank EXCEPT !.priority = {p}]]
    BY <1>11, <1>typ, <2>1 DEF Request, Typed
  <2>3. [Blank EXCEPT !.priority = {p}] \in Locals
    BY Records
  <2> QED BY <1>11, <1>typ, <2>1, <2>2, <2>3 DEF Request, Typed, Positions, Goto, shared, tables
<1>12. CASE Lead(t)
  <2>1. [loc[t] EXCEPT !.role = "leader", !.phase = 2] \in Locals
    BY <1>12, <1>typ DEF Lead, Locals
  <2> QED BY <1>12, <1>typ, <2>1 DEF Lead, Typed, Positions, Goto, tables
<1>13. CASE Follow(t)
  <2>1. [loc[t] EXCEPT !.role = "follower", !.phase = 2] \in Locals
    BY <1>13, <1>typ DEF Follow, Locals
  <2> QED BY <1>13, <1>typ, <2>1 DEF Follow, Typed, Positions, Goto, shared, tables
<1>14. CASE LeaderFlock(t)
  <2>0. nthreads \in 0 .. MaxThreads
    BY <1>typ, SystemLockAssumption DEF Typed
  <2>1. [loc[t] EXCEPT !.nlocked = nthreads, !.i = nthreads] \in Locals
    BY <1>typ, <2>0 DEF Locals
  <2> QED BY <1>14, <1>typ, <2>1 DEF LeaderFlock, Typed, Positions, Goto, shared
<1>15. CASE Mark(t)
  <2> DEFINE n == loc[t].nrunning + IF running[loc[t].i - 1] THEN 1 ELSE 0
  <2>0. loc[t].i - 1 \in Threads /\ loc[t].i - 1 \in 0 .. MaxThreads
    BY <1>15, <1>typ, SystemLockAssumption DEF Mark, Locals, Threads
  <2>1. n \in 0 .. MaxThreads
    BY <1>15, <2>0, MarkOne DEF Mark
  <2>2. [loc[t] EXCEPT !.i = loc[t].i - 1, !.nrunning = n] \in Locals
    BY <1>typ, <2>0, <2>1 DEF Locals
  <2> QED BY <1>15, <1>typ, <2>0, <2>2 DEF Mark, Typed, Positions, shared
<1>16. CASE Marked(t)
  BY <1>16, <1>typ DEF Marked, Typed, Positions, Goto, shared, Nobody
<1>17. CASE SetCount(t)
  <2>1. loc[t].nrunning = Cardinality(Running) /\ t \in Running
    BY <1>17 DEF SetCount, IndInv, Counts, CountsOf, Running
  <2>2. systemlocktct' \in 0 .. MaxThreads
    BY <1>17, <2>1, CountedOnce, Finite, SystemLockAssumption DEF SetCount, Running
  <2> QED BY <1>17, <1>typ, <2>2 DEF SetCount, Typed, Positions, Goto, tables
<1>18. CASE SetState(t)
  BY <1>18, <1>typ DEF SetState, Locals, Typed, Positions, Goto, tables
<1>19. CASE Await(t)
  BY <1>19, <1>typ DEF Await, Typed, Positions, Goto, shared, tables
<1>20. CASE AddRequest(t)
  <2>1. [loc[t] EXCEPT !.old = breakbyte] \in Locals
    BY <1>20, <1>typ DEF AddRequest, Locals, Typed
  <2>2. loc' \in [Threads -> Locals]
    BY <1>20, <1>typ, <2>1 DEF AddRequest, Typed
  <2>3. breakbyte' \subseteq breakbyte \union loc[t].priority /\ loc[t].priority \subseteq Priorities
    BY <1>20, <1>typ DEF AddRequest, Locals
  <2>4. pc' \in [Threads -> Positions]
    BY <1>20, <1>typ DEF AddRequest, Synch, Goto, Typed, Positions
  <2> QED BY <1>20, <1>typ, <2>2, <2>3, <2>4 DEF AddRequest, Typed, tables
<1>21. CASE SeeRequests(t)
  <2>1. breakbyte \subseteq Priorities
    BY <1>21
       DEF SeeRequests, IndInv, Place, PlaceOf, Idle, Asking, Leading, Joining, Executing,
           Waiting, Bytes, BytesOf, Blank
  <2>2. [loc[t] EXCEPT !.final = breakbyte] \in Locals
    BY <1>typ, <2>1 DEF Locals
  <2> QED BY <1>21, <1>typ, <2>2 DEF SeeRequests, Synch, Typed, Positions, Goto, shared, tables
<1>22. CASE SeeResult(t)
  <2>1. [loc[t] EXCEPT !.old = breakbyte] \in Locals /\ [loc[t] EXCEPT !.old = @] \in Locals
    BY <1>typ DEF Typed, Locals
  <2> QED BY <1>22, <1>typ, <2>1 DEF SeeResult, Synch, Typed, Positions, Goto, shared, tables
<1>23. CASE Drained(t)
  <2>1. [loc[t] EXCEPT !.phase = NextPhase(t)] \in Locals
    BY <1>typ DEF Locals, NextPhase
  <2> QED BY <1>23, <1>typ, <2>1 DEF Drained, Typed, Positions, Goto, shared, tables
<1>24. CASE CheckIn(t)
  <2>1. [loc[t] EXCEPT !.phase = NextPhase(t)] \in Locals
    BY <1>typ DEF Locals, NextPhase
  <2>2. systemlocktct >= 1
    <3>1. PICK d \in Threads : t \in Missing(d) /\ systemlocktct = Cardinality(Missing(d))
      BY <1>24, Awaited DEF CheckIn
    <3> QED BY <3>1, CountedOnce DEF Missing
  <2> QED BY <1>24, <1>typ, <2>1, <2>2, SystemLockAssumption
           DEF CheckIn, Typed, Positions, Goto, tables
<1>25. CASE HandCounts(t)
  BY <1>25, <1>typ DEF HandCounts, Locals, Typed, Positions, Goto, tables
<1>26. CASE HandState(t)
  <2>1. [loc[t] EXCEPT !.phase = IF Executor(t) THEN 4 ELSE 5, !.nrunning = 0,
           !.nlocked = 0] \in Locals
    <3> DEFINE n == IF Executor(t) THEN 4 ELSE 5
    <3>1. n \in {0, 2, 3, 4, 5} /\ 0 \in 0 .. MaxThreads
      BY SystemLockAssumption
    <3> HIDE DEF n
    <3>2. [loc[t] EXCEPT !.phase = n, !.nrunning = 0, !.nlocked = 0] \in Locals
      BY <1>typ, <3>1 DEF Locals
    <3> QED BY <3>2 DEF n
  <2> QED BY <1>26, <1>typ, <2>1 DEF HandState, Typed, Positions, Goto, tables
<1>27. CASE PickUp(t)
  <2>1. [loc[t] EXCEPT !.nrunning = systemlocktct, !.nlocked = systemlockthreadct] \in Locals
    BY <1>typ DEF Locals, Typed
  <2> QED BY <1>27, <1>typ, <2>1 DEF PickUp, Typed, Positions, Goto, shared, tables
<1>28. CASE ClearRequests(t)
  BY <1>28, <1>typ DEF ClearRequests, Typed, Positions, Goto, tables
<1>29. CASE Function(t)
  <2>1. [loc[t] EXCEPT !.phase = 5] \in Locals
    BY <1>29, <1>typ DEF Function, Locals
  <2> QED BY <1>29, <1>typ, <2>1 DEF Function, Typed, Positions, Goto, tables, JERR
<1>30. CASE ClearCode(t)
  <2>1. [loc[t] EXCEPT !.i = 0] \in Locals
    BY <1>30, <1>typ, SystemLockAssumption DEF ClearCode, Locals
  <2> QED BY <1>30, <1>typ, <2>1 DEF ClearCode, Typed, Positions, Goto, tables
<1>31. CASE Unmark(t)
  <2>1. [loc[t] EXCEPT !.i = loc[t].i + 1] \in Locals
    BY <1>31, <1>typ, SystemLockAssumption DEF Unmark, Locals
  <2> QED BY <1>31, <1>typ, <2>1 DEF Unmark, Typed, Positions, shared
<1>32. CASE Release(t)
  <2>1. loc[t].priority \ {Winning(t)} \in SUBSET Priorities
    BY <1>typ DEF Locals
  <2>2. loc' \in [Threads -> Locals] /\ pc' \in [Threads -> Positions]
    <3>1. CASE loc[t].priority \ {Winning(t)} = {}
      BY <1>32, <1>typ, <3>1, Records DEF Release, AskAgain, Typed, Positions, Goto
    <3>2. CASE loc[t].priority \ {Winning(t)} # {}
      BY <1>32, <1>typ, <2>1, <3>2, Records DEF Release, AskAgain, Typed, Positions, Goto
    <3> QED BY <3>1, <3>2
  <2> QED BY <1>32, <1>typ, <2>2 DEF Release, Typed, tables
<1>33. CASE RequesterLeaves(t)
  <2>1. loc[t].priority \ {Winning(t)} \in SUBSET Priorities
    BY <1>typ DEF Locals
  <2>2. loc' \in [Threads -> Locals] /\ pc' \in [Threads -> Positions]
    <3>1. CASE loc[t].priority \ {Winning(t)} = {}
      BY <1>33, <1>typ, <3>1, Records DEF RequesterLeaves, AskAgain, Typed, Positions, Goto
    <3>2. CASE loc[t].priority \ {Winning(t)} # {}
      BY <1>33, <1>typ, <2>1, <3>2, Records DEF RequesterLeaves, AskAgain, Typed, Positions, Goto
    <3> QED BY <3>1, <3>2
  <2> QED BY <1>33, <1>typ, <2>2 DEF RequesterLeaves, Typed, shared, tables
<1>34. CASE AcceptorLeaves(t)
  <2>1. loc[t].priority \intersect (loc[t].final \ {Winning(t)}) \in SUBSET Priorities
          /\ loc[t].ret \in {"user", "clr", "create"}
    BY <1>typ DEF Locals
  <2> DEFINE left == loc[t].priority \intersect (loc[t].final \ {Winning(t)})
  <2>2. loc' \in [Threads -> Locals] /\ pc' \in [Threads -> Positions]
    <3>1. CASE loc[t].old # {} \/ left = {}
      BY <1>34, <1>typ, <2>1, <3>1, Records DEF AcceptorLeaves, Typed, Positions, Goto
    <3>2. CASE ~(loc[t].old # {} \/ left = {})
      <4>1. [Blank EXCEPT !.role = "acceptor", !.ret = loc[t].ret, !.phase = 2, !.priority = left]
               \in Locals
        BY <2>1, Records
      <4> QED BY <1>34, <1>typ, <3>2, <4>1 DEF AcceptorLeaves, Typed, Positions, Goto
    <3> QED BY <3>1, <3>2
  <2> QED BY <1>34, <1>typ, <2>2 DEF AcceptorLeaves, Typed, shared, tables
<1> QED BY <1>1, <1>2, <1>3, <1>4, <1>5, <1>6, <1>7, <1>8, <1>9, <1>10, <1>11, <1>12, <1>13,
         <1>14, <1>15, <1>16, <1>17, <1>18, <1>19, <1>20, <1>21, <1>22, <1>23, <1>24, <1>25,
         <1>26, <1>27, <1>28, <1>29, <1>30, <1>31, <1>32, <1>33, <1>34
         DEF Step, Act

\* The thread that acts is where it can be.
LEMMA OwnPlace ==
    ASSUME IndInv, Typed', NEW t \in Threads, Act(t)
    PROVE  PlaceOf(t)'
<1> USE DEF PlaceOf, Idle, Asking, Leading, Joining, Joiner, Requester, Executing, Waiting, Saw
<1>typ. Typed /\ Typed' /\ loc[t] \in Locals
  BY DEF IndInv, Typed
<1>pl. PlaceOf(t)
  BY DEF IndInv, Place
<1>1. CASE SetRunning(t)
  <2>1. systemlock \notin 2 .. 4
    BY <1>1 DEF SetRunning, IndInv, Marks, MarksOf, AllMarked
  <2> QED BY <1>1, <1>typ, <1>pl, <2>1
           DEF SetRunning, Typed, Executor, Winning, Blank, Goto, shared
<1>2. CASE EnterUser(t)
  BY <1>2, <1>typ, <1>pl DEF EnterUser, Typed, Executor, Winning, Blank, Goto, shared
<1>3. CASE LeaveUser(t)
  BY <1>3, <1>typ, <1>pl DEF LeaveUser, Typed, Executor, Winning, Blank, Goto, shared
<1>4. CASE ClrRunning(t)
  <2>0. systemlock \in 0 .. 2 /\ systemlock' = systemlock /\ loc[t] = Blank
    BY <1>4, <1>pl DEF ClrRunning, Blank, shared, Executor
  <2> QED BY <1>4, <1>typ, <2>0, ClrRunningStep DEF Blank
<1>5. CASE Notice(t)
  BY <1>5, <1>typ, <1>pl
     DEF Notice, Typed, Executor, Winning, Blank, Goto, AcceptAll, shared
<1>6. CASE CreateThread(t)
  BY <1>6, <1>typ, <1>pl DEF CreateThread, Typed, Executor, Winning, Blank, Goto, shared
<1>7. CASE CreateFlock(t)
  BY <1>7, <1>typ, <1>pl DEF CreateFlock, Typed, Executor, Winning, Blank, Goto, shared
<1>8. CASE CreateDefer(t)
  BY <1>8, <1>typ, <1>pl
     DEF CreateDefer, Typed, Executor, Winning, Blank, Goto, AcceptAll, shared
<1>9. CASE CreateGo(t)
  BY <1>9, <1>typ, <1>pl DEF CreateGo, Typed, Executor, Winning, Blank, Goto, shared
<1>10. CASE CreateFill(t)
  BY <1>10, <1>typ, <1>pl DEF CreateFill, Typed, Executor, Winning, Blank, Goto, shared
<1>11. CASE Request(t)
  BY <1>11, <1>typ, <1>pl DEF Request, Typed, Executor, Winning, Blank, Goto, shared
<1>12. CASE Lead(t)
  BY <1>12, <1>typ, <1>pl DEF Lead, Typed, Executor, Winning, Blank, Goto
<1>13. CASE Follow(t)
  BY <1>13, <1>typ, <1>pl DEF Follow, Typed, Executor, Winning, Blank, Goto, shared
<1>14. CASE LeaderFlock(t)
  BY <1>14, <1>typ, <1>pl DEF LeaderFlock, Typed, Executor, Winning, Blank, Goto, shared
<1>15. CASE Mark(t)
  BY <1>15, <1>typ, <1>pl DEF Mark, Typed, Executor, Winning, Blank, shared
<1>16. CASE Marked(t)
  BY <1>16, <1>typ, <1>pl DEF Marked, Typed, Executor, Winning, Blank, Goto, shared
<1>17. CASE SetCount(t)
  BY <1>17, <1>typ, <1>pl DEF SetCount, Typed, Executor, Winning, Blank, Goto
<1>18. CASE SetState(t)
  BY <1>18, <1>typ, <1>pl DEF SetState, Typed, Executor, Winning, Blank, Goto
<1>19. CASE Await(t)
  BY <1>19, <1>typ, <1>pl DEF Await, Typed, Executor, Winning, Blank, Goto, shared
<1>20. CASE AddRequest(t)
  <2>1. /\ loc[t].role \in {"leader", "follower", "acceptor"} /\ loc[t].final = {}
        /\ systemlock = 2 /\ systemlock' = systemlock
    BY <1>20, <1>typ, <1>pl DEF AddRequest, Executor, Blank
  <2> QED BY <1>20, <1>typ, <2>1, AddRequestStep
<1>21. CASE SeeRequests(t)
  BY <1>21, <1>typ, <1>pl
     DEF SeeRequests, Typed, Leads, Executor, Winning, Blank, Goto, Synch, shared
<1>22. CASE SeeResult(t)
  BY <1>22, <1>typ, <1>pl
     DEF SeeResult, Typed, Leads, Executor, Winning, Blank, Goto, Synch, shared
<1>23. CASE Drained(t)
  BY <1>23, <1>typ, <1>pl
     DEF Drained, Typed, Leads, Executor, Winning, Blank, Goto, NextPhase, shared
<1>24. CASE CheckIn(t)
  BY <1>24, <1>typ, <1>pl DEF CheckIn, Typed, Leads, Executor, Winning, Blank, Goto, NextPhase
<1>25. CASE HandCounts(t)
  BY <1>25, <1>typ, <1>pl DEF HandCounts, Typed, Executor, Winning, Blank, Goto
<1>26. CASE HandState(t)
  <2>1. loc[t].role = "leader"
    BY <1>26, <1>pl DEF HandState, Blank
  <2> QED BY <1>26, <1>typ, <2>1, HandStateStep
<1>27. CASE PickUp(t)
  BY <1>27, <1>typ, <1>pl DEF PickUp, Typed, Executor, Winning, Blank, Goto, shared
<1>28. CASE ClearRequests(t)
  BY <1>28, <1>typ, <1>pl DEF ClearRequests, Typed, Executor, Winning, Blank, Goto
<1>29. CASE Function(t)
  BY <1>29, <1>typ, <1>pl DEF Function, Typed, Executor, Winning, Blank, Goto
<1>30. CASE ClearCode(t)
  BY <1>30, <1>typ, <1>pl DEF ClearCode, Typed, Executor, Winning, Blank, Goto
<1>31. CASE Unmark(t)
  BY <1>31, <1>typ, <1>pl DEF Unmark, Typed, Executor, Winning, Blank, shared
<1>32. CASE Release(t)
  BY <1>32, <1>typ, <1>pl DEF Release, Typed, Executor, Winning, Blank, Goto, AskAgain
<1>33. CASE RequesterLeaves(t)
  BY <1>33, <1>typ, <1>pl
     DEF RequesterLeaves, Typed, Executor, Winning, Blank, Goto, AskAgain, shared
<1>34. CASE AcceptorLeaves(t)
  <2>1. systemlock \in 0 .. 2 /\ systemlock' = systemlock
    BY <1>34, <1>typ, <1>pl DEF AcceptorLeaves, Executor, Blank, shared
  <2> QED BY <1>34, <1>typ, <2>1, AcceptorLeavesStep DEF Locals, Blank
<1> QED BY <1>1, <1>2, <1>3, <1>4, <1>5, <1>6, <1>7, <1>8, <1>9, <1>10, <1>11, <1>12, <1>13,
         <1>14, <1>15, <1>16, <1>17, <1>18, <1>19, <1>20, <1>21, <1>22, <1>23, <1>24, <1>25,
         <1>26, <1>27, <1>28, <1>29, <1>30, <1>31, <1>32, <1>33, <1>34
         DEF Step, Act

\* What does not depend on the state of the lock stays for the threads that do not move.
LEMMA OthersLocal ==
    ASSUME Typed, NEW t \in Threads, Act(t), NEW u \in Threads \ {t}
    PROVE  /\ pc'[u] = pc[u] /\ loc'[u] = loc[u]
           /\ Requester(u)' = Requester(u) /\ Joiner(u)' = Joiner(u)
           /\ LeadsNow(u)' = LeadsNow(u) /\ Executor(u)' = Executor(u) /\ Leads(u)' = Leads(u)
           /\ Saw(u)' = Saw(u) /\ Added(u)' = Added(u)
<1>1. pc'[u] = pc[u] /\ loc'[u] = loc[u]
  BY Others
<1> QED BY <1>1 DEF Requester, Joiner, LeadsNow, Executor, Leads, Winning, Saw, Added

\* The steps that change the state of the lock.
LEMMA Moves ==
    ASSUME Typed, NEW t \in Threads, Act(t)
    PROVE  systemlock' = systemlock \/ Lead(t) \/ SetState(t) \/ HandState(t) \/ Release(t)
BY DEF Act, Step, shared, SetRunning, EnterUser, LeaveUser, ClrRunning, Notice, CreateThread,
   CreateFlock, CreateDefer, CreateGo, CreateFill, Request, Follow, LeaderFlock, Mark, Marked,
   SetCount, Await, AddRequest, SeeRequests, SeeResult, Drained, CheckIn, HandCounts, PickUp,
   ClearRequests, Function, ClearCode, Unmark, RequesterLeaves, AcceptorLeaves

\* A step leaves the others where they are; the four that move the state need the barrier.
LEMMA OthersPlace ==
    ASSUME IndInv, NEW t \in Threads, Act(t), NEW u \in Threads \ {t}
    PROVE  PlaceOf(u)'
<1>typ. Typed /\ PlaceOf(t) /\ PlaceOf(u)
  BY DEF IndInv, Place
<1>loc. /\ pc'[u] = pc[u] /\ loc'[u] = loc[u] /\ Joiner(u)' = Joiner(u)
           /\ Requester(u)' = Requester(u)
        /\ Executor(u)' = Executor(u) /\ Saw(u)' = Saw(u)
  BY <1>typ, OthersLocal
<1>one. (LeadsNow(t) => ~LeadsNow(u)) /\ (Executor(t) => ~Executor(u))
  BY DEF IndInv, OneDriver
<1>1. CASE systemlock' = systemlock
  BY <1>1, <1>typ, <1>loc DEF PlaceOf, Idle, Asking, Leading, Joining, Executing, Waiting
<1>2. CASE Lead(t)
  <2>1. systemlock = 0 /\ systemlock' = 1
    BY <1>2 DEF Lead
  <2> QED BY <1>typ, <1>loc, <2>1
       DEF PlaceOf, Idle, Asking, Leading, Joining, Executing, Waiting
<1>3. CASE SetState(t) /\ loc[t].phase = 2
  <2>1. systemlock = 1 /\ systemlock' = 2 /\ LeadsNow(t) /\ pc[u] # "filling"
    BY <1>3, <1>typ DEF SetState, PlaceOf, Idle, Asking, Leading, Joining, Executing, Waiting,
                        LeadsNow, Blank, IndInv, Marks, MarksOf
  <2>2. ~Leading(u)
    BY <1>one, <2>1 DEF Leading, LeadsNow
  <2> QED BY <1>typ, <1>loc, <2>1, <2>2
       DEF PlaceOf, Idle, Asking, Leading, Joining, Executing, Waiting
<1>4. CASE SetState(t) /\ loc[t].phase = 3
  <2>1. systemlock = 2 /\ systemlock' = 3 /\ pc[t] = "state"
    BY <1>4, <1>typ DEF SetState, PlaceOf, Idle, Asking, Leading, Joining, Executing, Waiting,
                        Blank
  <2>2. pc[u] = "out" \/ (pc[u] = "await" /\ loc[u].phase = 3)
    BY <1>4, <2>1 DEF IndInv, Passed, Arrived
  <2> QED BY <1>typ, <1>loc, <2>1, <2>2
       DEF PlaceOf, Idle, Asking, Leading, Joining, Executing, Waiting, Blank
<1>5. CASE SetState(t) /\ loc[t].phase = 5
  <2>1. systemlock = 4 /\ systemlock' = 5 /\ Executor(t)
    BY <1>5, <1>typ DEF SetState, PlaceOf, Idle, Asking, Leading, Joining, Executing, Waiting,
                        Blank
  <2> QED BY <1>typ, <1>loc, <1>one, <2>1
       DEF PlaceOf, Idle, Asking, Leading, Joining, Executing, Waiting
<1>6. CASE HandState(t)
  <2>1. systemlock = 3 /\ systemlock' = 4 /\ pc[t] = "state" /\ loc[t].phase = 4
    BY <1>6, <1>typ DEF HandState, PlaceOf, Idle, Asking, Leading, Joining, Executing, Waiting,
                        Blank
  <2>2. pc[u] = "out" \/ (pc[u] = "await" /\ loc[u].phase \in {4, 5})
    BY <2>1 DEF IndInv, Passed, Arrived
  <2> QED BY <1>typ, <1>loc, <2>1, <2>2
       DEF PlaceOf, Idle, Asking, Leading, Joining, Executing, Waiting, Blank
<1>7. CASE Release(t)
  <2>1. systemlock = 5 /\ systemlock' = 0 /\ pc[t] = "unmark"
    BY <1>7, <1>typ DEF Release, PlaceOf, Idle, Asking, Leading, Joining, Executing, Waiting,
                        Blank
  <2>2. pc[u] \in {"out", "entered", "wait5"}
    BY <2>1 DEF IndInv, Passed
  <2> QED BY <1>typ, <1>loc, <2>1, <2>2
       DEF PlaceOf, Idle, Asking, Leading, Joining, Executing, Waiting, Blank
<1> QED BY <1>typ, <1>1, <1>2, <1>3, <1>4, <1>5, <1>6, <1>7, Moves
         DEF SetState, Typed, Locals, PlaceOf, Idle, Asking, Leading, Joining, Executing,
             Waiting, Blank

\* Each thread stays where the state of the lock lets it be.
LEMMA PlaceKept == ASSUME IndInv, NEW t \in Threads, Act(t) PROVE Place'
BY TypedKept, OwnPlace, OthersPlace DEF Place

\* Who leads after its step led before it or is the first to ask; likewise who executes.
LEMMA OwnDriver ==
    ASSUME IndInv, NEW t \in Threads, Act(t)
    PROVE  /\ LeadsNow(t)' => LeadsNow(t) \/ Lead(t)
           /\ LeadsNow(t) => LeadsNow(t)' \/ HandState(t)
           /\ Executor(t)' => Executor(t) \/ SeeRequests(t)
           /\ Executor(t) /\ pc[t] \in {"expr", "drain", "clearcode", "unmark"} /\ systemlock = 5 =>
                 (Executor(t) /\ pc[t] \in {"expr", "drain", "clearcode", "unmark"})' \/ Release(t)
<1> USE DEF LeadsNow, PlaceOf, Idle, Asking, Leading, Joining, Joiner, Requester, Executing,
            Waiting, Saw
<1>typ. Typed /\ Typed' /\ loc[t] \in Locals
  BY TypedKept DEF IndInv, Typed
<1>pl. PlaceOf(t)
  BY DEF IndInv, Place
<1>1. CASE SetRunning(t)
  BY <1>1, <1>typ, <1>pl DEF SetRunning, Typed, Blank, Executor, Winning, Goto, shared
<1>2. CASE EnterUser(t)
  BY <1>2, <1>typ, <1>pl DEF EnterUser, Typed, Blank, Executor, Winning, Goto, shared
<1>3. CASE LeaveUser(t)
  BY <1>3, <1>typ, <1>pl DEF LeaveUser, Typed, Blank, Executor, Winning, Goto, shared
<1>4. CASE ClrRunning(t)
  BY <1>4, <1>typ, <1>pl, ClrRunningStep DEF ClrRunning, Typed, Locals, Blank, Executor, Winning
<1>5. CASE Notice(t)
  BY <1>5, <1>typ, <1>pl
     DEF Notice, Typed, Blank, Executor, Winning, Goto, AcceptAll, shared
<1>6. CASE CreateThread(t)
  BY <1>6, <1>typ, <1>pl DEF CreateThread, Typed, Blank, Executor, Winning, Goto, shared
<1>7. CASE CreateFlock(t)
  BY <1>7, <1>typ, <1>pl DEF CreateFlock, Typed, Blank, Executor, Winning, Goto, shared
<1>8. CASE CreateDefer(t)
  BY <1>8, <1>typ, <1>pl
     DEF CreateDefer, Typed, Blank, Executor, Winning, Goto, AcceptAll, shared
<1>9. CASE CreateGo(t)
  BY <1>9, <1>typ, <1>pl DEF CreateGo, Typed, Blank, Executor, Winning, Goto, shared
<1>10. CASE CreateFill(t)
  BY <1>10, <1>typ, <1>pl DEF CreateFill, Typed, Blank, Executor, Winning, Goto, shared
<1>11. CASE Request(t)
  BY <1>11, <1>typ, <1>pl DEF Request, Typed, Blank, Executor, Winning, Goto, shared
<1>12. CASE Lead(t)
  BY <1>12, <1>typ, <1>pl DEF Lead, Typed, Blank, Executor, Winning, Goto
<1>13. CASE Follow(t)
  BY <1>13, <1>typ, <1>pl DEF Follow, Typed, Blank, Executor, Winning, Goto, shared
<1>14. CASE LeaderFlock(t)
  BY <1>14, <1>typ, <1>pl DEF LeaderFlock, Typed, Blank, Executor, Winning, Goto, shared
<1>15. CASE Mark(t)
  BY <1>15, <1>typ, <1>pl DEF Mark, Typed, Blank, Executor, Winning, shared
<1>16. CASE Marked(t)
  BY <1>16, <1>typ, <1>pl DEF Marked, Typed, Blank, Executor, Winning, Goto, shared
<1>17. CASE SetCount(t)
  BY <1>17, <1>typ, <1>pl DEF SetCount, Typed, Blank, Executor, Winning, Goto
<1>18. CASE SetState(t)
  BY <1>18, <1>typ, <1>pl DEF SetState, Typed, Blank, Executor, Winning, Goto
<1>19. CASE Await(t)
  BY <1>19, <1>typ, <1>pl DEF Await, Typed, Blank, Executor, Winning, Goto, shared
<1>20. CASE AddRequest(t)
  <2>1. loc[t].final = {} /\ pc[t] = "expr" /\ systemlock = 2
    BY <1>20, <1>typ, <1>pl DEF AddRequest, Blank, Executor
  <2> QED BY <1>20, <1>typ, <2>1, AddRequestStep DEF Executor
<1>21. CASE SeeRequests(t)
  BY <1>21, <1>typ, <1>pl
     DEF SeeRequests, Typed, Blank, Leads, Executor, Winning, Goto, Synch, shared
<1>22. CASE SeeResult(t)
  BY <1>22, <1>typ, <1>pl
     DEF SeeResult, Typed, Blank, Leads, Executor, Winning, Goto, Synch, shared
<1>23. CASE Drained(t)
  BY <1>23, <1>typ, <1>pl
     DEF Drained, Typed, Blank, Leads, Executor, Winning, Goto, NextPhase, shared
<1>24. CASE CheckIn(t)
  BY <1>24, <1>typ, <1>pl DEF CheckIn, Typed, Blank, Leads, Executor, Winning, Goto, NextPhase
<1>25. CASE HandCounts(t)
  BY <1>25, <1>typ, <1>pl DEF HandCounts, Typed, Blank, Executor, Winning, Goto
<1>26. CASE HandState(t)
  <2>1. /\ loc[t].phase = 4 /\ pc[t] = "state" /\ systemlock = 3
    BY <1>26, <1>pl DEF HandState, Blank
  <2> QED BY <1>26, <1>typ, <2>1, HandStateStep
<1>27. CASE PickUp(t)
  BY <1>27, <1>typ, <1>pl DEF PickUp, Typed, Blank, Executor, Winning, Goto, shared
<1>28. CASE ClearRequests(t)
  BY <1>28, <1>typ, <1>pl DEF ClearRequests, Typed, Blank, Executor, Winning, Goto
<1>29. CASE Function(t)
  BY <1>29, <1>typ, <1>pl DEF Function, Typed, Blank, Executor, Winning, Goto
<1>30. CASE ClearCode(t)
  BY <1>30, <1>typ, <1>pl DEF ClearCode, Typed, Blank, Executor, Winning, Goto
<1>31. CASE Unmark(t)
  BY <1>31, <1>typ, <1>pl DEF Unmark, Typed, Blank, Executor, Winning, shared
<1>32. CASE Release(t)
  BY <1>32, <1>typ, <1>pl DEF Release, Typed, Blank, Executor, Winning, Goto, AskAgain
<1>33. CASE RequesterLeaves(t)
  BY <1>33, <1>typ, <1>pl
     DEF RequesterLeaves, Typed, Blank, Executor, Winning, Goto, AskAgain, shared
<1>34. CASE AcceptorLeaves(t)
  <2>1. loc[t].phase = 5 /\ systemlock \in 0 .. 2
    BY <1>34, <1>typ, <1>pl DEF AcceptorLeaves, Blank, Executor
  <2> QED BY <1>34, <1>typ, <2>1, AcceptorLeavesStep DEF Executor, Blank
<1> QED BY <1>1, <1>2, <1>3, <1>4, <1>5, <1>6, <1>7, <1>8, <1>9, <1>10, <1>11, <1>12, <1>13,
         <1>14, <1>15, <1>16, <1>17, <1>18, <1>19, <1>20, <1>21, <1>22, <1>23, <1>24, <1>25,
         <1>26, <1>27, <1>28, <1>29, <1>30, <1>31, <1>32, <1>33, <1>34
         DEF Step, Act

\* Only one requester is the first to ask for what won.
LEMMA OneExecutes ==
    ASSUME IndInv, NEW t \in Threads, SeeRequests(t), Executor(t)',
           NEW u \in Threads \ {t}, Executor(u)
    PROVE  FALSE
<1>typ. Typed /\ PlaceOf(t) /\ PlaceOf(u) /\ loc[t] \in Locals /\ loc[u] \in Locals
  BY DEF IndInv, Place, Typed
<1>1. /\ systemlock = 3 /\ loc[t].phase = 3 /\ loc'[t] = [loc[t] EXCEPT !.final = breakbyte]
      /\ loc[t].role # "none"
  BY <1>typ DEF SeeRequests, PlaceOf, Idle, Asking, Leading, Joining, Joiner, Executing, Waiting,
                Blank, Typed
<1>2. /\ loc[t].role # "acceptor" /\ Top(breakbyte) \in loc[t].priority \ loc[t].old
  BY <1>typ, <1>1 DEF Executor, Winning, Locals
<1>3. Added(t)
  BY <1>typ, <1>1, <1>2 DEF Added, Requester, Locals
<1>4. Saw(u) /\ Added(u)
  <2>1. Saw(u) /\ pc[u] # "wait5" /\ loc[u].role \notin {"none", "acceptor"}
    <3>1. loc[u].final # {} /\ loc[u].role # "acceptor"
      BY DEF Executor
    <3> QED BY <1>typ, <1>1, <3>1
         DEF PlaceOf, Idle, Asking, Leading, Joining, Joiner, Executing, Requester, Waiting, Blank
  <2> QED BY <1>typ, <2>1 DEF Saw, Added, Requester, Locals
<1>5. loc[u].final = breakbyte
  <2>1. AllRequests(loc[u].final) /\ AllRequests(breakbyte)
    BY <1>1, <1>4 DEF IndInv, Requests
  <2>2. loc[u].final \subseteq Priorities /\ breakbyte \subseteq Priorities
    BY <1>typ, <1>1 DEF IndInv, Bytes, BytesOf, Locals
  <2> QED BY <2>1, <2>2 DEF AllRequests
<1>6. Top(breakbyte) \in loc[u].priority \ loc[u].old
  BY <1>5 DEF Executor, Winning
<1> QED BY <1>1, <1>2, <1>3, <1>4, <1>6 DEF IndInv, Requests

\* One thread leads and one executes, round after round.
LEMMA OneDriverKept ==
    ASSUME IndInv, NEW t \in Threads, Act(t)
    PROVE  OneDriver'
<1>typ. Typed /\ OneDriver /\ \A u \in Threads : PlaceOf(u)
  BY DEF IndInv, Place
<1>oth. \A u \in Threads \ {t} :
          /\ pc'[u] = pc[u] /\ LeadsNow(u)' = LeadsNow(u) /\ Executor(u)' = Executor(u)
  BY <1>typ, OthersLocal
<1>1. ASSUME LeadsNow(t)', NEW u \in Threads \ {t}, LeadsNow(u) PROVE FALSE
  <2>1. CASE LeadsNow(t)
    BY <1>1, <1>typ, <2>1 DEF OneDriver
  <2>2. CASE Lead(t)
    <3>1. systemlock = 0
      BY <2>2 DEF Lead
    <3> QED BY <1>1, <1>typ, <3>1 DEF LeadsNow, PlaceOf, Idle, Asking, Leading, Joining, Joiner,
                                     Executing, Waiting, Blank
  <2> QED BY <1>1, <2>1, <2>2, OwnDriver
<1>2. ASSUME Executor(t)', NEW u \in Threads \ {t}, Executor(u) PROVE FALSE
  BY <1>2, <1>typ, OwnDriver, OneExecutes DEF OneDriver
<1>3. ASSUME systemlock' \in 1 .. 3 PROVE \E u \in Threads : LeadsNow(u)'
  <2>1. CASE systemlock \in 1 .. 3
    <3>1. PICK u \in Threads : LeadsNow(u)
      BY <1>typ, <2>1 DEF OneDriver
    <3>2. ~HandState(t)
      BY <1>3 DEF HandState
    <3> QED BY <1>oth, <3>1, <3>2, OwnDriver
  <2>2. CASE Lead(t)
    BY <1>typ, <2>2 DEF Lead, LeadsNow, Typed, Locals
  <2>3. CASE Lead(t) \/ systemlock \in 1 .. 3
    BY <2>1, <2>2, <2>3
  <2>4. SetState(t) => systemlock \in {1, 2, 4} /\ systemlock' \in {2, 3, 5}
           /\ (systemlock' = 5 <=> systemlock = 4)
    BY <1>typ
       DEF SetState, PlaceOf, Idle, Asking, Leading, Joining, Joiner, Executing, Waiting, Blank
  <2>5. ~HandState(t) /\ ~Release(t)
    BY <1>3 DEF HandState, Release
  <2> QED BY <1>3, <1>typ, <2>3, <2>4, <2>5, Moves
<1>4. ASSUME systemlock' = 5
      PROVE  \E u \in Threads :
                (Executor(u) /\ pc[u] \in {"expr", "drain", "clearcode", "unmark"})'
  <2>1. CASE systemlock = 5
    <3>1. PICK u \in Threads : Executor(u) /\ pc[u] \in {"expr", "drain", "clearcode", "unmark"}
      BY <1>typ, <2>1 DEF OneDriver
    <3>2. ~Release(t)
      BY <1>4 DEF Release
    <3> QED BY <1>oth, <2>1, <3>1, <3>2, OwnDriver
  <2>2. CASE SetState(t)
    <3>1. loc[t].phase = 5 /\ Executor(t) /\ pc'[t] = "expr" /\ loc' = loc
      BY <1>4, <1>typ, <2>2 DEF SetState, PlaceOf, Idle, Asking, Leading, Joining, Joiner,
                               Executing, Waiting, Blank, Goto, Typed
    <3>2. Executor(t)'
      BY <3>1 DEF Executor, Winning
    <3> QED BY <3>1, <3>2
  <2>3. ~HandState(t) /\ ~Lead(t) /\ ~Release(t)
    BY <1>4 DEF HandState, Lead, Release
  <2> QED BY <1>4, <1>typ, <2>1, <2>2, <2>3, Moves
<1> QED BY <1>typ, <1>oth, <1>1, <1>2, <1>3, <1>4 DEF OneDriver

\* Where the thread that moves comes to and what it leaves.
LEMMA OwnPassage ==
    ASSUME IndInv, NEW t \in Threads, Act(t)
    PROVE  /\ pc'[t] \in {"count", "state"} /\ loc'[t].phase = 3 =>
                 (pc[t] \in {"count", "state"} /\ loc[t].phase = 3)
                    \/ (Drained(t) /\ loc[t].phase = 2)
           /\ pc'[t] \in {"count", "state"} /\ loc'[t].phase = 4 =>
                 (pc[t] \in {"count", "state"} /\ loc[t].phase = 4)
                    \/ (Drained(t) /\ loc[t].phase = 3)
           /\ pc'[t] \in {"clearcode", "unmark"} =>
                 pc[t] \in {"clearcode", "unmark"} \/ (Drained(t) /\ loc[t].phase = 5)
           /\ pc[t] = "out" => ~lockactive[t] /\ t < nthreads /\ pc'[t] = "entered"
           /\ Arrived(t, 2) => systemlock = 3
           /\ Arrived(t, 3) => systemlock \in {4, 5}
           /\ pc[t] \in {"entered", "wait5"} => systemlock # 5
<1> USE DEF Typed, Arrived
<1>typ. Typed /\ Typed' /\ loc[t] \in Locals
  BY TypedKept DEF IndInv
<1>pl. PlaceOf(t)
  BY DEF IndInv, Place
<1>1. CASE SetRunning(t)
  BY <1>1, <1>typ, <1>pl DEF SetRunning, Goto, shared
<1>2. CASE EnterUser(t)
  BY <1>2, <1>typ, <1>pl DEF EnterUser, Goto, shared
<1>3. CASE LeaveUser(t)
  BY <1>3, <1>typ, <1>pl DEF LeaveUser, Goto, shared
<1>4. CASE ClrRunning(t)
  BY <1>4, <1>typ, <1>pl, ClrRunningStep DEF ClrRunning, Locals
<1>5. CASE Notice(t)
  BY <1>5, <1>typ, <1>pl DEF Notice, Goto, AcceptAll, shared
<1>6. CASE CreateThread(t)
  BY <1>6, <1>typ, <1>pl DEF CreateThread, Goto, shared
<1>7. CASE CreateFlock(t)
  BY <1>7, <1>typ, <1>pl DEF CreateFlock, Goto, shared
<1>8. CASE CreateDefer(t)
  BY <1>8, <1>typ, <1>pl DEF CreateDefer, Goto, AcceptAll, shared
<1>9. CASE CreateGo(t)
  BY <1>9, <1>typ, <1>pl DEF CreateGo, Goto, shared
<1>10. CASE CreateFill(t)
  BY <1>10, <1>typ, <1>pl DEF CreateFill, Goto, shared
<1>11. CASE Request(t)
  BY <1>11, <1>typ, <1>pl DEF Request, Goto, shared
<1>12. CASE Lead(t)
  BY <1>12, <1>typ, <1>pl DEF Lead, Goto
<1>13. CASE Follow(t)
  BY <1>13, <1>typ, <1>pl DEF Follow, Goto, shared
<1>14. CASE LeaderFlock(t)
  BY <1>14, <1>typ, <1>pl DEF LeaderFlock, Goto, shared
<1>15. CASE Mark(t)
  BY <1>15, <1>typ, <1>pl DEF Mark, shared
<1>16. CASE Marked(t)
  <2>1. loc[t].phase = 2
    BY <1>16, <1>pl DEF Marked, PlaceOf, Idle, Asking, Leading, Joining, Executing, Waiting
  <2> QED BY <1>16, <1>typ, <2>1 DEF Marked, Goto
<1>17. CASE SetCount(t)
  BY <1>17, <1>typ, <1>pl DEF SetCount, Goto
<1>18. CASE SetState(t)
  BY <1>18, <1>typ, <1>pl DEF SetState, Goto
<1>19. CASE Await(t)
  BY <1>19, <1>typ, <1>pl DEF Await, Goto, shared
<1>20. CASE AddRequest(t)
  BY <1>20, <1>typ, <1>pl, AddRequestStep DEF AddRequest, Locals
<1>21. CASE SeeRequests(t)
  BY <1>21, <1>typ, <1>pl DEF SeeRequests, Goto, Synch, shared
<1>22. CASE SeeResult(t)
  BY <1>22, <1>typ, <1>pl DEF SeeResult, Goto, Synch, shared
<1>23. CASE Drained(t)
  BY <1>23, <1>typ, <1>pl DEF Drained, Goto, NextPhase, shared
<1>24. CASE CheckIn(t)
  BY <1>24, <1>typ, <1>pl DEF CheckIn, Goto, NextPhase
<1>25. CASE HandCounts(t)
  BY <1>25, <1>typ, <1>pl DEF HandCounts, Goto
<1>26. CASE HandState(t)
  BY <1>26, <1>typ, <1>pl, HandStateStep DEF HandState, Locals
<1>27. CASE PickUp(t)
  BY <1>27, <1>typ, <1>pl DEF PickUp, Goto, shared
<1>28. CASE ClearRequests(t)
  BY <1>28, <1>typ, <1>pl DEF ClearRequests, Goto
<1>29. CASE Function(t)
  BY <1>29, <1>typ, <1>pl DEF Function, Goto
<1>30. CASE ClearCode(t)
  BY <1>30, <1>typ, <1>pl DEF ClearCode, Goto
<1>31. CASE Unmark(t)
  BY <1>31, <1>typ, <1>pl DEF Unmark, shared
<1>32. CASE Release(t)
  BY <1>32, <1>typ, <1>pl DEF Release, Goto, AskAgain
<1>33. CASE RequesterLeaves(t)
  BY <1>33, <1>typ, <1>pl DEF RequesterLeaves, Goto, AskAgain, shared
<1>34. CASE AcceptorLeaves(t)
  <2>1. pc[t] = "wait5" /\ systemlock # 5
    BY <1>34 DEF AcceptorLeaves
  <2>2. pc'[t] \in {"user", "clr", "create", "await"}
    BY <1>34, <1>typ, AcceptorLeavesStep DEF Locals
  <2> QED BY <2>1, <2>2
<1> QED BY <1>1, <1>2, <1>3, <1>4, <1>5, <1>6, <1>7, <1>8, <1>9, <1>10, <1>11, <1>12, <1>13,
         <1>14, <1>15, <1>16, <1>17, <1>18, <1>19, <1>20, <1>21, <1>22, <1>23, <1>24, <1>25,
         <1>26, <1>27, <1>28, <1>29, <1>30, <1>31, <1>32, <1>33, <1>34
         DEF Step, Act

\* The barrier: a count of 0 means that no other thread is still to come.
LEMMA PassedKept ==
    ASSUME IndInv, NEW a \in Threads, Act(a)
    PROVE  Passed'
<1>typ. Typed /\ Counts /\ Marks /\ Passed /\ \A u \in Threads : PlaceOf(u)
  BY DEF IndInv, Place
<1>oth. \A u \in Threads \ {a} :
          /\ pc'[u] = pc[u] /\ loc'[u] = loc[u]
          /\ Arrived(u, 2)' = Arrived(u, 2) /\ Arrived(u, 3)' = Arrived(u, 3)
  BY <1>typ, Others DEF Arrived
<1>gone. ASSUME Drained(a), NEW t \in Threads \ {a}
         PROVE  loc[a].phase \in {2, 3, 5} => pc[t] = "out" \/ Arrived(t, loc[a].phase)
  <2>1. pc[a] = "drain" /\ systemlocktct = 0
    BY <1>gone DEF Drained
  <2>2. Leads(a)
    BY <2>1, <1>typ DEF PlaceOf, Idle, Asking, Leading, Joining, Executing, Waiting, Leads
  <2>3. loc[a].phase # 4 => Missing(a) = {}
    <3>1. IsFiniteSet(Missing(a))
      BY Finite DEF Missing
    <3>2. loc[a].phase # 4 => Cardinality(Missing(a)) = 0
      BY <1>typ, <2>1, <2>2 DEF Counts, CountsOf
    <3> QED BY <3>1, <3>2, FS_EmptySet
  <2>4. running[t] <=> pc[t] # "out"
    BY <1>typ DEF Counts, CountsOf
  <2> QED BY <2>3, <2>4 DEF Missing
<1>1. ASSUME NEW t \in Threads \ {a} PROVE
      /\ pc'[a] \in {"count", "state"} /\ loc'[a].phase = 3 => pc'[t] = "out" \/ Arrived(t, 2)'
      /\ pc'[a] \in {"count", "state"} /\ loc'[a].phase = 4 => pc'[t] = "out" \/ Arrived(t, 3)'
      /\ pc'[a] \in {"clearcode", "unmark"} => pc'[t] \in {"out", "entered", "wait5"}
  <2>1. /\ Drained(a) /\ loc[a].phase = 2 => pc[t] = "out" \/ Arrived(t, 2)
        /\ Drained(a) /\ loc[a].phase = 3 => pc[t] = "out" \/ Arrived(t, 3)
        /\ Drained(a) /\ loc[a].phase = 5 => pc[t] = "out" \/ Arrived(t, 5)
    BY <1>gone
  <2>2. Arrived(t, 5) => pc[t] = "wait5"
    BY DEF Arrived
  <2>3. a # t
    OBVIOUS
  <2> QED BY <1>oth, <1>typ, <2>1, <2>2, <2>3, OwnPassage DEF Passed
<1>2. ASSUME NEW d \in Threads \ {a} PROVE
      /\ pc'[d] \in {"count", "state"} /\ loc'[d].phase = 3 => pc'[a] = "out" \/ Arrived(a, 2)'
      /\ pc'[d] \in {"count", "state"} /\ loc'[d].phase = 4 => pc'[a] = "out" \/ Arrived(a, 3)'
      /\ pc'[d] \in {"clearcode", "unmark"} => pc'[a] \in {"out", "entered", "wait5"}
  <2>1. pc'[d] = pc[d] /\ loc'[d] = loc[d] /\ d # a
    BY <1>oth
  <2>2. pc[d] \in {"count", "state"} /\ loc[d].phase = 3 => systemlock = 2
    BY <1>typ DEF PlaceOf, Idle, Asking, Leading, Joining, Executing, Waiting, Blank
  <2>3. pc[d] \in {"count", "state"} /\ loc[d].phase = 4 => systemlock = 3
    BY <1>typ DEF PlaceOf, Idle, Asking, Leading, Joining, Executing, Waiting, Blank
  <2>4. pc[d] \in {"clearcode", "unmark"} => systemlock = 5
    BY <1>typ DEF PlaceOf, Idle, Asking, Leading, Joining, Executing, Waiting, Blank
  <2>5. pc[d] \in {"count", "state"} => lockactive[a] \/ ~(a < nthreads)
    BY <1>typ DEF Marks, MarksOf, AllMarked
  <2>6. /\ pc[d] \in {"count", "state"} /\ loc[d].phase = 3 => pc[a] = "out" \/ Arrived(a, 2)
        /\ pc[d] \in {"count", "state"} /\ loc[d].phase = 4 => pc[a] = "out" \/ Arrived(a, 3)
        /\ pc[d] \in {"clearcode", "unmark"} => pc[a] \in {"out", "entered", "wait5"}
    BY <1>typ, <2>1 DEF Passed
  <2> QED BY <2>1, <2>2, <2>3, <2>4, <2>5, <2>6, OwnPassage
<1>3. ASSUME NEW d \in Threads \ {a}, NEW t \in Threads \ {a}, d # t PROVE
      /\ pc'[d] \in {"count", "state"} /\ loc'[d].phase = 3 => pc'[t] = "out" \/ Arrived(t, 2)'
      /\ pc'[d] \in {"count", "state"} /\ loc'[d].phase = 4 => pc'[t] = "out" \/ Arrived(t, 3)'
      /\ pc'[d] \in {"clearcode", "unmark"} => pc'[t] \in {"out", "entered", "wait5"}
  BY <1>3, <1>typ, <1>oth DEF Passed
<1> QED BY <1>1, <1>2, <1>3 DEF Passed

(***************************************************************************)
(* Part 2: the marks are those of the threads that the lock knows, so that *)
(* nobody starts, ends or appears while it is held, and the counts are     *)
(* therefore the numbers of threads that run and that are still to come.   *)
(***************************************************************************)

\* The steps that change each of the shared variables.
LEMMA Frame ==
    ASSUME NEW t \in Threads, Act(t)
    PROVE  /\ lockactive' = lockactive \/ Mark(t) \/ Unmark(t)
           /\ nthreads' = nthreads \/ CreateFill(t)
           /\ \/ flock' = flock \/ CreateFlock(t) \/ CreateDefer(t) \/ CreateFill(t)
              \/ LeaderFlock(t) \/ Marked(t)
           /\ running' = running \/ SetRunning(t) \/ ClrRunning(t)
           /\ systemlocktct' = systemlocktct \/ SetCount(t) \/ CheckIn(t) \/ HandCounts(t)
           /\ systemlockthreadct' = systemlockthreadct \/ HandCounts(t)
           /\ \/ breakbyte' = breakbyte \/ AddRequest(t) \/ ClearRequests(t) \/ Function(t)
              \/ ClearCode(t)
BY DEF Step, SetRunning, EnterUser, LeaveUser, ClrRunning, Notice, CreateThread, CreateFlock,
       CreateDefer, CreateGo, CreateFill, Request, Lead, Follow, LeaderFlock, Mark, Marked,
       SetCount, SetState, Await, AddRequest, SeeRequests, SeeResult, Drained, CheckIn,
       HandCounts, HandState, PickUp, ClearRequests, Function, ClearCode, Unmark, Release,
       RequesterLeaves, AcceptorLeaves, Act, shared, tables

\* No thread is marked while the lock is free, and all are in the states 2 to 4.
LEMMA MarksGlobal ==
    ASSUME IndInv, NEW t \in Threads, Act(t)
    PROVE  /\ systemlock' = 0 => \A u \in Threads : ~lockactive'[u]
           /\ systemlock' \in 2 .. 4 => AllMarked'
<1>typ. Typed /\ Marks /\ PlaceOf(t)
  BY DEF IndInv, Place
<1>mk. /\ Mark(t) => systemlock = 1 /\ systemlock' = 1
       /\ Unmark(t) => systemlock = 5 /\ systemlock' = 5
       /\ CreateFill(t) => systemlock \in 0 .. 1 /\ systemlock' = systemlock
          /\ lockactive' = lockactive
  BY <1>typ
     DEF Mark, Unmark, CreateFill, shared, PlaceOf, Idle, Asking, Leading, Joining, Executing,
         Waiting, Blank
<1>1. ASSUME systemlock' = 0 PROVE \A u \in Threads : ~lockactive'[u]
  <2>1. lockactive' = lockactive
    BY <1>1, <1>mk, Frame
  <2>2. CASE Release(t)
    <3>1. pc[t] = "unmark" /\ loc[t].i = loc[t].nlocked /\ MarkedFrom(t)
      BY <1>typ, <2>2 DEF Release, Marks, MarksOf
    <3> QED BY <1>typ, <2>1, <3>1 DEF MarkedFrom, Typed, Threads
  <2>3. ~Lead(t) /\ ~HandState(t) /\ ~SetState(t)
    BY <1>1, <1>typ
       DEF Lead, HandState, SetState, PlaceOf, Idle, Asking, Leading, Joining, Executing,
           Waiting, Blank
  <2> QED BY <1>1, <1>typ, <2>1, <2>2, <2>3, Moves DEF Marks
<1>2. ASSUME systemlock' \in 2 .. 4 PROVE AllMarked'
  <2>1. lockactive' = lockactive /\ nthreads' = nthreads
    BY <1>2, <1>mk, Frame
  <2>2. AllMarked
    <3>1. CASE SetState(t) \/ HandState(t)
      BY <1>typ, <3>1 DEF SetState, HandState, Marks, MarksOf
    <3>2. ~Lead(t) /\ ~Release(t)
      BY <1>2 DEF Lead, Release
    <3> QED BY <1>2, <1>typ, <3>1, <3>2, Moves DEF Marks
  <2> QED BY <2>1, <2>2 DEF AllMarked
<1> QED BY <1>1, <1>2

\* The steps of a thread keep what the marks are for the others.
LEMMA OthersMarks ==
    ASSUME IndInv, NEW t \in Threads, Act(t), NEW u \in Threads \ {t}
    PROVE  MarksOf(u)'
<1>typ. Typed /\ MarksOf(t) /\ MarksOf(u) /\ PlaceOf(t) /\ PlaceOf(u)
  BY DEF IndInv, Place, Marks
<1>loc. /\ pc'[u] = pc[u] /\ loc'[u] = loc[u] /\ LeadsNow(u)' = LeadsNow(u)
        /\ Executor(u)' = Executor(u)
  BY <1>typ, OthersLocal
<1>one. LeadsNow(t) => ~LeadsNow(u)
  BY DEF IndInv, OneDriver
<1>oth. \A w \in Threads \ {t} : pc'[w] = pc[w]
  BY <1>typ, Others
<1>fill. ASSUME pc[u] \in {"count", "state"} PROVE \A w \in Threads : pc'[w] # "filling"
  <2>1. systemlock # 0
    BY <1>fill, <1>typ DEF PlaceOf, Idle, Asking, Leading, Joining, Executing, Waiting, Blank
  <2>2. \A w \in Threads : pc[w] # "filling"
    BY <1>fill, <1>typ DEF MarksOf
  <2>3. pc'[t] = "filling" => pc[t] = "filling" \/ CreateGo(t)
    <3>1. CASE AcceptorLeaves(t)
      BY <1>typ, <3>1, AcceptorLeavesStep DEF Typed, Locals
    <3>2. CASE ~AcceptorLeaves(t)
      BY <1>typ, <3>2 DEF Act, Step, SetRunning, EnterUser, LeaveUser, ClrRunning, Notice,
         CreateThread, CreateFlock, CreateDefer, CreateFill, Request, Lead, Follow, LeaderFlock,
         Mark, Marked, SetCount, SetState, Await, AddRequest, SeeRequests, SeeResult, Drained,
         CheckIn, HandCounts, HandState, PickUp, ClearRequests, Function, ClearCode, Unmark,
         Release, RequesterLeaves, Goto, AcceptAll, Synch, AskAgain, Typed
    <3> QED BY <3>1, <3>2
  <2>4. ~CreateGo(t)
    BY <2>1 DEF CreateGo
  <2> QED BY <1>oth, <2>2, <2>3, <2>4
<1>1. CASE lockactive' = lockactive /\ nthreads' = nthreads /\ flock' = flock
  <2>1. AllMarked' = AllMarked /\ MarkedFrom(u)' = MarkedFrom(u)
    BY <1>1, <1>loc DEF AllMarked, MarkedFrom
  <2> QED BY <1>1, <1>typ, <1>loc, <1>fill, <2>1 DEF MarksOf
<1>2. CASE Mark(t)
  <2>1. /\ systemlock = 1 /\ LeadsNow(t) /\ pc[t] = "mark" /\ flock = t /\ flock' = t
        /\ nthreads' = nthreads
    BY <1>2, <1>typ DEF Mark, MarksOf, PlaceOf, Idle, Asking, Leading, Joining, Executing, Waiting,
                        Blank, LeadsNow
  <2>2. ~Leading(u) /\ ~Executing(u)
    BY <1>one, <2>1 DEF Leading, LeadsNow, Executing
  <2>3. pc[u] \notin {"creating", "filling", "mark", "flock", "unmark", "count", "state", "expr",
                      "drain", "clearcode", "clearrequests", "function"}
    BY <1>typ, <2>1, <2>2 DEF MarksOf, PlaceOf, Idle, Asking, Joining, Waiting, Blank
  <2> QED BY <1>loc, <1>one, <2>1, <2>3 DEF MarksOf
<1>3. CASE Unmark(t)
  <2>1. pc[t] = "unmark"
    BY <1>3 DEF Unmark
  <2>2. pc[u] \in {"out", "entered", "wait5"}
    BY <2>1 DEF IndInv, Passed
  <2>3. ~LeadsNow(u)
    BY <1>typ, <2>2 DEF LeadsNow, PlaceOf, Idle, Asking, Leading, Joining, Executing, Waiting, Blank
  <2> QED BY <1>loc, <2>2, <2>3 DEF MarksOf
<1>4. CASE CreateFill(t)
  <2>1. systemlock \in 0 .. 1 /\ flock = t /\ pc[t] = "filling"
    BY <1>4, <1>typ DEF CreateFill, MarksOf, PlaceOf, Idle, Asking, Leading, Joining, Executing,
                        Waiting, Blank
  <2>2. /\ pc[u] \notin {"creating", "filling", "mark", "count", "state", "unmark", "expr", "drain",
                         "clearcode", "clearrequests", "function"}
        /\ LeadsNow(u) => pc[u] = "flock"
    BY <1>typ, <2>1 DEF MarksOf, PlaceOf, Idle, Asking, Leading, Joining, Executing, Waiting, Blank,
                        LeadsNow
  <2>3. lockactive' = lockactive
    BY <1>4 DEF CreateFill
  <2> QED BY <1>typ, <1>loc, <2>2, <2>3 DEF MarksOf
<1>5. CASE CreateFlock(t) \/ LeaderFlock(t) \/ CreateDefer(t) \/ Marked(t)
  <2>1. flock \in {Nobody, t} /\ lockactive' = lockactive /\ nthreads' = nthreads
    BY <1>5, <1>typ DEF CreateFlock, LeaderFlock, CreateDefer, Marked, MarksOf
  <2>2. pc[u] \notin {"creating", "filling", "mark"}
    BY <1>typ, <2>1 DEF MarksOf, Nobody, Threads
  <2>3. AllMarked' = AllMarked /\ MarkedFrom(u)' = MarkedFrom(u)
    BY <2>1, <1>loc DEF AllMarked, MarkedFrom
  <2> QED BY <1>typ, <1>loc, <1>fill, <2>1, <2>2, <2>3 DEF MarksOf
<1> QED BY <1>1, <1>2, <1>3, <1>4, <1>5, Frame

\* The thread that leads or executes, and where it does so.
LEMMA DriverPlace ==
    ASSUME NEW t \in Threads, PlaceOf(t)
    PROVE  /\ LeadsNow(t) => pc[t] \in {"flock", "mark", "count", "state", "expr", "drain"}
           /\ Executor(t) => loc[t].role # "none"
           /\ pc[t] \in {"count", "state", "drain"}
              => LeadsNow(t) \/ (Executor(t) /\ loc[t].phase = 5)
           /\ pc[t] \in {"clearrequests", "function", "clearcode", "unmark"} => Executor(t)
           /\ pc[t] = "filling" => systemlock \in 0 .. 1
           /\ pc[t] \in {"count", "state"} /\ loc[t].phase \in {3, 4} => systemlock \in 2 .. 3
<1>1. LeadsNow(t) => pc[t] \in {"flock", "mark", "count", "state", "expr", "drain"}
  BY DEF LeadsNow, Joiner, PlaceOf, Idle, Asking, Leading, Joining, Executing, Waiting, Blank
<1>2. Executor(t) => loc[t].role # "none"
  BY DEF Executor, Joiner, Requester, PlaceOf, Idle, Asking, Leading, Joining, Executing,
         Waiting, Blank
<1>3. pc[t] \in {"count", "state", "drain"} => LeadsNow(t) \/ (Executor(t) /\ loc[t].phase = 5)
  BY DEF LeadsNow, PlaceOf, Idle, Asking, Leading, Joining, Executing, Waiting, Blank
<1>4. pc[t] \in {"clearrequests", "function", "clearcode", "unmark"} => Executor(t)
  BY DEF PlaceOf, Idle, Asking, Leading, Joining, Executing, Waiting, Blank
<1>5. /\ pc[t] = "filling" => systemlock \in 0 .. 1
      /\ pc[t] \in {"count", "state"} /\ loc[t].phase \in {3, 4} => systemlock \in 2 .. 3
  BY DEF PlaceOf, Idle, Asking, Leading, Joining, Executing, Waiting, Blank
<1> QED BY <1>1, <1>2, <1>3, <1>4, <1>5

\* Nobody fills a slot while the lock is in the states 2 to 5.
LEMMA NoneFills ==
    ASSUME IndInv, systemlock \in 2 .. 5, NEW t \in Threads, Act(t)
    PROVE  \A u \in Threads : pc'[u] # "filling"
<1>1. Typed /\ \A u \in Threads : PlaceOf(u)
  BY DEF IndInv, Place
<1>2. \A u \in Threads \ {t} : pc'[u] # "filling"
  BY <1>1, DriverPlace, Others
<1>3. PlaceOf(t)' /\ Typed'
  BY PlaceKept, TypedKept DEF Place
<1>4. pc'[t] = "filling" => systemlock' \in 0 .. 1
  BY <1>3 DEF PlaceOf, Idle, Asking, Leading, Joining, Executing, Waiting, Blank
<1>5. pc'[t] = "filling" => ~Release(t) /\ ~Lead(t)
  BY <1>1 DEF Release, Lead, AskAgain, Goto, Typed
<1>6. ~(SetState(t) /\ systemlock' \in 0 .. 1) /\ ~(HandState(t) /\ systemlock' \in 0 .. 1)
  BY <1>1
     DEF SetState, HandState, PlaceOf, Idle, Asking, Leading, Joining, Executing, Waiting,
         Blank
<1> QED BY <1>1, <1>2, <1>4, <1>5, <1>6, Moves

\* The steps of a thread keep what the marks are for itself.
LEMMA OwnMarks ==
    ASSUME IndInv, NEW t \in Threads, Act(t)
    PROVE  MarksOf(t)'
<1>typ. Typed /\ Typed' /\ loc[t] \in Locals
  BY TypedKept DEF IndInv, Typed
<1>pl. PlaceOf(t) /\ PlaceOf(t)'
  BY PlaceKept DEF IndInv, Place
<1>mk. MarksOf(t) /\ Marks
  BY DEF IndInv, Marks
<1>drv. /\ LeadsNow(t)' => LeadsNow(t) \/ Lead(t)
        /\ Executor(t)' => Executor(t) \/ SeeRequests(t)
  BY OwnDriver
<1>quiet. ASSUME pc'[t] \notin {"creating", "filling", "mark", "flock", "unmark", "count", "state",
                                "expr", "drain", "clearcode", "clearrequests", "function"}
          PROVE  MarksOf(t)'
  <2>1. LeadsNow(t)' => pc'[t] \in {"flock", "mark", "count", "state", "expr", "drain"}
    BY <1>pl
       DEF LeadsNow, Joiner, PlaceOf, Idle, Asking, Leading, Joining, Executing, Waiting, Blank
  <2> QED BY <1>quiet, <2>1 DEF MarksOf
<1>standing. ASSUME pc'[t] \in {"count", "state", "expr", "drain", "clearcode", "clearrequests",
                                "function"},
                    lockactive' = lockactive, nthreads' = nthreads, AllMarked,
                    loc'[t].nlocked = nthreads \/ ~(LeadsNow(t)' \/ Executor(t)'),
                    pc'[t] \in {"count", "state"} => \A u \in Threads : pc'[u] # "filling"
             PROVE  MarksOf(t)'
  <2>1. AllMarked'
    BY <1>standing DEF AllMarked
  <2> QED BY <1>standing, <2>1 DEF MarksOf
<1>1. CASE SetRunning(t)
  BY <1>1, <1>typ, <1>quiet DEF SetRunning, Goto, Typed
<1>2. CASE EnterUser(t)
  BY <1>2, <1>typ, <1>quiet DEF EnterUser, Goto, Typed
<1>3. CASE LeaveUser(t)
  BY <1>3, <1>typ, <1>quiet DEF LeaveUser, Goto, Typed
<1>4. CASE Notice(t)
  BY <1>4, <1>typ, <1>quiet DEF Notice, Goto, AcceptAll, Typed
<1>5. CASE CreateThread(t)
  BY <1>5, <1>typ, <1>quiet DEF CreateThread, Goto, Typed
<1>6. CASE CreateDefer(t)
  BY <1>6, <1>typ, <1>quiet DEF CreateDefer, Goto, AcceptAll, Typed
<1>7. CASE CreateFill(t)
  BY <1>7, <1>typ, <1>quiet DEF CreateFill, Goto, Typed
<1>8. CASE Follow(t)
  BY <1>8, <1>typ, <1>quiet DEF Follow, Goto, Typed
<1>9. CASE Request(t)
  BY <1>9, <1>typ, <1>quiet DEF Request, Goto, Typed
<1>10. CASE ClrRunning(t)
  BY <1>10, <1>typ, <1>quiet, ClrRunningStep
<1>11. CASE CheckIn(t)
  BY <1>11, <1>typ, <1>quiet DEF CheckIn, Goto, Typed
<1>12. CASE HandState(t)
  BY <1>12, <1>typ, <1>quiet, HandStateStep
<1>13. CASE Release(t)
  BY <1>13, <1>typ, <1>quiet DEF Release, AskAgain, Goto, Typed
<1>14. CASE RequesterLeaves(t)
  BY <1>14, <1>typ, <1>quiet DEF RequesterLeaves, AskAgain, Goto, Typed
<1>15. CASE AcceptorLeaves(t)
  <2>1. pc'[t] \in {"user", "clr", "create", "await"}
    BY <1>15, <1>typ, AcceptorLeavesStep DEF Locals
  <2> QED BY <1>quiet, <2>1
<1>16. CASE CreateFlock(t)
  <2>1. pc'[t] = "creating" /\ flock' = t /\ ~LeadsNow(t)'
    BY <1>16, <1>typ, <1>pl, <1>drv
       DEF CreateFlock, Lead, Goto, Typed, LeadsNow, PlaceOf, Idle, Asking, Leading, Joining,
           Executing, Waiting, Blank
  <2> QED BY <2>1 DEF MarksOf
<1>17. CASE CreateGo(t)
  <2>1. pc'[t] = "filling" /\ flock' = t /\ ~LeadsNow(t)'
    BY <1>17, <1>typ, <1>pl, <1>mk
       DEF CreateGo, MarksOf, Goto, Typed, tables, LeadsNow, PlaceOf, Idle, Asking, Leading,
           Joining, Executing, Waiting, Blank
  <2> QED BY <2>1 DEF MarksOf
<1>18. CASE Lead(t)
  <2>1. pc'[t] = "flock" /\ lockactive' = lockactive /\ systemlock = 0
    BY <1>18, <1>typ DEF Lead, Goto, Typed, tables
  <2> QED BY <1>mk, <2>1 DEF Marks, MarksOf
<1>19. CASE LeaderFlock(t)
  <2>1. /\ pc[t] = "flock" /\ pc'[t] = "mark" /\ flock' = t /\ lockactive' = lockactive
        /\ nthreads' = nthreads /\ loc'[t] = [loc[t] EXCEPT !.nlocked = nthreads, !.i = nthreads]
    BY <1>19, <1>typ DEF LeaderFlock, Goto, Typed
  <2>2. loc'[t].nlocked = nthreads /\ loc'[t].i = nthreads
    BY <1>typ, <2>1 DEF Locals
  <2>3. (\A u \in Threads : ~lockactive[u]) /\ nthreads \in Nat
    BY <1>mk, <1>typ, <2>1, SystemLockAssumption DEF MarksOf, Typed
  <2>4. MarkedFrom(t)'
    BY <2>1, <2>2, <2>3 DEF MarkedFrom, Threads
  <2> QED BY <2>1, <2>2, <2>4 DEF MarksOf
<1>20. CASE Mark(t)
  <2> DEFINE u == loc[t].i - 1
  <2>1. /\ pc[t] = "mark" /\ pc'[t] = "mark" /\ flock' = flock /\ loc[t].i > 0
        /\ lockactive' = [lockactive EXCEPT ![u] = TRUE]
        /\ nthreads' = nthreads /\ loc'[t].nlocked = loc[t].nlocked /\ loc'[t].i = u
    BY <1>20, <1>typ DEF Mark, Typed, Locals
  <2>2. MarkedFrom(t) /\ flock = t
    BY <1>mk, <2>1 DEF MarksOf
  <2>3. u \in Threads /\ u < nthreads /\ nthreads \in Nat
    BY <1>typ, <2>1, <2>2, SystemLockAssumption DEF MarkedFrom, Typed, Locals, Threads
  <2>4. MarkedFrom(t)'
    <3>1. \A w \in Threads : lockactive'[w] <=> u <= w /\ w < nthreads
      <4> TAKE w \in Threads
      <4>1. u \in Nat /\ w \in Nat /\ nthreads \in Nat /\ loc[t].i = u + 1
        BY <1>typ, <2>3 DEF Threads, Typed, Locals
      <4>2. lockactive[w] <=> loc[t].i <= w /\ w < nthreads
        BY <2>2 DEF MarkedFrom
      <4>3. lockactive'[w] = IF w = u THEN TRUE ELSE lockactive[w]
        BY <1>typ, <2>1, <2>3 DEF Typed
      <4>4. u <= w <=> loc[t].i <= w \/ w = u
        BY <4>1
      <4> QED BY <2>3, <4>2, <4>3, <4>4
    <3>2. loc'[t].nlocked = nthreads /\ u <= nthreads
      BY <2>1, <2>2, <2>3 DEF MarkedFrom, Threads
    <3> QED BY <2>1, <3>1, <3>2 DEF MarkedFrom
  <2>5. loc'[t].nlocked = nthreads'
    BY <2>4 DEF MarkedFrom
  <2> QED BY <2>1, <2>2, <2>4, <2>5 DEF MarksOf
<1>21. CASE Marked(t)
  <2>1. /\ pc[t] = "mark" /\ pc'[t] = "count" /\ flock = t /\ loc[t].i = 0 /\ MarkedFrom(t)
        /\ lockactive' = lockactive /\ nthreads' = nthreads /\ loc' = loc
    BY <1>21, <1>typ, <1>mk DEF Marked, Typed, MarksOf, Goto
  <2>2. AllMarked /\ loc'[t].nlocked = nthreads
    BY <2>1 DEF AllMarked, MarkedFrom, Threads
  <2>3. \A v \in Threads \ {t} : pc'[v] # "filling"
    BY <1>typ, <1>mk, <2>1, Others DEF Marks, MarksOf
  <2> QED BY <1>standing, <2>1, <2>2, <2>3
<1>22. CASE SetCount(t)
  <2>1. pc[t] = "count"
    BY <1>22, <1>pl DEF SetCount, PlaceOf, Idle, Asking, Leading, Joining, Executing, Waiting, Blank
  <2>2. AllMarked
    BY <1>mk, <2>1 DEF Marks, MarksOf
  <2>3. /\ lockactive' = lockactive /\ nthreads' = nthreads
        /\ pc'[t] \in {"state"}
    BY <1>22, <1>typ DEF SetCount, Typed, Goto, tables
  <2>4. loc'[t].nlocked = nthreads \/ ~(LeadsNow(t)' \/ Executor(t)')
    <3>1. loc' = loc /\ ~Lead(t) /\ ~SeeRequests(t)
      BY <1>22 DEF SetCount, Lead, SeeRequests
    <3>2. /\ LeadsNow(t)' => LeadsNow(t)
          /\ Executor(t)' => Executor(t) /\ (LeadsNow(t) \/ loc[t].phase = 5)
      BY <1>drv, <1>pl, <2>1, <3>1, DriverPlace
    <3> QED BY <1>mk, <2>1, <3>1, <3>2 DEF MarksOf
  <2>5. pc'[t] \in {"count", "state"} => \A u \in Threads : pc'[u] # "filling"
    BY <1>mk, <1>typ, <2>1, <2>3, Others DEF MarksOf
  <2> QED BY <1>quiet, <1>standing, <2>2, <2>3, <2>4, <2>5
<1>23. CASE SetState(t)
  <2>1. pc[t] = "state"
    BY <1>23, <1>pl DEF SetState, PlaceOf, Idle, Asking, Leading, Joining, Executing, Waiting, Blank
  <2>2. AllMarked
    BY <1>mk, <2>1 DEF Marks, MarksOf
  <2>3. /\ lockactive' = lockactive /\ nthreads' = nthreads
        /\ pc'[t] \in {"expr"}
    BY <1>23, <1>typ DEF SetState, Typed, Goto, tables
  <2>4. loc'[t].nlocked = nthreads \/ ~(LeadsNow(t)' \/ Executor(t)')
    <3>1. loc' = loc /\ ~Lead(t) /\ ~SeeRequests(t)
      BY <1>23 DEF SetState, Lead, SeeRequests
    <3>2. /\ LeadsNow(t)' => LeadsNow(t)
          /\ Executor(t)' => Executor(t) /\ (LeadsNow(t) \/ loc[t].phase = 5)
      BY <1>drv, <1>pl, <2>1, <3>1, DriverPlace
    <3> QED BY <1>mk, <2>1, <3>1, <3>2 DEF MarksOf
  <2>5. pc'[t] \in {"count", "state"} => \A u \in Threads : pc'[u] # "filling"
    BY <2>3
  <2> QED BY <1>quiet, <1>standing, <2>2, <2>3, <2>4, <2>5
<1>24. CASE HandCounts(t)
  <2>1. pc[t] = "count" /\ systemlock = 3
    BY <1>24, <1>pl
       DEF HandCounts, PlaceOf, Idle, Asking, Leading, Joining, Executing, Waiting, Blank
  <2>2. AllMarked
    BY <1>mk, <2>1 DEF Marks, MarksOf
  <2>3. /\ lockactive' = lockactive /\ nthreads' = nthreads
        /\ pc'[t] \in {"state"}
    BY <1>24, <1>typ DEF HandCounts, Typed, Goto, tables
  <2>4. loc'[t].nlocked = nthreads \/ ~(LeadsNow(t)' \/ Executor(t)')
    <3>1. loc' = loc /\ ~Lead(t) /\ ~SeeRequests(t) /\ loc[t].phase = 4
      BY <1>24 DEF HandCounts, Lead, SeeRequests
    <3>2. /\ LeadsNow(t)' => LeadsNow(t)
          /\ Executor(t)' => LeadsNow(t)
      BY <1>drv, <1>pl, <2>1, <3>1, DriverPlace
    <3> QED BY <1>mk, <2>1, <3>1, <3>2 DEF MarksOf
  <2>5. pc'[t] \in {"count", "state"} => \A u \in Threads : pc'[u] # "filling"
    BY <1>mk, <1>typ, <2>1, <2>3, Others DEF MarksOf
  <2> QED BY <1>quiet, <1>standing, <2>2, <2>3, <2>4, <2>5
<1>25. CASE Await(t)
  <2>1. /\ pc[t] = "await" /\ pc'[t] = "expr" /\ lockactive' = lockactive
        /\ nthreads' = nthreads /\ systemlock = loc[t].phase /\ loc' = loc
    BY <1>25, <1>typ DEF Await, Goto, Typed, tables
  <2>2. AllMarked
    <3>1. CASE systemlock \in 2 .. 4
      BY <1>mk, <3>1 DEF Marks
    <3>2. CASE systemlock = 5
      <4>1. PICK e \in Threads : pc[e] \in {"expr", "drain", "clearcode", "unmark"}
        BY <3>2 DEF IndInv, OneDriver
      <4>2. pc[e] # "unmark"
        BY <2>1, <4>1 DEF IndInv, Passed
      <4> QED BY <1>mk, <4>1, <4>2 DEF Marks, MarksOf
    <3>3. loc[t].phase \in {2, 3, 5}
      BY <1>25, <1>pl DEF Await, PlaceOf, Idle, Asking, Leading, Joining, Executing, Waiting, Blank
    <3> QED BY <2>1, <3>1, <3>2, <3>3
  <2>3. ~(LeadsNow(t)' \/ Executor(t)')
    <3>1. ~Lead(t) /\ ~SeeRequests(t) /\ ~LeadsNow(t)
      BY <1>25, <1>pl, DriverPlace DEF Await, Lead, SeeRequests
    <3>2. ~Executor(t)
      BY <1>25, <1>pl, <2>1
         DEF Await, Joiner, Saw, Executor, PlaceOf, Idle, Asking, Leading, Joining, Executing,
             Waiting, Blank
    <3> QED BY <1>drv, <3>1, <3>2
  <2> QED BY <1>standing, <2>1, <2>2, <2>3
<1>26. CASE AddRequest(t)
  <2>1. /\ pc[t] = "expr" /\ pc'[t] \in {"drain", "checkin"} /\ lockactive' = lockactive
        /\ nthreads' = nthreads /\ loc'[t].nlocked = loc[t].nlocked
        /\ loc'[t].phase = loc[t].phase /\ loc'[t].role = loc[t].role
    BY <1>26, <1>typ, AddRequestStep DEF AddRequest, tables
  <2>2. AllMarked
    BY <1>mk, <2>1 DEF MarksOf
  <2>3. LeadsNow(t)' => LeadsNow(t)
    BY <2>1 DEF LeadsNow
  <2>4. Executor(t)' => Executor(t) \/ loc[t].phase = 3
    BY <1>drv DEF SeeRequests
  <2>5. AllMarked'
    BY <2>1, <2>2 DEF AllMarked
  <2> QED BY <1>mk, <2>1, <2>3, <2>4, <2>5 DEF MarksOf
<1>27. CASE SeeRequests(t)
  <2>1. /\ pc[t] = "expr" /\ pc'[t] \in {"drain", "checkin"} /\ lockactive' = lockactive
        /\ nthreads' = nthreads /\ loc'[t].nlocked = loc[t].nlocked
        /\ loc'[t].phase = loc[t].phase /\ loc'[t].role = loc[t].role
    BY <1>27, <1>typ DEF SeeRequests, Synch, Goto, Typed, Locals, tables
  <2>2. AllMarked
    BY <1>mk, <2>1 DEF MarksOf
  <2>3. LeadsNow(t)' => LeadsNow(t)
    BY <2>1 DEF LeadsNow
  <2>4. Executor(t)' => Executor(t) \/ loc[t].phase = 3
    BY <1>drv DEF SeeRequests
  <2>5. AllMarked'
    BY <2>1, <2>2 DEF AllMarked
  <2> QED BY <1>mk, <2>1, <2>3, <2>4, <2>5 DEF MarksOf
<1>28. CASE SeeResult(t)
  <2>1. /\ pc[t] = "expr" /\ pc'[t] \in {"drain", "checkin"} /\ lockactive' = lockactive
        /\ nthreads' = nthreads /\ loc'[t].nlocked = loc[t].nlocked
        /\ loc'[t].phase = loc[t].phase /\ loc'[t].role = loc[t].role
    BY <1>28, <1>typ DEF SeeResult, Synch, Goto, Typed, Locals, tables
  <2>2. AllMarked
    BY <1>mk, <2>1 DEF MarksOf
  <2>3. LeadsNow(t)' => LeadsNow(t)
    BY <2>1 DEF LeadsNow
  <2>4. Executor(t)' => Executor(t) \/ loc[t].phase = 3
    BY <1>drv DEF SeeRequests
  <2>5. AllMarked'
    BY <2>1, <2>2 DEF AllMarked
  <2> QED BY <1>mk, <2>1, <2>3, <2>4, <2>5 DEF MarksOf
<1>29. CASE Drained(t)
  <2>1. /\ pc[t] = "drain" /\ pc'[t] = (IF loc[t].phase = 5 THEN "clearcode" ELSE "count")
        /\ lockactive' = lockactive /\ nthreads' = nthreads /\ loc'[t].nlocked = loc[t].nlocked
        /\ loc'[t].role = loc[t].role
    BY <1>29, <1>typ DEF Drained, Goto, Typed, Locals, tables
  <2>2. AllMarked
    BY <1>mk, <2>1 DEF MarksOf
  <2>3. loc'[t].nlocked = nthreads
    BY <1>mk, <1>pl, <2>1, DriverPlace DEF MarksOf
  <2>4. systemlock \in 2 .. 5
    BY <1>pl, <2>1 DEF PlaceOf, Idle, Asking, Leading, Joining, Executing, Waiting, Blank
  <2> QED BY <1>standing, <2>1, <2>2, <2>3, <2>4, NoneFills
<1>30. CASE PickUp(t)
  <2>1. /\ pc[t] = "await" /\ loc[t].phase = 4 /\ systemlock = 4 /\ pc'[t] = "clearrequests"
        /\ lockactive' = lockactive /\ nthreads' = nthreads
        /\ loc'[t] = [loc[t] EXCEPT !.nrunning = systemlocktct, !.nlocked = systemlockthreadct]
    BY <1>30, <1>typ DEF PickUp, Goto, Typed, tables
  <2>2. loc'[t].nlocked = systemlockthreadct
    BY <1>typ, <2>1 DEF Locals
  <2>3. systemlockthreadct = nthreads
    BY <2>1 DEF IndInv, Counts, Handing
  <2>4. AllMarked
    BY <1>mk, <2>1 DEF Marks
  <2> QED BY <1>standing, <2>1, <2>2, <2>3, <2>4
<1>31. CASE ClearRequests(t)
  <2>1. /\ pc[t] = "clearrequests" /\ pc'[t] = "function" /\ systemlock = 4
        /\ lockactive' = lockactive /\ nthreads' = nthreads /\ loc' = loc
    BY <1>31, <1>typ, <1>pl
       DEF ClearRequests, Goto, Typed, tables, PlaceOf, Idle, Asking, Leading, Joining,
           Executing, Waiting, Blank
  <2> QED BY <1>mk, <1>pl, <1>standing, <2>1, DriverPlace DEF Marks, MarksOf
<1>32. CASE Function(t)
  <2>1. /\ pc[t] = "function" /\ pc'[t] = "count" /\ systemlock = 4
        /\ lockactive' = lockactive /\ nthreads' = nthreads /\ loc'[t].nlocked = loc[t].nlocked
    BY <1>32, <1>typ, <1>pl
       DEF Function, Goto, Typed, Locals, tables, PlaceOf, Idle, Asking, Leading, Joining,
           Executing, Waiting, Blank
  <2> QED BY <1>mk, <1>pl, <1>standing, <2>1, DriverPlace, NoneFills DEF Marks, MarksOf
<1>33. CASE ClearCode(t)
  <2>1. /\ pc[t] = "clearcode" /\ pc'[t] = "unmark" /\ lockactive' = lockactive
        /\ nthreads' = nthreads /\ loc'[t].nlocked = loc[t].nlocked /\ loc'[t].i = 0
    BY <1>33, <1>typ DEF ClearCode, Goto, Typed, Locals, tables
  <2>2. AllMarked /\ loc[t].nlocked = nthreads /\ nthreads \in Nat
    BY <1>typ, <1>mk, <1>pl, <2>1, DriverPlace, SystemLockAssumption DEF MarksOf, Typed
  <2>3. MarkedFrom(t)'
    BY <2>1, <2>2 DEF AllMarked, MarkedFrom, Threads
  <2> QED BY <2>1, <2>2, <2>3 DEF MarksOf
<1>34. CASE Unmark(t)
  <2> DEFINE k == loc[t].i
  <2>1. /\ pc[t] = "unmark" /\ pc'[t] = "unmark" /\ k < loc[t].nlocked
        /\ lockactive' = [lockactive EXCEPT ![k] = FALSE]
        /\ nthreads' = nthreads /\ loc'[t].nlocked = loc[t].nlocked /\ loc'[t].i = k + 1
    BY <1>34, <1>typ DEF Unmark, Typed, Locals
  <2>2. MarkedFrom(t)
    BY <1>mk, <2>1 DEF MarksOf
  <2>3. k \in Threads /\ k < nthreads /\ nthreads \in Nat
    BY <1>typ, <2>1, <2>2, SystemLockAssumption DEF MarkedFrom, Typed, Locals, Threads
  <2>4. MarkedFrom(t)'
    <3>1. \A w \in Threads : lockactive'[w] <=> k + 1 <= w /\ w < nthreads
      <4> TAKE w \in Threads
      <4>1. k \in Nat /\ w \in Nat /\ nthreads \in Nat
        BY <2>3 DEF Threads
      <4>2. lockactive[w] <=> k <= w /\ w < nthreads
        BY <2>2 DEF MarkedFrom
      <4>3. lockactive'[w] = IF w = k THEN FALSE ELSE lockactive[w]
        BY <1>typ, <2>1, <2>3 DEF Typed
      <4>4. k + 1 <= w <=> k <= w /\ w # k
        BY <4>1
      <4> QED BY <4>2, <4>3, <4>4
    <3>2. loc'[t].nlocked = nthreads /\ k + 1 <= nthreads
      BY <2>1, <2>2, <2>3 DEF MarkedFrom, Threads
    <3> QED BY <2>1, <3>1, <3>2 DEF MarkedFrom
  <2>5. loc'[t].nlocked = nthreads'
    BY <2>4 DEF MarkedFrom
  <2> QED BY <2>1, <2>4, <2>5 DEF MarksOf
<1> QED BY <1>1, <1>2, <1>3, <1>4, <1>5, <1>6, <1>7, <1>8, <1>9, <1>10, <1>11, <1>12, <1>13,
         <1>14, <1>15, <1>16, <1>17, <1>18, <1>19, <1>20, <1>21, <1>22, <1>23, <1>24, <1>25,
         <1>26, <1>27, <1>28, <1>29, <1>30, <1>31, <1>32, <1>33, <1>34
         DEF Step, Act

\* The marks are those of the threads that the lock knows.
LEMMA MarksKept == ASSUME IndInv, NEW t \in Threads, Act(t) PROVE Marks'
BY MarksGlobal, OwnMarks, OthersMarks DEF Marks

\* The thread that counts the others in.
Drives(t) ==
    \/ LeadsNow(t)
    \/ Executor(t) /\ loc[t].phase = 5 /\ pc[t] \in {"count", "state", "expr", "drain"}

\* Where a thread that uses the counts is.
LEMMA DrivesWhere ==
    ASSUME NEW t \in Threads, PlaceOf(t)
    PROVE  /\ LeadsNow(t) => systemlock \in 1 .. 3
           /\ Drives(t) /\ ~LeadsNow(t) => systemlock \in 4 .. 5
           /\ Drives(t) => pc[t] \in {"flock", "mark", "count", "state", "expr", "drain"}
           /\ pc[t] \in {"state", "expr", "drain"} /\ Leads(t) /\ loc[t].phase # 4 => Drives(t)
           /\ pc[t] = "count" => Drives(t)
<1>1. LeadsNow(t) => systemlock \in 1 .. 3
  BY DEF LeadsNow, Joiner, PlaceOf, Idle, Asking, Leading, Joining, Executing, Waiting, Blank
<1>2. Drives(t) /\ ~LeadsNow(t) => systemlock \in 4 .. 5
  BY DEF Drives, Joiner, Saw, Executor, PlaceOf, Idle, Asking, Leading, Joining, Executing,
         Waiting, Blank
<1>3. pc[t] \in {"state", "expr", "drain"} /\ Leads(t) /\ loc[t].phase # 4 => Drives(t)
  BY DEF Drives, LeadsNow, Leads, Joiner, PlaceOf, Idle, Asking, Leading, Joining, Executing,
         Waiting, Blank
<1> QED BY <1>1, <1>2, <1>3, DriverPlace DEF Drives

\* One thread at a time uses the counts.
LEMMA OneDrives ==
    ASSUME IndInv, NEW t \in Threads, NEW u \in Threads, Drives(t), Drives(u)
    PROVE  t = u
<1>1. PlaceOf(t) /\ PlaceOf(u) /\ Typed /\ OneDriver
  BY DEF IndInv, Place
<1>2. LeadsNow(t) <=> LeadsNow(u)
  BY <1>1, DrivesWhere
<1> QED BY <1>1, <1>2 DEF Drives, OneDriver

\* While a thread leads, executes or is about to take the counts over, the threads that run
\* and the threads that exist are known.
LEMMA Known ==
    ASSUME IndInv, NEW t \in Threads, Act(t), AllMarked
    PROVE  running' = running
<1>1. Typed /\ Counts
  BY DEF IndInv
<1>2. ~SetRunning(t)
  BY DEF SetRunning, AllMarked
<1>3. CASE ClrRunning(t)
  <2>1. running[t] /\ t < nthreads
    BY <1>1, <1>3 DEF ClrRunning, Counts, CountsOf
  <2> QED BY <1>3, <2>1 DEF ClrRunning, AllMarked
<1> QED BY <1>2, <1>3, Frame

\* A thread checks in once, and does not leave the place while it is counted.
LEMMA OwnArrived ==
    ASSUME Typed, NEW t \in Threads, Act(t)
    PROVE  /\ \A n \in {2, 3, 5} : Arrived(t, n)' => Arrived(t, n) \/ CheckIn(t) \/ HandState(t)
           /\ pc'[t] = "out" => ClrRunning(t)
           /\ pc[t] = "out" => SetRunning(t)
<1> USE DEF Typed, Arrived
<1>typ. Typed /\ loc[t] \in Locals
  BY DEF Typed
<1>1. CASE SetRunning(t)
  BY <1>1, <1>typ DEF SetRunning, Goto, shared, Locals, Blank
<1>2. CASE EnterUser(t)
  BY <1>2, <1>typ DEF EnterUser, Goto, shared, Locals, Blank
<1>3. CASE LeaveUser(t)
  BY <1>3, <1>typ DEF LeaveUser, Goto, shared, Locals, Blank
<1>4. CASE ClrRunning(t)
  <2>1. pc[t] = "clr"
    BY <1>4 DEF ClrRunning
  <2>2. pc'[t] = "out" \/ (pc'[t] = "await" /\ loc'[t].phase = 2)
    BY <1>4, <1>typ, ClrRunningStep
  <2> QED BY <1>4, <2>1, <2>2
<1>5. CASE Notice(t)
  BY <1>5, <1>typ DEF Notice, Goto, AcceptAll, Locals, Blank
<1>6. CASE CreateThread(t)
  BY <1>6, <1>typ DEF CreateThread, Goto, shared, Locals, Blank
<1>7. CASE CreateFlock(t)
  BY <1>7, <1>typ DEF CreateFlock, Goto, shared, Locals, Blank
<1>8. CASE CreateDefer(t)
  BY <1>8, <1>typ DEF CreateDefer, Goto, AcceptAll, Locals, Blank
<1>9. CASE CreateGo(t)
  BY <1>9, <1>typ DEF CreateGo, Goto, shared, Locals, Blank
<1>10. CASE CreateFill(t)
  BY <1>10, <1>typ DEF CreateFill, Goto, shared, Locals, Blank
<1>11. CASE Request(t)
  BY <1>11, <1>typ DEF Request, Goto, shared, Locals, Blank
<1>12. CASE Lead(t)
  BY <1>12, <1>typ DEF Lead, Goto, Locals, Blank
<1>13. CASE Follow(t)
  BY <1>13, <1>typ DEF Follow, Goto, Locals, Blank
<1>14. CASE LeaderFlock(t)
  BY <1>14, <1>typ DEF LeaderFlock, Goto, shared, Locals, Blank
<1>15. CASE Mark(t)
  BY <1>15, <1>typ DEF Mark, shared, Locals, Blank
<1>16. CASE Marked(t)
  BY <1>16, <1>typ DEF Marked, Goto, shared, Locals, Blank
<1>17. CASE SetCount(t)
  BY <1>17, <1>typ DEF SetCount, Goto, Locals, Blank
<1>18. CASE SetState(t)
  BY <1>18, <1>typ DEF SetState, Goto, Locals, Blank
<1>19. CASE Await(t)
  BY <1>19, <1>typ DEF Await, Goto, shared, Locals, Blank
<1>20. CASE AddRequest(t)
  <2>1. pc[t] = "expr"
    BY <1>20 DEF AddRequest
  <2>2. pc'[t] \in {"drain", "checkin"}
    BY <1>20, <1>typ, AddRequestStep
  <2> QED BY <1>20, <2>1, <2>2
<1>21. CASE SeeRequests(t)
  BY <1>21, <1>typ DEF SeeRequests, Goto, Synch, shared, Locals, Blank
<1>22. CASE SeeResult(t)
  BY <1>22, <1>typ DEF SeeResult, Goto, Synch, shared, Locals, Blank
<1>23. CASE Drained(t)
  BY <1>23, <1>typ DEF Drained, Goto, shared, Locals, Blank
<1>24. CASE CheckIn(t)
  <2>1. pc[t] = "checkin"
    BY <1>24 DEF CheckIn
  <2>2. pc'[t] \in {"await", "wait5"}
    BY <1>24, <1>typ DEF CheckIn, Goto
  <2> QED BY <1>24, <2>1, <2>2
<1>25. CASE HandCounts(t)
  BY <1>25, <1>typ DEF HandCounts, Goto, Locals, Blank
<1>26. CASE HandState(t)
  <2>1. pc[t] = "state"
    BY <1>26 DEF HandState
  <2>2. pc'[t] = "await" 
    BY <1>26, <1>typ, HandStateStep
  <2> QED BY <1>26, <2>1, <2>2
<1>27. CASE PickUp(t)
  BY <1>27, <1>typ DEF PickUp, Goto, shared, Locals, Blank
<1>28. CASE ClearRequests(t)
  BY <1>28, <1>typ DEF ClearRequests, Goto, Locals, Blank
<1>29. CASE Function(t)
  BY <1>29, <1>typ DEF Function, Goto, Locals, Blank
<1>30. CASE ClearCode(t)
  BY <1>30, <1>typ DEF ClearCode, Goto, Locals, Blank
<1>31. CASE Unmark(t)
  BY <1>31, <1>typ DEF Unmark, shared, Locals, Blank
<1>32. CASE Release(t)
  BY <1>32, <1>typ DEF Release, Goto, AskAgain, Locals, Blank
<1>33. CASE RequesterLeaves(t)
  BY <1>33, <1>typ DEF RequesterLeaves, Goto, AskAgain, shared, Locals, Blank
<1>34. CASE AcceptorLeaves(t)
  <2>1. pc[t] = "wait5"
    BY <1>34 DEF AcceptorLeaves
  <2>2. pc'[t] \in {"user", "clr", "create"} \/ (pc'[t] = "await" /\ loc'[t].phase = 2)
    BY <1>34, <1>typ, AcceptorLeavesStep DEF Locals
  <2> QED BY <1>34, <2>1, <2>2
<1> QED BY <1>1, <1>2, <1>3, <1>4, <1>5, <1>6, <1>7, <1>8, <1>9, <1>10, <1>11, <1>12, <1>13,
         <1>14, <1>15, <1>16, <1>17, <1>18, <1>19, <1>20, <1>21, <1>22, <1>23, <1>24, <1>25,
         <1>26, <1>27, <1>28, <1>29, <1>30, <1>31, <1>32, <1>33, <1>34
         DEF Step, Act

\* Who checks in has arrived.
LEMMA ArrivesAtCheckIn ==
    ASSUME Typed, NEW t \in Threads, CheckIn(t), loc[t].phase \in {2, 3, 5}
    PROVE  \A n : n = loc[t].phase => Arrived(t, n)'
<1>1. /\ pc'[t] = IF loc[t].phase = 5 THEN "wait5" ELSE "await"
      /\ loc'[t].phase = NextPhase(t)
  BY DEF CheckIn, Typed, Goto, Locals
<1>2. CASE loc[t].phase = 2
  BY <1>1, <1>2 DEF NextPhase, Arrived
<1>3. CASE loc[t].phase = 3
  <2>1. NextPhase(t) \in {4, 5}
    BY <1>3 DEF NextPhase
  <2> QED BY <1>1, <1>3, <2>1 DEF Arrived
<1>4. CASE loc[t].phase = 5
  BY <1>1, <1>4 DEF Arrived
<1> QED BY <1>2, <1>3, <1>4

\* The threads that the one that drives still waits for, after a step of another thread.
LEMMA OthersMissing ==
    ASSUME IndInv, NEW t \in Threads, Act(t), NEW u \in Threads \ {t}, Drives(u),
           pc[u] \in {"state", "expr", "drain"}, loc[u].phase \in {2, 3, 5}, ~CheckIn(t)
    PROVE  Missing(u)' = Missing(u)
<1>1. Typed /\ PlaceOf(u) /\ MarksOf(u)
  BY DEF IndInv, Place, Marks
<1>2. AllMarked
  BY <1>1 DEF MarksOf
<1>3. running' = running
  BY <1>2, Known
<1>4. loc'[u] = loc[u] /\ \A w \in Threads \ {t} : pc'[w] = pc[w] /\ loc'[w] = loc[w]
  BY <1>1, Others
<1>5. ~HandState(t)
  <2>1. HandState(t) => Drives(t)
    <3>1. PlaceOf(t)
      BY DEF IndInv, Place
    <3> QED BY <3>1, DriverPlace DEF HandState, Drives
  <2> QED BY <2>1, OneDrives
<1>6. \A n : n = loc[u].phase => (Arrived(t, n)' <=> Arrived(t, n))
  <2>1. loc[u].phase = 2 => systemlock # 3
    BY <1>1
       DEF PlaceOf, Idle, Asking, Leading, Joining, Executing, Waiting, Blank, Joiner, Drives,
           LeadsNow
  <2>2. loc[u].phase = 3 => systemlock \in 1 .. 3
    BY <1>1, DrivesWhere DEF Drives
  <2>3. loc[u].phase = 5 => systemlock \in 4 .. 5
    BY <1>1, DrivesWhere DEF Drives, LeadsNow
  <2>4. pc[t] = "wait5" => systemlock # 4
    <3>1. PlaceOf(t)
      BY DEF IndInv, Place
    <3> QED BY <3>1 DEF PlaceOf, Idle, Asking, Leading, Joining, Executing, Waiting, Blank, Joiner
  <2>5. /\ Arrived(t, 2) => systemlock = 3
        /\ Arrived(t, 3) => systemlock \in {4, 5}
        /\ pc[t] = "wait5" => systemlock # 5
    BY OwnPassage
  <2>6. Arrived(t, 5) <=> pc[t] = "wait5"
    BY DEF Arrived
  <2>7. \A n \in {2, 3, 5} : Arrived(t, n)' => Arrived(t, n)
    BY <1>1, <1>5, OwnArrived
  <2>8. ~Arrived(t, 2) \/ loc[u].phase # 2
    BY <2>1, <2>5
  <2>9. ~Arrived(t, 3) \/ loc[u].phase # 3
    BY <2>2, <2>5
  <2>10. ~Arrived(t, 5) \/ loc[u].phase # 5
    BY <2>3, <2>4, <2>5, <2>6
  <2> QED BY <2>7, <2>8, <2>9, <2>10
<1>7. \A w \in Threads : \A n : n = loc[u].phase => (Arrived(w, n)' <=> Arrived(w, n))
  BY <1>4, <1>6 DEF Arrived
<1>8. \A w \in Threads : ~Arrived(w, loc[u].phase)' <=> ~Arrived(w, loc[u].phase)
  BY <1>4, <1>7 DEF Arrived
<1> QED BY <1>3, <1>4, <1>8 DEF Missing

\* After every step a thread runs exactly if it is not out, and runs only if it exists.
LEMMA RunsWhere ==
    ASSUME IndInv, NEW t \in Threads, Act(t), NEW u \in Threads
    PROVE  /\ running'[u] <=> pc'[u] # "out"
           /\ running'[u] => u < nthreads'
<1>typ. Typed /\ Typed' /\ Counts
  BY TypedKept DEF IndInv
<1>1. /\ running[u] <=> pc[u] # "out"
      /\ running[u] => u < nthreads
  BY <1>typ DEF Counts, CountsOf
<1>2. nthreads <= nthreads' /\ nthreads \in Nat /\ nthreads' \in Nat /\ u \in Int
  BY <1>typ, Frame, SystemLockAssumption DEF CreateFill, Typed, Threads
<1>3. CASE u # t
  <2>1. pc'[u] = pc[u] /\ running'[u] = running[u]
    BY <1>typ, <1>3, Others, Frame DEF SetRunning, ClrRunning, Typed
  <2> QED BY <1>1, <1>2, <2>1
<1>4. CASE u = t
  <2>1. CASE SetRunning(t)
    BY <1>typ, <1>4, <2>1 DEF SetRunning, Goto, Typed
  <2>2. CASE ClrRunning(t)
    <3>1. pc[t] = "clr" /\ nthreads' = nthreads
      BY <2>2 DEF ClrRunning
    <3> QED BY <1>typ, <1>1, <1>4, <2>2, <3>1, ClrRunningStep DEF Typed
  <2>3. CASE ~SetRunning(t) /\ ~ClrRunning(t)
    <3>1. running' = running
      BY <2>3, Frame
    <3>2. pc[t] # "out" /\ pc'[t] # "out"
      BY <1>typ, <2>3, OwnArrived
    <3> QED BY <1>1, <1>2, <1>4, <3>1, <3>2
  <2> QED BY <2>1, <2>2, <2>3
<1> QED BY <1>3, <1>4

\* The steps of a thread keep what the counts are for the others.
LEMMA OthersCounts ==
    ASSUME IndInv, NEW t \in Threads, Act(t), NEW u \in Threads \ {t}
    PROVE  CountsOf(u)'
<1>typ. Typed /\ Typed' /\ PlaceOf(u) /\ MarksOf(u) /\ CountsOf(u) /\ Marks
  BY TypedKept DEF IndInv, Place, Marks, Counts
<1>loc. /\ pc'[u] = pc[u] /\ loc'[u] = loc[u] /\ LeadsNow(u)' = LeadsNow(u) /\ Leads(u)' = Leads(u)
  BY <1>typ, OthersLocal
<1>1. ASSUME pc[u] = "mark" PROVE MarkedRunning(u)' = MarkedRunning(u)
  <2>1. MarkedFrom(u)
    BY <1>1, <1>typ DEF MarksOf
  <2>2. CASE running' = running
    BY <1>loc, <2>2 DEF MarkedRunning, Running
  <2>3. CASE running' # running
    <3>1. SetRunning(t) \/ ClrRunning(t)
      BY <2>3, Frame
    <3>2. ~lockactive[t] /\ t < nthreads /\ \A w \in Threads \ {t} : running'[w] = running[w]
      <4>1. CASE SetRunning(t)
        BY <1>typ, <4>1 DEF SetRunning, Typed
      <4>2. CASE ClrRunning(t)
        <5>1. pc[t] = "clr"
          BY <4>2 DEF ClrRunning
        <5>2. t < nthreads
          BY <5>1 DEF IndInv, Counts, CountsOf
        <5> QED BY <1>typ, <2>3, <4>2, <5>2, ClrRunningStep DEF Typed
      <4> QED BY <3>1, <4>1, <4>2
    <3>3. ~(loc[u].i <= t)
      BY <2>1, <3>2 DEF MarkedFrom
    <3> QED BY <1>loc, <3>2, <3>3 DEF MarkedRunning, Running
  <2> QED BY <2>2, <2>3
<1>2. ASSUME \/ pc[u] \in {"count", "state", "expr", "drain", "clearrequests", "function"}
             \/ LeadsNow(u) /\ pc[u] \notin {"flock", "mark"}
      PROVE  Running' = Running
  <2>1. pc[u] \in {"count", "state", "expr", "drain", "clearrequests", "function"}
    BY <1>2, <1>typ, DriverPlace
  <2>2. pc[u] \in {"clearrequests", "function"} => systemlock = 4
    BY <1>typ DEF PlaceOf, Idle, Asking, Leading, Joining, Executing, Waiting, Blank
  <2>3. AllMarked
    BY <1>typ, <2>1, <2>2 DEF Marks, MarksOf
  <2> QED BY <2>3, Known DEF Running
<1>3. ASSUME pc[u] \in {"state", "expr", "drain"}, Leads(u), loc[u].phase # 4
      PROVE  systemlocktct' = Cardinality(Missing(u)')
  <2>1. Drives(u) /\ loc[u].phase \in {2, 3, 5}
    BY <1>3, <1>typ, DrivesWhere DEF Drives, LeadsNow
  <2>2. systemlocktct = Cardinality(Missing(u))
    BY <1>3, <1>typ DEF CountsOf
  <2>3. ~SetCount(t) /\ ~HandCounts(t)
    <3>1. pc[t] = "count" => Drives(t)
      <4>1. PlaceOf(t)
        BY DEF IndInv, Place
      <4> QED BY <4>1, DrivesWhere
    <3> QED BY <2>1, <3>1, OneDrives DEF SetCount, HandCounts
  <2>4. CASE ~CheckIn(t)
    <3>1. systemlocktct' = systemlocktct
      BY <2>3, <2>4, Frame
    <3>2. Missing(u)' = Missing(u)
      BY <1>3, <2>1, <2>4, OthersMissing
    <3> QED BY <2>2, <3>1, <3>2
  <2>5. CASE CheckIn(t)
    <3>1. pc[t] = "checkin"
      BY <2>5 DEF CheckIn
    <3>2. PICK d \in Threads \ {t} :
              /\ pc[d] \in {"expr", "drain"} /\ Leads(d) /\ loc[d].phase = loc[t].phase
              /\ t \in Missing(d) /\ systemlocktct = Cardinality(Missing(d))
              /\ loc[t].phase \in {2, 3, 5}
      BY <3>1, Awaited
    <3>3. d = u
      <4>1. PlaceOf(d)
        BY DEF IndInv, Place
      <4>2. Drives(d)
        BY <3>2, <4>1, DrivesWhere
      <4> QED BY <2>1, <4>2, OneDrives
    <3>4. Missing(u)' = Missing(u) \ {t}
      <4>1. running' = running
        BY <2>5 DEF CheckIn, tables
      <4>2. \A w \in Threads \ {t} : pc'[w] = pc[w] /\ loc'[w] = loc[w]
        BY <1>typ, Others
      <4>3. \A n : n = loc[u].phase => Arrived(t, n)'
        BY <1>typ, <2>5, <3>2, <3>3, ArrivesAtCheckIn
      <4>4. \A w \in Threads \ {t} : Arrived(w, loc[u].phase)' <=> Arrived(w, loc[u].phase)
        BY <1>loc, <4>2 DEF Arrived
      <4>5. Arrived(t, loc[u].phase)'
        BY <1>loc, <4>3 DEF Arrived
      <4> QED BY <1>loc, <4>1, <4>4, <4>5 DEF Missing
    <3>5. systemlocktct' = systemlocktct - 1
      BY <2>5 DEF CheckIn
    <3>6. Missing(u) \in SUBSET Threads
      BY DEF Missing
    <3> QED BY <3>2, <3>3, <3>4, <3>5, <3>6, CountedOnce
  <2> QED BY <2>4, <2>5
<1> QED BY <1>typ, <1>loc, <1>1, <1>2, <1>3, RunsWhere DEF CountsOf

\* The steps of a thread keep what the counts are for itself.
LEMMA OwnCounts ==
    ASSUME IndInv, NEW t \in Threads, Act(t)
    PROVE  CountsOf(t)'
<1>typ. Typed /\ Typed' /\ loc[t] \in Locals
  BY TypedKept DEF IndInv, Typed
<1>pl. PlaceOf(t) /\ PlaceOf(t)'
  BY PlaceKept DEF IndInv, Place
<1>ct. CountsOf(t) /\ Counts
  BY DEF IndInv, Counts
<1>run. (running'[t] <=> pc'[t] # "out") /\ (running'[t] => t < nthreads')
  BY RunsWhere
<1>lead. LeadsNow(t)' => pc'[t] \in {"flock", "mark", "count", "state", "expr", "drain"}
  BY <1>pl DEF LeadsNow, Joiner, PlaceOf, Idle, Asking, Leading, Joining, Executing, Waiting, Blank
<1>quiet. ASSUME pc'[t] \notin {"ask", "flock", "mark", "count", "state", "expr", "drain",
                                "clearrequests", "function"}
          PROVE  CountsOf(t)'
  BY <1>quiet, <1>run, <1>lead DEF CountsOf
<1>stay. ASSUME running' = running, loc'[t].phase = loc[t].phase
         PROVE  Missing(t)' = Missing(t)
  <2>1. \A w \in Threads \ {t} : pc'[w] = pc[w] /\ loc'[w] = loc[w]
    BY <1>typ, Others
  <2>2. \A w \in Threads \ {t} : Arrived(w, loc[t].phase)' <=> Arrived(w, loc[t].phase)
    BY <1>stay, <2>1 DEF Arrived
  <2> QED BY <1>stay, <2>2 DEF Missing
<1>1. CASE SetRunning(t)
  BY <1>1, <1>typ, <1>quiet DEF SetRunning, Goto, Typed
<1>2. CASE EnterUser(t)
  BY <1>2, <1>typ, <1>quiet DEF EnterUser, Goto, Typed
<1>3. CASE LeaveUser(t)
  BY <1>3, <1>typ, <1>quiet DEF LeaveUser, Goto, Typed
<1>4. CASE Notice(t)
  BY <1>4, <1>typ, <1>quiet DEF Notice, Goto, AcceptAll, Typed
<1>5. CASE CreateThread(t)
  BY <1>5, <1>typ, <1>quiet DEF CreateThread, Goto, Typed
<1>6. CASE CreateDefer(t)
  BY <1>6, <1>typ, <1>quiet DEF CreateDefer, Goto, AcceptAll, Typed
<1>7. CASE CreateFill(t)
  BY <1>7, <1>typ, <1>quiet DEF CreateFill, Goto, Typed
<1>8. CASE Follow(t)
  BY <1>8, <1>typ, <1>quiet DEF Follow, Goto, Typed
<1>9. CASE CreateFlock(t)
  BY <1>9, <1>typ, <1>quiet DEF CreateFlock, Goto, Typed
<1>10. CASE CreateGo(t)
  BY <1>10, <1>typ, <1>quiet DEF CreateGo, Goto, Typed
<1>11. CASE CheckIn(t)
  BY <1>11, <1>typ, <1>quiet DEF CheckIn, Goto, Typed
<1>12. CASE ClearCode(t)
  BY <1>12, <1>typ, <1>quiet DEF ClearCode, Goto, Typed
<1>13. CASE Unmark(t)
  BY <1>13, <1>typ, <1>quiet DEF Unmark, Typed
<1>14. CASE ClrRunning(t)
  BY <1>14, <1>typ, <1>quiet, ClrRunningStep
<1>15. CASE HandState(t)
  BY <1>15, <1>typ, <1>quiet, HandStateStep
<1>16. CASE AcceptorLeaves(t)
  <2>1. pc'[t] \in {"user", "clr", "create", "await"}
    BY <1>16, <1>typ, AcceptorLeavesStep DEF Locals
  <2> QED BY <1>quiet, <2>1
<1>17. CASE Request(t)
  <2>1. \/ pc'[t] \in {"user", "direct"}
        \/ pc'[t] = "ask" /\ loc'[t].nrunning = 0
    BY <1>17, <1>typ DEF Request, Goto, Typed, Blank
  <2> QED BY <1>quiet, <1>run, <1>lead, <2>1 DEF CountsOf
<1>18. CASE Release(t)
  <2>1. \/ pc'[t] \in {"user", "direct"}
        \/ pc'[t] = "ask" /\ loc'[t].nrunning = 0
    BY <1>18, <1>typ DEF Release, AskAgain, Goto, Typed, Blank
  <2> QED BY <1>quiet, <1>run, <1>lead, <2>1 DEF CountsOf
<1>19. CASE RequesterLeaves(t)
  <2>1. \/ pc'[t] \in {"user", "direct"}
        \/ pc'[t] = "ask" /\ loc'[t].nrunning = 0
    BY <1>19, <1>typ DEF RequesterLeaves, AskAgain, Goto, Typed, Blank
  <2> QED BY <1>quiet, <1>run, <1>lead, <2>1 DEF CountsOf
<1>20. CASE Lead(t)
  <2>1. pc[t] = "ask" /\ pc'[t] = "flock" /\ loc'[t].nrunning = loc[t].nrunning
    BY <1>20, <1>typ DEF Lead, Goto, Typed, Locals
  <2> QED BY <1>ct, <1>run, <2>1 DEF CountsOf
<1>21. CASE LeaderFlock(t)
  <2>1. /\ pc[t] = "flock" /\ pc'[t] = "mark" /\ running' = running
        /\ loc'[t] = [loc[t] EXCEPT !.nlocked = nthreads, !.i = nthreads]
    BY <1>21, <1>typ DEF LeaderFlock, Goto, Typed
  <2>2. loc'[t].nrunning = loc[t].nrunning /\ loc'[t].i = nthreads
    BY <1>typ, <2>1 DEF Locals
  <2>3. MarkedRunning(t)' = {}
    <3>1. \A w \in Threads : running[w] => w < nthreads
      BY <1>ct DEF Counts, CountsOf
    <3>2. nthreads \in Nat
      BY <1>typ, SystemLockAssumption DEF Typed
    <3> QED BY <2>1, <2>2, <3>1, <3>2 DEF MarkedRunning, Running, Threads
  <2> QED BY <1>ct, <1>run, <2>1, <2>2, <2>3, FS_EmptySet DEF CountsOf
<1>22. CASE Mark(t)
  <2> DEFINE u == loc[t].i - 1
             n == loc[t].nrunning + IF running[u] THEN 1 ELSE 0
  <2>1. /\ pc[t] = "mark" /\ pc'[t] = "mark" /\ running' = running /\ loc[t].i > 0
        /\ loc'[t].i = u /\ loc'[t].nrunning = n
    BY <1>22, <1>typ DEF Mark, Typed, Locals
  <2>2. n = Cardinality({w \in Running : u <= w})
    BY <2>1, MarkOne
  <2>3. MarkedRunning(t)' = {w \in Running : u <= w}
    BY <2>1 DEF MarkedRunning, Running
  <2> QED BY <1>run, <2>1, <2>2, <2>3 DEF CountsOf
<1>23. CASE Marked(t)
  <2>1. /\ pc[t] = "mark" /\ pc'[t] = "count" /\ running' = running /\ loc[t].i = 0 /\ loc' = loc
    BY <1>23, <1>typ DEF Marked, Typed, Goto
  <2>2. MarkedRunning(t) = Running
    BY <2>1 DEF MarkedRunning, Running, Threads
  <2>3. Running' = Running
    BY <2>1 DEF Running
  <2> QED BY <1>ct, <1>run, <2>1, <2>2, <2>3 DEF CountsOf
<1>24. CASE SetCount(t)
  <2>1. /\ pc[t] = "count" /\ pc'[t] = "state" /\ running' = running /\ loc' = loc
        /\ systemlocktct' = loc[t].nrunning - 1
    BY <1>24, <1>typ DEF SetCount, Typed, Goto, tables
  <2>2. Running' = Running
    BY <2>1 DEF Running
  <2>3. Missing(t) = Running \ {t} /\ t \in Running
    <3>1. \/ loc[t].phase = 2 /\ systemlock = 1
          \/ loc[t].phase = 3 /\ systemlock = 2
          \/ loc[t].phase = 5 /\ systemlock = 4
      BY <1>24, <1>pl
         DEF SetCount, PlaceOf, Idle, Asking, Leading, Joining, Executing, Waiting, Blank
    <3>2. ASSUME NEW w \in Threads PROVE ~Arrived(w, loc[t].phase)
      <4>1. PlaceOf(w)
        BY DEF IndInv, Place
      <4>2. systemlock = 1 => ~Arrived(w, 2)
        BY <4>1
           DEF Arrived, Joiner, PlaceOf, Idle, Asking, Leading, Joining, Executing, Waiting,
               Blank
      <4>3. systemlock = 2 => ~Arrived(w, 3)
        BY <4>1
           DEF Arrived, Joiner, PlaceOf, Idle, Asking, Leading, Joining, Executing, Waiting,
               Blank
      <4>4. systemlock = 4 => ~Arrived(w, 5)
        BY <4>1
           DEF Arrived, Joiner, PlaceOf, Idle, Asking, Leading, Joining, Executing, Waiting,
               Blank
      <4> QED BY <3>1, <4>2, <4>3, <4>4
    <3>3. running[t]
      BY <1>ct, <2>1 DEF CountsOf
    <3> QED BY <3>2, <3>3 DEF Missing, Running
  <2>4. systemlocktct' = Cardinality(Missing(t))
    <3>1. Running \in SUBSET Threads
      BY DEF Running
    <3> QED BY <1>ct, <2>1, <2>3, <3>1, CountedOnce DEF CountsOf
  <2>5. Missing(t)' = Missing(t)
    BY <1>stay, <2>1
  <2> QED BY <1>ct, <1>run, <2>1, <2>2, <2>4, <2>5 DEF CountsOf
<1>25. CASE SetState(t)
  <2>1. /\ pc[t] = "state" /\ pc'[t] = "expr" /\ running' = running /\ loc' = loc
        /\ systemlocktct' = systemlocktct /\ loc[t].phase # 4
    BY <1>25, <1>typ DEF SetState, Typed, Goto, tables
  <2>2. Running' = Running /\ Missing(t)' = Missing(t)
    BY <1>stay, <2>1 DEF Running
  <2>3. Leads(t)' = Leads(t)
    BY <2>1 DEF Leads, Executor, Winning
  <2> QED BY <1>ct, <1>run, <2>1, <2>2, <2>3 DEF CountsOf
<1>26. CASE Await(t)
  <2>1. pc[t] = "await" /\ pc'[t] = "expr" /\ loc' = loc /\ loc[t].phase # 4
    BY <1>26, <1>typ DEF Await, Goto, Typed
  <2>2. ~Leads(t) /\ ~LeadsNow(t)
    BY <1>pl, <2>1
       DEF Leads, LeadsNow, Joiner, PlaceOf, Idle, Asking, Leading, Joining, Executing,
           Waiting, Blank
  <2>3. ~Leads(t)' /\ ~LeadsNow(t)'
    BY <2>1, <2>2 DEF Leads, LeadsNow, Executor, Winning
  <2> QED BY <1>run, <2>1, <2>3 DEF CountsOf
<1>27. CASE AddRequest(t)
  <2>1. /\ pc[t] = "expr" /\ running' = running /\ systemlocktct' = systemlocktct
        /\ pc'[t] = (IF Leads(t) THEN "drain" ELSE "checkin")
        /\ loc'[t].nrunning = loc[t].nrunning /\ loc[t].phase # 4
        /\ loc'[t].phase = loc[t].phase /\ loc'[t].role = loc[t].role
    BY <1>27, <1>typ, AddRequestStep DEF AddRequest, Leads, tables
  <2>2. Running' = Running /\ Missing(t)' = Missing(t)
    BY <1>stay, <2>1 DEF Running
  <2>3. LeadsNow(t)' => LeadsNow(t)
    BY <2>1 DEF LeadsNow
  <2> QED BY <1>ct, <1>run, <2>1, <2>2, <2>3 DEF CountsOf
<1>28. CASE SeeRequests(t)
  <2>1. /\ pc[t] = "expr" /\ running' = running /\ systemlocktct' = systemlocktct
        /\ pc'[t] = (IF Leads(t) THEN "drain" ELSE "checkin")
        /\ loc'[t].nrunning = loc[t].nrunning /\ loc[t].phase # 4
        /\ loc'[t].phase = loc[t].phase /\ loc'[t].role = loc[t].role
    <3>1. /\ pc[t] = "expr" /\ running' = running /\ systemlocktct' = systemlocktct
          /\ pc'[t] = (IF Leads(t) THEN "drain" ELSE "checkin") /\ loc[t].phase # 4
      BY <1>28, <1>typ DEF SeeRequests, Synch, Goto, Typed, tables, shared
    <3>2. loc'[t] = [loc[t] EXCEPT !.final = breakbyte]
      BY <1>28, <1>typ DEF SeeRequests, Typed
    <3>3. /\ loc'[t].nrunning = loc[t].nrunning /\ loc'[t].phase = loc[t].phase
          /\ loc'[t].role = loc[t].role
      BY <1>typ, <3>2 DEF Locals
    <3> QED BY <3>1, <3>3
  <2>2. Running' = Running /\ Missing(t)' = Missing(t)
    BY <1>stay, <2>1 DEF Running
  <2>3. LeadsNow(t)' => LeadsNow(t)
    BY <2>1 DEF LeadsNow
  <2> QED BY <1>ct, <1>run, <2>1, <2>2, <2>3 DEF CountsOf
<1>29. CASE SeeResult(t)
  <2>1. /\ pc[t] = "expr" /\ running' = running /\ systemlocktct' = systemlocktct
        /\ pc'[t] = (IF Leads(t) THEN "drain" ELSE "checkin")
        /\ loc'[t].nrunning = loc[t].nrunning /\ loc[t].phase # 4
        /\ loc'[t].phase = loc[t].phase /\ loc'[t].role = loc[t].role
    <3>1. /\ pc[t] = "expr" /\ running' = running /\ systemlocktct' = systemlocktct
          /\ pc'[t] = (IF Leads(t) THEN "drain" ELSE "checkin") /\ loc[t].phase # 4
      BY <1>29, <1>typ DEF SeeResult, Synch, Goto, Typed, tables, shared
    <3>2. loc'[t] = [loc[t] EXCEPT !.old = IF loc[t].role = "acceptor" THEN breakbyte ELSE loc[t].old]
      BY <1>29, <1>typ DEF SeeResult, Typed
    <3>3. /\ loc'[t].nrunning = loc[t].nrunning /\ loc'[t].phase = loc[t].phase
          /\ loc'[t].role = loc[t].role
      BY <1>typ, <3>2 DEF Locals
    <3> QED BY <3>1, <3>3
  <2>2. Running' = Running /\ Missing(t)' = Missing(t)
    BY <1>stay, <2>1 DEF Running
  <2>3. LeadsNow(t)' => LeadsNow(t)
    BY <2>1 DEF LeadsNow
  <2> QED BY <1>ct, <1>run, <2>1, <2>2, <2>3 DEF CountsOf
<1>30. CASE Drained(t)
  <2>1. /\ pc[t] = "drain" /\ pc'[t] = (IF loc[t].phase = 5 THEN "clearcode" ELSE "count")
        /\ running' = running /\ loc'[t].nrunning = loc[t].nrunning
    BY <1>30, <1>typ DEF Drained, Goto, Typed, Locals, tables
  <2>2. CASE loc[t].phase = 5
    BY <1>quiet, <2>1, <2>2
  <2>3. CASE loc[t].phase # 5
    <3>1. LeadsNow(t)
      BY <1>pl, <2>1, <2>3, DriverPlace
    <3>2. loc[t].nrunning = Cardinality(Running)
      BY <1>ct, <2>1, <3>1 DEF CountsOf
    <3>3. Running' = Running
      BY <2>1 DEF Running
    <3> QED BY <1>run, <2>1, <2>3, <3>2, <3>3 DEF CountsOf
  <2> QED BY <2>2, <2>3
<1>31. CASE HandCounts(t)
  <2>1. pc[t] = "count" /\ pc'[t] = "state" /\ running' = running /\ loc' = loc /\ loc[t].phase = 4
    BY <1>31, <1>typ DEF HandCounts, Typed, Goto, tables
  <2>2. Running' = Running
    BY <2>1 DEF Running
  <2> QED BY <1>ct, <1>run, <2>1, <2>2 DEF CountsOf
<1>32. CASE PickUp(t)
  <2>1. /\ pc[t] = "await" /\ loc[t].phase = 4 /\ systemlock = 4 /\ pc'[t] = "clearrequests"
        /\ running' = running
        /\ loc'[t] = [loc[t] EXCEPT !.nrunning = systemlocktct, !.nlocked = systemlockthreadct]
    BY <1>32, <1>typ DEF PickUp, Goto, Typed, tables
  <2>2. loc'[t].nrunning = systemlocktct
    BY <1>typ, <2>1 DEF Locals
  <2>3. systemlocktct = Cardinality(Running)
    BY <1>ct, <2>1 DEF Counts, Handing
  <2>4. Running' = Running
    BY <2>1 DEF Running
  <2> QED BY <1>run, <1>lead, <2>1, <2>2, <2>3, <2>4 DEF CountsOf
<1>33. CASE ClearRequests(t)
  <2>1. /\ pc[t] = "clearrequests" /\ pc'[t] = "function" /\ running' = running
        /\ loc'[t].nrunning = loc[t].nrunning
    BY <1>33, <1>typ DEF ClearRequests, Goto, Typed, Locals, tables
  <2>2. Running' = Running
    BY <2>1 DEF Running
  <2> QED BY <1>ct, <1>run, <1>lead, <2>1, <2>2 DEF CountsOf
<1>34. CASE Function(t)
  <2>1. /\ pc[t] = "function" /\ pc'[t] = "count" /\ running' = running
        /\ loc'[t].nrunning = loc[t].nrunning
    BY <1>34, <1>typ DEF Function, Goto, Typed, Locals, tables
  <2>2. Running' = Running
    BY <2>1 DEF Running
  <2> QED BY <1>ct, <1>run, <1>lead, <2>1, <2>2 DEF CountsOf
<1> QED BY <1>1, <1>2, <1>3, <1>4, <1>5, <1>6, <1>7, <1>8, <1>9, <1>10, <1>11, <1>12, <1>13,
         <1>14, <1>15, <1>16, <1>17, <1>18, <1>19, <1>20, <1>21, <1>22, <1>23, <1>24, <1>25,
         <1>26, <1>27, <1>28, <1>29, <1>30, <1>31, <1>32, <1>33, <1>34
         DEF Step, Act

\* The only way to be about to hand over the counts is the step that prepares it.
LEMMA OwnHanding ==
    ASSUME IndInv, NEW t \in Threads, Act(t)
    PROVE  Handing(t)' => Handing(t) \/ HandCounts(t)
<1> USE DEF Typed, Handing
<1>typ. Typed /\ Typed' /\ loc[t] \in Locals
  BY TypedKept DEF IndInv
<1>pl. PlaceOf(t)
  BY DEF IndInv, Place
<1>1. CASE SetRunning(t)
  BY <1>1, <1>typ DEF SetRunning, Goto, shared, Locals, Blank
<1>2. CASE EnterUser(t)
  BY <1>2, <1>typ DEF EnterUser, Goto, shared, Locals, Blank
<1>3. CASE LeaveUser(t)
  BY <1>3, <1>typ DEF LeaveUser, Goto, shared, Locals, Blank
<1>4. CASE ClrRunning(t)
  BY <1>4, <1>typ, ClrRunningStep
<1>5. CASE Notice(t)
  <2>1. pc'[t] = "await" /\ loc'[t].phase = 2
    BY <1>5, <1>typ DEF Notice, AcceptAll, Goto, Blank
  <2> QED BY <2>1
<1>6. CASE CreateThread(t)
  BY <1>6, <1>typ DEF CreateThread, Goto, shared, Locals, Blank
<1>7. CASE CreateFlock(t)
  BY <1>7, <1>typ DEF CreateFlock, Goto, shared, Locals, Blank
<1>8. CASE CreateDefer(t)
  <2>1. pc'[t] = "await" /\ loc'[t].phase = 2
    BY <1>8, <1>typ DEF CreateDefer, AcceptAll, Goto, Blank
  <2> QED BY <2>1
<1>9. CASE CreateGo(t)
  BY <1>9, <1>typ DEF CreateGo, Goto, shared, Locals, Blank
<1>10. CASE CreateFill(t)
  BY <1>10, <1>typ DEF CreateFill, Goto, shared, Locals, Blank
<1>11. CASE Request(t)
  BY <1>11, <1>typ DEF Request, Goto, shared, Locals, Blank
<1>12. CASE Lead(t)
  BY <1>12, <1>typ DEF Lead, Goto, Locals, Blank
<1>13. CASE Follow(t)
  <2>1. pc'[t] = "await" /\ loc'[t].phase = 2
    BY <1>13, <1>typ DEF Follow, Goto, Locals
  <2> QED BY <2>1
<1>14. CASE LeaderFlock(t)
  BY <1>14, <1>typ DEF LeaderFlock, Goto, shared, Locals, Blank
<1>15. CASE Mark(t)
  BY <1>15, <1>typ DEF Mark, shared, Locals, Blank
<1>16. CASE Marked(t)
  BY <1>16, <1>typ DEF Marked, Goto, shared, Locals, Blank
<1>17. CASE SetCount(t)
  BY <1>17, <1>typ DEF SetCount, Goto
<1>18. CASE SetState(t)
  BY <1>18, <1>typ DEF SetState, Goto, Locals, Blank
<1>19. CASE Await(t)
  BY <1>19, <1>typ DEF Await, Goto, shared, Locals, Blank
<1>20. CASE AddRequest(t)
  BY <1>20, <1>typ, AddRequestStep
<1>21. CASE SeeRequests(t)
  BY <1>21, <1>typ DEF SeeRequests, Goto, Synch, shared, Locals, Blank
<1>22. CASE SeeResult(t)
  BY <1>22, <1>typ DEF SeeResult, Goto, Synch, shared, Locals, Blank
<1>23. CASE Drained(t)
  BY <1>23, <1>typ DEF Drained, Goto, shared, Locals, Blank
<1>24. CASE CheckIn(t)
  <2>1. pc[t] = "checkin" /\ systemlock' = systemlock /\ pc'[t] \in {"await", "wait5"}
    BY <1>24, <1>typ DEF CheckIn, Goto
  <2>2. systemlock # 4
    BY <1>pl, <2>1 DEF Joiner, PlaceOf, Idle, Asking, Leading, Joining, Executing, Waiting, Blank
  <2> QED BY <2>1, <2>2
<1>25. CASE HandCounts(t)
  BY <1>25, <1>typ DEF HandCounts, Goto, Locals, Blank
<1>26. CASE HandState(t)
  BY <1>26, <1>typ DEF HandState
<1>27. CASE PickUp(t)
  BY <1>27, <1>typ DEF PickUp, Goto, shared, Locals, Blank
<1>28. CASE ClearRequests(t)
  BY <1>28, <1>typ DEF ClearRequests, Goto, Locals, Blank
<1>29. CASE Function(t)
  BY <1>29, <1>typ DEF Function, Goto, Locals, Blank
<1>30. CASE ClearCode(t)
  BY <1>30, <1>typ DEF ClearCode, Goto, Locals, Blank
<1>31. CASE Unmark(t)
  BY <1>31, <1>typ DEF Unmark, shared, Locals, Blank
<1>32. CASE Release(t)
  BY <1>32, <1>typ DEF Release, Goto, AskAgain, Locals, Blank
<1>33. CASE RequesterLeaves(t)
  BY <1>33, <1>typ DEF RequesterLeaves, Goto, AskAgain, shared, Locals, Blank
<1>34. CASE AcceptorLeaves(t)
  <2>1. pc'[t] \in {"user", "clr", "create"} \/ (pc'[t] = "await" /\ loc'[t].phase = 2)
    BY <1>34, <1>typ, AcceptorLeavesStep DEF Locals
  <2> QED BY <2>1
<1> QED BY <1>1, <1>2, <1>3, <1>4, <1>5, <1>6, <1>7, <1>8, <1>9, <1>10, <1>11, <1>12, <1>13,
         <1>14, <1>15, <1>16, <1>17, <1>18, <1>19, <1>20, <1>21, <1>22, <1>23, <1>24, <1>25,
         <1>26, <1>27, <1>28, <1>29, <1>30, <1>31, <1>32, <1>33, <1>34
         DEF Step, Act

\* The counts that the leader hands over are true until they are picked up.
LEMMA HandingKept ==
    ASSUME IndInv, NEW t \in Threads, Act(t), NEW u \in Threads, Handing(u)'
    PROVE  systemlocktct' = Cardinality(Running)' /\ systemlockthreadct' = nthreads'
<1>typ. Typed /\ Counts /\ Marks /\ OneDriver /\ \A v \in Threads : PlaceOf(v)
  BY DEF IndInv, Place
<1>1. CASE HandCounts(t)
  <2>1. /\ pc[t] = "count" /\ loc[t].phase = 4 /\ running' = running /\ nthreads' = nthreads
        /\ systemlocktct' = loc[t].nrunning /\ systemlockthreadct' = loc[t].nlocked
    BY <1>1 DEF HandCounts, tables
  <2>2. LeadsNow(t)
    BY <1>typ, <2>1, DriverPlace
  <2>3. loc[t].nrunning = Cardinality(Running) /\ loc[t].nlocked = nthreads
    BY <1>typ, <2>1, <2>2 DEF Counts, CountsOf, Marks, MarksOf
  <2>4. Running' = Running
    BY <2>1 DEF Running
  <2> QED BY <2>1, <2>3, <2>4
<1>2. CASE ~HandCounts(t)
  <2>1. PICK v \in Threads : Handing(v)
    <3>1. CASE u = t
      BY <1>2, <3>1, OwnHanding
    <3>2. CASE u # t
      <4>1. pc'[u] = pc[u] /\ loc'[u] = loc[u]
        BY <1>typ, <3>2, Others
      <4>2. CASE HandState(t)
        BY <4>2 DEF HandState, Handing
      <4>3. CASE ~HandState(t)
        <5>1. systemlock' = 4 => systemlock = 4
          BY <4>3, Moves, <1>typ DEF Lead, SetState, Release
        <5> QED BY <4>1, <5>1 DEF Handing
      <4> QED BY <4>2, <4>3
    <3> QED BY <3>1, <3>2
  <2>2. \/ LeadsNow(v) /\ pc[v] = "state" /\ loc[v].phase = 4
        \/ Executor(v) /\ pc[v] = "await" /\ systemlock = 4
    BY <1>typ, <2>1
       DEF Handing, LeadsNow, Joiner, PlaceOf, Idle, Asking, Leading, Joining, Executing,
           Waiting, Blank
  <2>3. systemlock \in 2 .. 4
    BY <1>typ, <2>2, DriverPlace
  <2>4. AllMarked
    BY <1>typ, <2>3 DEF Marks
  <2>5. Running' = Running
    BY <2>4, Known DEF Running
  <2>6. nthreads' = nthreads
    BY <1>typ, <2>3, Frame, DriverPlace DEF CreateFill
  <2>7. ASSUME NEW d \in Threads, Drives(d), pc[d] \in {"count", "expr", "drain"} PROVE FALSE
    <3>1. CASE LeadsNow(v)
      BY <2>2, <2>7, <3>1, OneDrives DEF Drives, LeadsNow
    <3>2. CASE Executor(v) /\ pc[v] = "await" /\ systemlock = 4
      <4>1. Executor(d)
        BY <1>typ, <2>7, <3>2, DrivesWhere DEF Drives
      <4> QED BY <1>typ, <2>7, <3>2, <4>1 DEF OneDriver
    <3> QED BY <2>2, <3>1, <3>2
  <2>8. ~SetCount(t)
    BY <1>typ, <2>7, DrivesWhere DEF SetCount
  <2>9. ~CheckIn(t)
    <3>1. SUFFICES ASSUME pc[t] = "checkin" PROVE FALSE
      BY DEF CheckIn
    <3>2. PICK d \in Threads \ {t} :
              /\ pc[d] \in {"expr", "drain"} /\ Leads(d) /\ loc[d].phase = loc[t].phase
              /\ loc[t].phase \in {2, 3, 5}
      BY <3>1, Awaited
    <3>3. Drives(d)
      BY <1>typ, <3>2, DrivesWhere
    <3> QED BY <2>7, <3>2, <3>3
  <2>10. systemlocktct' = systemlocktct /\ systemlockthreadct' = systemlockthreadct
    BY <1>2, <2>8, <2>9, Frame
  <2> QED BY <1>typ, <2>1, <2>5, <2>6, <2>10 DEF Counts
<1> QED BY <1>1, <1>2

\* Every count that the lock uses is the number of threads that it stands for.
LEMMA CountsKept == ASSUME IndInv, NEW t \in Threads, Act(t) PROVE Counts'
<1>1. \A u \in Threads : CountsOf(u)'
  BY OwnCounts, OthersCounts
<1>2. \A u \in Threads : Handing(u)' =>
          systemlocktct' = Cardinality(Running)' /\ systemlockthreadct' = nthreads'
  BY HandingKept
<1> QED BY <1>1, <1>2 DEF Counts

(***************************************************************************)
(* Part 3: what the shared byte holds in each state and what each thread   *)
(* has seen of it, so that one thread executes; the invariant holds in     *)
(* every reachable state, and gives the safety properties.                 *)
(***************************************************************************)

\* The steps of a thread keep what the byte holds, as itself relies on it.
LEMMA OwnBytes ==
    ASSUME IndInv, NEW t \in Threads, Act(t)
    PROVE  BytesOf(t)'
<1>typ. Typed /\ Typed' /\ loc[t] \in Locals
  BY TypedKept DEF IndInv, Typed
<1>pl. PlaceOf(t) /\ PlaceOf(t)'
  BY PlaceKept DEF IndInv, Place
<1>by. BytesOf(t) /\ Bytes
  BY DEF IndInv, Bytes
<1>old. IF loc[t].role = "acceptor" THEN loc[t].old \in {{}, JERR}
           ELSE loc[t].old \subseteq Priorities
  BY <1>by DEF BytesOf
<1>quiet. ASSUME pc'[t] \notin {"function", "count", "state", "unmark"},
                 \/ loc'[t].old = {}
                 \/ loc'[t].old = loc[t].old /\ (loc'[t].role = loc[t].role
                        \/ (loc[t].role # "acceptor" /\ loc'[t].role # "acceptor"))
          PROVE  BytesOf(t)'
  BY <1>quiet, <1>old DEF BytesOf
<1>1. CASE SetRunning(t)
  BY <1>1, <1>typ, <1>quiet DEF SetRunning, Goto, Typed, Locals
<1>2. CASE EnterUser(t)
  BY <1>2, <1>typ, <1>quiet DEF EnterUser, Goto, Typed, Locals
<1>3. CASE LeaveUser(t)
  BY <1>3, <1>typ, <1>quiet DEF LeaveUser, Goto, Typed, Locals
<1>4. CASE CreateThread(t)
  BY <1>4, <1>typ, <1>quiet DEF CreateThread, Goto, Typed, Locals
<1>5. CASE CreateFlock(t)
  BY <1>5, <1>typ, <1>quiet DEF CreateFlock, Goto, Typed, Locals
<1>6. CASE CreateGo(t)
  BY <1>6, <1>typ, <1>quiet DEF CreateGo, Goto, Typed, Locals
<1>7. CASE CreateFill(t)
  BY <1>7, <1>typ, <1>quiet DEF CreateFill, Goto, Typed, Locals
<1>8. CASE SetState(t)
  BY <1>8, <1>typ, <1>quiet DEF SetState, Goto, Typed, Locals
<1>9. CASE Await(t)
  BY <1>9, <1>typ, <1>quiet DEF Await, Goto, Typed, Locals
<1>10. CASE LeaderFlock(t)
  BY <1>10, <1>typ, <1>quiet DEF LeaderFlock, Goto, Typed, Locals
<1>11. CASE Mark(t)
  BY <1>11, <1>typ, <1>quiet DEF Mark, Typed, Locals
<1>12. CASE Notice(t)
  <2>1. pc'[t] = "await" /\ loc'[t].old = {}
    BY <1>12, <1>typ DEF Notice, AcceptAll, Goto, Typed, Blank
  <2> QED BY <1>quiet, <2>1
<1>13. CASE CreateDefer(t)
  <2>1. pc'[t] = "await" /\ loc'[t].old = {}
    BY <1>13, <1>typ DEF CreateDefer, AcceptAll, Goto, Typed, Blank
  <2> QED BY <1>quiet, <2>1
<1>14. CASE ClrRunning(t)
  <2>1. pc'[t] \in {"await", "out"} /\ (loc'[t].old = {} \/ loc'[t] = loc[t])
    BY <1>14, <1>typ, ClrRunningStep
  <2> QED BY <1>quiet, <2>1
<1>15. CASE AcceptorLeaves(t)
  <2>1. pc'[t] \in {"user", "clr", "create", "await"} /\ loc'[t].old = {}
    BY <1>15, <1>typ, AcceptorLeavesStep DEF Locals, Blank
  <2> QED BY <1>quiet, <2>1
<1>16. CASE Request(t)
  <2>1. pc'[t] \in {"user", "direct", "ask"} /\ (loc'[t].old = {} \/ loc'[t] = loc[t])
    BY <1>16, <1>typ DEF Request, Goto, Typed, Blank
  <2> QED BY <1>quiet, <2>1
<1>17. CASE Release(t)
  <2>1. pc'[t] \in {"user", "direct", "ask"} /\ (loc'[t].old = {} \/ loc'[t] = loc[t])
    BY <1>17, <1>typ DEF Release, AskAgain, Goto, Typed, Blank
  <2> QED BY <1>quiet, <2>1
<1>18. CASE RequesterLeaves(t)
  <2>1. pc'[t] \in {"user", "direct", "ask"} /\ (loc'[t].old = {} \/ loc'[t] = loc[t])
    BY <1>18, <1>typ DEF RequesterLeaves, AskAgain, Goto, Typed, Blank
  <2> QED BY <1>quiet, <2>1
<1>19. CASE Lead(t)
  <2>1. pc'[t] = "flock" /\ loc'[t].old = loc[t].old /\ loc'[t].role # "acceptor"
    BY <1>19, <1>typ DEF Lead, Goto, Typed, Locals
  <2>2. loc[t].role # "acceptor"
    BY <1>19, <1>pl DEF Lead, PlaceOf, Idle, Asking, Leading, Joining, Executing, Waiting, Blank
  <2> QED BY <1>quiet, <2>1, <2>2
<1>20. CASE Follow(t)
  <2>1. pc'[t] = "await" /\ loc'[t].old = loc[t].old /\ loc'[t].role # "acceptor"
    BY <1>20, <1>typ DEF Follow, Goto, Typed, Locals
  <2>2. loc[t].role # "acceptor"
    BY <1>20, <1>pl DEF Follow, PlaceOf, Idle, Asking, Leading, Joining, Executing, Waiting, Blank
  <2> QED BY <1>quiet, <2>1, <2>2
<1>21. CASE HandState(t)
  <2>1. pc'[t] = "await" /\ loc'[t].old = loc[t].old /\ loc'[t].role = loc[t].role
    BY <1>21, <1>typ, HandStateStep
  <2> QED BY <1>quiet, <2>1
<1>22. CASE CheckIn(t)
  <2>1. pc'[t] \in {"await", "wait5"} /\ loc'[t].old = loc[t].old /\ loc'[t].role = loc[t].role
    BY <1>22, <1>typ DEF CheckIn, Goto, Typed, Locals
  <2> QED BY <1>quiet, <2>1
<1>23. CASE PickUp(t)
  <2>1. pc'[t] \in {"clearrequests"} /\ loc'[t].old = loc[t].old /\ loc'[t].role = loc[t].role
    BY <1>23, <1>typ DEF PickUp, Goto, Typed, Locals
  <2> QED BY <1>quiet, <2>1
<1>24. CASE SeeRequests(t)
  <2>1. pc'[t] \in {"drain", "checkin"} /\ loc'[t].old = loc[t].old /\ loc'[t].role = loc[t].role
    BY <1>24, <1>typ DEF SeeRequests, Goto, Typed, Locals, Synch
  <2> QED BY <1>quiet, <2>1
<1>25. CASE AddRequest(t)
  <2>1. systemlock = 2
    BY <1>25, <1>pl
       DEF AddRequest, PlaceOf, Idle, Asking, Leading, Joining, Executing, Waiting, Blank
  <2>2. breakbyte \subseteq Priorities
    BY <1>by, <2>1 DEF Bytes
  <2>3. /\ pc'[t] \in {"drain", "checkin"} /\ loc'[t].role = loc[t].role
        /\ loc'[t].old = IF loc[t].role = "acceptor" THEN loc[t].old ELSE breakbyte
    BY <1>25, <1>typ, AddRequestStep
  <2> QED BY <1>old, <2>2, <2>3 DEF BytesOf
<1>26. CASE SeeResult(t)
  <2>1. pc[t] = "expr" /\ loc[t].phase = 5
    BY <1>26 DEF SeeResult
  <2>2. systemlock = 5
    BY <1>pl, <2>1 DEF PlaceOf, Idle, Asking, Leading, Joining, Executing, Waiting, Blank
  <2>3. breakbyte \in {{}, JERR}
    BY <1>by, <2>2 DEF Bytes
  <2>4. pc'[t] \in {"drain", "checkin"}
    BY <1>26, <1>typ DEF SeeResult, Synch, Goto, Typed
  <2>5. loc'[t] = [loc[t] EXCEPT !.old = IF loc[t].role = "acceptor" THEN breakbyte ELSE loc[t].old]
    BY <1>26, <1>typ DEF SeeResult, Typed
  <2>6. /\ loc'[t].role = loc[t].role
        /\ loc'[t].old = IF loc[t].role = "acceptor" THEN breakbyte ELSE loc[t].old
    BY <1>typ, <2>5 DEF Locals
  <2> QED BY <1>old, <2>3, <2>4, <2>6 DEF BytesOf
<1>27. CASE Drained(t)
  <2>1. /\ pc[t] = "drain" /\ pc'[t] \in {"clearcode", "count"}
        /\ loc[t].phase = 5 => pc'[t] = "clearcode"
        /\ loc'[t].old = loc[t].old /\ loc'[t].role = loc[t].role /\ loc'[t].phase = NextPhase(t)
    BY <1>27, <1>typ DEF Drained, Goto, Typed, Locals
  <2>2. loc[t].phase # 5 => loc[t].phase \in {2, 3} /\ loc[t].role = "leader"
    BY <1>pl, <2>1 DEF PlaceOf, Idle, Asking, Leading, Joining, Executing, Waiting, Blank
  <2>3. loc[t].phase # 5 => loc'[t].phase \in {3, 4}
    BY <2>1, <2>2 DEF NextPhase, Leads
  <2> QED BY <1>old, <2>1, <2>3 DEF BytesOf
<1>28. CASE Marked(t)
  <2>1. pc'[t] = "count" /\ loc' = loc /\ breakbyte' = breakbyte /\ loc[t].phase # 5
    BY <1>28, <1>typ, <1>pl
       DEF Marked, Goto, Typed, shared, PlaceOf, Idle, Asking, Leading, Joining, Executing,
           Waiting, Blank
  <2> QED BY <1>by, <2>1 DEF BytesOf
<1>29. CASE HandCounts(t)
  <2>1. pc'[t] = "state" /\ loc' = loc /\ breakbyte' = breakbyte /\ loc[t].phase # 5
    BY <1>29, <1>typ, <1>pl
       DEF HandCounts, Goto, Typed, PlaceOf, Idle, Asking, Leading, Joining, Executing,
           Waiting, Blank
  <2> QED BY <1>by, <2>1 DEF BytesOf
<1>30. CASE SetCount(t)
  <2>1. pc'[t] = "state" /\ loc' = loc /\ breakbyte' = breakbyte /\ pc[t] = "count"
    BY <1>30, <1>typ, <1>pl
       DEF SetCount, Goto, Typed, PlaceOf, Idle, Asking, Leading, Joining, Executing, Waiting,
           Blank
  <2> QED BY <1>by, <2>1 DEF BytesOf
<1>31. CASE ClearRequests(t)
  <2>1. pc'[t] = "function" /\ loc' = loc /\ breakbyte' = {}
    BY <1>31, <1>typ DEF ClearRequests, Goto, Typed
  <2> QED BY <1>old, <2>1 DEF BytesOf
<1>32. CASE Function(t)
  <2>1. /\ pc'[t] = "count" /\ loc'[t].old = loc[t].old /\ loc'[t].role = loc[t].role
        /\ breakbyte' \in {{}, JERR}
    BY <1>32, <1>typ DEF Function, Goto, Typed, Locals
  <2> QED BY <1>old, <2>1 DEF BytesOf
<1>33. CASE ClearCode(t)
  <2>1. /\ pc'[t] = "unmark" /\ loc'[t].old = loc[t].old /\ loc'[t].role = loc[t].role
        /\ breakbyte' = {}
    BY <1>33, <1>typ DEF ClearCode, Goto, Typed, Locals
  <2> QED BY <1>old, <2>1 DEF BytesOf
<1>34. CASE Unmark(t)
  <2>1. /\ pc[t] = "unmark" /\ pc'[t] = "unmark" /\ loc'[t].old = loc[t].old
        /\ loc'[t].role = loc[t].role /\ breakbyte' = breakbyte
    BY <1>34, <1>typ DEF Unmark, Typed, Locals, shared
  <2> QED BY <1>by, <1>old, <2>1 DEF BytesOf
<1> QED BY <1>1, <1>2, <1>3, <1>4, <1>5, <1>6, <1>7, <1>8, <1>9, <1>10, <1>11, <1>12, <1>13,
         <1>14, <1>15, <1>16, <1>17, <1>18, <1>19, <1>20, <1>21, <1>22, <1>23, <1>24, <1>25,
         <1>26, <1>27, <1>28, <1>29, <1>30, <1>31, <1>32, <1>33, <1>34
         DEF Step, Act

\* Where the steps that write the byte are taken.
LEMMA Writes ==
    ASSUME NEW t \in Threads, PlaceOf(t)
    PROVE  /\ AddRequest(t) => systemlock = 2 /\ systemlock' = 2
           /\ ClearRequests(t) => systemlock = 4 /\ systemlock' = 4 /\ Executor(t)
              /\ breakbyte' = {}
           /\ Function(t) => systemlock = 4 /\ systemlock' = 4 /\ Executor(t)
           /\ ClearCode(t) => systemlock = 5 /\ systemlock' = 5 /\ breakbyte' = {}
           /\ Lead(t) => systemlock = 0 /\ systemlock' = 1 /\ breakbyte' = breakbyte
           /\ HandState(t) => systemlock = 3 /\ systemlock' = 4 /\ breakbyte' = breakbyte
           /\ SetState(t) => /\ systemlock' = loc[t].phase /\ pc[t] = "state"
                                /\ breakbyte' = breakbyte
                             /\ \/ systemlock = 1 /\ loc[t].phase = 2
                                \/ systemlock = 2 /\ loc[t].phase = 3
                                \/ systemlock = 4 /\ loc[t].phase = 5
           /\ Release(t) => systemlock = 5 /\ systemlock' = 0 /\ pc[t] = "unmark"
              /\ breakbyte' = breakbyte
<1>1. /\ AddRequest(t) => systemlock = 2 /\ systemlock' = 2
      /\ Lead(t) => systemlock = 0 /\ systemlock' = 1 /\ breakbyte' = breakbyte
  BY DEF AddRequest, Lead, PlaceOf, Idle, Asking, Leading, Joining, Executing, Waiting, Blank
<1>2. ClearRequests(t) => systemlock = 4 /\ systemlock' = 4 /\ Executor(t) /\ breakbyte' = {}
  BY DEF ClearRequests, PlaceOf, Idle, Asking, Leading, Joining, Executing, Waiting, Blank
<1>3. Function(t) => systemlock = 4 /\ systemlock' = 4 /\ Executor(t)
  BY DEF Function, PlaceOf, Idle, Asking, Leading, Joining, Executing, Waiting, Blank
<1>4. ClearCode(t) => systemlock = 5 /\ systemlock' = 5 /\ breakbyte' = {}
  BY DEF ClearCode, PlaceOf, Idle, Asking, Leading, Joining, Executing, Waiting, Blank
<1>5. HandState(t) => systemlock = 3 /\ systemlock' = 4 /\ breakbyte' = breakbyte
  BY DEF HandState, PlaceOf, Idle, Asking, Leading, Joining, Executing, Waiting, Blank
<1>6. SetState(t) => /\ systemlock' = loc[t].phase /\ pc[t] = "state" /\ breakbyte' = breakbyte
                     /\ \/ systemlock = 1 /\ loc[t].phase = 2
                        \/ systemlock = 2 /\ loc[t].phase = 3
                        \/ systemlock = 4 /\ loc[t].phase = 5
  BY DEF SetState, PlaceOf, Idle, Asking, Leading, Joining, Executing, Waiting, Blank
<1>7. Release(t) => systemlock = 5 /\ systemlock' = 0 /\ pc[t] = "unmark" /\ breakbyte' = breakbyte
  BY DEF Release, PlaceOf, Idle, Asking, Leading, Joining, Executing, Waiting, Blank
<1> QED BY <1>1, <1>2, <1>3, <1>4, <1>5, <1>6, <1>7

\* The steps of a thread keep what the byte holds, as the others rely on it.
LEMMA OthersBytes ==
    ASSUME IndInv, NEW t \in Threads, Act(t), NEW u \in Threads \ {t}
    PROVE  BytesOf(u)'
<1>typ. Typed /\ BytesOf(u) /\ PlaceOf(t) /\ PlaceOf(u) /\ OneDriver
  BY DEF IndInv, Place, Bytes
<1>loc. pc'[u] = pc[u] /\ loc'[u] = loc[u]
  BY <1>typ, Others
<1>pos. /\ pc[u] = "function" => systemlock = 4 /\ Executor(u)
        /\ pc[u] \in {"count", "state"} /\ loc[u].phase = 5 => systemlock = 4 /\ Executor(u)
        /\ pc[u] = "unmark" => systemlock = 5
  BY <1>typ DEF PlaceOf, Idle, Asking, Leading, Joining, Executing, Waiting, Blank
<1>1. CASE breakbyte' = breakbyte \/ breakbyte' = {}
  BY <1>1, <1>typ, <1>loc DEF BytesOf
<1>2. CASE AddRequest(t)
  <2>1. systemlock = 2
    BY <1>2, <1>typ, Writes
  <2> QED BY <1>typ, <1>loc, <1>pos, <2>1 DEF BytesOf
<1>3. CASE Function(t)
  <2>1. systemlock = 4 /\ Executor(t)
    BY <1>3, <1>typ, Writes
  <2>2. ~Executor(u)
    BY <1>typ, <2>1 DEF OneDriver
  <2> QED BY <1>typ, <1>loc, <1>pos, <2>1, <2>2 DEF BytesOf
<1> QED BY <1>typ, <1>1, <1>2, <1>3, Frame, Writes

\* The byte holds requests in the states 2 and 3, and an error code in state 5.
LEMMA BytesKept == ASSUME IndInv, NEW t \in Threads, Act(t) PROVE Bytes'
<1>typ. Typed /\ BytesOf(t) /\ PlaceOf(t) /\ Bytes
  BY DEF IndInv, Place, Bytes
<1>1. systemlock' \in 0 .. 1 => breakbyte' = {}
  <2>1. CASE systemlock' = systemlock
    BY <1>typ, <2>1, Frame, Writes DEF Bytes
  <2>2. CASE systemlock' # systemlock
    BY <1>typ, <2>2, Moves, Writes DEF Bytes, BytesOf
  <2> QED BY <2>1, <2>2
<1>2. systemlock' \in 2 .. 3 => breakbyte' \subseteq Priorities
  <2>1. AddRequest(t) => breakbyte' \subseteq Priorities
    BY <1>typ, AddRequestStep, Writes DEF Typed, Locals, Bytes
  <2>2. CASE systemlock' = systemlock
    BY <1>typ, <2>1, <2>2, Frame, Writes DEF Bytes
  <2>3. CASE systemlock' # systemlock
    BY <1>typ, <2>3, Moves, Writes DEF Bytes
  <2> QED BY <2>2, <2>3
<1>3. systemlock' = 5 => breakbyte' \in {{}, JERR}
  <2>1. CASE systemlock' = systemlock
    BY <1>typ, <2>1, Frame, Writes DEF Bytes
  <2>2. CASE systemlock' # systemlock
    BY <1>typ, <2>2, Moves, Writes DEF Bytes, BytesOf
  <2> QED BY <2>1, <2>2
<1> QED BY <1>1, <1>2, <1>3, OwnBytes, OthersBytes DEF Bytes

\* Once made, the request of a thread stays, and so does what it saw of the others.
LEMMA OwnAsked ==
    ASSUME IndInv, NEW t \in Threads, Act(t), systemlock \in 2 .. 4, ~AddRequest(t)
    PROVE  /\ Added(t)' <=> Added(t)
           /\ Added(t) => loc'[t].priority = loc[t].priority /\ loc'[t].old = loc[t].old
           /\ Saw(t)' => SeeRequests(t) \/ (Saw(t) /\ loc'[t].final = loc[t].final)
<1>typ. Typed /\ loc[t] \in Locals
  BY DEF IndInv, Typed
<1>pl. PlaceOf(t)
  BY DEF IndInv, Place
<1>away. ASSUME pc[t] \notin {"checkin", "drain"},
                loc[t].phase \in {0, 2} \/ pc[t] = "wait5",
                loc'[t].phase \in {0, 2}, pc'[t] \notin {"checkin", "drain"}
         PROVE  ~Added(t) /\ ~Added(t)' /\ ~Saw(t)'
  <2>1. pc[t] = "wait5" => loc[t].phase = 5
    BY <1>pl DEF PlaceOf, Idle, Asking, Leading, Joining, Executing, Waiting, Blank, Joiner
  <2> QED BY <1>away, <2>1 DEF Added, Saw, Requester
<1>kept. ASSUME loc'[t].role = loc[t].role, loc'[t].priority = loc[t].priority,
            loc'[t].old = loc[t].old,
                loc'[t].final = loc[t].final,
                Added(t)' <=> Added(t), Saw(t)' => Saw(t)
         PROVE  /\ Added(t)' <=> Added(t)
                /\ Added(t) => loc'[t].priority = loc[t].priority /\ loc'[t].old = loc[t].old
                /\ Saw(t)' => SeeRequests(t) \/ (Saw(t) /\ loc'[t].final = loc[t].final)
  BY <1>kept
<1>1. CASE SetRunning(t)
  <2>1. pc[t] \notin {"checkin", "drain"} /\ pc'[t] \notin {"checkin", "drain"} /\ loc' = loc
           /\ loc[t].phase = 0
    BY <1>1, <1>typ, <1>pl
       DEF SetRunning, Goto, Typed, PlaceOf, Idle, Asking, Leading, Joining, Executing,
           Waiting, Blank
  <2> QED BY <1>away, <2>1
<1>2. CASE EnterUser(t)
  <2>1. pc[t] \notin {"checkin", "drain"} /\ pc'[t] \notin {"checkin", "drain"} /\ loc' = loc
           /\ loc[t].phase = 0
    BY <1>2, <1>typ, <1>pl
       DEF EnterUser, Goto, Typed, PlaceOf, Idle, Asking, Leading, Joining, Executing, Waiting,
           Blank
  <2> QED BY <1>away, <2>1
<1>3. CASE LeaveUser(t)
  <2>1. pc[t] \notin {"checkin", "drain"} /\ pc'[t] \notin {"checkin", "drain"} /\ loc' = loc
           /\ loc[t].phase = 0
    BY <1>3, <1>typ, <1>pl
       DEF LeaveUser, Goto, Typed, PlaceOf, Idle, Asking, Leading, Joining, Executing, Waiting,
           Blank
  <2> QED BY <1>away, <2>1
<1>4. CASE CreateThread(t)
  <2>1. pc[t] \notin {"checkin", "drain"} /\ pc'[t] \notin {"checkin", "drain"} /\ loc' = loc
           /\ loc[t].phase = 0
    BY <1>4, <1>typ, <1>pl
       DEF CreateThread, Goto, Typed, PlaceOf, Idle, Asking, Leading, Joining, Executing,
           Waiting, Blank
  <2> QED BY <1>away, <2>1
<1>5. CASE CreateFlock(t)
  <2>1. pc[t] \notin {"checkin", "drain"} /\ pc'[t] \notin {"checkin", "drain"} /\ loc' = loc
           /\ loc[t].phase = 0
    BY <1>5, <1>typ, <1>pl
       DEF CreateFlock, Goto, Typed, PlaceOf, Idle, Asking, Leading, Joining, Executing,
           Waiting, Blank
  <2> QED BY <1>away, <2>1
<1>6. CASE CreateGo(t)
  <2>1. pc[t] \notin {"checkin", "drain"} /\ pc'[t] \notin {"checkin", "drain"} /\ loc' = loc
           /\ loc[t].phase = 0
    BY <1>6, <1>typ, <1>pl
       DEF CreateGo, Goto, Typed, PlaceOf, Idle, Asking, Leading, Joining, Executing, Waiting,
           Blank
  <2> QED BY <1>away, <2>1
<1>7. CASE CreateFill(t)
  <2>1. pc[t] \notin {"checkin", "drain"} /\ pc'[t] \notin {"checkin", "drain"} /\ loc' = loc
           /\ loc[t].phase = 0
    BY <1>7, <1>typ, <1>pl
       DEF CreateFill, Goto, Typed, PlaceOf, Idle, Asking, Leading, Joining, Executing,
           Waiting, Blank
  <2> QED BY <1>away, <2>1
<1>8. CASE Notice(t)
  <2>1. loc[t].phase \in {0, 2} \/ pc[t] = "wait5"
    BY <1>8, <1>pl DEF Notice, PlaceOf, Idle, Asking, Leading, Joining, Executing, Waiting, Blank
  <2>2. loc'[t].phase \in {0, 2} /\ pc'[t] \notin {"checkin", "drain"}
           /\ pc[t] \notin {"checkin", "drain"}
    BY <1>8, <1>typ, <1>pl DEF Notice, AcceptAll, Goto, Typed, Blank
  <2> QED BY <1>away, <2>1, <2>2
<1>9. CASE CreateDefer(t)
  <2>1. loc[t].phase \in {0, 2} \/ pc[t] = "wait5"
    BY <1>9, <1>pl
       DEF CreateDefer, PlaceOf, Idle, Asking, Leading, Joining, Executing, Waiting, Blank
  <2>2. loc'[t].phase \in {0, 2} /\ pc'[t] \notin {"checkin", "drain"}
           /\ pc[t] \notin {"checkin", "drain"}
    BY <1>9, <1>typ, <1>pl DEF CreateDefer, AcceptAll, Goto, Typed, Blank
  <2> QED BY <1>away, <2>1, <2>2
<1>10. CASE Request(t)
  <2>1. loc[t].phase \in {0, 2} \/ pc[t] = "wait5"
    BY <1>10, <1>pl DEF Request, PlaceOf, Idle, Asking, Leading, Joining, Executing, Waiting, Blank
  <2>2. loc'[t].phase \in {0, 2} /\ pc'[t] \notin {"checkin", "drain"}
           /\ pc[t] \notin {"checkin", "drain"}
    BY <1>10, <1>typ, <2>1 DEF Request, Goto, Typed, Blank
  <2> QED BY <1>away, <2>1, <2>2
<1>11. CASE ClrRunning(t)
  <2>1. loc[t].phase = 0 /\ pc[t] = "clr"
    BY <1>11, <1>pl
       DEF ClrRunning, PlaceOf, Idle, Asking, Leading, Joining, Executing, Waiting, Blank
  <2>2. pc'[t] \in {"await", "out"} /\ (loc'[t].phase = 2 \/ loc'[t] = loc[t])
    BY <1>11, <1>typ, ClrRunningStep
  <2> QED BY <1>away, <2>1, <2>2
<1>12. CASE AcceptorLeaves(t)
  <2>1. pc[t] = "wait5"
    BY <1>12 DEF AcceptorLeaves
  <2>2. loc'[t].phase \in {0, 2} /\ pc'[t] \in {"user", "clr", "create", "await"}
    BY <1>12, <1>typ, AcceptorLeavesStep DEF Locals, Blank
  <2> QED BY <1>away, <2>1, <2>2
<1>13. CASE RequesterLeaves(t)
  <2>1. pc[t] = "wait5" /\ loc'[t].phase = 0 /\ pc'[t] \in {"user", "ask"}
    BY <1>13, <1>typ DEF RequesterLeaves, AskAgain, Goto, Typed, Blank
  <2> QED BY <1>away, <2>1
<1>14. CASE Lead(t)
  <2>1. loc[t].phase \in {0, 2} \/ pc[t] = "wait5"
    BY <1>14, <1>pl DEF Lead, PlaceOf, Idle, Asking, Leading, Joining, Executing, Waiting, Blank
  <2>2. loc'[t].phase \in {0, 2} /\ pc'[t] \notin {"checkin", "drain"}
           /\ pc[t] \notin {"checkin", "drain"}
    BY <1>14, <1>typ DEF Lead, Goto, Typed, Locals
  <2> QED BY <1>away, <2>1, <2>2
<1>15. CASE Follow(t)
  <2>1. loc[t].phase \in {0, 2} \/ pc[t] = "wait5"
    BY <1>15, <1>pl DEF Follow, PlaceOf, Idle, Asking, Leading, Joining, Executing, Waiting, Blank
  <2>2. loc'[t].phase \in {0, 2} /\ pc'[t] \notin {"checkin", "drain"}
           /\ pc[t] \notin {"checkin", "drain"}
    BY <1>15, <1>typ DEF Follow, Goto, Typed, Locals
  <2> QED BY <1>away, <2>1, <2>2
<1>16. CASE SeeResult(t)
  BY <1>16, <1>pl DEF SeeResult, PlaceOf, Idle, Asking, Leading, Joining, Executing, Waiting, Blank
<1>17. CASE ClearCode(t)
  BY <1>17, <1>pl DEF ClearCode, PlaceOf, Idle, Asking, Leading, Joining, Executing, Waiting, Blank
<1>18. CASE Unmark(t)
  BY <1>18, <1>pl DEF Unmark, PlaceOf, Idle, Asking, Leading, Joining, Executing, Waiting, Blank
<1>19. CASE Release(t)
  BY <1>19, <1>pl DEF Release, PlaceOf, Idle, Asking, Leading, Joining, Executing, Waiting, Blank
<1>20. CASE LeaderFlock(t)
  BY <1>20, <1>pl
     DEF LeaderFlock, PlaceOf, Idle, Asking, Leading, Joining, Executing, Waiting, Blank
<1>21. CASE Mark(t)
  BY <1>21, <1>pl DEF Mark, PlaceOf, Idle, Asking, Leading, Joining, Executing, Waiting, Blank
<1>22. CASE Marked(t)
  BY <1>22, <1>pl DEF Marked, PlaceOf, Idle, Asking, Leading, Joining, Executing, Waiting, Blank
<1>23. CASE SetCount(t)
  <2>1. /\ loc'[t].role = loc[t].role /\ loc'[t].priority = loc[t].priority
        /\ loc'[t].old = loc[t].old /\ loc'[t].final = loc[t].final
    BY <1>23, <1>typ DEF SetCount, Typed, Locals
  <2>2. (Added(t)' <=> Added(t)) /\ (Saw(t)' => Saw(t))
    BY <1>23, <1>typ, <1>pl, <2>1 DEF SetCount, Added, Saw, Requester, Goto, Typed, Locals
  <2> QED BY <1>kept, <2>1, <2>2
<1>24. CASE SetState(t)
  <2>1. /\ loc'[t].role = loc[t].role /\ loc'[t].priority = loc[t].priority
        /\ loc'[t].old = loc[t].old /\ loc'[t].final = loc[t].final
    BY <1>24, <1>typ DEF SetState, Typed, Locals
  <2>2. (Added(t)' <=> Added(t)) /\ (Saw(t)' => Saw(t))
    BY <1>24, <1>typ, <1>pl, <2>1 DEF SetState, Added, Saw, Requester, Goto, Typed, Locals
  <2> QED BY <1>kept, <2>1, <2>2
<1>25. CASE Await(t)
  <2>1. /\ loc'[t].role = loc[t].role /\ loc'[t].priority = loc[t].priority
        /\ loc'[t].old = loc[t].old /\ loc'[t].final = loc[t].final
    BY <1>25, <1>typ DEF Await, Typed, Locals
  <2>2. (Added(t)' <=> Added(t)) /\ (Saw(t)' => Saw(t))
    BY <1>25, <1>typ, <1>pl, <2>1 DEF Await, Added, Saw, Requester, Goto, Typed, Locals
  <2> QED BY <1>kept, <2>1, <2>2
<1>26. CASE HandCounts(t)
  <2>1. /\ loc'[t].role = loc[t].role /\ loc'[t].priority = loc[t].priority
        /\ loc'[t].old = loc[t].old /\ loc'[t].final = loc[t].final
    BY <1>26, <1>typ DEF HandCounts, Typed, Locals
  <2>2. (Added(t)' <=> Added(t)) /\ (Saw(t)' => Saw(t))
    BY <1>26, <1>typ, <1>pl, <2>1 DEF HandCounts, Added, Saw, Requester, Goto, Typed, Locals
  <2> QED BY <1>kept, <2>1, <2>2
<1>27. CASE ClearRequests(t)
  <2>1. /\ loc'[t].role = loc[t].role /\ loc'[t].priority = loc[t].priority
        /\ loc'[t].old = loc[t].old /\ loc'[t].final = loc[t].final
    BY <1>27, <1>typ DEF ClearRequests, Typed, Locals
  <2>2. (Added(t)' <=> Added(t)) /\ (Saw(t)' => Saw(t))
    BY <1>27, <1>typ, <1>pl, <2>1 DEF ClearRequests, Added, Saw, Requester, Goto, Typed, Locals
  <2> QED BY <1>kept, <2>1, <2>2
<1>28. CASE PickUp(t)
  <2>1. /\ loc'[t].role = loc[t].role /\ loc'[t].priority = loc[t].priority
        /\ loc'[t].old = loc[t].old /\ loc'[t].final = loc[t].final
    BY <1>28, <1>typ DEF PickUp, Typed, Locals
  <2>2. (Added(t)' <=> Added(t)) /\ (Saw(t)' => Saw(t))
    BY <1>28, <1>typ, <1>pl, <2>1 DEF PickUp, Added, Saw, Requester, Goto, Typed, Locals
  <2> QED BY <1>kept, <2>1, <2>2
<1>29. CASE Function(t)
  <2>1. /\ loc'[t].role = loc[t].role /\ loc'[t].priority = loc[t].priority
        /\ loc'[t].old = loc[t].old /\ loc'[t].final = loc[t].final
    BY <1>29, <1>typ DEF Function, Typed, Locals
  <2>2. (Added(t)' <=> Added(t)) /\ (Saw(t)' => Saw(t))
    BY <1>29, <1>typ, <1>pl, <2>1
       DEF Function, Added, Saw, Requester, Goto, Typed, Locals, PlaceOf, Idle, Asking,
           Leading, Joining, Executing, Waiting, Blank
  <2> QED BY <1>kept, <2>1, <2>2
<1>30. CASE Drained(t)
  <2>1. pc[t] = "drain" /\ pc'[t] = "count" /\ loc[t].role = "leader" /\ loc[t].phase \in {2, 3}
    BY <1>30, <1>typ, <1>pl
       DEF Drained, Goto, Typed, PlaceOf, Idle, Asking, Leading, Joining, Executing, Waiting,
           Blank
  <2>2. /\ loc'[t].role = loc[t].role /\ loc'[t].priority = loc[t].priority
        /\ loc'[t].old = loc[t].old /\ loc'[t].final = loc[t].final
        /\ loc'[t].phase = NextPhase(t)
    BY <1>30, <1>typ DEF Drained, Typed, Locals
  <2>3. NextPhase(t) = loc[t].phase + 1
    BY <2>1 DEF NextPhase, Leads
  <2>4. (Added(t)' <=> Added(t)) /\ (Saw(t)' => Saw(t))
    BY <2>1, <2>2, <2>3 DEF Added, Saw, Requester
  <2> QED BY <1>kept, <2>2, <2>4
<1>31. CASE CheckIn(t)
  <2>1. pc[t] = "checkin" /\ pc'[t] = "await" /\ loc[t].phase \in {2, 3}
    BY <1>31, <1>typ, <1>pl
       DEF CheckIn, Goto, Typed, Joiner, PlaceOf, Idle, Asking, Leading, Joining, Executing,
           Waiting, Blank
  <2>2. /\ loc'[t].role = loc[t].role /\ loc'[t].priority = loc[t].priority
        /\ loc'[t].old = loc[t].old /\ loc'[t].final = loc[t].final
        /\ loc'[t].phase = NextPhase(t)
    BY <1>31, <1>typ DEF CheckIn, Typed, Locals
  <2>3. (loc[t].phase = 2 => NextPhase(t) = 3) /\ (loc[t].phase = 3 => NextPhase(t) \in {4, 5})
    BY DEF NextPhase
  <2>4. (Added(t)' <=> Added(t)) /\ (Saw(t)' => Saw(t))
    BY <2>1, <2>2, <2>3 DEF Added, Saw, Requester
  <2> QED BY <1>kept, <2>2, <2>4
<1>32. CASE HandState(t)
  <2>1. pc[t] = "state" /\ loc[t].phase = 4
    BY <1>32 DEF HandState
  <2>2. /\ loc'[t].role = loc[t].role /\ loc'[t].priority = loc[t].priority
        /\ loc'[t].old = loc[t].old /\ loc'[t].final = loc[t].final
        /\ loc'[t].phase \in {4, 5} /\ pc'[t] = "await"
    BY <1>32, <1>typ, HandStateStep
  <2>3. (Added(t)' <=> Added(t)) /\ (Saw(t)' => Saw(t))
    BY <2>1, <2>2 DEF Added, Saw, Requester
  <2> QED BY <1>kept, <2>2, <2>3
<1>33. CASE SeeRequests(t)
  <2>1. /\ pc[t] = "expr" /\ pc'[t] \in {"drain", "checkin"} /\ loc[t].phase = 3
        /\ loc'[t] = [loc[t] EXCEPT !.final = breakbyte]
    BY <1>33, <1>typ DEF SeeRequests, Synch, Goto, Typed
  <2>2. /\ loc'[t].role = loc[t].role /\ loc'[t].priority = loc[t].priority
        /\ loc'[t].old = loc[t].old /\ loc'[t].phase = loc[t].phase
    BY <1>typ, <2>1 DEF Locals
  <2> QED BY <1>33, <2>1, <2>2 DEF Added, Requester
<1>34. CASE AddRequest(t)
  BY <1>34
<1> QED BY <1>1, <1>2, <1>3, <1>4, <1>5, <1>6, <1>7, <1>8, <1>9, <1>10, <1>11, <1>12, <1>13,
         <1>14, <1>15, <1>16, <1>17, <1>18, <1>19, <1>20, <1>21, <1>22, <1>23, <1>24, <1>25,
         <1>26, <1>27, <1>28, <1>29, <1>30, <1>31, <1>32, <1>33, <1>34
         DEF Step, Act

\* Before the round of requests nobody is among those who asked, and at its end nobody has
\* yet seen the requests.
LEMMA RoundBegins ==
    ASSUME IndInv, NEW t \in Threads, SetState(t), NEW u \in Threads
    PROVE  /\ loc[t].phase = 2 => ~Added(u)'
           /\ loc[t].phase = 3 => ~Saw(u)'
<1>typ. Typed /\ PlaceOf(t) /\ PlaceOf(u)
  BY DEF IndInv, Place
<1>1. /\ pc[t] = "state" /\ pc'[t] = "expr" /\ loc' = loc
      /\ \A w \in Threads \ {t} : pc'[w] = pc[w]
  BY <1>typ DEF SetState, Goto, Typed
<1>2. CASE u = t
  BY <1>1, <1>2 DEF Added, Saw
<1>3. ASSUME u # t, loc[t].phase = 2 PROVE ~Added(u)'
  <2>1. systemlock = 1 /\ LeadsNow(t)
    BY <1>typ, <1>1, <1>3, DriverPlace, Writes DEF LeadsNow
  <2>2. ~LeadsNow(u)
    BY <1>3, <2>1 DEF IndInv, OneDriver
  <2>3. ~Added(u)
    BY <1>typ, <2>1, <2>2
       DEF Added, Requester, LeadsNow, Joiner, PlaceOf, Idle, Asking, Leading, Joining,
           Executing, Waiting, Blank
  <2> QED BY <1>1, <1>3, <2>3 DEF Added, Requester
<1>4. ASSUME u # t, loc[t].phase = 3 PROVE ~Saw(u)'
  <2>1. pc[u] = "out" \/ Arrived(u, 2)
    BY <1>1, <1>4 DEF IndInv, Passed
  <2>2. pc[u] = "out" => loc[u] = Blank
    BY <1>typ DEF PlaceOf, Idle, Asking, Leading, Joining, Executing, Waiting, Blank
  <2> QED BY <1>1, <1>4, <2>1, <2>2 DEF Arrived, Saw, Blank
<1> QED BY <1>2, <1>3, <1>4

\* The executors of a round know all its requests, and only one is the first to ask.
LEMMA RequestsKept == ASSUME IndInv, NEW t \in Threads, Act(t) PROVE Requests'
<1>typ. Typed /\ PlaceOf(t) /\ Requests /\ Bytes /\ loc[t] \in Locals
  BY DEF IndInv, Place, Typed
<1>oth. \A u \in Threads \ {t} : loc'[u] = loc[u] /\ Added(u)' = Added(u) /\ Saw(u)' = Saw(u)
  BY <1>typ, OthersLocal
<1>sys. /\ systemlock' \in 2 .. 4 => systemlock \in 2 .. 4 \/ (SetState(t) /\ loc[t].phase = 2)
        /\ systemlock' \in 3 .. 4 => systemlock \in 3 .. 4 \/ (SetState(t) /\ loc[t].phase = 3)
        /\ systemlock' \in 2 .. 3 => systemlock \in 2 .. 3 \/ (SetState(t) /\ loc[t].phase = 2)
        /\ SetState(t) /\ loc[t].phase = 2
           => systemlock = 1 /\ systemlock' = 2 /\ breakbyte' = breakbyte
        /\ AddRequest(t) => systemlock = 2 /\ systemlock' = 2
        /\ systemlock \in 2 .. 3 /\ systemlock' \in 2 .. 3 /\ ~AddRequest(t)
           => breakbyte' = breakbyte
  <2>1. systemlock' = systemlock \/ Lead(t) \/ SetState(t) \/ HandState(t) \/ Release(t)
    BY <1>typ, Moves
  <2>2. breakbyte' = breakbyte \/ AddRequest(t) \/ ClearRequests(t) \/ Function(t) \/ ClearCode(t)
    BY Frame
  <2> QED BY <1>typ, <2>1, <2>2, Writes
<1>1. CASE SetState(t) /\ loc[t].phase = 2
  <2>1. \A u \in Threads : ~Added(u)'
    BY <1>1, RoundBegins
  <2>2. breakbyte' = {} /\ systemlock' = 2
    BY <1>typ, <1>1, <1>sys DEF Bytes
  <2> QED BY <2>1, <2>2 DEF Requests, AllRequests
<1>2. CASE AddRequest(t) /\ loc[t].role = "acceptor"
  <2>1. /\ systemlock = 2 /\ systemlock' = 2 /\ breakbyte' = breakbyte
        /\ loc'[t].role = "acceptor"
    BY <1>typ, <1>2, <1>sys, AddRequestStep
  <2>2. ~Added(t) /\ ~Added(t)'
    BY <1>2, <2>1 DEF Added, Requester
  <2> QED BY <1>typ, <1>oth, <2>1, <2>2 DEF Requests, AllRequests
<1>3. CASE AddRequest(t) /\ loc[t].role # "acceptor"
  <2>1. /\ systemlock = 2 /\ systemlock' = 2 /\ breakbyte' = breakbyte \union loc[t].priority
        /\ loc'[t].priority = loc[t].priority /\ loc'[t].old = breakbyte
        /\ loc'[t].role = loc[t].role /\ loc'[t].phase = 2 /\ pc'[t] \in {"drain", "checkin"}
        /\ pc[t] = "expr" /\ loc[t].phase = 2
    BY <1>typ, <1>3, <1>sys, AddRequestStep DEF AddRequest
  <2>2. loc[t].role \in {"leader", "follower"}
    BY <1>typ, <1>3, <2>1
       DEF Joiner, PlaceOf, Idle, Asking, Leading, Joining, Executing, Waiting, Blank
  <2>3. ~Added(t) /\ Added(t)'
    BY <2>1, <2>2 DEF Added, Requester
  <2>4. AllRequests(breakbyte)
    BY <1>typ, <2>1 DEF Requests
  <2>5. \A p \in Priorities : p \in breakbyte'
           <=> \E u \in Threads : Added(u)' /\ p \in loc'[u].priority
    BY <1>oth, <2>1, <2>3, <2>4 DEF AllRequests
  <2>6. ASSUME NEW u \in Threads \ {t}, Added(u), NEW p \in Priorities, p \in loc[u].priority
        PROVE  p \notin loc'[t].priority \ loc'[t].old
    BY <2>1, <2>4, <2>6 DEF AllRequests
  <2>7. ASSUME NEW v \in Threads, NEW u \in Threads, v # u, Added(v)', Added(u)',
               NEW p \in loc'[v].priority \ loc'[v].old
        PROVE  p \notin loc'[u].priority \ loc'[u].old
    <3>1. \A w \in Threads \ {t} : loc[w].priority \subseteq Priorities
      BY <1>typ DEF Typed, Locals
    <3>2. CASE v = t
      BY <1>oth, <2>6, <2>7, <3>1, <3>2
    <3>3. CASE u = t
      BY <1>oth, <2>6, <2>7, <3>1, <3>3
    <3>4. CASE v # t /\ u # t
      BY <1>typ, <1>oth, <2>1, <2>7, <3>4 DEF Requests
    <3> QED BY <3>2, <3>3, <3>4
  <2> QED BY <2>1, <2>5, <2>7 DEF Requests, AllRequests
<1>4. ASSUME ~AddRequest(t), systemlock \in 2 .. 4 PROVE Requests'
  <2>1. /\ Added(t)' <=> Added(t)
        /\ Added(t) => loc'[t].priority = loc[t].priority /\ loc'[t].old = loc[t].old
        /\ Saw(t)' => SeeRequests(t) \/ (Saw(t) /\ loc'[t].final = loc[t].final)
    BY <1>4, OwnAsked
  <2>2. \A u \in Threads : /\ Added(u)' <=> Added(u)
                           /\ Added(u) => loc'[u].priority = loc[u].priority
                              /\ loc'[u].old = loc[u].old
    BY <1>oth, <2>1
  <2>3. ASSUME NEW S, AllRequests(S)
        PROVE  \A p \in Priorities : p \in S
           <=> \E u \in Threads : Added(u)' /\ p \in loc'[u].priority
    BY <2>2, <2>3 DEF AllRequests
  <2>4. ASSUME systemlock' \in 2 .. 3 PROVE AllRequests(breakbyte)'
    <3>1. AllRequests(breakbyte) /\ breakbyte' = breakbyte
      BY <1>4, <1>typ, <1>sys, <2>4 DEF Requests
    <3> QED BY <2>3, <3>1 DEF AllRequests
  <2>5. ASSUME systemlock' \in 3 .. 4, NEW u \in Threads, Saw(u)' PROVE AllRequests(loc[u].final)'
    <3>1. ~(SetState(t) /\ loc[t].phase = 3)
      BY <2>5, RoundBegins
    <3>2. systemlock \in 3 .. 4
      BY <1>4, <1>sys, <2>5, <3>1
    <3>3. CASE u = t /\ SeeRequests(t)
      <4>1. systemlock = 3
        BY <1>typ, <3>3
           DEF SeeRequests, Joiner, PlaceOf, Idle, Asking, Leading, Joining, Executing,
               Waiting, Blank
      <4>2. loc'[t].final = breakbyte
        BY <1>typ, <3>3 DEF SeeRequests, Typed, Locals
      <4>3. AllRequests(breakbyte)
        BY <1>typ, <4>1 DEF Requests
      <4> QED BY <2>3, <3>3, <4>2, <4>3 DEF AllRequests
    <3>4. CASE ~(u = t /\ SeeRequests(t))
      <4>1. Saw(u) /\ loc'[u].final = loc[u].final
        BY <1>oth, <2>1, <2>5, <3>4
      <4>2. AllRequests(loc[u].final)
        BY <1>typ, <3>2, <4>1 DEF Requests
      <4> QED BY <2>3, <4>1, <4>2 DEF AllRequests
    <3> QED BY <3>3, <3>4
  <2>6. ASSUME systemlock' \in 2 .. 3, NEW v \in Threads, NEW u \in Threads, v # u, Added(v)',
           Added(u)',
               NEW p \in loc'[v].priority \ loc'[v].old
        PROVE  p \notin loc'[u].priority \ loc'[u].old
    <3>1. systemlock \in 2 .. 3
      BY <1>4, <1>sys, <2>6
    <3>2. \A x, y \in Threads : x # y /\ Added(x) /\ Added(y) =>
             \A q \in loc[x].priority \ loc[x].old : q \notin loc[y].priority \ loc[y].old
      BY <1>typ, <3>1 DEF Requests
    <3> QED BY <2>2, <2>6, <3>2
  <2> QED BY <2>4, <2>5, <2>6 DEF Requests
<1>5. CASE systemlock \notin 2 .. 4 /\ ~(SetState(t) /\ loc[t].phase = 2)
  <2>1. systemlock' \notin 2 .. 4
    BY <1>5, <1>sys
  <2> QED BY <2>1 DEF Requests
<1> QED BY <1>1, <1>2, <1>3, <1>4, <1>5

\* The invariant holds at the start.
LEMMA InitHolds == Init => IndInv
<1> SUFFICES ASSUME Init PROVE IndInv
  OBVIOUS
<1>1. \A t \in Threads : pc[t] = "out" /\ loc[t] = Blank /\ ~running[t] /\ ~lockactive[t]
  BY DEF Init
<1>2. systemlock = 0 /\ breakbyte = {} /\ flock = Nobody
  BY DEF Init
<1>3. \A t \in Threads : /\ loc[t].role = "none" /\ loc[t].phase = 0 /\ loc[t].final = {}
                         /\ loc[t].old = {}
  BY <1>1 DEF Blank
<1>4. Typed
  <2>1. AtStart \in AtStart .. MaxThreads /\ 0 \in 0 .. MaxThreads
    BY SystemLockAssumption
  <2>2. pc \in [Threads -> Positions] /\ loc \in [Threads -> Locals]
    BY Records DEF Init, Positions
  <2> QED BY <2>1, <2>2 DEF Init, Typed
<1>5. \A t \in Threads : ~LeadsNow(t) /\ ~Executor(t) /\ PlaceOf(t)
  BY <1>1, <1>3 DEF LeadsNow, Executor, PlaceOf, Idle
<1>6. Place /\ OneDriver /\ Passed /\ Bytes
  BY <1>1, <1>2, <1>3, <1>5 DEF Place, OneDriver, Passed, Bytes, BytesOf
<1>7. Marks /\ Requests
  BY <1>1, <1>2, <1>5 DEF Marks, MarksOf, Requests
<1>8. Counts
  BY <1>1, <1>3, <1>5 DEF Counts, CountsOf, Handing
<1> QED BY <1>4, <1>6, <1>7, <1>8 DEF IndInv

\* Every reachable state satisfies the invariant: what each thread knows of the others
\* (ct.c:76-191).
THEOREM Inductive == Spec => []IndInv
<1>1. IndInv /\ [Next]_vars => IndInv'
  <2>1. ASSUME IndInv, NEW t \in Threads, Act(t) PROVE IndInv'
    BY <2>1, TypedKept, PlaceKept, OneDriverKept, PassedKept, MarksKept, CountsKept, BytesKept,
       RequestsKept DEF IndInv
  <2>2. ASSUME IndInv, UNCHANGED vars PROVE IndInv'
    <3>1. ASSUME NEW t \in Threads
          PROVE  /\ LeadsNow(t)' = LeadsNow(t) /\ Executor(t)' = Executor(t)
                    /\ PlaceOf(t)' = PlaceOf(t)
                 /\ Leads(t)' = Leads(t) /\ Saw(t)' = Saw(t) /\ Added(t)' = Added(t)
                 /\ Missing(t)' = Missing(t) /\ MarkedRunning(t)' = MarkedRunning(t)
                 /\ MarkedFrom(t)' = MarkedFrom(t) /\ Handing(t)' = Handing(t)
      BY <2>2 DEF vars, LeadsNow, Executor, Winning, Leads, Saw, Added, Requester, Joiner, Missing,
         Arrived, MarkedRunning, Running, MarkedFrom, Handing, PlaceOf, Idle, Asking, Leading,
         Joining, Executing, Waiting
    <3>2. Running' = Running /\ AllMarked' = AllMarked
      BY <2>2 DEF vars, Running, AllMarked
    <3>3. Typed' /\ Place' /\ OneDriver'
      BY <2>2, <3>1 DEF vars, IndInv, Typed, Place, OneDriver
    <3>4. Passed' /\ Bytes'
      BY <2>2 DEF vars, IndInv, Passed, Arrived, Bytes, BytesOf
    <3>5. Marks'
      BY <2>2, <3>1, <3>2 DEF vars, IndInv, Marks, MarksOf
    <3>6. Counts'
      BY <2>2, <3>1, <3>2 DEF vars, IndInv, Counts, CountsOf
    <3>7. Requests'
      BY <2>2, <3>1 DEF vars, IndInv, Requests, AllRequests
    <3> QED BY <3>3, <3>4, <3>5, <3>6, <3>7 DEF IndInv
  <2> QED BY <2>1, <2>2 DEF Next, Act
<1> QED BY <1>1, InitHolds, PTL DEF Spec

-----------------------------------------------------------------------------
\* What the invariant says of the barrier

\* What the runs check follows from the invariant: the types,
LEMMA InvTypeOK == IndInv => TypeOK
BY DEF IndInv, Typed, TypeOK, Positions, Locals

\* the count of the threads that are still to come,
LEMMA InvCountTrue == IndInv => CountTrue
<1> SUFFICES ASSUME IndInv, NEW d \in Threads, Leads(d), pc[d] \in {"expr", "drain"}
             PROVE  systemlocktct = Cardinality(Missing(d))
  BY DEF CountTrue, Missing
<1>1. PlaceOf(d) /\ CountsOf(d)
  BY DEF IndInv, Place, Counts
<1>2. loc[d].phase # 4
  BY <1>1 DEF PlaceOf, Idle, Asking, Leading, Joining, Executing, Waiting, Blank
<1> QED BY <1>1, <1>2 DEF CountsOf

\* the one thread that leads,
LEMMA InvOneLeads == IndInv => OneLeads
<1> SUFFICES ASSUME IndInv, NEW t \in Threads, NEW u \in Threads, t # u
             PROVE  /\ loc[t].phase = loc[u].phase => ~(Leads(t) /\ Leads(u))
                    /\ ~(Executor(t) /\ Executor(u))
  BY DEF OneLeads
<1>1. PlaceOf(t) /\ PlaceOf(u) /\ OneDriver
  BY DEF IndInv, Place
<1>2. ~(Executor(t) /\ Executor(u))
  BY <1>1 DEF OneDriver
<1>3. ASSUME NEW x \in Threads, PlaceOf(x), loc[x].role = "leader", loc[x].phase # 5
      PROVE  \/ LeadsNow(x)
             \/ loc[x].phase = 4 /\ Executor(x) /\ systemlock = 4
  BY <1>3 DEF LeadsNow, Joiner, PlaceOf, Idle, Asking, Leading, Joining, Executing, Waiting, Blank
<1>4. ASSUME NEW x \in Threads, PlaceOf(x), LeadsNow(x) PROVE systemlock # 4
  BY <1>4, DrivesWhere
<1>5. ASSUME loc[t].phase = loc[u].phase, Leads(t), Leads(u) PROVE FALSE
  <2>1. CASE loc[t].phase = 5
    BY <1>2, <1>5, <2>1 DEF Leads
  <2>2. CASE loc[t].phase # 5
    <3>1. loc[t].role = "leader" /\ loc[u].role = "leader" /\ loc[u].phase # 5
      BY <1>5, <2>2 DEF Leads
    <3>2. LeadsNow(t) /\ LeadsNow(u)
      BY <1>1, <1>2, <1>3, <1>4, <2>2, <3>1
    <3> QED BY <1>1, <3>2 DEF OneDriver
  <2> QED BY <2>1, <2>2
<1> QED BY <1>2, <1>5

\* and the one meaning of the shared byte.
LEMMA InvOneMeaning == IndInv => OneMeaning
BY DEF IndInv, Typed, Locals, Bytes, BytesOf, OneMeaning

\* In each round one thread leads, waits for exactly those that are still to come, and all read
\* the byte in the sense it then has (ct.c:88-97, 128-141), for any number of threads.
THEOREM Barrier == Spec => []BarrierExact
<1>1. IndInv => BarrierExact
  BY InvTypeOK, InvCountTrue, InvOneLeads, InvOneMeaning DEF BarrierExact
<1> QED BY <1>1, Inductive, PTL

\* No thread starts, ends or appears while a system lock is in progress (ct.c:345, 1068).
THEOREM Frozen == Spec => RunningFrozen
<1>1. ASSUME IndInv, [Next]_vars, systemlock \in 2 .. 4 PROVE UNCHANGED <<running, nthreads>>
  <2>1. CASE UNCHANGED vars
    BY <2>1 DEF vars
  <2>2. ASSUME NEW t \in Threads, Act(t) PROVE UNCHANGED <<running, nthreads>>
    <3>1. AllMarked /\ PlaceOf(t)
      BY <1>1 DEF IndInv, Marks, Place
    <3>2. running' = running
      BY <1>1, <2>2, <3>1, Known
    <3>3. nthreads' = nthreads
      BY <1>1, <2>2, <3>1, Frame, DriverPlace DEF CreateFill
    <3> QED BY <3>2, <3>3
  <2> QED BY <1>1, <2>1, <2>2 DEF Next, Act
<1> QED BY <1>1, Inductive, PTL DEF Spec, RunningFrozen

(***************************************************************************)
(* Part 4: jtsystemlock implements StopTheWorld. What J code sees of a     *)
(* step is that a thread asks, stops, is served or goes on; the steps of   *)
(* the barrier show it nothing.                                            *)
(***************************************************************************)

\* The refinement: what J code sees of a step

\* When a function has run, the executor winds the lock down and nobody executes again.
LEMMA OwnOver ==
    ASSUME IndInv, NEW t \in Threads, Act(t)
    PROVE  /\ (Executor(t) /\ loc[t].phase = 5)' => (Executor(t) /\ loc[t].phase = 5) \/ Function(t)
           /\ Executor(t) /\ loc[t].phase = 5 => (Executor(t) /\ loc[t].phase = 5)' \/ Release(t)
<1>typ. Typed /\ Typed' /\ loc[t] \in Locals
  BY TypedKept DEF IndInv, Typed
<1>pl. PlaceOf(t) /\ PlaceOf(t)'
  BY PlaceKept DEF IndInv, Place
<1>gone. ASSUME loc'[t].phase # 5, loc[t].phase # 5 \/ ~Executor(t)
         PROVE  /\ ~(Executor(t) /\ loc[t].phase = 5)' /\ ~(Executor(t) /\ loc[t].phase = 5)
  BY <1>gone
<1>same. ASSUME loc'[t].phase = loc[t].phase, loc'[t].role = loc[t].role,
            loc'[t].final = loc[t].final,
                loc'[t].priority = loc[t].priority,
                loc'[t].old = loc[t].old \/ loc[t].role = "acceptor"
         PROVE  (Executor(t) /\ loc[t].phase = 5)' <=> (Executor(t) /\ loc[t].phase = 5)
  BY <1>same DEF Executor, Winning
<1>1. CASE SetRunning(t)
  <2>1. /\ loc'[t].phase = loc[t].phase /\ loc'[t].role = loc[t].role
        /\ loc'[t].final = loc[t].final /\ loc'[t].priority = loc[t].priority
        /\ loc'[t].old = loc[t].old
    BY <1>1, <1>typ DEF SetRunning, Typed, Locals
  <2> QED BY <1>same, <2>1
<1>2. CASE EnterUser(t)
  <2>1. /\ loc'[t].phase = loc[t].phase /\ loc'[t].role = loc[t].role
        /\ loc'[t].final = loc[t].final /\ loc'[t].priority = loc[t].priority
        /\ loc'[t].old = loc[t].old
    BY <1>2, <1>typ DEF EnterUser, Typed, Locals
  <2> QED BY <1>same, <2>1
<1>3. CASE LeaveUser(t)
  <2>1. /\ loc'[t].phase = loc[t].phase /\ loc'[t].role = loc[t].role
        /\ loc'[t].final = loc[t].final /\ loc'[t].priority = loc[t].priority
        /\ loc'[t].old = loc[t].old
    BY <1>3, <1>typ DEF LeaveUser, Typed, Locals
  <2> QED BY <1>same, <2>1
<1>4. CASE CreateThread(t)
  <2>1. /\ loc'[t].phase = loc[t].phase /\ loc'[t].role = loc[t].role
        /\ loc'[t].final = loc[t].final /\ loc'[t].priority = loc[t].priority
        /\ loc'[t].old = loc[t].old
    BY <1>4, <1>typ DEF CreateThread, Typed, Locals
  <2> QED BY <1>same, <2>1
<1>5. CASE CreateFlock(t)
  <2>1. /\ loc'[t].phase = loc[t].phase /\ loc'[t].role = loc[t].role
        /\ loc'[t].final = loc[t].final /\ loc'[t].priority = loc[t].priority
        /\ loc'[t].old = loc[t].old
    BY <1>5, <1>typ DEF CreateFlock, Typed, Locals
  <2> QED BY <1>same, <2>1
<1>6. CASE CreateGo(t)
  <2>1. /\ loc'[t].phase = loc[t].phase /\ loc'[t].role = loc[t].role
        /\ loc'[t].final = loc[t].final /\ loc'[t].priority = loc[t].priority
        /\ loc'[t].old = loc[t].old
    BY <1>6, <1>typ DEF CreateGo, Typed, Locals
  <2> QED BY <1>same, <2>1
<1>7. CASE CreateFill(t)
  <2>1. /\ loc'[t].phase = loc[t].phase /\ loc'[t].role = loc[t].role
        /\ loc'[t].final = loc[t].final /\ loc'[t].priority = loc[t].priority
        /\ loc'[t].old = loc[t].old
    BY <1>7, <1>typ DEF CreateFill, Typed, Locals
  <2> QED BY <1>same, <2>1
<1>8. CASE LeaderFlock(t)
  <2>1. /\ loc'[t].phase = loc[t].phase /\ loc'[t].role = loc[t].role
        /\ loc'[t].final = loc[t].final /\ loc'[t].priority = loc[t].priority
        /\ loc'[t].old = loc[t].old
    BY <1>8, <1>typ DEF LeaderFlock, Typed, Locals
  <2> QED BY <1>same, <2>1
<1>9. CASE Mark(t)
  <2>1. /\ loc'[t].phase = loc[t].phase /\ loc'[t].role = loc[t].role
        /\ loc'[t].final = loc[t].final /\ loc'[t].priority = loc[t].priority
        /\ loc'[t].old = loc[t].old
    BY <1>9, <1>typ DEF Mark, Typed, Locals
  <2> QED BY <1>same, <2>1
<1>10. CASE Marked(t)
  <2>1. /\ loc'[t].phase = loc[t].phase /\ loc'[t].role = loc[t].role
        /\ loc'[t].final = loc[t].final /\ loc'[t].priority = loc[t].priority
        /\ loc'[t].old = loc[t].old
    BY <1>10, <1>typ DEF Marked, Typed, Locals
  <2> QED BY <1>same, <2>1
<1>11. CASE SetCount(t)
  <2>1. /\ loc'[t].phase = loc[t].phase /\ loc'[t].role = loc[t].role
        /\ loc'[t].final = loc[t].final /\ loc'[t].priority = loc[t].priority
        /\ loc'[t].old = loc[t].old
    BY <1>11, <1>typ DEF SetCount, Typed, Locals
  <2> QED BY <1>same, <2>1
<1>12. CASE SetState(t)
  <2>1. /\ loc'[t].phase = loc[t].phase /\ loc'[t].role = loc[t].role
        /\ loc'[t].final = loc[t].final /\ loc'[t].priority = loc[t].priority
        /\ loc'[t].old = loc[t].old
    BY <1>12, <1>typ DEF SetState, Typed, Locals
  <2> QED BY <1>same, <2>1
<1>13. CASE Await(t)
  <2>1. /\ loc'[t].phase = loc[t].phase /\ loc'[t].role = loc[t].role
        /\ loc'[t].final = loc[t].final /\ loc'[t].priority = loc[t].priority
        /\ loc'[t].old = loc[t].old
    BY <1>13, <1>typ DEF Await, Typed, Locals
  <2> QED BY <1>same, <2>1
<1>14. CASE HandCounts(t)
  <2>1. /\ loc'[t].phase = loc[t].phase /\ loc'[t].role = loc[t].role
        /\ loc'[t].final = loc[t].final /\ loc'[t].priority = loc[t].priority
        /\ loc'[t].old = loc[t].old
    BY <1>14, <1>typ DEF HandCounts, Typed, Locals
  <2> QED BY <1>same, <2>1
<1>15. CASE PickUp(t)
  <2>1. /\ loc'[t].phase = loc[t].phase /\ loc'[t].role = loc[t].role
        /\ loc'[t].final = loc[t].final /\ loc'[t].priority = loc[t].priority
        /\ loc'[t].old = loc[t].old
    BY <1>15, <1>typ DEF PickUp, Typed, Locals
  <2> QED BY <1>same, <2>1
<1>16. CASE ClearRequests(t)
  <2>1. /\ loc'[t].phase = loc[t].phase /\ loc'[t].role = loc[t].role
        /\ loc'[t].final = loc[t].final /\ loc'[t].priority = loc[t].priority
        /\ loc'[t].old = loc[t].old
    BY <1>16, <1>typ DEF ClearRequests, Typed, Locals
  <2> QED BY <1>same, <2>1
<1>17. CASE ClearCode(t)
  <2>1. /\ loc'[t].phase = loc[t].phase /\ loc'[t].role = loc[t].role
        /\ loc'[t].final = loc[t].final /\ loc'[t].priority = loc[t].priority
        /\ loc'[t].old = loc[t].old
    BY <1>17, <1>typ DEF ClearCode, Typed, Locals
  <2> QED BY <1>same, <2>1
<1>18. CASE Unmark(t)
  <2>1. /\ loc'[t].phase = loc[t].phase /\ loc'[t].role = loc[t].role
        /\ loc'[t].final = loc[t].final /\ loc'[t].priority = loc[t].priority
        /\ loc'[t].old = loc[t].old
    BY <1>18, <1>typ DEF Unmark, Typed, Locals
  <2> QED BY <1>same, <2>1
<1>19. CASE SeeResult(t)
  <2>1. loc'[t] = [loc[t] EXCEPT !.old = IF loc[t].role = "acceptor" THEN breakbyte ELSE loc[t].old]
    BY <1>19, <1>typ DEF SeeResult, Typed
  <2>2. /\ loc'[t].phase = loc[t].phase /\ loc'[t].role = loc[t].role
        /\ loc'[t].final = loc[t].final /\ loc'[t].priority = loc[t].priority
        /\ loc'[t].old = loc[t].old \/ loc[t].role = "acceptor"
    BY <1>typ, <2>1 DEF Locals
  <2> QED BY <1>same, <2>2
<1>20. CASE Notice(t)
  <2>1. loc[t].phase = 0
    BY <1>20, <1>pl DEF Notice, PlaceOf, Idle, Asking, Leading, Joining, Executing, Waiting, Blank
  <2>2. loc'[t].phase \in {0, 2}
    BY <1>20, <1>typ, <2>1 DEF Notice, AcceptAll, Typed, Blank
  <2> QED BY <1>gone, <2>1, <2>2
<1>21. CASE CreateDefer(t)
  <2>1. loc[t].phase = 0
    BY <1>21, <1>pl
       DEF CreateDefer, PlaceOf, Idle, Asking, Leading, Joining, Executing, Waiting, Blank
  <2>2. loc'[t].phase \in {0, 2}
    BY <1>21, <1>typ, <2>1 DEF CreateDefer, AcceptAll, Typed, Blank
  <2> QED BY <1>gone, <2>1, <2>2
<1>22. CASE Request(t)
  <2>1. loc[t].phase = 0
    BY <1>22, <1>pl DEF Request, PlaceOf, Idle, Asking, Leading, Joining, Executing, Waiting, Blank
  <2>2. loc'[t].phase \in {0, 2}
    BY <1>22, <1>typ, <2>1 DEF Request, Typed, Blank
  <2> QED BY <1>gone, <2>1, <2>2
<1>23. CASE Lead(t)
  <2>1. loc[t].phase = 0
    BY <1>23, <1>pl DEF Lead, PlaceOf, Idle, Asking, Leading, Joining, Executing, Waiting, Blank
  <2>2. loc'[t].phase = 2
    BY <1>23, <1>typ DEF Lead, Typed, Locals
  <2> QED BY <1>gone, <2>1, <2>2
<1>24. CASE Follow(t)
  <2>1. loc[t].phase = 0
    BY <1>24, <1>pl DEF Follow, PlaceOf, Idle, Asking, Leading, Joining, Executing, Waiting, Blank
  <2>2. loc'[t].phase = 2
    BY <1>24, <1>typ DEF Follow, Typed, Locals
  <2> QED BY <1>gone, <2>1, <2>2
<1>25. CASE ClrRunning(t)
  <2>1. loc[t].phase = 0
    BY <1>25, <1>pl
       DEF ClrRunning, PlaceOf, Idle, Asking, Leading, Joining, Executing, Waiting, Blank
  <2>2. loc'[t].phase = 2 \/ loc'[t] = loc[t]
    BY <1>25, <1>typ, ClrRunningStep
  <2> QED BY <1>gone, <2>1, <2>2
<1>26. CASE AddRequest(t)
  <2>1. loc[t].phase = 2 /\ loc'[t].phase = 2
    BY <1>26, <1>typ, AddRequestStep
  <2> QED BY <1>gone, <2>1
<1>27. CASE SeeRequests(t)
  <2>1. loc[t].phase = 3 /\ loc'[t].phase = 3
    BY <1>27, <1>typ DEF SeeRequests, Typed, Locals
  <2> QED BY <1>gone, <2>1
<1>28. CASE Drained(t)
  <2>1. /\ loc'[t].phase = NextPhase(t) /\ loc'[t].role = loc[t].role
        /\ loc'[t].final = loc[t].final /\ loc'[t].priority = loc[t].priority
        /\ loc'[t].old = loc[t].old
    BY <1>28, <1>typ DEF Drained, Typed, Locals
  <2>2. loc[t].phase = 5 \/ (loc[t].phase \in {2, 3} /\ loc[t].role = "leader")
    BY <1>28, <1>pl DEF Drained, PlaceOf, Idle, Asking, Leading, Joining, Executing, Waiting, Blank
  <2>3. IF loc[t].phase = 5 THEN NextPhase(t) = 5 ELSE NextPhase(t) # 5
    BY <2>2 DEF NextPhase, Leads
  <2> QED BY <1>gone, <1>same, <2>1, <2>3
<1>29. CASE CheckIn(t)
  <2>1. /\ loc'[t].phase = NextPhase(t) /\ loc'[t].role = loc[t].role
        /\ loc'[t].final = loc[t].final /\ loc'[t].priority = loc[t].priority
        /\ loc'[t].old = loc[t].old
    BY <1>29, <1>typ DEF CheckIn, Typed, Locals
  <2>2. Executor(t)' = Executor(t)
    BY <2>1 DEF Executor, Winning
  <2>3. loc[t].phase = 5 => ~Executor(t)
    BY <1>29, <1>pl DEF CheckIn, PlaceOf, Idle, Asking, Leading, Joining, Executing, Waiting, Blank
  <2>4. NextPhase(t) = 5 => loc[t].phase = 5 \/ ~Executor(t)
    BY <1>29, <1>pl
       DEF CheckIn, NextPhase, PlaceOf, Idle, Asking, Leading, Joining, Executing, Waiting,
           Blank
  <2> QED BY <2>1, <2>2, <2>3, <2>4
<1>30. CASE HandState(t)
  <2>1. loc[t].phase = 4
    BY <1>30 DEF HandState
  <2> QED BY <1>30, <1>typ, <2>1, HandStateStep
<1>31. CASE Function(t)
  <2>1. loc[t].phase = 4
    BY <1>31, <1>pl DEF Function, PlaceOf, Idle, Asking, Leading, Joining, Executing, Waiting, Blank
  <2> QED BY <1>31, <2>1
<1>32. CASE Release(t)
  BY <1>32, <1>typ, <1>pl DEF Release, AskAgain, Typed, Blank, Executor
<1>33. CASE RequesterLeaves(t)
  <2>1. ~Executor(t)
    BY <1>33, <1>pl
       DEF RequesterLeaves, PlaceOf, Idle, Asking, Leading, Joining, Executing, Waiting, Blank
  <2>2. loc'[t].phase = 0
    BY <1>33, <1>typ DEF RequesterLeaves, AskAgain, Typed, Blank
  <2> QED BY <2>1, <2>2
<1>34. CASE AcceptorLeaves(t)
  <2>1. ~Executor(t)
    BY <1>34 DEF AcceptorLeaves, Executor
  <2>2. loc'[t].phase \in {0, 2}
    BY <1>34, <1>typ, AcceptorLeavesStep DEF Blank
  <2> QED BY <2>1, <2>2
<1> QED BY <1>1, <1>2, <1>3, <1>4, <1>5, <1>6, <1>7, <1>8, <1>9, <1>10, <1>11, <1>12, <1>13,
         <1>14, <1>15, <1>16, <1>17, <1>18, <1>19, <1>20, <1>21, <1>22, <1>23, <1>24, <1>25,
         <1>26, <1>27, <1>28, <1>29, <1>30, <1>31, <1>32, <1>33, <1>34
         DEF Step, Act

\* The function that was asked for is over while the lock winds down.
LEMMA OverWhere ==
    ASSUME IndInv
    PROVE  /\ FunctionOver => systemlock \in 4 .. 5
           /\ systemlock = 5 => FunctionOver
<1>1. Typed /\ OneDriver /\ \A t \in Threads : PlaceOf(t)
  BY DEF IndInv, Place
<1>2. ASSUME NEW t \in Threads, Executor(t), loc[t].phase = 5 PROVE systemlock \in 4 .. 5
  BY <1>1, <1>2 DEF Executor, PlaceOf, Idle, Asking, Leading, Joining, Executing, Waiting, Blank
<1>3. ASSUME NEW t \in Threads, pc[t] \in {"expr", "drain", "clearcode", "unmark"}, systemlock = 5
      PROVE  loc[t].phase = 5
  BY <1>1, <1>3 DEF Joiner, PlaceOf, Idle, Asking, Leading, Joining, Executing, Waiting, Blank
<1> QED BY <1>1, <1>2, <1>3 DEF FunctionOver, OneDriver

\* Nobody executes a second time in a round.
LEMMA OverKept ==
    ASSUME IndInv, NEW t \in Threads, Act(t), ~Function(t), ~Release(t)
    PROVE  FunctionOver' = FunctionOver
<1>1. \A u \in Threads \ {t} : Executor(u)' = Executor(u) /\ loc'[u] = loc[u]
  BY OthersLocal DEF IndInv
<1>2. (Executor(t) /\ loc[t].phase = 5)' <=> (Executor(t) /\ loc[t].phase = 5)
  BY OwnOver
<1>3. \A u \in Threads : (Executor(u)' /\ loc'[u].phase = 5) <=> (Executor(u) /\ loc[u].phase = 5)
  BY <1>1, <1>2
<1> QED BY <1>3 DEF FunctionOver

\* The steps that J code sees nothing of.
Unseen(t) ==
    /\ ~EnterUser(t) /\ ~ClrRunning(t) /\ ~Notice(t) /\ ~CreateDefer(t) /\ ~Request(t)
    /\ ~ClearRequests(t) /\ ~Function(t) /\ ~Release(t) /\ ~RequesterLeaves(t) /\ ~AcceptorLeaves(t)

\* Such a step changes neither what the thread looks like nor what it asks for.
LEMMA OwnUnseen ==
    ASSUME IndInv, NEW t \in Threads, Act(t), Unseen(t)
    PROVE  Status(t)' = Status(t) /\ Asked(t)' = Asked(t)
<1>typ. Typed /\ Typed' /\ loc[t] \in Locals
  BY TypedKept DEF IndInv, Typed
<1>pl. PlaceOf(t) /\ PlaceOf(t)'
  BY PlaceKept DEF IndInv, Place
<1>over. FunctionOver' = FunctionOver
  BY OverKept DEF Unseen
<1>same. ASSUME loc'[t].phase = loc[t].phase, loc'[t].role = loc[t].role,
            loc'[t].final = loc[t].final,
                loc'[t].priority = loc[t].priority, pc'[t] = "wait5" <=> pc[t] = "wait5",
                Status(t)' = Status(t)
         PROVE  Status(t)' = Status(t) /\ Asked(t)' = Asked(t)
  BY <1>same, <1>over DEF Asked, Winning
<1>early. ASSUME loc'[t].role = "acceptor"
             <=> loc[t].role = "acceptor", loc'[t].priority = loc[t].priority,
                 loc[t].phase # 5 \/ (pc[t] # "wait5" /\ ~FunctionOver),
                 loc'[t].phase # 5 \/ (pc'[t] # "wait5" /\ ~FunctionOver),
                 Status(t)' = Status(t)
          PROVE  Status(t)' = Status(t) /\ Asked(t)' = Asked(t)
  BY <1>early, <1>over DEF Asked
<1>1. CASE SetRunning(t)
  <2>1. /\ loc'[t].phase = loc[t].phase /\ loc'[t].role = loc[t].role
        /\ loc'[t].final = loc[t].final /\ loc'[t].priority = loc[t].priority
    BY <1>1, <1>typ DEF SetRunning, Typed, Locals
  <2>2. (pc'[t] = "wait5" <=> pc[t] = "wait5") /\ Status(t)' = Status(t)
    BY <1>1, <1>typ DEF SetRunning, Typed, Goto, Status
  <2> QED BY <1>same, <2>1, <2>2
<1>2. CASE LeaveUser(t)
  <2>1. /\ loc'[t].phase = loc[t].phase /\ loc'[t].role = loc[t].role
        /\ loc'[t].final = loc[t].final /\ loc'[t].priority = loc[t].priority
    BY <1>2, <1>typ DEF LeaveUser, Typed, Locals
  <2>2. (pc'[t] = "wait5" <=> pc[t] = "wait5") /\ Status(t)' = Status(t)
    BY <1>2, <1>typ DEF LeaveUser, Typed, Goto, Status
  <2> QED BY <1>same, <2>1, <2>2
<1>3. CASE CreateThread(t)
  <2>1. /\ loc'[t].phase = loc[t].phase /\ loc'[t].role = loc[t].role
        /\ loc'[t].final = loc[t].final /\ loc'[t].priority = loc[t].priority
    BY <1>3, <1>typ DEF CreateThread, Typed, Locals
  <2>2. (pc'[t] = "wait5" <=> pc[t] = "wait5") /\ Status(t)' = Status(t)
    BY <1>3, <1>typ DEF CreateThread, Typed, Goto, Status
  <2> QED BY <1>same, <2>1, <2>2
<1>4. CASE CreateFlock(t)
  <2>1. /\ loc'[t].phase = loc[t].phase /\ loc'[t].role = loc[t].role
        /\ loc'[t].final = loc[t].final /\ loc'[t].priority = loc[t].priority
    BY <1>4, <1>typ DEF CreateFlock, Typed, Locals
  <2>2. (pc'[t] = "wait5" <=> pc[t] = "wait5") /\ Status(t)' = Status(t)
    BY <1>4, <1>typ DEF CreateFlock, Typed, Goto, Status
  <2> QED BY <1>same, <2>1, <2>2
<1>5. CASE CreateGo(t)
  <2>1. /\ loc'[t].phase = loc[t].phase /\ loc'[t].role = loc[t].role
        /\ loc'[t].final = loc[t].final /\ loc'[t].priority = loc[t].priority
    BY <1>5, <1>typ DEF CreateGo, Typed, Locals
  <2>2. (pc'[t] = "wait5" <=> pc[t] = "wait5") /\ Status(t)' = Status(t)
    BY <1>5, <1>typ DEF CreateGo, Typed, Goto, Status
  <2> QED BY <1>same, <2>1, <2>2
<1>6. CASE CreateFill(t)
  <2>1. /\ loc'[t].phase = loc[t].phase /\ loc'[t].role = loc[t].role
        /\ loc'[t].final = loc[t].final /\ loc'[t].priority = loc[t].priority
    BY <1>6, <1>typ DEF CreateFill, Typed, Locals
  <2>2. (pc'[t] = "wait5" <=> pc[t] = "wait5") /\ Status(t)' = Status(t)
    BY <1>6, <1>typ DEF CreateFill, Typed, Goto, Status
  <2> QED BY <1>same, <2>1, <2>2
<1>7. CASE LeaderFlock(t)
  <2>1. /\ loc'[t].phase = loc[t].phase /\ loc'[t].role = loc[t].role
        /\ loc'[t].final = loc[t].final /\ loc'[t].priority = loc[t].priority
    BY <1>7, <1>typ DEF LeaderFlock, Typed, Locals
  <2>2. (pc'[t] = "wait5" <=> pc[t] = "wait5") /\ Status(t)' = Status(t)
    BY <1>7, <1>typ DEF LeaderFlock, Typed, Goto, Status
  <2> QED BY <1>same, <2>1, <2>2
<1>8. CASE Mark(t)
  <2>1. /\ loc'[t].phase = loc[t].phase /\ loc'[t].role = loc[t].role
        /\ loc'[t].final = loc[t].final /\ loc'[t].priority = loc[t].priority
    BY <1>8, <1>typ DEF Mark, Typed, Locals
  <2>2. (pc'[t] = "wait5" <=> pc[t] = "wait5") /\ Status(t)' = Status(t)
    BY <1>8, <1>typ DEF Mark, Typed, Status
  <2> QED BY <1>same, <2>1, <2>2
<1>9. CASE Marked(t)
  <2>1. /\ loc'[t].phase = loc[t].phase /\ loc'[t].role = loc[t].role
        /\ loc'[t].final = loc[t].final /\ loc'[t].priority = loc[t].priority
    BY <1>9, <1>typ DEF Marked, Typed, Locals
  <2>2. (pc'[t] = "wait5" <=> pc[t] = "wait5") /\ Status(t)' = Status(t)
    BY <1>9, <1>typ DEF Marked, Typed, Goto, Status
  <2> QED BY <1>same, <2>1, <2>2
<1>10. CASE SetCount(t)
  <2>1. /\ loc'[t].phase = loc[t].phase /\ loc'[t].role = loc[t].role
        /\ loc'[t].final = loc[t].final /\ loc'[t].priority = loc[t].priority
    BY <1>10, <1>typ DEF SetCount, Typed, Locals
  <2>2. (pc'[t] = "wait5" <=> pc[t] = "wait5") /\ Status(t)' = Status(t)
    BY <1>10, <1>typ DEF SetCount, Typed, Goto, Status
  <2> QED BY <1>same, <2>1, <2>2
<1>11. CASE SetState(t)
  <2>1. /\ loc'[t].phase = loc[t].phase /\ loc'[t].role = loc[t].role
        /\ loc'[t].final = loc[t].final /\ loc'[t].priority = loc[t].priority
    BY <1>11, <1>typ DEF SetState, Typed, Locals
  <2>2. (pc'[t] = "wait5" <=> pc[t] = "wait5") /\ Status(t)' = Status(t)
    BY <1>11, <1>typ DEF SetState, Typed, Goto, Status
  <2> QED BY <1>same, <2>1, <2>2
<1>12. CASE Await(t)
  <2>1. /\ loc'[t].phase = loc[t].phase /\ loc'[t].role = loc[t].role
        /\ loc'[t].final = loc[t].final /\ loc'[t].priority = loc[t].priority
    BY <1>12, <1>typ DEF Await, Typed, Locals
  <2>2. (pc'[t] = "wait5" <=> pc[t] = "wait5") /\ Status(t)' = Status(t)
    BY <1>12, <1>typ DEF Await, Typed, Goto, Status
  <2> QED BY <1>same, <2>1, <2>2
<1>13. CASE HandCounts(t)
  <2>1. /\ loc'[t].phase = loc[t].phase /\ loc'[t].role = loc[t].role
        /\ loc'[t].final = loc[t].final /\ loc'[t].priority = loc[t].priority
    BY <1>13, <1>typ DEF HandCounts, Typed, Locals
  <2>2. (pc'[t] = "wait5" <=> pc[t] = "wait5") /\ Status(t)' = Status(t)
    BY <1>13, <1>typ DEF HandCounts, Typed, Goto, Status
  <2> QED BY <1>same, <2>1, <2>2
<1>14. CASE PickUp(t)
  <2>1. /\ loc'[t].phase = loc[t].phase /\ loc'[t].role = loc[t].role
        /\ loc'[t].final = loc[t].final /\ loc'[t].priority = loc[t].priority
    BY <1>14, <1>typ DEF PickUp, Typed, Locals
  <2>2. (pc'[t] = "wait5" <=> pc[t] = "wait5") /\ Status(t)' = Status(t)
    BY <1>14, <1>typ DEF PickUp, Typed, Goto, Status
  <2> QED BY <1>same, <2>1, <2>2
<1>15. CASE ClearCode(t)
  <2>1. /\ loc'[t].phase = loc[t].phase /\ loc'[t].role = loc[t].role
        /\ loc'[t].final = loc[t].final /\ loc'[t].priority = loc[t].priority
    BY <1>15, <1>typ DEF ClearCode, Typed, Locals
  <2>2. (pc'[t] = "wait5" <=> pc[t] = "wait5") /\ Status(t)' = Status(t)
    BY <1>15, <1>typ DEF ClearCode, Typed, Goto, Status
  <2> QED BY <1>same, <2>1, <2>2
<1>16. CASE Unmark(t)
  <2>1. /\ loc'[t].phase = loc[t].phase /\ loc'[t].role = loc[t].role
        /\ loc'[t].final = loc[t].final /\ loc'[t].priority = loc[t].priority
    BY <1>16, <1>typ DEF Unmark, Typed, Locals
  <2>2. (pc'[t] = "wait5" <=> pc[t] = "wait5") /\ Status(t)' = Status(t)
    BY <1>16, <1>typ DEF Unmark, Typed, Status
  <2> QED BY <1>same, <2>1, <2>2
<1>17. CASE SeeResult(t)
  <2>1. loc'[t] = [loc[t] EXCEPT !.old = IF loc[t].role = "acceptor" THEN breakbyte ELSE loc[t].old]
    BY <1>17, <1>typ DEF SeeResult, Typed
  <2>2. /\ loc'[t].phase = loc[t].phase /\ loc'[t].role = loc[t].role
        /\ loc'[t].final = loc[t].final /\ loc'[t].priority = loc[t].priority
    BY <1>typ, <2>1 DEF Locals
  <2>3. (pc'[t] = "wait5" <=> pc[t] = "wait5") /\ Status(t)' = Status(t)
    BY <1>17, <1>typ DEF SeeResult, Typed, Goto, Synch, Status
  <2> QED BY <1>same, <2>2, <2>3
<1>18. CASE Lead(t)
  <2>1. loc[t].phase = 0 /\ loc[t].role = "none"
    BY <1>18, <1>pl DEF Lead, PlaceOf, Idle, Asking, Leading, Joining, Executing, Waiting, Blank
  <2>2. loc'[t].phase = 2 /\ loc'[t].role # "acceptor" /\ loc'[t].priority = loc[t].priority
    BY <1>18, <1>typ DEF Lead, Typed, Locals
  <2>3. Status(t)' = Status(t)
    BY <1>18, <1>typ DEF Lead, Typed, Goto, Status
  <2> QED BY <1>early, <2>1, <2>2, <2>3
<1>19. CASE Follow(t)
  <2>1. loc[t].phase = 0 /\ loc[t].role = "none"
    BY <1>19, <1>pl DEF Follow, PlaceOf, Idle, Asking, Leading, Joining, Executing, Waiting, Blank
  <2>2. loc'[t].phase = 2 /\ loc'[t].role # "acceptor" /\ loc'[t].priority = loc[t].priority
    BY <1>19, <1>typ DEF Follow, Typed, Locals
  <2>3. Status(t)' = Status(t)
    BY <1>19, <1>typ DEF Follow, Typed, Goto, Status
  <2> QED BY <1>early, <2>1, <2>2, <2>3
<1>20. CASE AddRequest(t)
  <2>1. /\ loc[t].phase = 2 /\ loc'[t].phase = 2 /\ loc'[t].role = loc[t].role
        /\ loc'[t].priority = loc[t].priority /\ pc'[t] \in {"drain", "checkin"} /\ pc[t] = "expr"
    BY <1>20, <1>typ, AddRequestStep DEF AddRequest
  <2>2. Status(t)' = Status(t)
    BY <2>1 DEF Status
  <2> QED BY <1>early, <2>1, <2>2
<1>21. CASE SeeRequests(t)
  <2>1. loc'[t] = [loc[t] EXCEPT !.final = breakbyte] /\ loc[t].phase = 3
    BY <1>21, <1>typ DEF SeeRequests, Typed
  <2>2. /\ loc'[t].phase = 3 /\ loc'[t].role = loc[t].role /\ loc'[t].priority = loc[t].priority
    BY <1>typ, <2>1 DEF Locals
  <2>3. Status(t)' = Status(t)
    BY <1>21, <1>typ DEF SeeRequests, Typed, Goto, Synch, Status
  <2> QED BY <1>early, <2>1, <2>2, <2>3
<1>22. CASE Drained(t)
  <2>1. /\ loc'[t].phase = NextPhase(t) /\ loc'[t].role = loc[t].role
        /\ loc'[t].final = loc[t].final /\ loc'[t].priority = loc[t].priority
    BY <1>22, <1>typ DEF Drained, Typed, Locals
  <2>2. loc[t].phase = 5 \/ (loc[t].phase \in {2, 3} /\ loc[t].role = "leader")
    BY <1>22, <1>pl DEF Drained, PlaceOf, Idle, Asking, Leading, Joining, Executing, Waiting, Blank
  <2>3. IF loc[t].phase = 5 THEN NextPhase(t) = 5 ELSE NextPhase(t) # 5
    BY <2>2 DEF NextPhase, Leads
  <2>4. pc[t] = "drain" /\ pc'[t] \in {"clearcode", "count"} /\ Status(t)' = Status(t)
    BY <1>22, <1>typ DEF Drained, Typed, Goto, Status
  <2> QED BY <1>early, <1>same, <2>1, <2>3, <2>4
<1>23. CASE CheckIn(t)
  <2>1. /\ loc'[t].phase = NextPhase(t) /\ loc'[t].role = loc[t].role
        /\ loc'[t].final = loc[t].final /\ loc'[t].priority = loc[t].priority
    BY <1>23, <1>typ DEF CheckIn, Typed, Locals
  <2>2. pc[t] = "checkin" /\ pc'[t] = (IF loc[t].phase = 5 THEN "wait5" ELSE "await")
    BY <1>23, <1>typ DEF CheckIn, Typed, Goto
  <2>3. Status(t)' = Status(t)
    BY <2>2 DEF Status
  <2>4. CASE loc[t].phase = 5
    <3>1. FunctionOver /\ NextPhase(t) = 5
      <4>1. systemlock = 5
        BY <1>pl, <2>2, <2>4
           DEF Joiner, PlaceOf, Idle, Asking, Leading, Joining, Executing, Waiting, Blank
      <4> QED BY <2>4, <4>1, OverWhere DEF NextPhase
    <3> QED BY <1>over, <2>1, <2>3, <2>4, <3>1 DEF Asked, Winning
  <2>5. CASE loc[t].phase # 5
    <3>1. ~FunctionOver
      <4>1. systemlock \in 2 .. 3
        BY <1>pl, <2>2, <2>5
           DEF Joiner, PlaceOf, Idle, Asking, Leading, Joining, Executing, Waiting, Blank
      <4> QED BY <4>1, OverWhere
    <3> QED BY <1>early, <2>1, <2>2, <2>3, <2>5, <3>1
  <2> QED BY <2>4, <2>5
<1>24. CASE HandState(t)
  <2>1. /\ loc[t].phase = 4 /\ pc[t] = "state" /\ pc'[t] = "await" /\ loc'[t].role = loc[t].role
        /\ loc'[t].priority = loc[t].priority
    BY <1>24, <1>typ, HandStateStep DEF HandState
  <2>2. systemlock = 3
    BY <1>24, <1>pl, Writes
  <2>3. ~FunctionOver
    BY <2>2, OverWhere
  <2>4. Status(t)' = Status(t)
    BY <2>1 DEF Status
  <2> QED BY <1>early, <2>1, <2>3, <2>4
<1>25. CASE EnterUser(t)
  BY <1>25 DEF Unseen
<1>26. CASE ClrRunning(t)
  BY <1>26 DEF Unseen
<1>27. CASE Notice(t)
  BY <1>27 DEF Unseen
<1>28. CASE CreateDefer(t)
  BY <1>28 DEF Unseen
<1>29. CASE Request(t)
  BY <1>29 DEF Unseen
<1>30. CASE ClearRequests(t)
  BY <1>30 DEF Unseen
<1>31. CASE Function(t)
  BY <1>31 DEF Unseen
<1>32. CASE Release(t)
  BY <1>32 DEF Unseen
<1>33. CASE RequesterLeaves(t)
  BY <1>33 DEF Unseen
<1>34. CASE AcceptorLeaves(t)
  BY <1>34 DEF Unseen
<1> QED BY <1>1, <1>2, <1>3, <1>4, <1>5, <1>6, <1>7, <1>8, <1>9, <1>10, <1>11, <1>12, <1>13,
         <1>14, <1>15, <1>16, <1>17, <1>18, <1>19, <1>20, <1>21, <1>22, <1>23, <1>24, <1>25,
         <1>26, <1>27, <1>28, <1>29, <1>30, <1>31, <1>32, <1>33, <1>34
         DEF Step, Act

\* What the others look like changes only with the end of the function and of the lock.
LEMMA OthersSeen ==
    ASSUME IndInv, NEW t \in Threads, Act(t), NEW u \in Threads \ {t}
    PROVE  /\ Status(u)' = Status(u)
           /\ FunctionOver' = FunctionOver => Asked(u)' = Asked(u)
           /\ Release(t) => Asked(u)' = Asked(u)
<1>1. pc'[u] = pc[u] /\ loc'[u] = loc[u]
  BY Others DEF IndInv
<1>2. Status(u)' = Status(u)
  BY <1>1 DEF Status
<1>3. FunctionOver' = FunctionOver => Asked(u)' = Asked(u)
  BY <1>1 DEF Asked, Winning
<1>4. ASSUME Release(t) PROVE Asked(u)' = Asked(u)
  <2>1. pc[t] = "unmark"
    BY <1>4 DEF Release
  <2>2. pc[u] \in {"out", "entered", "wait5"}
    BY <2>1 DEF IndInv, Passed
  <2>3. PlaceOf(u)
    BY DEF IndInv, Place
  <2>4. pc[u] = "wait5" \/ loc[u].phase # 5
    BY <2>2, <2>3 DEF PlaceOf, Idle, Asking, Leading, Joining, Executing, Waiting, Blank
  <2> QED BY <1>1, <2>4 DEF Asked, Winning
<1> QED BY <1>2, <1>3, <1>4

\* A step that changes what one thread looks like, and maybe what it asks for.
LEMMA OneMoves ==
    ASSUME NEW t \in Threads, \A u \in Threads \ {t} : Status(u)' = Status(u)
    PROVE  World!To(t, Status(t)')
BY DEF World!To

\* A step that changes what one thread asks for.
LEMMA OneAsks ==
    ASSUME NEW t \in Threads, \A u \in Threads \ {t} : Asked(u)' = Asked(u)
    PROVE  [u \in Threads |-> Asked(u)]' = [[u \in Threads |-> Asked(u)] EXCEPT ![t] = Asked(t)']
OBVIOUS

\* Nobody runs a locked function, unless the lock is in state 4.
LEMMA NobodyLocked ==
    ASSUME IndInv, systemlock # 4
    PROVE  World!NobodyAlone
<1>1. \A u \in Threads : PlaceOf(u)
  BY DEF IndInv, Place
<1>2. ASSUME NEW u \in Threads PROVE pc[u] \notin {"function", "direct"}
  BY <1>1 DEF PlaceOf, Idle, Asking, Leading, Joining, Executing, Waiting, Blank
<1>3. \A u \in Threads : Status(u) # "alone"
  BY <1>2 DEF Status
<1> QED BY <1>3 DEF World!NobodyAlone

\* In state 4 the requests that are not served yet are those that the executor has seen, and
\* all who saw them have seen the same.
LEMMA PendingSeen ==
    ASSUME IndInv, NEW t \in Threads, pc[t] \in {"clearrequests", "function"}
    PROVE  /\ World!Pending = loc[t].final
           /\ ~FunctionOver /\ Executor(t) /\ systemlock = 4 /\ loc[t].phase = 4
           /\ \A u \in Threads \ {t} :
                 /\ Status(u) \in {"out", "stopped"}
                 /\ \/ Asked(u) = {} /\ (loc[u].role = "acceptor" \/ loc[u].priority = {})
                    \/ loc[u].role # "acceptor" /\ loc[u].phase = 5 /\ Winning(u) = Winning(t)
<1>typ. Typed /\ OneDriver /\ Requests /\ \A u \in Threads : PlaceOf(u)
  BY DEF IndInv, Place
<1>1. Executor(t) /\ Requester(t) /\ systemlock = 4 /\ loc[t].phase = 4
  BY <1>typ DEF PlaceOf, Idle, Asking, Leading, Joining, Executing, Waiting, Blank
<1>2. \A u \in Threads \ {t} : ~Executor(u)
  BY <1>typ, <1>1 DEF OneDriver
<1>3. ~FunctionOver
  BY <1>1, <1>2 DEF FunctionOver
<1>4. ASSUME NEW u \in Threads \ {t}
      PROVE  \/ loc[u] = Blank /\ pc[u] = "out"
             \/ pc[u] = "await" /\ loc[u].phase = 5 /\ loc[u].role # "none"
  BY <1>typ, <1>1, <1>2, <1>4 DEF PlaceOf, Idle, Asking, Leading, Joining, Executing, Waiting, Blank
<1>5. ASSUME NEW u \in Threads \ {t} PROVE Status(u) \in {"out", "stopped"}
  BY <1>4 DEF Status
<1>6. Added(t) /\ Saw(t) /\ Asked(t) = loc[t].priority
  BY <1>1 DEF Added, Saw, Asked, Requester
<1>7. ASSUME NEW u \in Threads \ {t}
      PROVE  IF Added(u) THEN Asked(u) = loc[u].priority ELSE Asked(u) = {}
  <2>1. CASE loc[u] = Blank
    BY <2>1 DEF Blank, Added, Requester, Asked
  <2>2. CASE pc[u] = "await" /\ loc[u].phase = 5 /\ loc[u].role # "none"
    <3>1. loc[u].role \in {"leader", "follower", "acceptor"}
      BY <1>typ, <2>2 DEF Typed, Locals
    <3> QED BY <1>3, <2>2, <3>1 DEF Added, Requester, Asked
  <2> QED BY <1>4, <2>1, <2>2
<1>8. \A u \in Threads : loc[u].priority \subseteq Priorities /\ loc[u].final \subseteq Priorities
  BY <1>typ DEF Typed, Locals
<1>9. World!Pending = loc[t].final
  <2>1. World!Pending = UNION {Asked(u) : u \in Threads}
    BY DEF World!Pending
  <2>2. AllRequests(loc[t].final)
    BY <1>typ, <1>1, <1>6 DEF Requests
  <2>3. \A p : p \in UNION {Asked(u) : u \in Threads} <=> \E u \in Threads : p \in Asked(u)
    OBVIOUS
  <2>4. \A u \in Threads : \A p : p \in Asked(u) <=> Added(u) /\ p \in loc[u].priority
    BY <1>6, <1>7
  <2>5. \A p : p \in UNION {Asked(u) : u \in Threads} <=> p \in loc[t].final
    BY <1>8, <2>2, <2>3, <2>4 DEF AllRequests
  <2> QED BY <2>1, <2>5
<1>10. ASSUME NEW u \in Threads \ {t}
       PROVE  \/ Asked(u) = {} /\ (loc[u].role = "acceptor" \/ loc[u].priority = {})
              \/ loc[u].role # "acceptor" /\ loc[u].phase = 5 /\ Winning(u) = Winning(t)
  <2>1. CASE loc[u] = Blank
    BY <2>1 DEF Blank, Asked
  <2>2. CASE pc[u] = "await" /\ loc[u].phase = 5
    <3>1. Saw(u)
      BY <2>2 DEF Saw
    <3>2. AllRequests(loc[t].final) /\ AllRequests(loc[u].final)
      BY <1>typ, <1>1, <1>6, <3>1 DEF Requests
    <3>3. loc[u].final = loc[t].final
      BY <1>8, <3>2 DEF AllRequests
    <3> QED BY <2>2, <3>3 DEF Asked, Winning
  <2> QED BY <1>4, <2>1, <2>2
<1> QED BY <1>1, <1>3, <1>5, <1>9, <1>10

\* Every step of the lock is a step of StopTheWorld or changes nothing that it sees.
LEMMA StepRefines ==
    ASSUME IndInv, NEW t \in Threads, Act(t)
    PROVE  World!Next \/ UNCHANGED World!svars
<1>typ. Typed /\ Typed' /\ loc[t] \in Locals
  BY TypedKept DEF IndInv, Typed
<1>pl. PlaceOf(t) /\ PlaceOf(t)'
  BY PlaceKept DEF IndInv, Place
<1>oth. \A u \in Threads \ {t} : Status(u)' = Status(u)
  BY OthersSeen
<1>ask. ASSUME ~Function(t) PROVE \A u \in Threads \ {t} : Asked(u)' = Asked(u)
  BY <1>ask, OthersSeen, OverKept
<1>quiet. ASSUME ~Function(t), Status(t)' = Status(t), Asked(t)' = Asked(t)
          PROVE  UNCHANGED World!svars
  <2>1. \A u \in Threads : Status(u)' = Status(u) /\ Asked(u)' = Asked(u)
    BY <1>oth, <1>ask, <1>quiet
  <2> QED BY <2>1 DEF World!svars
<1>moves. ASSUME ~Function(t), Asked(t)' = Asked(t), NEW s, Status(t)' = s
          PROVE  World!To(t, s) /\ UNCHANGED [u \in Threads |-> Asked(u)]
  <2>1. World!To(t, s)
    BY <1>oth, <1>moves, OneMoves
  <2>2. \A u \in Threads : Asked(u)' = Asked(u)
    BY <1>ask, <1>moves
  <2> QED BY <2>1, <2>2
<1>resumes. ASSUME ~Function(t), Status(t) = "stopped", Asked(t) = {}, Asked(t)' = {},
                   systemlock # 4, Status(t)' \in {"running", "stopped"}
            PROVE  World!Next \/ UNCHANGED World!svars
  <2>1. CASE Status(t)' = "stopped"
    BY <1>quiet, <1>resumes, <2>1
  <2>2. CASE Status(t)' = "running"
    <3>1. World!To(t, "running") /\ UNCHANGED [u \in Threads |-> Asked(u)]
      BY <1>moves, <1>resumes, <2>2
    <3>2. World!NobodyAlone
      BY <1>resumes, NobodyLocked
    <3>3. World!Resume(t)
      BY <1>resumes, <3>1, <3>2 DEF World!Resume
    <3> QED BY <3>3 DEF World!Next
  <2> QED BY <1>resumes, <2>1, <2>2
<1>1. CASE Unseen(t)
  <2>1. ~Function(t)
    BY <1>1 DEF Unseen
  <2> QED BY <1>1, <1>quiet, <2>1, OwnUnseen
<1>2. CASE EnterUser(t)
  <2>1. /\ pc[t] = "entered" /\ pc'[t] = "user" /\ loc' = loc /\ loc[t] = Blank /\ systemlock # 4
        /\ ~Function(t)
    BY <1>2, <1>typ, <1>pl
       DEF EnterUser, Function, Goto, Typed, PlaceOf, Idle, Asking, Leading, Joining,
           Executing, Waiting, Blank
  <2>2. Status(t) = "out" /\ Status(t)' = "running" /\ Asked(t)' = Asked(t)
    BY <2>1 DEF Status, Asked, Blank
  <2>3. World!Enter(t)
    BY <1>moves, <2>1, <2>2, NobodyLocked DEF World!Enter
  <2> QED BY <2>3 DEF World!Next
<1>3. CASE ClrRunning(t)
  <2>1. pc[t] = "clr" /\ loc[t] = Blank /\ ~Function(t)
    BY <1>3, <1>pl
       DEF ClrRunning, Function, PlaceOf, Idle, Asking, Leading, Joining, Executing, Waiting,
           Blank
  <2>2. Status(t) = "running" /\ Asked(t) = {}
    BY <2>1 DEF Status, Asked, Blank
  <2>3. \/ pc'[t] = "out" /\ loc'[t] = Blank
        \/ pc'[t] = "await" /\ loc'[t].role = "acceptor"
    BY <1>3, <1>typ, <2>1, ClrRunningStep
  <2>4. CASE pc'[t] = "out" /\ loc'[t] = Blank
    <3>1. Status(t)' = "out" /\ Asked(t)' = {}
      BY <2>4 DEF Status, Asked, Blank
    <3>2. World!Leave(t)
      BY <1>moves, <2>1, <2>2, <3>1 DEF World!Leave
    <3> QED BY <3>2 DEF World!Next
  <2>5. CASE pc'[t] = "await" /\ loc'[t].role = "acceptor"
    <3>1. Status(t)' = "stopped" /\ Asked(t)' = {}
      BY <2>5 DEF Status, Asked
    <3>2. World!Stop(t)
      BY <1>moves, <2>1, <2>2, <3>1 DEF World!Stop
    <3> QED BY <3>2 DEF World!Next
  <2> QED BY <2>3, <2>4, <2>5
<1>4. CASE Notice(t) \/ CreateDefer(t)
  <2>1. pc[t] \in {"user", "creating"} /\ loc[t] = Blank /\ ~Function(t)
    BY <1>4, <1>pl
       DEF Notice, CreateDefer, Function, PlaceOf, Idle, Asking, Leading, Joining, Executing,
           Waiting, Blank
  <2>2. Status(t) = "running" /\ Asked(t) = {}
    BY <2>1 DEF Status, Asked, Blank
  <2>3. pc'[t] = "await" /\ loc'[t].role = "acceptor"
    <3>1. CASE Notice(t)
      BY <1>typ, <3>1 DEF Notice, AcceptAll, Goto, Typed, Blank
    <3>2. CASE CreateDefer(t)
      BY <1>typ, <3>2 DEF CreateDefer, AcceptAll, Goto, Typed, Blank
    <3> QED BY <1>4, <3>1, <3>2
  <2>4. Status(t)' = "stopped" /\ Asked(t)' = {}
    BY <2>3 DEF Status, Asked
  <2>5. World!Stop(t)
    BY <1>moves, <2>1, <2>2, <2>4 DEF World!Stop
  <2> QED BY <2>5 DEF World!Next
<1>5. CASE Request(t)
  <2>1. pc[t] = "user" /\ ~Function(t) /\ systemlock \in 0 .. 2
    BY <1>5, <1>pl
       DEF Request, Function, PlaceOf, Idle, Asking, Leading, Joining, Executing, Waiting,
           Blank
  <2>2. PICK p \in Priorities : pc'[t] = "ask" /\ loc'[t] = [Blank EXCEPT !.priority = {p}]
    BY <1>5, <1>typ, <2>1 DEF Request, Goto, Typed
  <2>3. Status(t) = "running" /\ Status(t)' = "stopped" /\ Asked(t)' = {p}
    BY <2>1, <2>2 DEF Status, Asked, Blank
  <2>4. World!To(t, "stopped")
    BY <1>oth, <2>3, OneMoves
  <2>5. [u \in Threads |-> Asked(u)]' = [[u \in Threads |-> Asked(u)] EXCEPT ![t] = {p}]
    BY <1>ask, <2>1, <2>3, OneAsks
  <2>6. World!Ask(t)
    BY <2>3, <2>4, <2>5 DEF World!Ask
  <2> QED BY <2>6 DEF World!Next
<1>6. CASE ClearRequests(t)
  <2>1. /\ pc[t] = "clearrequests" /\ pc'[t] = "function" /\ loc' = loc /\ ~Function(t)
           /\ ~Release(t)
    BY <1>6, <1>typ DEF ClearRequests, Function, Release, Goto, Typed
  <2>2. /\ World!Pending = loc[t].final /\ ~FunctionOver /\ Executor(t) /\ loc[t].phase = 4
        /\ \A u \in Threads \ {t} : Status(u) \in {"out", "stopped"}
    BY <2>1, PendingSeen
  <2>3. Asked(t) = loc[t].priority /\ Asked(t)' = Asked(t) /\ Status(t) = "stopped"
           /\ Status(t)' = "alone"
    BY <2>1, <2>2 DEF Asked, Status, Executor
  <2>4. World!Top(World!Pending) \in Asked(t)
    <3>1. World!Top(loc[t].final) = Winning(t)
      BY DEF World!Top, Winning, Top
    <3> QED BY <2>2, <2>3, <3>1 DEF Executor
  <2>5. World!To(t, "alone") /\ UNCHANGED [u \in Threads |-> Asked(u)]
    BY <1>moves, <2>1, <2>3
  <2>6. World!Take(t)
    BY <2>2, <2>3, <2>4, <2>5 DEF World!Take
  <2> QED BY <2>6 DEF World!Next
<1>7. CASE Function(t)
  <2>1. /\ pc[t] = "function" /\ pc'[t] = "count" /\ loc'[t].phase = 5
        /\ loc'[t].role = loc[t].role /\ loc'[t].priority = loc[t].priority
        /\ loc'[t].final = loc[t].final /\ loc'[t].old = loc[t].old
    BY <1>7, <1>typ DEF Function, Goto, Typed, Locals
  <2>2. /\ World!Pending = loc[t].final /\ ~FunctionOver /\ Executor(t) /\ loc[t].phase = 4
        /\ \A u \in Threads \ {t} :
              \/ Asked(u) = {} /\ (loc[u].role = "acceptor" \/ loc[u].priority = {})
              \/ loc[u].role # "acceptor" /\ loc[u].phase = 5 /\ Winning(u) = Winning(t)
    BY <2>1, PendingSeen
  <2>3. World!Top(World!Pending) = Winning(t)
    BY <2>2 DEF World!Top, Winning, Top
  <2>4. Executor(t)' /\ Winning(t)' = Winning(t)
    BY <2>1, <2>2 DEF Executor, Winning
  <2>5. FunctionOver'
    BY <2>1, <2>4 DEF FunctionOver
  <2>6. Status(t) = "alone" /\ Status(t)' = "stopped"
    BY <2>1 DEF Status
  <2>7. Asked(t)' = Asked(t) \ {Winning(t)}
    <3>1. Asked(t) = loc[t].priority
      BY <2>2 DEF Asked, Executor
    <3>2. Asked(t)' = loc[t].priority \ {Winning(t)}
      BY <2>1, <2>2, <2>4, <2>5 DEF Asked, Executor
    <3> QED BY <3>1, <3>2
  <2>8. ASSUME NEW u \in Threads \ {t} PROVE Asked(u)' = Asked(u) \ {Winning(t)}
    <3>1. pc'[u] = pc[u] /\ loc'[u] = loc[u]
      BY <1>typ, Others
    <3>2. Winning(u)' = Winning(u)
      BY <3>1 DEF Winning
    <3>3. CASE Asked(u) = {} /\ (loc[u].role = "acceptor" \/ loc[u].priority = {})
      <4>1. Asked(u)' = {}
        BY <3>1, <3>3 DEF Asked
      <4> QED BY <3>3, <4>1
    <3>4. CASE loc[u].role # "acceptor" /\ loc[u].phase = 5 /\ Winning(u) = Winning(t)
      <4>1. Asked(u)' = loc[u].priority \ {Winning(t)}
        BY <2>5, <3>1, <3>2, <3>4 DEF Asked
      <4>2. Asked(u) \ {Winning(t)} = loc[u].priority \ {Winning(t)}
        BY <2>2, <3>4 DEF Asked
      <4> QED BY <4>1, <4>2
    <3> QED BY <2>2, <3>3, <3>4
  <2>9. World!To(t, "stopped")
    BY <1>oth, <2>6, OneMoves
  <2>10. [u \in Threads |-> Asked(u)]' = [u \in Threads |-> Asked(u) \ {Winning(t)}]
    BY <2>7, <2>8
  <2>11. World!Release(t)
    BY <2>3, <2>6, <2>9, <2>10 DEF World!Release
  <2> QED BY <2>11 DEF World!Next
<1>8. CASE Release(t) \/ RequesterLeaves(t)
  <2> DEFINE left == loc[t].priority \ {Winning(t)}
  <2>1. /\ pc[t] \in {"unmark", "wait5"} /\ loc[t].phase = 5 /\ loc[t].role # "acceptor"
        /\ systemlock # 4 /\ (pc[t] = "unmark" => systemlock = 5) /\ ~Function(t)
    BY <1>8, <1>pl
       DEF Release, RequesterLeaves, Function, Executor, Joiner, PlaceOf, Idle, Asking,
           Leading, Joining, Executing, Waiting, Blank
  <2>2. Status(t) = "stopped" /\ Asked(t) = left
    <3>1. pc[t] = "wait5" \/ FunctionOver
      BY <2>1, OverWhere
    <3> QED BY <2>1, <3>1 DEF Status, Asked
  <2>3. CASE left = {}
    <3>1. pc'[t] = "user" /\ loc'[t] = Blank
      BY <1>8, <1>typ, <2>3 DEF Release, RequesterLeaves, AskAgain, Goto, Typed
    <3>2. Status(t)' = "running" /\ Asked(t)' = {}
      BY <3>1 DEF Status, Asked, Blank
    <3> QED BY <1>resumes, <2>1, <2>2, <2>3, <3>2
  <2>4. CASE left # {}
    <3>1. pc'[t] = "ask" /\ loc'[t] = [Blank EXCEPT !.priority = left]
      BY <1>8, <1>typ, <2>4 DEF Release, RequesterLeaves, AskAgain, Goto, Typed
    <3>2. Status(t)' = "stopped" /\ Asked(t)' = left
      BY <3>1 DEF Status, Asked, Blank
    <3> QED BY <1>quiet, <2>1, <2>2, <3>2
  <2> QED BY <2>3, <2>4
<1>9. CASE AcceptorLeaves(t)
  <2>1. pc[t] = "wait5" /\ loc[t].role = "acceptor" /\ systemlock # 4 /\ ~Function(t)
    BY <1>9, <1>pl
       DEF AcceptorLeaves, Function, Joiner, PlaceOf, Idle, Asking, Leading, Joining,
           Executing, Waiting, Blank
  <2>2. Status(t) = "stopped" /\ Asked(t) = {}
    BY <2>1 DEF Status, Asked
  <2>3. \/ loc'[t] = Blank /\ pc'[t] \in {"user", "clr", "create"}
        \/ loc'[t].role = "acceptor" /\ pc'[t] = "await"
    BY <1>9, <1>typ, AcceptorLeavesStep DEF Locals
  <2>4. Status(t)' \in {"running", "stopped"} /\ Asked(t)' = {}
    BY <2>3 DEF Status, Asked, Blank
  <2> QED BY <1>resumes, <2>1, <2>2, <2>4
<1> QED BY <1>1, <1>2, <1>3, <1>4, <1>5, <1>6, <1>7, <1>8, <1>9 DEF Unseen

\* jtsystemlock does what StopTheWorld promises (ct.c:117-191, 347-365).
THEOREM Refinement == Spec => StopsTheWorld
<1>1. Init => World!Init
  <2>1. Init => \A t \in Threads : Status(t) = "out" /\ Asked(t) = {}
    BY DEF Init, Status, Asked, Blank
  <2> QED BY <2>1 DEF World!Init
<1>2. IndInv /\ [Next]_vars => [World!Next]_World!svars
  <2>1. ASSUME IndInv, NEW t \in Threads, Act(t) PROVE [World!Next]_World!svars
    BY <2>1, StepRefines
  <2>2. ASSUME UNCHANGED vars PROVE [World!Next]_World!svars
    <3>1. FunctionOver' = FunctionOver
      BY <2>2 DEF vars, FunctionOver, Executor, Winning
    <3>2. \A t \in Threads : Status(t)' = Status(t) /\ Asked(t)' = Asked(t)
      BY <2>2, <3>1 DEF vars, Status, Asked, Winning
    <3> QED BY <3>2 DEF World!svars
  <2> QED BY <2>1, <2>2 DEF Next, Act
<1> QED BY <1>1, <1>2, Inductive, PTL DEF Spec, StopsTheWorld, World!Spec
=============================================================================
