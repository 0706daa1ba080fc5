----------------------------- MODULE ThreadPool -----------------------------
(***************************************************************************)
(* The worker threads and the pools they belong to: 0 T. (create a         *)
(* thread), 1 T. (count them), 55 T. (end one) and the end of a worker     *)
(* (jttcapdot2 and jtthreadmain, ct.c).                                    *)
(*                                                                         *)
(* A worker has a slot for good.  Two bits of its taskstate, ACTIVE and    *)
(* TERMINATE, say whether the slot has a thread and whether that thread is *)
(* to end.  A thread that acknowledges its end is not gone yet: it leaves  *)
(* the slot later, when a new thread may have begun.                       *)
(*                                                                         *)
(* What a pool does with its jobs is in JobQueue; here a job of t. is what *)
(* one thread of the pool runs, or with locales each thread of some        *)
(* indices, and what makes the other threads sleep meanwhile.              *)
(*                                                                         *)
(* A section under flock, and the part of it under the lock of the job     *)
(* queue, is one step: taskstate changes only under both or, when a worker *)
(* ends, under the lock of the job queue.                                  *)
(***************************************************************************)
EXTENDS Integers, Sequences, FiniteSets, FiniteSetsExt

CONSTANTS
    MaxWorkers,     \* MAXTHREADS - 1
    Pools,          \* the thread pools
    AnyPool,        \* 55 T. '': no pool is named; also of a slot not used yet
    MaxInPool,      \* MAXTHREADSINPOOL
    WorkersCall,    \* do tasks call T. and t. as well as the master?
    CreateFails,    \* can the operating system refuse a thread (bound: once)?
    Masks,          \* bound: the indices that a job with locales may be for
    MaxJobs,        \* bound: jobs waiting in one pool
    MaxCalls,       \* bound: threads in a call of T. at once
    MaxLeaving      \* bound: threads of one slot that have yet to leave it

Workers == 1 .. MaxWorkers
US == 65536     \* nthreads is an unsigned short
Master == 0
Threads == {Master} \union Workers

\* The threads that call T. and t.: the master, and the tasks if they may.
Callers == {Master} \union {s \in Workers : WorkersCall}

\* The limits that the code relies on (ct.c:398): a pool has fewer threads than an
\* unsigned short can count.
ASSUME ThreadPoolAssumption ==
    /\ MaxWorkers \in Nat
    /\ MaxInPool \in Nat /\ MaxInPool < US
    /\ AnyPool \notin Pools
    /\ Masks \subseteq SUBSET (1 .. MaxInPool)
    /\ MaxJobs \in Nat /\ MaxCalls \in Nat /\ MaxLeaving \in Nat
    /\ WorkersCall \in BOOLEAN /\ CreateFails \in BOOLEAN

VARIABLES
    active,         \* TASKSTATEACTIVE of a worker's slot
    terminate,      \* TASKSTATETERMINATE
    threadpoolno,   \* the pool of the slot
    ndxinthreadpool,\* its index in the pool
    wthreadhwmk,    \* workers 1 .. wthreadhwmk have been used
    nthreads,       \* jobq->nthreads
    jobs,           \* the queue: of each job, the indices yet to begin it
    wanted,         \* the first job is to give a kick when it leaves (AR=0)
    osthreads,      \* the operating system's threads in the slot's loop
    leaving,        \* those that have acknowledged their end, and not returned
    busy,           \* the worker runs a task
    owes,           \* ... and has yet to give the kick, before it begins
    asleep,         \* the worker sleeps, for want of a job or at waitforkick
    call,           \* what a thread is in: a call of T., or nothing
    refused,        \* history: the operating system has refused a thread
    ascending       \* history: every thread got a slot after its pool's others

slots == <<active, terminate, threadpoolno, ndxinthreadpool, wthreadhwmk>>
threads == <<osthreads, leaving, busy, owes, asleep>>
history == <<refused, ascending>>
vars == <<active, terminate, threadpoolno, ndxinthreadpool, wthreadhwmk, nthreads,
          jobs, wanted, osthreads, leaving, busy, owes, asleep, call, refused, ascending>>

None == [op |-> "none"]
Plain == {}     \* a job without locales: any thread may take it

Init ==
    /\ active = [s \in Workers |-> FALSE]
    /\ terminate = [s \in Workers |-> FALSE]
    /\ threadpoolno = [s \in Workers |-> AnyPool]
    /\ ndxinthreadpool = [s \in Workers |-> 0]
    /\ wthreadhwmk = 0
    /\ nthreads = [p \in Pools |-> 0]
    /\ jobs = [p \in Pools |-> <<>>]
    /\ wanted = [p \in Pools |-> FALSE]
    /\ osthreads = [s \in Workers |-> 0]
    /\ leaving = [s \in Workers |-> 0]
    /\ busy = [s \in Workers |-> FALSE]
    /\ owes = [s \in Workers |-> FALSE]
    /\ asleep = [s \in Workers |-> FALSE]
    /\ call = [t \in Threads |-> None]
    /\ refused = FALSE
    /\ ascending = TRUE

-----------------------------------------------------------------------------
\* ACTIVE and not TERMINATE: the threads that there are "in the long run".
Lasting(s) == active[s] /\ ~terminate[s]

\* The slot that creation settles on: the first used one without a lasting
\* thread, or the next one.
FreeSlot == Min({s \in 1 .. wthreadhwmk : ~Lasting(s)} \union {wthreadhwmk + 1})

\* A thread that executes J code and is in no call.
Free(t) ==
    /\ call[t] = None
    /\ Cardinality({u \in Threads : call[u] # None}) < MaxCalls
    /\ t \in {Master} \union {s \in Workers : WorkersCall /\ busy[s] /\ ~owes[s]}

Call(t, c) == call' = [call EXCEPT ![t] = c]

CallCreate(t) ==
    /\ Free(t)
    /\ \E p \in Pools : Call(t, [op |-> "create", pool |-> p])
    /\ UNCHANGED <<slots, nthreads, jobs, wanted, threads, history>>

CallDestroy(t) ==
    /\ Free(t)
    /\ \E p \in Pools \union {AnyPool} : Call(t, [op |-> "destroy", pool |-> p])
    /\ UNCHANGED <<slots, nthreads, jobs, wanted, threads, history>>

Refuse(t) ==
    /\ Call(t, None)
    /\ UNCHANGED <<slots, nthreads, jobs, wanted, threads, history>>

\* EVLIMIT: no slot, or the pool is full.
CreateLimit(t) ==
    /\ call[t].op = "create"
    /\ \/ FreeSlot > MaxWorkers
       \/ FreeSlot <= MaxWorkers /\ ~terminate[FreeSlot] /\ nthreads[call[t].pool] >= MaxInPool
    /\ Refuse(t)

CreateReady(t) ==
    /\ call[t].op = "create"
    /\ FreeSlot <= MaxWorkers
    /\ ~terminate[FreeSlot]
    /\ nthreads[call[t].pool] < MaxInPool

\* A thread that is still to end in the slot is waited for, with the locks
\* released and taken again.
CreateWait(t) ==
    /\ call[t].op = "create"
    /\ FreeSlot <= MaxWorkers /\ terminate[FreeSlot]
    /\ UNCHANGED vars

NewIndex(p) == nthreads[p] + 1

\* A slip, used by no action, as are those that follow: the highest slot used goes
\* down when a lower one is used again.
NewHighest_Slot(s) == s
NewHighest(s) == Max({wthreadhwmk, s})

\* Slip: the slot of a thread that is yet to end is given away.
Create_Reclaim(t) ==
    LET s == FreeSlot
        p == call[t].pool IN
    /\ call[t].op = "create" /\ s <= MaxWorkers /\ nthreads[p] < MaxInPool
    /\ active' = [active EXCEPT ![s] = TRUE]
    /\ terminate' = [terminate EXCEPT ![s] = FALSE]
    /\ threadpoolno' = [threadpoolno EXCEPT ![s] = p]
    /\ ndxinthreadpool' = [ndxinthreadpool EXCEPT ![s] = NewIndex(p)]
    /\ osthreads' = [osthreads EXCEPT ![s] = 1]
    /\ wthreadhwmk' = NewHighest(s)
    /\ nthreads' = [nthreads EXCEPT ![p] = @ + 1]
    /\ Call(t, None)
    /\ UNCHANGED <<jobs, wanted, leaving, busy, owes, asleep, history>>

Create(t) ==
    LET s == FreeSlot
        p == call[t].pool IN
    /\ CreateReady(t)
    /\ active' = [active EXCEPT ![s] = TRUE]
    /\ threadpoolno' = [threadpoolno EXCEPT ![s] = p]
    /\ ndxinthreadpool' = [ndxinthreadpool EXCEPT ![s] = NewIndex(p)]
    /\ osthreads' = [osthreads EXCEPT ![s] = @ + 1]
    /\ wthreadhwmk' = NewHighest(s)
    /\ nthreads' = [nthreads EXCEPT ![p] = @ + 1]
    /\ Call(t, None)
    /\ ascending' = (ascending /\ \A u \in Workers :
                        Lasting(u) /\ threadpoolno[u] = p => u < s)
    /\ UNCHANGED <<terminate, jobs, wanted, leaving, busy, owes, asleep, refused>>

\* pthread_create fails: the slot has been marked and stays so.
CreateFail(t) ==
    LET s == FreeSlot
        p == call[t].pool IN
    /\ CreateFails /\ ~refused
    /\ CreateReady(t)
    /\ active' = [active EXCEPT ![s] = TRUE]
    /\ threadpoolno' = [threadpoolno EXCEPT ![s] = p]
    /\ ndxinthreadpool' = [ndxinthreadpool EXCEPT ![s] = NewIndex(p)]
    /\ Call(t, None)
    /\ refused' = TRUE
    /\ UNCHANGED <<terminate, wthreadhwmk, nthreads, jobs, wanted, threads, ascending>>

-----------------------------------------------------------------------------
\* futex++ and wake all: who sleeps in the pool looks at the queue again.
WakeAll(p) == asleep' = [s \in Workers |-> asleep[s] /\ threadpoolno[s] # p]

\* The lasting threads that 55 T. can choose from.
Candidates(t) == {s \in 1 .. wthreadhwmk :
    Lasting(s) /\ call[t].pool \in {AnyPool, threadpoolno[s]}}

DestroyNone(t) ==
    /\ call[t].op = "destroy" /\ Candidates(t) = {}
    /\ Refuse(t)

\* Slip: waiting jobs are not looked at.
LastOfBusyPool_Never(p) == FALSE
\* The last thread of a pool that has jobs waiting is not ended: 55 T. waits.
LastOfBusyPool(p) == jobs[p] # <<>> /\ nthreads[p] <= 1

DestroyWait(t) ==
    /\ call[t].op = "destroy" /\ Candidates(t) # {}
    /\ LastOfBusyPool(threadpoolno[Max(Candidates(t))])
    /\ UNCHANGED vars

Destroy(t) ==
    LET s == Max(Candidates(t))
        p == threadpoolno[s] IN
    /\ call[t].op = "destroy" /\ Candidates(t) # {}
    /\ ~LastOfBusyPool(p)
    /\ terminate' = [terminate EXCEPT ![s] = TRUE]
    /\ nthreads' = [nthreads EXCEPT ![p] = (@ - 1) % US]
    /\ WakeAll(p)
    /\ Call(t, None)
    /\ UNCHANGED <<active, threadpoolno, ndxinthreadpool, wthreadhwmk, jobs, wanted,
                   osthreads, leaving, busy, owes, history>>

-----------------------------------------------------------------------------
\* A thread that is in its loop and looks at the queue.
Looks(s) == osthreads[s] > 0 /\ ~busy[s] /\ ~asleep[s]

\* Wake one, if there is one.
WakeOne(p) ==
    LET sleepers == {s \in Workers : asleep[s] /\ threadpoolno[s] = p} IN
    \/ \E s \in sleepers : asleep' = [asleep EXCEPT ![s] = FALSE]
    \/ sleepers = {} /\ UNCHANGED asleep

\* t. puts a job on the queue of a pool that has threads, with locales for some of
\* the indices that the pool has.
Enqueue(t) ==
    /\ Free(t)
    /\ \E p \in Pools, j \in Masks \union {Plain} :
         /\ nthreads[p] > 0 /\ Len(jobs[p]) < MaxJobs
         /\ j \subseteq 1 .. nthreads[p]
         /\ jobs' = [jobs EXCEPT ![p] = Append(@, j)]
         /\ IF j = Plain THEN WakeOne(p) ELSE WakeAll(p)
    /\ UNCHANGED <<slots, nthreads, wanted, osthreads, leaving, busy, owes, call, history>>

\* 15 T.
Kick(t) ==
    /\ Free(t)
    /\ \E p \in Pools : WakeAll(p)
    /\ UNCHANGED <<slots, nthreads, jobs, wanted, osthreads, leaving, busy, owes, call, history>>

Queue(s) == jobs[threadpoolno[s]]

\* With the queue empty a worker that is not to end sleeps.
Sleep(s) ==
    /\ Looks(s) /\ Queue(s) = <<>> /\ ~terminate[s]
    /\ asleep' = [asleep EXCEPT ![s] = TRUE]
    /\ UNCHANGED <<slots, nthreads, jobs, wanted, osthreads, leaving, busy, owes, call, history>>

\* The first job has no share for the worker, or no more.
Refuses(s) ==
    /\ Queue(s) # <<>> /\ Head(Queue(s)) # Plain
    /\ ndxinthreadpool[s] \notin Head(Queue(s))

\* It waits, TERMINATE or not, and wants a kick if another job is behind the first.
WaitForKick(s) ==
    /\ Looks(s) /\ Refuses(s)
    /\ asleep' = [asleep EXCEPT ![s] = TRUE]
    /\ wanted' = [wanted EXCEPT ![threadpoolno[s]] = @ \/ Len(Queue(s)) > 1]
    /\ UNCHANGED <<slots, nthreads, jobs, osthreads, leaving, busy, owes, call, history>>

\* A worker begins the first job, or its share of it; the last to begin takes it
\* off the queue.
Take(s) ==
    LET p == threadpoolno[s]
        left == Head(jobs[p]) \ {ndxinthreadpool[s]} IN
    /\ Looks(s) /\ jobs[p] # <<>> /\ ~Refuses(s)
    /\ busy' = [busy EXCEPT ![s] = TRUE]
    /\ \/ /\ left # {}
          /\ jobs' = [jobs EXCEPT ![p] = <<left>> \o Tail(@)]
          /\ UNCHANGED <<wanted, owes>>
       \/ /\ left = {}
          /\ jobs' = [jobs EXCEPT ![p] = Tail(@)]
          /\ owes' = [owes EXCEPT ![s] = wanted[p]]
          /\ wanted' = [wanted EXCEPT ![p] = FALSE]
    /\ UNCHANGED <<slots, nthreads, osthreads, leaving, asleep, call, history>>

\* Before it runs the task it gives the kick that was wanted.
GiveKick(s) ==
    /\ owes[s]
    /\ owes' = [owes EXCEPT ![s] = FALSE]
    /\ WakeAll(threadpoolno[s])
    /\ UNCHANGED <<slots, nthreads, jobs, wanted, osthreads, leaving, busy, call, history>>

\* Slip: the slot stays marked as one whose thread is to end.
Terminate_KeepBit(s) ==
    /\ leaving[s] < MaxLeaving
    /\ active' = [active EXCEPT ![s] = FALSE]
    /\ osthreads' = [osthreads EXCEPT ![s] = @ - 1]
    /\ leaving' = [leaving EXCEPT ![s] = @ + 1]
    /\ UNCHANGED terminate

\* The worker goes inactive and acknowledges the request; the slot is free.
Terminate(s) ==
    /\ leaving[s] < MaxLeaving
    /\ active' = [active EXCEPT ![s] = FALSE]
    /\ terminate' = [terminate EXCEPT ![s] = FALSE]
    /\ osthreads' = [osthreads EXCEPT ![s] = @ - 1]
    /\ leaving' = [leaving EXCEPT ![s] = @ + 1]

\* A worker that has been told to end does so when it has finished a task.
Finish(s) ==
    /\ osthreads[s] > 0 /\ busy[s] /\ ~owes[s] /\ call[s] = None
    /\ busy' = [busy EXCEPT ![s] = FALSE]
    /\ IF terminate[s] THEN Terminate(s) ELSE UNCHANGED <<active, terminate, osthreads, leaving>>
    /\ UNCHANGED <<threadpoolno, ndxinthreadpool, wthreadhwmk, nthreads, jobs, wanted,
                   owes, asleep, call, history>>

\* or when it finds the queue empty; a worker at waitforkick does not look.
Quit(s) ==
    /\ Looks(s) /\ terminate[s] /\ Queue(s) = <<>>
    /\ Terminate(s)
    /\ UNCHANGED <<threadpoolno, ndxinthreadpool, wthreadhwmk, nthreads, jobs, wanted, busy,
                   owes, asleep, call, history>>

\* With no lock the thread that has ended sends blocks home from the repato of the
\* slot, which may have its next thread, and returns.
Leave(s) ==
    /\ leaving[s] > 0
    /\ leaving' = [leaving EXCEPT ![s] = @ - 1]
    /\ UNCHANGED <<slots, nthreads, jobs, wanted, osthreads, busy, owes, asleep, call, history>>

Returns(t) == CreateLimit(t) \/ Create(t) \/ CreateFail(t) \/ DestroyNone(t) \/ Destroy(t)
Works(s) == Sleep(s) \/ WaitForKick(s) \/ Take(s) \/ GiveKick(s) \/ Finish(s) \/ Quit(s)

Next ==
    \/ \E t \in Threads :
         CallCreate(t) \/ CallDestroy(t) \/ CreateWait(t) \/ DestroyWait(t) \/ Enqueue(t) \/ Kick(t)
         \/ Returns(t)
    \/ \E s \in Workers : Works(s) \/ Leave(s)

Spec == Init /\ [][Next]_vars

\* A call polls until it can go on; the thread of a slot goes on, where it does not
\* sleep: it looks for a job or its end, and tasks come to an end; and who has ended
\* returns.
Fairness ==
    /\ \A t \in Callers : WF_vars(Returns(t))
    /\ \A s \in Workers : WF_vars(Works(s)) /\ WF_vars(Leave(s))

FairSpec == Spec /\ Fairness

-----------------------------------------------------------------------------
TypeOK ==
    /\ active \in [Workers -> BOOLEAN]
    /\ terminate \in [Workers -> BOOLEAN]
    /\ threadpoolno \in [Workers -> Pools \union {AnyPool}]
    /\ ndxinthreadpool \in [Workers -> 0 .. MaxInPool]
    /\ wthreadhwmk \in 0 .. MaxWorkers
    /\ \A p \in Pools : nthreads[p] \in 0 .. (IF refused THEN US - 1 ELSE MaxInPool)
    /\ \A p \in Pools : jobs[p] \in Seq(SUBSET (1 .. MaxInPool)) /\ Len(jobs[p]) <= MaxJobs
    /\ wanted \in [Pools -> BOOLEAN]
    /\ osthreads \in [Workers -> Nat]
    /\ leaving \in [Workers -> 0 .. MaxLeaving]
    /\ busy \in [Workers -> BOOLEAN] /\ owes \in [Workers -> BOOLEAN]
    /\ asleep \in [Workers -> BOOLEAN]
    /\ \A t \in Threads : call[t].op \in {"none", "create", "destroy"}

\* The threads of a pool have the indices 1 to n, which a job with locales gives
\* its work to: creation takes the count of the pool for the index and 55 T. the
\* last thread of the pool, so this holds as long as the threads of a pool are
\* "Always ascending in the threads, since we delete only from the end"
\* (ct.c:1098).
IndicesFill == ~refused /\ ascending => \A p \in Pools :
    LET mine == {s \in Workers : Lasting(s) /\ threadpoolno[s] = p} IN
    \A s \in mine : ndxinthreadpool[s] = Cardinality({u \in mine : u <= s})

\* "1 T. y: net number of threads created, not counting terminated &
\* inactive" (ct.c:1000): as long as the operating system has given every thread
\* it was asked for, what 1 T. counts is the number of threads that run and have
\* not been told to end, the pools' own counts add up to the same
\* and the indices are those counts.
CountIsTrue == TypeOK /\ IndicesFill /\ (~refused =>
    /\ \A s \in Workers : (s <= wthreadhwmk /\ Lasting(s)) <=> (osthreads[s] > 0 /\ ~terminate[s])
    /\ \A p \in Pools :
         nthreads[p] = Cardinality({s \in Workers :
             osthreads[s] > 0 /\ ~terminate[s] /\ threadpoolno[s] = p}))

\* "The jobq block for the threadpool we are in - never changes" (ct.c:429):
\* the pool and the index of a slot stay, and no second thread comes to its loop,
\* while a thread is there, be it at its last task or told to end and asleep, by
\* whichever callers and whatever the operating system refuses.  Only a thread that
\* has acknowledged its end, and is leaving, can meet the next one.
SlotIsOwned == [][\A s \in Workers : osthreads[s] > 0 =>
    /\ osthreads'[s] <= osthreads[s]
    /\ UNCHANGED <<threadpoolno[s], ndxinthreadpool[s]>>]_vars

\* "make sure that we don't delete the last thread in a pool that has jobs
\* pending" (ct.c:1216): a waiting job has a thread that is not to end.
JobsAreServed == ~refused => \A p \in Pools : jobs[p] # <<>> =>
    \E s \in Workers : Lasting(s) /\ osthreads[s] > 0 /\ threadpoolno[s] = p

\* A thread that was told to end, and sleeps because the first job has no share for
\* it: it does not look at TERMINATE, and is not kicked when that job leaves with
\* nothing behind it.
Deaf(s) == terminate[s] /\ asleep[s]

\* "If user deletes a thread while this job is running, we may deadlock" (ct.c:625):
\* the first job waits for an index that no thread has.
Orphaned(p) == jobs[p] # <<>> /\ \E i \in Head(jobs[p]) :
    \A s \in Workers : osthreads[s] > 0 /\ threadpoolno[s] = p => ndxinthreadpool[s] # i

\* What a call that polls may wait for in vain: creation for a deaf thread to leave
\* the slot, 55 T. for an orphaned job to leave the queue.
InVain(t) ==
    \/ call[t].op = "create" /\ FreeSlot \in Workers /\ Deaf(FreeSlot)
    \/ call[t].op = "destroy" /\ \E p \in Pools : Orphaned(p)

\* 0 T. and 55 T. come back: the thread whose slot a new one is to have ends
\* (ct.c:1076-1093) unless it is deaf, and the jobs that the last thread of a pool
\* must see taken are taken, by that thread itself (ct.c:1230), unless the first is
\* orphaned.  And a thread that is told to end does so, however many jobs come
\* (ct.c:462, 510, 571), but for the one that the first job refuses after it was told.
CallsReturn ==
    /\ \A t \in Callers : call[t] # None ~> call[t] = None \/ InVain(t)
    /\ \A s \in Workers : terminate[s] ~> ~active[s] \/ Deaf(s)
=============================================================================
