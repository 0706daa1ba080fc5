------------------------------- MODULE JobQueue -------------------------------
(***************************************************************************)
(* The job queue of one threadpool (jsrc/ct.c): worker threads that take   *)
(* the head of the queue or sleep on the pool's futex, and the threads     *)
(* that give them work:                                                    *)
(*   user      u t. v: one task, its value reported in a pyx               *)
(*   locales   u t. ('locales';mask): a share for each worker of the mask, *)
(*             bit 0 standing for the thread that queues                   *)
(*   internal  jtjobrun: tasks 0..n-1, shared out between the caller, who  *)
(*             waits for the last of them, and the workers.                *)
(* A section under JOBLOCK is one step; what happens between two of them   *)
(* (running a task, the wake after the unlock) is a step of its own.  What *)
(* creates and destroys workers is ThreadPool, the pyxes are Pyx and the   *)
(* system lock is SystemLock: here a worker is told to end, a share ends   *)
(* and tasks may not start or end while the system is suspended.           *)
(***************************************************************************)
EXTENDS Naturals, Sequences, FiniteSets

CONSTANTS
  NWorkers,    \* workers of the pool, whose index in it is 1..NWorkers
  Callers,     \* threads that queue work, which are not workers of the pool
  MaxJobs,     \* bound: calls, each with a JOB block of its own
  Sizes,       \* the numbers of tasks of internal jobs
  Masks,       \* the masks of locales jobs: sets of indices, 0 is the caller
  MaxUpsets,   \* bound: kicks (15 T.), deletions (55 T.) and suspensions
  None

ASSUME CountsAssumption == /\ NWorkers \in Nat \ {0} /\ MaxJobs \in Nat
                           /\ Sizes \subseteq Nat \ {0} /\ Sizes # {} /\ IsFiniteSet(Sizes)
                           /\ MaxUpsets \in Nat
ASSUME CallersAssumption == Callers \cap (1..NWorkers) = {} /\ None \notin Nat
\* t. refuses the empty mask and runs mask 1 without a job (ct.c 825-826)
ASSUME MasksAssumption == Masks \subseteq (SUBSET (0..NWorkers)) \ {{}, {0}}

Workers == 1..NWorkers
Indices == 0..NWorkers
Jobs == 1..MaxJobs
MaxTasks == CHOOSE n \in Sizes : \A m \in Sizes : m <= n

VARIABLES
  queue,     \* jobq->ht: the jobs from head to tail
  holder,    \* the worker that goes on to look for work with JOBLOCK held
  fresh,     \* threads whose sample of jobq->futex is still its value
  nuunfin, nthreads, waiters,  \* the counts of the JOBQ
  job,       \* the JOB blocks
  pc, at,    \* each thread's place, and its job, task and sample of job->err
  told,      \* workers with TERMINATE
  suspended, \* systemlock > 2
  kicks,     \* wakes of 15 T. and 55 T. still to be made
  left,      \* what the bound leaves of kicks, deletions and suspensions
  ran,       \* history: how often each task of each job was run
  failed,    \* history: the tasks that returned an error
  result     \* history: what jtjobrun returned

vars == <<queue, holder, fresh, nuunfin, nthreads, waiters, job, pc, at, told, suspended,
          kicks, left, ran, failed, result>>
counts == <<nuunfin, nthreads, waiters>>
world == <<told, suspended, kicks, left>>
history == <<ran, failed, result>>

Threads == Workers \cup Callers
Nowhere == [job |-> None, task |-> 0, err |-> 0]
Tasks == 0..(IF MaxTasks > NWorkers THEN MaxTasks - 1 ELSE NWorkers)

\* n is the number of tasks of an internal job; begun is ns_mask: a count, or
\* for a locales job the set of indices that may not start a share (any more);
\* refs the usecount of the block; asked says AR was set to 0: a thread wants a
\* kick when the job leaves the queue
NewJob(kind, mask, forced, n) ==
  [kind |-> kind, mask |-> mask, forced |-> forced, n |-> n,
   begun |-> CASE kind = "locales" -> {0} \cup (Indices \ mask) [] OTHER -> 1,
   nf |-> 0, err |-> 0, asked |-> FALSE,
   refs |-> IF kind = "locales" THEN Cardinality(mask \ {0}) ELSE 1]
Unused == [kind |-> "none"]
Gone == [kind |-> "gone"]

Go(p, place) == pc' = [pc EXCEPT ![p] = place]
\* the thread goes on to the place with this job and task
GoWith(p, place, a) == Go(p, place) /\ at' = [at EXCEPT ![p] = a]
J(p) == at[p].job
Unlocked(p) == holder \in {None, p}

-----------------------------------------------------------------------------
(* Taking work from the queue.  less is 1 when the thread is counted in    *)
(* waiters and 0 when it is not                                            *)

\* a job that has been started by all its threads leaves the queue: ns_mask
\* reaches n, which is 0 for a user job and all ones for a locales job
AllBegun(r, begun) ==
  CASE r.kind = "user" -> TRUE
    [] r.kind = "locales" -> begun = Indices
    [] r.kind = "internal" -> begun >= r.n

\* read the futex under the lock, then unlock and go to wait on it
Sample(w) == Go(w, "sampled") /\ fresh' = fresh \cup {w}

\* Slip: nobody asks for a kick
Refused_NoKick(w, less) ==
  LET r == job[Head(queue)] IN
  /\ r.kind = "locales" /\ w \in r.begun
  /\ UNCHANGED job
  /\ waiters' = waiters + 1 - less
  /\ Sample(w)
  /\ UNCHANGED <<queue, at>>
\* the head is a locales job in which the worker has no share to start: wait,
\* asking for a kick if another job is behind it
Refused(w, less) ==
  LET r == job[Head(queue)] IN
  /\ r.kind = "locales" /\ w \in r.begun
  /\ job' = [job EXCEPT ![Head(queue)].asked = @ \/ Len(queue) > 1]
  /\ waiters' = waiters + 1 - less
  /\ Sample(w)
  /\ UNCHANGED <<queue, at>>

\* the pyx of a worker's share: the bits of the mask below its index
PyxOf(w, mask) == Cardinality({b \in mask : b < w})

\* the worker takes the next piece of the head.  An internal job all of whose
\* tasks were started already is a block that its caller left in the queue: it
\* is dropped
Taken(w, less) ==
  LET j == Head(queue)
      r == job[j]
      begun == IF r.kind = "locales" THEN r.begun \cup {w} ELSE r.begun + 1
      a == [job |-> j, err |-> IF r.kind = "internal" THEN r.err ELSE 0,
            task |-> CASE r.kind = "internal" /\ r.begun < r.n -> r.begun
                       [] r.kind = "locales" -> PyxOf(w, r.mask)
                       [] OTHER -> 0] IN
  /\ ~(r.kind = "locales" /\ w \in r.begun)
  /\ job' = [job EXCEPT ![j].begun = begun]
  /\ queue' = IF AllBegun(r, begun) THEN Tail(queue) ELSE queue
  /\ waiters' = waiters - less
  /\ GoWith(w, CASE r.kind = "internal" /\ begun > r.n -> "drop"
                 [] r.kind = "internal" /\ begun <= r.n -> "task"
                 [] r.kind = "locales" /\ begun = Indices /\ r.asked -> "kick"
                 [] OTHER -> "share", a)
  /\ UNCHANGED fresh
TakeHead(w, less) == queue # <<>> /\ (Refused(w, less) \/ Taken(w, less))

\* the queue is empty: end if told to, otherwise wait; up is 1 when the thread
\* is yet to be counted in waiters
Rest(w, up) ==
  /\ queue = <<>>
  /\ IF w \in told
     THEN /\ Go(w, "ended") /\ told' = told \ {w}
          /\ waiters' = waiters + up - 1 /\ UNCHANGED fresh
     ELSE /\ Sample(w) /\ waiters' = waiters + up /\ UNCHANGED told
  /\ UNCHANGED <<queue, job, at>>
\* keepwarm: count as waiting, but poll the queue, unlocked, before the wait
Linger(w) ==
  /\ queue = <<>> /\ Go(w, "polling") /\ waiters' = waiters + 1
  /\ UNCHANGED <<queue, fresh, job, at, told>>
\* not in waiters.  A look that finds the queue empty is made again after a
\* garbage collection: this is the second one
Look(w) ==
  /\ pc[w] = "look" /\ Unlocked(w) /\ holder' = None
  /\ \/ TakeHead(w, 0) /\ UNCHANGED told
     \/ Rest(w, 1) \/ Linger(w)
  /\ UNCHANGED <<nuunfin, nthreads, suspended, kicks, left, history>>
\* in waiters, and awake: lingering, or out of the futex
Poll(w) ==
  /\ pc[w] = "polling" /\ Unlocked(w)
  /\ \/ TakeHead(w, 1) /\ UNCHANGED told
     \/ Rest(w, 0)
  /\ UNCHANGED <<holder, nuunfin, nthreads, suspended, kicks, left, history>>
\* jfutex_wait: sleep only if the futex still has the sampled value
FutexWait(w) ==
  /\ pc[w] = "sampled"
  /\ Go(w, IF w \in fresh THEN "asleep" ELSE "polling")
  /\ fresh' = fresh \ {w}
  /\ UNCHANGED <<queue, holder, counts, job, at, world, history>>

-----------------------------------------------------------------------------
(* Running the pieces                                                      *)

Free(j) == [job EXCEPT ![j].refs = @ - 1]
Drop(w) ==
  /\ pc[w] = "drop"
  /\ job' = Free(J(w)) /\ GoWith(w, "look", Nowhere)
  /\ UNCHANGED <<queue, holder, fresh, counts, world, history>>

\* the function of an internal job on task i, with the outcome; the first
\* error is kept in the job, and after an error tasks are only counted
Ran(j, i, fails) ==
  /\ ran' = [ran EXCEPT ![j][i] = IF @ < 2 THEN @ + 1 ELSE @]
  /\ failed' = IF fails THEN [failed EXCEPT ![j] = @ \cup {i}] ELSE failed
  /\ UNCHANGED result
\* Slip: the last error is kept, and success counts as one
ErrAfter_Last(old, i, fails) == IF fails THEN i + 1 ELSE 0
ErrAfter(old, i, fails) == IF fails /\ old = 0 THEN i + 1 ELSE old
RunTask(p) ==
  \/ /\ at[p].err = 0
     /\ \E fails \in BOOLEAN :
          /\ Ran(J(p), at[p].task, fails)
          /\ job' = [job EXCEPT ![J(p)].err = ErrAfter(@, at[p].task, fails)]
  \/ at[p].err # 0 /\ UNCHANGED <<job, history>>

Task(w) ==
  /\ pc[w] = "task"
  /\ RunTask(w) /\ Go(w, "count")
  /\ UNCHANGED <<queue, holder, fresh, counts, at, world>>
\* under the lock: the task is finished; end if told to, otherwise go on, with
\* the lock if there is work
EndOrGoOn(w) ==
  /\ IF w \in told THEN Go(w, "ended") /\ UNCHANGED holder
                  ELSE Go(w, "look") /\ holder' = IF queue = <<>> THEN None ELSE w
  /\ told' = told \ {w}
  /\ at' = [at EXCEPT ![w] = Nowhere]
CountTask(w) ==
  /\ pc[w] = "count" /\ Unlocked(w)
  /\ job' = [job EXCEPT ![J(w)].nf = @ + 1]
  /\ EndOrGoOn(w)
  /\ UNCHANGED <<queue, fresh, counts, suspended, kicks, left, history>>

\* jfutex_wakea and jfutex_wake1
WakeAll(p, place) ==
  pc' = [q \in Threads |-> IF q = p THEN place
                           ELSE IF pc[q] = "asleep" THEN "polling" ELSE pc[q]]
Asleep == {w \in Workers : pc[w] = "asleep"}
WakeOne(p, place) ==
  IF Asleep = {} THEN Go(p, place)
  ELSE \E w \in Asleep : pc' = [pc EXCEPT ![p] = place, ![w] = "polling"]
\* a user task runs, RUNNING is set, only while no suspension is on.  The thread
\* that took the last share of a locales job gives the kick that was asked for:
\* the futex is advanced under the lock, then all are woken
Kick(w) ==
  /\ pc[w] = "kick" /\ ~suspended /\ Unlocked(w)
  /\ fresh' = {} /\ Go(w, "wake")
  /\ UNCHANGED <<queue, holder, counts, job, at, world, history>>
Kicked(w) ==
  /\ pc[w] = "wake"
  /\ WakeAll(w, "share")
  /\ UNCHANGED <<queue, holder, fresh, counts, job, at, world, history>>
\* the verb is run, its pyx filled, and the block has one user less: the last
\* one frees it, and ends the job
Share(w) ==
  /\ pc[w] = "share" /\ ~suspended
  /\ Ran(J(w), at[w].task, FALSE)
  /\ job' = Free(J(w))
  /\ GoWith(w, IF job[J(w)].refs < 2 THEN "finishjob" ELSE "finish", Nowhere)
  /\ UNCHANGED <<queue, holder, fresh, counts, world>>
\* Slip: every share counts as a finished job
Unfinished_Each(w) == IF nuunfin = 0 THEN 0 ELSE nuunfin - 1
Unfinished(w) == IF pc[w] = "finishjob" THEN nuunfin - 1 ELSE nuunfin
\* RUNNING is cleared once no suspension is on, then the lock is taken
Finish(w) ==
  /\ pc[w] \in {"finish", "finishjob"} /\ ~suspended /\ Unlocked(w)
  /\ nuunfin' = Unfinished(w)
  /\ EndOrGoOn(w)
  /\ UNCHANGED <<queue, fresh, nthreads, waiters, job, suspended, kicks, left, history>>

-----------------------------------------------------------------------------
(* Queueing                                                                *)

Forced(r) == r.forced \/ r.kind = "locales"
\* more workers than unfinished jobs, whose number is immaterial if the job
\* must queue
RoomFor(r) == nthreads > IF Forced(r) THEN 0 ELSE nuunfin

\* no worker for the job: the caller frees the block and runs the verb; a
\* locales job fails instead (EVUNTIMELY)
Self(c, j, r) ==
  /\ IF r.kind = "locales" THEN UNCHANGED history ELSE Ran(j, 0, FALSE)
  /\ job' = [job EXCEPT ![j] = Gone]
  /\ GoWith(c, "idle", Nowhere)
\* a call with these options: the mask must name threads that are there, and the
\* job goes to the queue only if it looks as if a worker will take it
Call(c, r) == \E j \in Jobs :
  /\ pc[c] = "idle" /\ \A k \in Jobs : k >= j <=> job[k].kind = "none"
  /\ r.kind = "locales" => r.mask \subseteq 0..nthreads
  /\ \/ /\ r.kind = "internal" \/ (~suspended /\ RoomFor(r))
        /\ job' = [job EXCEPT ![j] = r]
        /\ GoWith(c, CASE r.kind # "internal" -> "enqueue"
                       [] ~suspended /\ nthreads # 0 /\ r.n > 1 -> "append"
                       [] OTHER -> "own", [Nowhere EXCEPT !.job = j])
        /\ UNCHANGED history
     \/ r.kind # "internal" /\ (suspended \/ ~RoomFor(r)) /\ Self(c, j, r)
  /\ UNCHANGED <<queue, holder, fresh, counts, world>>
CallUser(c) == \E forced \in BOOLEAN : Call(c, NewJob("user", {}, forced, 0))
CallLocales(c) == \E mask \in Masks : Call(c, NewJob("locales", mask, FALSE, 0))
CallInternal(c) == \E n \in Sizes : Call(c, NewJob("internal", {}, FALSE, n))

\* the job goes to the tail and the futex is advanced
AppendJob(j) == queue' = Append(queue, j) /\ fresh' = {}

\* under the lock: look again whether there is a worker for the job
Enqueue(c) ==
  LET r == job[J(c)] IN
  /\ pc[c] = "enqueue" /\ Unlocked(c)
  /\ \/ /\ RoomFor(r)
        /\ AppendJob(J(c)) /\ nuunfin' = nuunfin + 1
        /\ Go(c, IF r.kind = "locales" THEN "wakeall" ELSE "wakeone")
        /\ UNCHANGED <<job, at, history>>
     \/ ~RoomFor(r) /\ Self(c, J(c), r) /\ UNCHANGED <<queue, fresh, nuunfin>>
  /\ UNCHANGED <<holder, nthreads, waiters, world>>
\* once queued the job belongs to the workers; the caller may have a share
Wake(c) ==
  LET j == J(c)
      next == IF job[j].kind = "locales" /\ 0 \in job[j].mask THEN "ownshare"
              ELSE IF job[j].kind = "internal" THEN "own" ELSE "idle" IN
  /\ \/ pc[c] = "wakeall" /\ WakeAll(c, next)
     \/ pc[c] = "wakeone" /\ WakeOne(c, next)
  /\ at' = [at EXCEPT ![c] = IF next = "idle" THEN Nowhere ELSE @]
  /\ UNCHANGED <<queue, holder, fresh, counts, job, world, history>>
OwnShare(c) ==
  /\ pc[c] = "ownshare"
  /\ Ran(J(c), 0, FALSE)
  /\ GoWith(c, "idle", Nowhere)
  /\ UNCHANGED <<queue, holder, fresh, counts, job, world>>

-----------------------------------------------------------------------------
(* jtjobrun                                                                *)

\* queue the tasks after the first, which is the caller's; the workers need a
\* wake only if some of them wait
AppendTasks(c) ==
  /\ pc[c] = "append" /\ Unlocked(c)
  /\ AppendJob(J(c)) /\ Go(c, IF waiters # 0 THEN "wakeall" ELSE "own")
  /\ UNCHANGED <<holder, counts, job, at, world, history>>
Own(c) ==
  /\ pc[c] = "own"
  /\ RunTask(c) /\ Go(c, "next")
  /\ UNCHANGED <<queue, holder, fresh, counts, at, world>>

Queued(j) == \E i \in DOMAIN queue : queue[i] = j
\* Slip: a block left in the queue is not protected
Kept_Not(j) == job[j].refs
\* the caller took the last task of a queued job.  The job leaves the queue if
\* it is alone there; if not, it stays and is protected until a worker drops it
Kept(j) == IF job[j].begun = job[j].n - 1 /\ Queued(j) /\ queue # <<j>>
           THEN 2 ELSE job[j].refs
\* Slip: the head of the queue is taken out even if other jobs follow it
QueueAfter_Head(j) == IF job[j].begun = job[j].n - 1 /\ queue # <<>> /\ Head(queue) = j
                      THEN <<>> ELSE queue
QueueAfter(j) == IF job[j].begun = job[j].n - 1 /\ queue = <<j>> THEN <<>> ELSE queue
\* under the lock: count the task and take the next one, if there is one
NextTask(c) ==
  LET j == J(c)
      i == job[j].begun
      more == i < job[j].n IN
  /\ pc[c] = "next" /\ Unlocked(c)
  /\ job' = [job EXCEPT ![j].nf = @ + 1, ![j].refs = Kept(j),
                        ![j].begun = IF more THEN i + 1 ELSE i]
  /\ queue' = QueueAfter(j)
  /\ IF more THEN GoWith(c, "own", [job |-> j, task |-> i, err |-> job[j].err])
             ELSE GoWith(c, "spin", [Nowhere EXCEPT !.job = j])
  /\ UNCHANGED <<holder, fresh, counts, world, history>>
Returns(j) == job[j].nf >= job[j].n
Return(c) ==
  LET j == J(c) IN
  /\ pc[c] = "spin" /\ Returns(j)
  /\ result' = [result EXCEPT ![j] = job[j].err]
  /\ job' = Free(j)
  /\ GoWith(c, "idle", Nowhere)
  /\ UNCHANGED <<queue, holder, fresh, counts, world, ran, failed>>

-----------------------------------------------------------------------------
(* The rest of the system                                                  *)

\* 15 T.: advance the futex, unlock, wake all
KickPool ==
  /\ left > 0 /\ holder = None
  /\ left' = left - 1
  /\ kicks' = kicks + 1 /\ fresh' = {}
  /\ UNCHANGED <<queue, holder, counts, job, pc, at, told, suspended, history>>
\* 55 T.: tell the worker to end, unless it is the last one and there is work
Delete ==
  /\ left > 0 /\ nthreads > 0 /\ holder = None
  /\ queue = <<>> \/ nthreads > 1
  /\ \E w \in Workers :
       /\ \A v \in Workers : v >= w => (v = w <=> pc[v] # "ended" /\ v \notin told)
       /\ told' = told \cup {w}
  /\ nthreads' = nthreads - 1
  /\ left' = left - 1
  /\ kicks' = kicks + 1 /\ fresh' = {}
  /\ UNCHANGED <<queue, holder, nuunfin, waiters, job, pc, at, suspended, history>>
\* the wake that follows
WakePool ==
  /\ kicks > 0 /\ kicks' = kicks - 1
  /\ pc' = [q \in Threads |-> IF pc[q] = "asleep" THEN "polling" ELSE pc[q]]
  /\ UNCHANGED <<queue, holder, fresh, counts, job, at, told, suspended, left, history>>
Suspend ==
  /\ left > 0 /\ ~suspended
  /\ suspended' = TRUE /\ left' = left - 1
  /\ UNCHANGED <<queue, holder, fresh, counts, job, pc, at, told, kicks, history>>
Unsuspend ==
  /\ suspended /\ suspended' = FALSE
  /\ UNCHANGED <<queue, holder, fresh, counts, job, pc, at, told, kicks, left, history>>

-----------------------------------------------------------------------------
Init ==
  /\ queue = <<>> /\ holder = None /\ fresh = {}
  /\ nuunfin = 0 /\ nthreads = NWorkers /\ waiters = 0
  /\ job = [j \in Jobs |-> Unused]
  /\ pc = [p \in Threads |-> IF p \in Workers THEN "look" ELSE "idle"]
  /\ at = [p \in Threads |-> Nowhere]
  /\ told = {} /\ suspended = FALSE /\ kicks = 0
  /\ left = MaxUpsets
  /\ ran = [j \in Jobs |-> [i \in Tasks |-> 0]]
  /\ failed = [j \in Jobs |-> {}]
  /\ result = [j \in Jobs |-> None]

Worker(w) ==
  \/ Look(w) \/ Poll(w) \/ FutexWait(w)
  \/ Drop(w) \/ Task(w) \/ CountTask(w)
  \/ Kick(w) \/ Kicked(w) \/ Share(w) \/ Finish(w)
InCall(c) ==
  \/ Enqueue(c) \/ Wake(c) \/ OwnShare(c)
  \/ AppendTasks(c) \/ Own(c) \/ NextTask(c) \/ Return(c)
Next ==
  \/ \E w \in Workers : Worker(w)
  \/ \E c \in Callers : InCall(c) \/ CallUser(c) \/ CallLocales(c) \/ CallInternal(c)
  \/ KickPool \/ Delete \/ WakePool \/ Suspend \/ Unsuspend

Spec == Init /\ [][Next]_vars

-----------------------------------------------------------------------------
(* Properties                                                              *)

Waiting == {"polling", "sampled", "asleep"}
Running == {"task", "count", "kick", "wake", "share", "finish", "finishjob"}
Ended(j) == \/ job[j].kind = "gone"
            \/ job[j].kind \in {"user", "locales"} /\ job[j].refs = 0
            \/ result[j] # None

\* The variables stay in their types: usecounts and counts do not pass zero, and
\* a worker takes a task the job has, or the share of a pyx it has.
TypeOK ==
  /\ queue \in Seq(Jobs) /\ holder \in Workers \cup {None} /\ fresh \subseteq Workers
  /\ nuunfin \in 0..MaxJobs /\ nthreads \in 0..NWorkers /\ waiters \in 0..NWorkers
  /\ \A j \in Jobs :
       \/ job[j] \in {Unused, Gone}
       \/ /\ job[j].kind \in {"user", "locales", "internal"}
          /\ job[j].n \in 0..MaxTasks /\ job[j].nf \in 0..job[j].n
          /\ job[j].kind = "locales" => job[j].begun \subseteq Indices
          /\ job[j].kind # "locales" => job[j].begun \in 1..MaxTasks + 1
          /\ job[j].err \in 0..MaxTasks /\ job[j].refs \in 0..NWorkers + 1
  /\ at \in [Threads -> [job : Jobs \cup {None}, task : Tasks, err : 0..MaxTasks]]
  /\ \A w \in Workers : pc[w] \in {"look", "drop", "ended"} \cup Waiting \cup Running
  /\ \A c \in Callers : pc[c] \in {"idle", "enqueue", "append", "wakeall", "wakeone",
                                   "ownshare", "own", "next", "spin"}
  /\ \A w \in Workers : LET r == job[J(w)] IN
       /\ pc[w] = "task" => at[w].task < r.n
       /\ pc[w] \in {"kick", "wake", "share"} /\ r.kind = "locales" => at[w].task < Cardinality(r.mask)
  /\ told \subseteq Workers /\ suspended \in BOOLEAN /\ kicks \in 0..MaxUpsets

\* A JOB block is not freed while it is in the queue or while a thread has yet
\* to read it: a worker that took a piece of it, the caller of jtjobrun until it
\* returns, and the worker that finds a block whose caller has gone.  Usecounts
\* and counts do not pass zero (TypeOK).
BlocksLive ==
  /\ TypeOK
  /\ \A i \in DOMAIN queue : job[queue[i]].refs > 0
  /\ \A w \in Workers : pc[w] \in (Running \ {"finish", "finishjob"}) \cup {"drop"} => job[J(w)].refs > 0
  /\ \A c \in Callers : pc[c] \in {"own", "next", "spin", "append"} => job[J(c)].refs > 0

\* No task is run twice.  When jtjobrun returns no worker is still at one of its
\* tasks, it reports an error exactly if a task failed, and then one of those,
\* and otherwise every task was run; a locales job that ended has run the share
\* of each worker of the mask, each for the pyx of its own.
TasksOnce ==
  /\ \A j \in Jobs, i \in Tasks : ran[j][i] < 2
  /\ \A j \in Jobs : result[j] # None =>
       /\ \A w \in Workers : pc[w] \in {"task", "count"} => J(w) # j
       /\ IF result[j] = 0 THEN /\ failed[j] = {}
                                /\ \A i \in 0..job[j].n - 1 : ran[j][i] = 1
                           ELSE result[j] - 1 \in failed[j]
  /\ \A j \in Jobs : job[j].kind = "locales" /\ job[j].refs = 0 =>
       \A b \in job[j].mask \ {0} : ran[j][PyxOf(b, job[j].mask)] = 1

\* nuunfin counts the user jobs from the moment they are queued until the lock
\* that follows their end, and waiters the threads in or on their way to or from
\* a wait: the caller's choices between queueing and running, and between waking
\* and not waking, rest on them.
CountsExact ==
  /\ nuunfin =
       Cardinality({j \in Jobs : /\ job[j].kind \in {"user", "locales"} /\ job[j].refs > 0
                                 /\ ~\E c \in Callers : J(c) = j /\ pc[c] = "enqueue"})
       + Cardinality({w \in Workers : pc[w] = "finishjob"})
  /\ waiters = Cardinality({w \in Workers : pc[w] \in Waiting})

\* will look at the queue again without being woken
Looks(w) == \/ pc[w] \in {"look", "polling", "drop"}
            \/ pc[w] = "sampled" /\ w \notin fresh
            \/ pc[w] \in Running /\ w \notin told
WakeDue == \/ kicks > 0
           \/ \E p \in Threads : pc[p] \in {"wakeall", "wakeone", "kick", "wake"}
\* Work is not slept on: a worker with a share to start in the locales job at
\* the head is awake, or will be woken; so is some worker when another job is at
\* the head, if any worker is to stay.
NoLostWake ==
  queue # <<>> =>
    LET r == job[Head(queue)]
        Stays(w) == pc[w] # "ended" /\ w \notin told IN
    \/ WakeDue
    \/ IF r.kind = "locales" THEN \A w \in Workers \ r.begun : Stays(w) => Looks(w)
       ELSE (\E w \in Workers : Stays(w)) => \E w \in Workers : Looks(w)

\* a worker whose share of a queued job is still to start has ended: the
\* deadlock that the code says the user may cause by deleting it
Orphaned == \E i \in DOMAIN queue : LET r == job[queue[i]] IN
              r.kind = "locales" /\ \E w \in Workers \ r.begun : pc[w] = "ended"
\* every thread waits for another: the workers sleep or have ended, the callers
\* are out of their calls or wait for their tasks, and no wake is to come
Quiet == /\ kicks = 0 /\ ~suspended
         /\ \A w \in Workers : pc[w] \in {"asleep", "ended"}
         /\ \A c \in Callers : pc[c] = "idle" \/ (pc[c] = "spin" /\ ~Returns(J(c)))
\* Nothing waits for ever: when no thread can go on, every call that was made
\* has been carried out, whoever took its pieces, slept or was told to end,
\* unless a worker that a queued mask names ended before its share.
NobodyStuck == Quiet => \A j \in Jobs : job[j].kind = "none" \/ Ended(j) \/ Orphaned
================================================================================
