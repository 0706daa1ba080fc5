---------------------------- MODULE JobQueueProofs ----------------------------
(***************************************************************************)
(* The safety of the job queue, for any number of workers and callers, any *)
(* number of calls, any set of job sizes and masks, and any number of      *)
(* kicks and deletions: IndInv is inductive, and each invariant that the   *)
(* runs check follows from it.                                             *)
(*                                                                         *)
(* IndInv says, for each kind of block, what its fields hold in terms of   *)
(* who has what of it (JobsOK): the usecount of an internal job counts its *)
(* caller and the queue or the worker that will drop it, that of a locales *)
(* job its shares not yet run; a task that is neither open nor held before *)
(* its start has been run, once.  To keep this a thread must be where its  *)
(* job allows (WorkerAt, CallerAt) and alone at its piece (Alone).  Woken  *)
(* says why a sleeper need not look: the queue is empty, a wake of         *)
(* everybody is on its way, the head has refused it and will kick, or the  *)
(* user jobs behind the head have other threads or wakes of their own.     *)
(*                                                                         *)
(* A step moves one thread, and may wake sleepers (Frame); the proof that  *)
(* it keeps a part of IndInv first shows that it leaves the other jobs and *)
(* threads alone, then what it does at its own.                            *)
(***************************************************************************)
EXTENDS JobQueue, FiniteSetTheorems, SequenceTheorems, WellFoundedInduction, TLAPS

Kinds == {"user", "locales", "internal"}
\* The JOB blocks in use.
Blocks == [kind : Kinds, mask : SUBSET Indices, forced : BOOLEAN, n : 0..MaxTasks,
           begun : Nat \cup SUBSET Indices, nf : Nat, err : 0..MaxTasks, asked : BOOLEAN,
           refs : Nat]
\* Where a worker and a caller can be.
WorkerPlaces == {"look", "drop", "ended"} \cup Waiting \cup Running
CallerPlaces == {"idle", "enqueue", "append", "wakeall", "wakeone", "ownshare", "own", "next", "spin"}
Kind(j) == job[j].kind

\* The types, and that a caller is at no place of a worker.
Typed ==
  /\ queue \in Seq(Jobs) /\ holder \in Workers \cup {None} /\ fresh \subseteq Workers
  /\ nuunfin \in Nat /\ nthreads \in 0..NWorkers /\ waiters \in Nat
  /\ job \in [Jobs -> {Unused, Gone} \cup Blocks]
  /\ pc \in [Threads -> WorkerPlaces \cup CallerPlaces]
  /\ \A w \in Workers : pc[w] \in WorkerPlaces
  /\ \A c \in Callers : pc[c] \in CallerPlaces
  /\ at \in [Threads -> [job : Jobs \cup {None}, task : Tasks, err : 0..MaxTasks]]
  /\ told \subseteq Workers /\ suspended \in BOOLEAN /\ kicks \in Nat /\ left \in Nat
  /\ kicks + left <= MaxUpsets
  /\ ran \in [Jobs -> [Tasks -> 0..2]]
  /\ failed \in [Jobs -> SUBSET Tasks]
  /\ result \in [Jobs -> (0..MaxTasks) \cup {None}]

-----------------------------------------------------------------------------
\* Who has what of job j.
InCallOf(c, j) == pc[c] # "idle" /\ J(c) = j
Runs(w, j) == pc[w] \in {"kick", "wake", "share"} /\ J(w) = j
Drops(w, j) == pc[w] = "drop" /\ J(w) = j
Holds(p, j, i) == /\ pc[p] \in {"append", "wakeall", "own", "next", "task", "count"}
                  /\ J(p) = j /\ at[p].task = i
IsPre(p) == pc[p] \in {"append", "wakeall", "own", "task"}

\* where a thread can be
WorkerAt(w) ==
  /\ pc[w] \in {"task", "count", "drop", "kick", "wake", "share"} => J(w) \in Jobs
  /\ pc[w] \notin {"task", "count", "drop", "kick", "wake", "share"} => at[w] = Nowhere
  /\ pc[w] \in {"task", "count", "drop"} => Kind(J(w)) = "internal"
  /\ pc[w] \in {"task", "count"} => at[w].task < job[J(w)].n /\ at[w].task < job[J(w)].begun
  /\ pc[w] = "drop" => job[J(w)].begun = job[J(w)].n + 1
  /\ pc[w] \in {"kick", "wake"} => Kind(J(w)) = "locales"
  /\ pc[w] = "share" => Kind(J(w)) \in {"user", "locales"}
  /\ pc[w] = "share" /\ Kind(J(w)) = "user" => job[J(w)].begun = 2 /\ at[w].task = 0
  /\ pc[w] \in {"kick", "wake", "share"} /\ Kind(J(w)) = "locales" =>
       w \in job[J(w)].mask /\ w \in job[J(w)].begun /\ at[w].task = PyxOf(w, job[J(w)].mask)
CallerAt(c) ==
  /\ pc[c] = "idle" => at[c] = Nowhere
  /\ pc[c] # "idle" => J(c) \in Jobs
  /\ pc[c] = "enqueue" => Kind(J(c)) \in {"user", "locales"}
  /\ pc[c] = "wakeone" => Kind(J(c)) = "user"
  /\ pc[c] = "wakeall" => Kind(J(c)) \in {"locales", "internal"}
  /\ pc[c] = "ownshare" => Kind(J(c)) = "locales" /\ 0 \in job[J(c)].mask
  /\ pc[c] \in {"append", "own", "next", "spin"} => Kind(J(c)) = "internal"
  /\ pc[c] \in {"append", "own", "next", "wakeall"} /\ Kind(J(c)) = "internal" =>
       at[c].task < job[J(c)].n /\ at[c].task < job[J(c)].begun
  /\ pc[c] = "append" => job[J(c)].begun < job[J(c)].n /\ ~Queued(J(c))
  /\ pc[c] = "spin" => job[J(c)].begun >= job[J(c)].n

\* nobody else is at the same piece
Alone ==
  /\ \A c, d \in Callers : pc[c] # "idle" /\ pc[d] # "idle" /\ J(c) = J(d) => c = d
  /\ \A w, v \in Workers : pc[w] = "drop" /\ pc[v] = "drop" /\ J(w) = J(v) => w = v
  /\ \A w, v \in Workers : pc[w] = "share" /\ pc[v] = "share" /\ J(w) = J(v) /\ Kind(J(w)) = "user" => w = v
  /\ \A j \in Jobs : Kind(j) = "internal" =>
       \A p, q \in Threads : \A i \in Tasks : Holds(p, j, i) /\ Holds(q, j, i) => p = q

-----------------------------------------------------------------------------
\* Who is yet to do what of job j: its caller may have to queue it, the workers
\* of a locales job their shares; the queue or the worker that drops the block
\* is its second user; tasks are open until counted, and not run before that.
Enqueuing(j) == \E c \in Callers : pc[c] = "enqueue" /\ J(c) = j
Pending(j) == {w \in Workers : w \notin job[j].begun \/ Runs(w, j)}
Called(j) == \E c \in Callers : InCallOf(c, j)
Kept2(j) == (Queued(j) /\ job[j].begun = job[j].n) \/ \E w \in Workers : Drops(w, j)
One(b) == IF b THEN 1 ELSE 0
Open(j) == {i \in 0..job[j].n - 1 : i >= job[j].begun \/ \E p \in Threads : Holds(p, j, i)}
Pre(j, i) == i >= job[j].begun \/ \E p \in Threads : Holds(p, j, i) /\ IsPre(p)

\* What the block of job j holds, for a slot not used yet, a freed block, and
\* each kind of job.
NoneOK(j) ==
  /\ ~Queued(j) /\ ~Called(j) /\ result[j] = None /\ failed[j] = {}
  /\ \A i \in Tasks : ran[j][i] = 0
GoneOK(j) ==
  /\ ~Queued(j) /\ ~Called(j) /\ result[j] = None /\ failed[j] = {}
  /\ \A i \in Tasks : ran[j][i] < 2
UserOK(j) == LET r == job[j] IN
  /\ r.n = 0 /\ r.nf = 0 /\ r.err = 0 /\ result[j] = None /\ failed[j] = {}
  /\ r.begun \in {1, 2}
  /\ r.refs = One(r.begun = 1 \/ \E w \in Workers : Runs(w, j))
  /\ Enqueuing(j) => r.begun = 1
  /\ Queued(j) <=> r.begun = 1 /\ ~Enqueuing(j)
  /\ \A i \in Tasks : ran[j][i] = IF i = 0 /\ r.refs = 0 THEN 1 ELSE 0
LocalesOK(j) == LET r == job[j] IN
  /\ r.n = 0 /\ r.nf = 0 /\ r.err = 0 /\ result[j] = None /\ failed[j] = {}
  /\ r.mask \ {0} # {} /\ {0} \cup (Indices \ r.mask) \subseteq r.begun /\ r.begun \subseteq Indices
  /\ r.refs = Cardinality(Pending(j))
  /\ Enqueuing(j) => r.begun = {0} \cup (Indices \ r.mask)
  /\ Queued(j) <=> r.begun # Indices /\ ~Enqueuing(j)
  /\ \A w \in r.mask \ {0} : ran[j][PyxOf(w, r.mask)] = One(w \notin Pending(j))
  /\ \A i \in Tasks : (\A w \in r.mask : i # PyxOf(w, r.mask)) => ran[j][i] = 0
  /\ 0 \in r.mask => ran[j][0] = One(~Called(j))
InternalOK(j) == LET r == job[j] IN
  /\ r.n \in Sizes /\ r.begun \in 1..r.n + 1
  /\ r.refs = One(Called(j)) + One(Kept2(j))
  /\ Queued(j) => r.begun <= r.n
  /\ r.nf + Cardinality(Open(j)) = r.n
  /\ r.err = 0 <=> failed[j] = {}
  /\ r.err # 0 => r.err - 1 \in failed[j]
  /\ r.err <= r.n
  /\ \A i \in Tasks : i >= r.n => ran[j][i] = 0
  /\ \A i \in 0..r.n-1 : IF Pre(j, i) THEN ran[j][i] = 0
                         ELSE ran[j][i] < 2 /\ (r.err = 0 => ran[j][i] = 1)
  /\ Called(j) <=> result[j] = None
  /\ result[j] # None => result[j] = r.err /\ r.nf = r.n
JobOK(j) ==
  /\ Kind(j) = "none" => NoneOK(j)
  /\ Kind(j) = "gone" => GoneOK(j)
  /\ Kind(j) = "user" => UserOK(j)
  /\ Kind(j) = "locales" => LocalesOK(j)
  /\ Kind(j) = "internal" => InternalOK(j)
JobsOK == \A j \in Jobs : JobOK(j)
\* an error seen is an error of the job
Errs == \A p \in Threads : at[p].err # 0 => Kind(J(p)) = "internal" /\ job[J(p)].err # 0

\* No job is queued twice, and blocks are made in order.
QueueOK == \A i, k \in DOMAIN queue : queue[i] = queue[k] => i = k
InOrder == \A j, k \in Jobs : j <= k /\ Kind(k) # "none" => Kind(j) # "none"

-----------------------------------------------------------------------------
\* nuunfin and waiters count what they should; a worker that is to uncount a job
\* has ended one.
Ends(j) == Kind(j) \in {"user", "locales"} /\ job[j].refs = 0
Counts ==
  /\ CountsExact
  /\ Cardinality({w \in Workers : pc[w] = "finishjob"}) <= Cardinality({j \in Jobs : Ends(j)})
\* The workers that stay are the first nthreads, the lock is held by a worker at
\* the queue, and only internal jobs are queued when no worker stays.
Pool ==
  /\ {w \in Workers : pc[w] # "ended" /\ w \notin told} = 1..nthreads
  /\ \A w \in told : pc[w] # "ended"
  /\ holder # None => pc[holder] = "look"
  /\ (\E j \in Jobs : Queued(j) /\ Kind(j) # "internal") => nthreads > 0

-----------------------------------------------------------------------------
\* Workers that were not told to end.
Stays(w) == pc[w] # "ended" /\ w \notin told
\* Every worker will be woken.
AllDue == kicks > 0 \/ \E p \in Threads : pc[p] \in {"wakeall", "kick", "wake"}
KickDue == \E w \in Workers : pc[w] = "kick"
\* w was refused by the head, which will give a kick if another job follows it
RefusedBy(w) == LET r == job[Head(queue)] IN
  /\ queue # <<>> /\ r.kind = "locales" /\ w \in r.begun
  /\ Len(queue) = 1 \/ r.asked
\* The head has nothing for w, or no more.
HeadBars(w) == LET r == job[Head(queue)] IN r.kind = "locales" /\ w \in r.begun
\* User jobs in the queue, and wakes of one worker on their way.
UsersQueued == {j \in Jobs : Queued(j) /\ Kind(j) = "user"}
WakesDue == {j \in Jobs : \E c \in Callers : pc[c] = "wakeone" /\ J(c) = j}
\* Workers told to end that will yet take a job behind the head
Comes(w) == pc[w] \in {"look", "polling", "drop"} \/ (pc[w] = "sampled" /\ w \notin fresh)
ToldLooks == {w \in told : /\ Comes(w)
                           /\ Kind(Head(queue)) = "locales" => w \in job[Head(queue)].begun}
\* A sleeper may sleep on: all that is queued are user jobs, behind a head that
\* refuses it at most, and some worker that stays looks at them, or there are
\* no more of them than workers and wakes on their way to them.
Enough(w) ==
  /\ \A i \in DOMAIN queue : Kind(queue[i]) = "user" \/ (i = 1 /\ HeadBars(w))
  /\ \/ \E v \in Workers : Stays(v) /\ Looks(v)
     \/ Cardinality(UsersQueued) <= Cardinality(ToldLooks) + Cardinality(WakesDue)
\* Nobody sleeps on work that is for him.
Woken ==
  /\ \A w \in fresh : pc[w] = "sampled" /\ (queue = <<>> \/ KickDue \/ RefusedBy(w))
  /\ \A w \in Workers : pc[w] = "asleep" => queue = <<>> \/ AllDue \/ RefusedBy(w) \/ Enough(w)

\* The inductive invariant.
IndInv == Typed /\ (\A w \in Workers : WorkerAt(w)) /\ (\A c \in Callers : CallerAt(c))
          /\ Alone /\ JobsOK /\ Errs /\ QueueOK /\ InOrder /\ Counts /\ Pool /\ Woken

-----------------------------------------------------------------------------
\* The constants, the sequence and the records.

\* A finite set of numbers has a largest one.
LEMMA Largest ==
    ASSUME NEW S, S \subseteq Nat, S # {}, IsFiniteSet(S)
    PROVE  \E n \in S : \A m \in S : m <= n
<1> DEFINE Bad == {T \in FiniteSubsetsOf(S) : T # {} /\ ~\E n \in T : \A m \in T : m <= n}
<1>1. SUFFICES Bad = {}
  BY DEF FiniteSubsetsOf
<1>2. SUFFICES ASSUME Bad # {} PROVE FALSE
  OBVIOUS
<1>3. PICK T \in Bad : \A U \in Bad : <<U, T>> \notin StrictSubsetOrdering(S)
  BY <1>2, FS_StrictSubsetOrderingWellFounded, WFMin
<1>4. PICK x \in T : TRUE
  OBVIOUS
<1>5. T \subseteq S /\ IsFiniteSet(T)
  BY DEF FiniteSubsetsOf
<1>6. T \ {x} \in FiniteSubsetsOf(S)
  BY <1>5, FS_RemoveElement DEF FiniteSubsetsOf
<1>7. <<T \ {x}, T>> \in StrictSubsetOrdering(S)
  BY <1>4, <1>5 DEF StrictSubsetOrdering
<1>8. T \ {x} \notin Bad
  BY <1>3, <1>7
<1>9. CASE T \ {x} = {}
  BY <1>4, <1>5, <1>9
<1>10. CASE T \ {x} # {}
  <2>1. PICK n \in T \ {x} : \A m \in T \ {x} : m <= n
    BY <1>6, <1>8, <1>10
  <2>2. CASE x <= n
    BY <2>1, <2>2
  <2>3. CASE ~(x <= n)
    BY <1>4, <1>5, <2>1, <2>3
  <2> QED BY <2>2, <2>3
<1> QED BY <1>9, <1>10

\* The constants.
LEMMA Constants ==
    /\ NWorkers \in Nat \ {0} /\ MaxJobs \in Nat /\ MaxUpsets \in Nat
    /\ Sizes \subseteq Nat \ {0}
    /\ MaxTasks \in Sizes /\ \A n \in Sizes : n <= MaxTasks
    /\ MaxTasks \in Nat \ {0}
    /\ Callers \cap Workers = {} /\ None \notin Nat /\ None \notin Jobs /\ None \notin Workers
    /\ Indices \subseteq Tasks /\ \A n \in Sizes : 0..n-1 \subseteq Tasks
    /\ 0 \in Tasks /\ Tasks \subseteq Nat
    /\ IsFiniteSet(Workers) /\ IsFiniteSet(Jobs) /\ IsFiniteSet(Indices)
    /\ Cardinality(Workers) = NWorkers /\ Cardinality(Jobs) = MaxJobs
<1>1. NWorkers \in Nat \ {0} /\ MaxJobs \in Nat /\ MaxUpsets \in Nat /\ Sizes \subseteq Nat \ {0}
  BY CountsAssumption
<1>2. \E n \in Sizes : \A m \in Sizes : m <= n
  BY CountsAssumption, Largest
<1>3. MaxTasks \in Sizes /\ \A n \in Sizes : n <= MaxTasks
  BY <1>2 DEF MaxTasks
<1>4. MaxTasks \in Nat \ {0}
  BY <1>1, <1>3
<1>5. Callers \cap Workers = {} /\ None \notin Nat /\ None \notin Jobs /\ None \notin Workers
  BY <1>1, CallersAssumption DEF Workers, Jobs
<1>6. Indices \subseteq Tasks /\ \A n \in Sizes : 0..n-1 \subseteq Tasks
  BY <1>1, <1>3, <1>4 DEF Indices, Tasks
<1>7. 0 \in Tasks /\ Tasks \subseteq Nat
  BY <1>1, <1>3, <1>4 DEF Tasks
<1>8. /\ IsFiniteSet(Workers) /\ IsFiniteSet(Jobs) /\ IsFiniteSet(Indices)
      /\ Cardinality(Workers) = NWorkers /\ Cardinality(Jobs) = MaxJobs
  BY <1>1, FS_Interval DEF Workers, Jobs, Indices
<1> QED BY <1>1, <1>3, <1>4, <1>5, <1>6, <1>7, <1>8

\* The pyx of each share.
LEMMA PyxOfShare ==
    ASSUME NEW mask \in SUBSET Indices
    PROVE  /\ \A w \in Indices : PyxOf(w, mask) \in Tasks
           /\ \A w \in mask : PyxOf(w, mask) < Cardinality(mask)
           /\ \A v, w \in mask : PyxOf(v, mask) = PyxOf(w, mask) => v = w
           /\ PyxOf(0, mask) = 0
<1> DEFINE Below(w) == {b \in mask : b < w}
<1>0. /\ NWorkers \in Nat /\ \A b \in mask : b \in Nat /\ b <= NWorkers
      /\ \A b \in Nat : b <= NWorkers => b \in Indices
      /\ \A b \in Indices : b \in Nat
  BY Constants DEF Indices
<1>1. IsFiniteSet(mask) /\ Cardinality(mask) \in Nat
  BY Constants, FS_Subset, FS_CardinalityType
<1>2. \A w \in Indices : IsFiniteSet(Below(w)) /\ Cardinality(Below(w)) \in Nat
  BY <1>1, FS_Subset, FS_CardinalityType
<1>3. ASSUME NEW w \in Indices PROVE PyxOf(w, mask) \in Tasks
  <2>1. w \in Nat /\ w <= NWorkers
    BY Constants DEF Indices
  <2>2. IsFiniteSet(0..w-1) /\ Cardinality(0..w-1) = w
    BY <2>1, FS_Interval
  <2>3. \A b \in mask : b < w => b \in 0..w-1
    BY <1>0, <2>1
  <2>5. Below(w) \in SUBSET (0..w-1)
    BY <2>3
  <2>4. Cardinality(Below(w)) <= w
    BY <2>2, <2>5, FS_Subset
  <2>6. Cardinality(Below(w)) \in Indices
    BY <1>0, <1>2, <2>1, <2>4
  <2> QED BY <2>6, Constants DEF PyxOf
<1>4. ASSUME NEW w \in mask PROVE PyxOf(w, mask) < Cardinality(mask)
  <2>1. Below(w) \in SUBSET mask /\ Below(w) # mask
    BY <1>0
  <2>2. Cardinality(Below(w)) <= Cardinality(mask) /\ Cardinality(Below(w)) # Cardinality(mask)
    BY <1>1, <2>1, FS_Subset
  <2> QED BY <1>1, <1>2, <2>2 DEF PyxOf
<1>5. ASSUME NEW v \in mask, NEW w \in mask, v < w PROVE PyxOf(v, mask) # PyxOf(w, mask)
  <2>1. Below(v) \in SUBSET Below(w) /\ v \in Below(w) /\ v \notin Below(v)
    BY <1>0, <1>5
  <2>2. Cardinality(Below(v)) # Cardinality(Below(w))
    BY <1>2, <2>1, FS_Subset
  <2> QED BY <2>2 DEF PyxOf
<1>6. \A v, w \in mask : v = w \/ v < w \/ w < v
  BY <1>0
<1>7. PyxOf(0, mask) = 0
  <2>1. Below(0) = {}
    BY <1>0
  <2> QED BY <2>1, FS_EmptySet DEF PyxOf
<1> QED BY <1>3, <1>4, <1>5, <1>6, <1>7

\* What is in a queue without duplicates, after its changes.
LEMMA QueueAppend ==
    ASSUME NEW q \in Seq(Jobs), NEW k \in Jobs
    PROVE  /\ Append(q, k) \in Seq(Jobs) /\ Append(q, k) # <<>>
           /\ Len(Append(q, k)) = Len(q) + 1
           /\ DOMAIN Append(q, k) = 1..Len(q) + 1
           /\ \A i \in DOMAIN q : i \in 1..Len(q) + 1 /\ Append(q, k)[i] = q[i]
           /\ Append(q, k)[Len(q) + 1] = k
           /\ Head(Append(q, k)) = IF q = <<>> THEN k ELSE Head(q)
BY AppendProperties, HeadTailAppend, LenProperties

\* What is left of a queue when its head is taken.
LEMMA QueueTail ==
    ASSUME NEW q \in Seq(Jobs), q # <<>>
    PROVE  /\ Head(q) \in Jobs /\ Head(q) = q[1] /\ 1 \in DOMAIN q
           /\ Tail(q) \in Seq(Jobs) /\ Len(Tail(q)) = Len(q) - 1 /\ Len(q) \in Nat \ {0}
           /\ DOMAIN Tail(q) = 1..Len(q) - 1 /\ DOMAIN q = 1..Len(q)
           /\ \A i \in DOMAIN Tail(q) : i + 1 \in DOMAIN q /\ Tail(q)[i] = q[i + 1]
           /\ Tail(q) # <<>> => Head(Tail(q)) = q[2] /\ 2 \in DOMAIN q
<1>1. /\ Head(q) \in Jobs /\ Tail(q) \in Seq(Jobs) /\ Len(Tail(q)) = Len(q) - 1
      /\ \A i \in 1..Len(Tail(q)) : Tail(q)[i] = q[i + 1]
  BY HeadTailProperties
<1>2. Len(q) \in Nat \ {0} /\ DOMAIN q = 1..Len(q) /\ DOMAIN Tail(q) = 1..Len(Tail(q))
  BY <1>1, EmptySeq, LenProperties
<1>3. Head(q) = q[1]
  OBVIOUS
<1>4. ASSUME Tail(q) # <<>> PROVE Head(Tail(q)) = q[2] /\ 2 \in DOMAIN q
  <2>1. Len(Tail(q)) \in Nat \ {0}
    BY <1>1, <1>4, EmptySeq
  <2>2. Head(Tail(q)) = Tail(q)[1]
    BY <1>1, <1>4
  <2> QED BY <1>1, <1>2, <2>1, <2>2
<1> QED BY <1>1, <1>2, <1>3, <1>4

\* A block keeps its other fields when one is stored into.
LEMMA StoreBlock ==
    ASSUME NEW r \in Blocks
    PROVE  /\ \A x \in Nat : [r EXCEPT !.refs = x] \in Blocks
           /\ \A x \in Nat : [r EXCEPT !.nf = x] \in Blocks
           /\ \A x \in 0..MaxTasks : [r EXCEPT !.err = x] \in Blocks
           /\ \A x \in BOOLEAN : [r EXCEPT !.asked = x] \in Blocks
           /\ \A x \in Nat \cup SUBSET Indices : [r EXCEPT !.begun = x] \in Blocks
           /\ r \notin {Unused, Gone}
           /\ r.kind \in Kinds
BY DEF Blocks, Unused, Gone, Kinds

-----------------------------------------------------------------------------
\* What a step leaves alone.  A step moves one thread, and may wake sleepers.
Frame(p) ==
  \A q \in Threads \ {p} :
    at'[q] = at[q] /\ (pc'[q] = pc[q] \/ (pc[q] = "asleep" /\ pc'[q] = "polling"))
\* A step at job j leaves the others.
OnlyJob(j) ==
  \A k \in Jobs \ {j} : /\ job'[k] = job[k] /\ ran'[k] = ran[k] /\ failed'[k] = failed[k]
                        /\ result'[k] = result[k] /\ Queued(k)' = Queued(k)
\* Job j is left with its block, its history and its place in the queue.
SameBlock(j) ==
  /\ Kind(j)' = Kind(j)
  /\ Kind(j) \in Kinds =>
       /\ job'[j].n = job[j].n /\ job'[j].nf = job[j].nf /\ job'[j].err = job[j].err
       /\ job'[j].refs = job[j].refs /\ job'[j].begun = job[j].begun
       /\ job'[j].mask = job[j].mask
\* The same threads are at job j as before.
SameThreads(j) ==
  /\ \A w \in Workers : Runs(w, j)' = Runs(w, j) /\ Drops(w, j)' = Drops(w, j)
  /\ \A c \in Callers : /\ InCallOf(c, j)' = InCallOf(c, j)
                        /\ (pc[c] = "enqueue" /\ J(c) = j)' = (pc[c] = "enqueue" /\ J(c) = j)
  /\ \A q \in Threads, i \in Tasks :
       /\ Holds(q, j, i)' = Holds(q, j, i)
       /\ (Holds(q, j, i) /\ IsPre(q))' = (Holds(q, j, i) /\ IsPre(q))

\* A thread that comes from and goes to other jobs leaves who is at job k.
LEMMA Elsewhere ==
    ASSUME Typed, NEW p \in Threads, Frame(p), NEW k \in Jobs, J(p) # k, J(p)' # k
    PROVE  SameThreads(k)
<1>1. Workers \subseteq Threads /\ Callers \subseteq Threads
  BY DEF Threads
<1>2. ASSUME NEW q \in Threads PROVE
        \/ J(q) # k /\ J(q)' # k
        \/ J(q)' = J(q) /\ at'[q] = at[q] /\ pc'[q] = pc[q]
        \/ J(q)' = J(q) /\ at'[q] = at[q] /\ pc[q] = "asleep" /\ pc'[q] = "polling" /\ q \notin Callers
  BY DEF Frame, J, Typed, CallerPlaces
<1>3. \A w \in Workers : Runs(w, k)' = Runs(w, k) /\ Drops(w, k)' = Drops(w, k)
  BY <1>1, <1>2 DEF Runs, Drops, J
<1>4. \A c \in Callers : /\ InCallOf(c, k)' = InCallOf(c, k)
                        /\ (pc[c] = "enqueue" /\ J(c) = k)' = (pc[c] = "enqueue" /\ J(c) = k)
  BY <1>1, <1>2 DEF InCallOf, J
<1>5. \A q \in Threads, i \in Tasks :
       /\ Holds(q, k, i)' = Holds(q, k, i)
       /\ (Holds(q, k, i) /\ IsPre(q))' = (Holds(q, k, i) /\ IsPre(q))
  BY <1>1, <1>2 DEF Holds, IsPre, J
<1> QED BY <1>3, <1>4, <1>5 DEF SameThreads

\* A job stays in order when a step changes neither it nor who is at it.
LEMMA SameJob ==
    ASSUME NEW j \in Jobs, JobOK(j), Kind(j) \in Kinds \cup {"none", "gone"}, SameBlock(j), SameThreads(j),
           ran'[j] = ran[j], failed'[j] = failed[j], result'[j] = result[j], Queued(j)' = Queued(j)
    PROVE  JobOK(j)'
<1>1. Enqueuing(j)' = Enqueuing(j) /\ Called(j)' = Called(j)
  BY DEF SameThreads, Enqueuing, Called
<1>2. (\E w \in Workers : Runs(w, j))' = \E w \in Workers : Runs(w, j)
  BY DEF SameThreads
<1>3. Kind(j) \in Kinds => Pending(j)' = Pending(j) /\ Kept2(j)' = Kept2(j)
  BY DEF SameThreads, SameBlock, Pending, Kept2
<1>4. Kind(j) = "internal" => job[j].n \in Sizes
  BY DEF JobOK, InternalOK
<1>5. ASSUME Kind(j) = "internal" PROVE Open(j)' = Open(j) /\ \A i \in 0..job[j].n-1 : Pre(j, i)' = Pre(j, i)
  <2>1. \A i \in 0..job[j].n-1 : i \in Tasks
    BY <1>4, <1>5, Constants
  <2>2. job'[j].n = job[j].n /\ job'[j].begun = job[j].begun
    BY <1>5 DEF SameBlock, Kinds
  <2>3. \A i \in 0..job[j].n-1 : (\E q \in Threads : Holds(q, j, i))' = \E q \in Threads : Holds(q, j, i)
    BY <2>1 DEF SameThreads
  <2>4. \A i \in 0..job[j].n-1 : (\E q \in Threads : Holds(q, j, i) /\ IsPre(q))' = \E q \in Threads : Holds(q, j, i) /\ IsPre(q)
    BY <2>1 DEF SameThreads
  <2> QED BY <2>2, <2>3, <2>4 DEF Open, Pre
<1>6. CASE Kind(j) \in {"none", "gone"}
  BY <1>1, <1>6 DEF JobOK, NoneOK, GoneOK, SameBlock
<1>7. CASE Kind(j) = "user"
  BY <1>1, <1>2, <1>7 DEF JobOK, UserOK, SameBlock, Kinds
<1>8. CASE Kind(j) = "locales"
  BY <1>1, <1>3, <1>8 DEF JobOK, LocalesOK, SameBlock, Kinds, PyxOf
<1>9. CASE Kind(j) = "internal"
  <2>1. Kind(j)' = "internal" /\ SameBlock(j) /\ Kept2(j)' = Kept2(j)
    BY <1>3, <1>9 DEF SameBlock, Kinds
  <2> QED BY <1>1, <1>5, <1>9, <2>1 DEF JobOK, InternalOK, SameBlock, Kinds
<1> QED BY <1>6, <1>7, <1>8, <1>9 DEF Kinds

\* The kind of a job tells what its record is.
LEMMA KindOf ==
    ASSUME Typed, NEW j \in Jobs
    PROVE  /\ Kind(j) \in Kinds \cup {"none", "gone"}
           /\ Kind(j) \in Kinds => job[j] \in Blocks
           /\ Kind(j) = "none" => job[j] = Unused
           /\ Kind(j) = "gone" => job[j] = Gone
<1>1. job[j] \in {Unused, Gone} \cup Blocks
  BY DEF Typed
<1> QED BY <1>1, StoreBlock DEF Kind, Unused, Gone, Kinds

\* A step of a thread at job j leaves the other jobs in order.
LEMMA OtherJobs ==
    ASSUME Typed, JobsOK, NEW p \in Threads, Frame(p), NEW j, OnlyJob(j),
           J(p) \in {j, None}, J(p)' \in {j, None}
    PROVE  \A k \in Jobs \ {j} : JobOK(k)'
<1> TAKE k \in Jobs \ {j}
<1>1. SameThreads(k)
  BY Elsewhere, Constants
<1>2. SameBlock(k)
  BY DEF OnlyJob, SameBlock, Kind
<1> QED BY <1>1, <1>2, SameJob, KindOf DEF OnlyJob, JobsOK

\* Sizes of sets of workers, jobs and tasks that gain or lose a member.
LEMMA Sized ==
    ASSUME NEW S, IsFiniteSet(S)
    PROVE  /\ Cardinality(S) \in Nat
           /\ \A x \in S : Cardinality(S) > 0 /\ Cardinality(S \ {x}) = Cardinality(S) - 1
           /\ \A x : x \notin S => Cardinality(S \cup {x}) = Cardinality(S) + 1
           /\ \A T \in SUBSET S : IsFiniteSet(T) /\ Cardinality(T) <= Cardinality(S)
           /\ Cardinality(S) = 0 <=> S = {}
<1>1. Cardinality(S) \in Nat /\ (Cardinality(S) = 0 <=> S = {})
  BY FS_CardinalityType, FS_EmptySet
<1>2. \A x \in S : Cardinality(S \ {x}) = Cardinality(S) - 1
  BY FS_RemoveElement
<1>3. \A x \in S : Cardinality(S) > 0
  BY <1>1
<1>4. \A x : x \notin S => Cardinality(S \cup {x}) = Cardinality(S) + 1
  BY FS_AddElement
<1>5. \A T \in SUBSET S : IsFiniteSet(T) /\ Cardinality(T) <= Cardinality(S)
  BY FS_Subset
<1> QED BY <1>1, <1>2, <1>3, <1>4, <1>5

\* The sets that the invariant counts are finite.
LEMMA Finite ==
    /\ \A S \in SUBSET Workers : IsFiniteSet(S)
    /\ \A S \in SUBSET Jobs : IsFiniteSet(S)
    /\ \A j : IsFiniteSet(Pending(j))
    /\ \A j : job[j].n \in Nat => IsFiniteSet(Open(j))
<1>1. (\A S \in SUBSET Workers : IsFiniteSet(S)) /\ (\A S \in SUBSET Jobs : IsFiniteSet(S))
  BY Constants, FS_Subset
<1>2. \A j : Pending(j) \in SUBSET Workers
  BY DEF Pending
<1>3. ASSUME NEW j, job[j].n \in Nat PROVE IsFiniteSet(Open(j))
  <2>1. IsFiniteSet(0..job[j].n - 1)
    BY <1>3, FS_Interval
  <2>2. Open(j) \in SUBSET (0..job[j].n - 1)
    BY DEF Open
  <2> QED BY <2>1, <2>2, FS_Subset
<1> QED BY <1>1, <1>2, <1>3

\* A job in the queue, or that a thread is at, is one whose block is in use.
LEMMA InUse ==
    ASSUME IndInv
    PROVE  /\ \A j \in Jobs : Queued(j) => Kind(j) \in Kinds /\ job[j].refs > 0
           /\ \A w \in Workers : pc[w] \in {"task", "count"} =>
                J(w) \in Jobs /\ Kind(J(w)) = "internal" /\ Called(J(w)) /\ job[J(w)].refs > 0
                /\ at[w].task \in Open(J(w))
           /\ \A w \in Workers : pc[w] \in {"drop", "kick", "wake", "share"} =>
                J(w) \in Jobs /\ Kind(J(w)) \in Kinds /\ job[J(w)].refs > 0
           /\ \A c \in Callers : pc[c] \in {"append", "own", "next", "spin"} =>
                J(c) \in Jobs /\ Kind(J(c)) = "internal" /\ job[J(c)].refs > 0
                /\ (pc[c] # "spin" => at[c].task \in Open(J(c)))
<1> USE DEF IndInv
<1>0. /\ Workers \subseteq Threads /\ Callers \subseteq Threads
      /\ \A j \in Jobs : JobOK(j)
      /\ \A p \in Threads : at[p].task \in Tasks /\ at[p].task \in Nat
  BY Constants DEF Threads, JobsOK, Typed
<1>1. ASSUME NEW j \in Jobs, Queued(j) PROVE Kind(j) \in Kinds /\ job[j].refs > 0
  <2>1. JobOK(j)
    BY <1>0
  <2>2. Kind(j) \in Kinds
    BY <1>1, <2>1, KindOf DEF JobOK, NoneOK, GoneOK
  <2>3. CASE Kind(j) = "user"
    BY <1>1, <2>1, <2>2, <2>3 DEF JobOK, UserOK, One
  <2>4. CASE Kind(j) = "locales"
    <3>1. job[j].begun # Indices /\ {0} \cup (Indices \ job[j].mask) \subseteq job[j].begun /\ job[j].begun \subseteq Indices
      BY <1>1, <2>1, <2>4 DEF JobOK, LocalesOK
    <3>2. PICK w \in Indices : w \notin job[j].begun
      BY <3>1
    <3>3. w \in Workers
      BY <3>1, <3>2, Constants DEF Indices, Workers
    <3>4. w \in Pending(j)
      BY <3>2, <3>3 DEF Pending
    <3>5. Cardinality(Pending(j)) > 0
      BY <3>4, Finite, Sized
    <3> QED BY <2>1, <2>2, <2>4, <3>5 DEF JobOK, LocalesOK
  <2>5. CASE Kind(j) = "internal"
    <3>1. InternalOK(j)
      BY <2>1, <2>5 DEF JobOK
    <3>2. job[j].n \in Nat \ {0}
      BY <3>1, Constants DEF InternalOK
    <3>3. job[j].begun <= job[j].n /\ job[j].begun \in Nat
      BY <1>1, <3>1, <3>2 DEF InternalOK
    <3>4. CASE job[j].begun = job[j].n
      BY <1>1, <2>2, <3>1, <3>4 DEF InternalOK, Kept2, One
    <3>5. CASE job[j].begun < job[j].n
      <4>1. job[j].begun \in Open(j)
        BY <3>2, <3>3, <3>5 DEF Open
      <4>2. Cardinality(Open(j)) > 0 /\ Cardinality(Open(j)) \in Nat
        BY <3>2, <4>1, Finite, Sized
      <4>3. job[j].nf # job[j].n
        BY <3>1, <3>2, <4>2, KindOf, <2>2 DEF InternalOK, Blocks
      <4>4. Called(j)
        BY <3>1, <4>3 DEF InternalOK
      <4> QED BY <2>2, <3>1, <4>4 DEF InternalOK, One
    <3> QED BY <2>2, <3>2, <3>3, <3>4, <3>5
  <2> QED BY <2>2, <2>3, <2>4, <2>5 DEF Kinds
<1>2. ASSUME NEW p \in Threads, NEW j \in Jobs, Kind(j) = "internal", Holds(p, j, at[p].task), at[p].task < job[j].n
      PROVE  at[p].task \in Open(j) /\ Called(j) /\ job[j].refs > 0
  <2>1. InternalOK(j)
    BY <1>0, <1>2 DEF JobOK
  <2>2. job[j].n \in Nat \ {0} /\ job[j].nf \in Nat
    BY <1>2, <2>1, Constants, KindOf DEF InternalOK, Blocks, Kinds
  <2>3. at[p].task \in Open(j)
    BY <1>0, <1>2, <2>2 DEF Open
  <2>4. Cardinality(Open(j)) > 0 /\ Cardinality(Open(j)) \in Nat
    BY <2>2, <2>3, Finite, Sized
  <2>5. Called(j)
    BY <2>1, <2>2, <2>4 DEF InternalOK
  <2> QED BY <2>1, <2>3, <2>5 DEF InternalOK, One
<1>3. ASSUME NEW w \in Workers, pc[w] \in {"task", "count"}
      PROVE  J(w) \in Jobs /\ Kind(J(w)) = "internal" /\ Called(J(w)) /\ job[J(w)].refs > 0 /\ at[w].task \in Open(J(w))
  <2>1. WorkerAt(w)
    OBVIOUS
  <2>2. J(w) \in Jobs /\ Kind(J(w)) = "internal" /\ at[w].task < job[J(w)].n
    BY <1>3, <2>1 DEF WorkerAt
  <2>3. Holds(w, J(w), at[w].task)
    BY <1>3 DEF Holds
  <2> QED BY <1>0, <1>2, <2>2, <2>3
<1>4. ASSUME NEW w \in Workers, pc[w] \in {"drop", "kick", "wake", "share"}
      PROVE  J(w) \in Jobs /\ Kind(J(w)) \in Kinds /\ job[J(w)].refs > 0
  <2>0. WorkerAt(w)
    OBVIOUS
  <2>1. J(w) \in Jobs /\ Kind(J(w)) \in Kinds
    BY <1>4, <2>0 DEF WorkerAt, Kinds
  <2>2. JobOK(J(w))
    BY <1>0, <2>1
  <2>3. CASE pc[w] = "drop"
    <3>1. Kind(J(w)) = "internal" /\ Kept2(J(w))
      BY <2>0, <2>3 DEF WorkerAt, Kept2, Drops
    <3> QED BY <2>1, <2>2, <3>1 DEF JobOK, InternalOK, One
  <2>4. CASE pc[w] # "drop" /\ Kind(J(w)) = "user"
    BY <1>4, <2>1, <2>2, <2>4 DEF JobOK, UserOK, One, Runs
  <2>5. CASE pc[w] # "drop" /\ Kind(J(w)) = "locales"
    <3>1. w \in Pending(J(w))
      BY <1>4, <2>5 DEF Pending, Runs
    <3>2. Cardinality(Pending(J(w))) > 0
      BY <3>1, Finite, Sized
    <3> QED BY <2>1, <2>2, <2>5, <3>2 DEF JobOK, LocalesOK
  <2> QED BY <1>4, <2>0, <2>1, <2>3, <2>4, <2>5 DEF WorkerAt
<1>5. ASSUME NEW c \in Callers, pc[c] \in {"append", "own", "next", "spin"}
      PROVE  /\ J(c) \in Jobs /\ Kind(J(c)) = "internal" /\ job[J(c)].refs > 0
             /\ pc[c] # "spin" => at[c].task \in Open(J(c))
  <2>0. CallerAt(c)
    OBVIOUS
  <2>1. J(c) \in Jobs /\ Kind(J(c)) = "internal"
    BY <1>5, <2>0 DEF CallerAt
  <2>2. Called(J(c))
    BY <1>5 DEF Called, InCallOf
  <2>3. job[J(c)].refs > 0
    BY <1>0, <2>1, <2>2 DEF JobOK, InternalOK, One
  <2>4. ASSUME pc[c] # "spin" PROVE at[c].task \in Open(J(c))
    <3>1. at[c].task < job[J(c)].n /\ Holds(c, J(c), at[c].task)
      BY <1>5, <2>0, <2>1, <2>4 DEF CallerAt, Holds
    <3> QED BY <1>0, <1>2, <2>1, <3>1
  <2> QED BY <2>1, <2>3, <2>4
<1> QED BY <1>1, <1>3, <1>4, <1>5

-----------------------------------------------------------------------------
\* Steps that touch no job: only the places of threads that are at no piece of
\* a job change, or a worker goes through the kick that is asked of it.
Loose == {"look", "polling", "sampled", "asleep", "finish", "finishjob", "ended"}
Moves(q) == \/ pc'[q] = pc[q]
            \/ q \in Workers /\ pc[q] \in Loose /\ pc'[q] \in Loose
            \/ q \in Workers /\ pc[q] \in {"kick", "wake"} /\ pc'[q] \in {"wake", "share"}
Calm == /\ \A j \in Jobs : SameBlock(j)
        /\ UNCHANGED <<queue, at, history>>
        /\ \A q \in Threads : Moves(q)

\* A step that touches no job leaves them all in order.
LEMMA CalmJobs ==
    ASSUME IndInv, Calm
    PROVE  JobsOK' /\ Errs' /\ QueueOK' /\ InOrder' /\ \A j \in Jobs : SameThreads(j)
<1> USE DEF IndInv
<1>0. /\ queue' = queue /\ at' = at /\ ran' = ran /\ failed' = failed /\ result' = result
      /\ Workers \subseteq Threads /\ Callers \subseteq Threads /\ Callers \cap Workers = {}
      /\ \A j \in Jobs : SameBlock(j)
  BY Constants DEF Calm, history, Threads
<1>1. ASSUME NEW q \in Threads PROVE
        \/ pc'[q] = pc[q]
        \/ q \notin Callers /\ pc[q] \in Loose /\ pc'[q] \in Loose
        \/ q \notin Callers /\ pc[q] \in {"kick", "wake"} /\ pc'[q] \in {"wake", "share"}
  BY <1>0 DEF Calm, Moves
<1>2. ASSUME NEW j \in Jobs PROVE SameThreads(j)
  <2>1. \A w \in Workers : Runs(w, j)' = Runs(w, j) /\ Drops(w, j)' = Drops(w, j)
    BY <1>0, <1>1 DEF Runs, Drops, J, Loose
  <2>2. \A c \in Callers : /\ InCallOf(c, j)' = InCallOf(c, j)
                           /\ (pc[c] = "enqueue" /\ J(c) = j)' = (pc[c] = "enqueue" /\ J(c) = j)
    BY <1>0, <1>1 DEF InCallOf, J
  <2>3. \A q \in Threads, i \in Tasks :
         /\ Holds(q, j, i)' = Holds(q, j, i)
         /\ (Holds(q, j, i) /\ IsPre(q))' = (Holds(q, j, i) /\ IsPre(q))
    BY <1>0, <1>1 DEF Holds, J, Loose, IsPre
  <2> QED BY <2>1, <2>2, <2>3 DEF SameThreads
<1>3. ASSUME NEW j \in Jobs PROVE JobOK(j)'
  <2>1. Queued(j)' = Queued(j)
    BY <1>0 DEF Queued
  <2>2. JobOK(j) /\ Kind(j) \in Kinds \cup {"none", "gone"}
    BY KindOf DEF JobsOK
  <2> QED BY <1>0, <1>2, <2>1, <2>2, SameJob
<1>4. JobsOK'
  BY <1>3 DEF JobsOK
<1>5. Errs'
  <2>1. ASSUME NEW p \in Threads, at[p].err # 0 PROVE Kind(J(p))' = "internal" /\ job'[J(p)].err # 0
    <3>1. Kind(J(p)) = "internal" /\ job[J(p)].err # 0
      BY <2>1 DEF Errs
    <3>2. J(p) \in Jobs \cup {None}
      BY DEF Typed, J
    <3>3. CASE J(p) \in Jobs
      BY <1>0, <3>1, <3>3 DEF SameBlock, Kinds, Kind, J
    <3>4. CASE J(p) = None
      <4>1. p \notin Callers \/ pc[p] = "idle"
        BY <3>4, Constants DEF CallerAt
      <4>2. at[p].job = None
        BY <3>4 DEF J
      <4>3. at[p] = Nowhere
        <5>1. CASE p \in Callers
          BY <4>1, <5>1 DEF CallerAt
        <5>2. CASE p \in Workers
          BY <3>4, <5>2, Constants DEF WorkerAt
        <5> QED BY <5>1, <5>2 DEF Threads
      <4> QED BY <2>1, <4>3 DEF Nowhere
    <3> QED BY <3>2, <3>3, <3>4
  <2> QED BY <1>0, <2>1 DEF Errs, J, Kind
<1>6. QueueOK'
  BY <1>0 DEF QueueOK
<1>7. InOrder'
  BY <1>0 DEF InOrder, SameBlock
<1> QED BY <1>2, <1>4, <1>5, <1>6, <1>7

\* After such a step the threads at pieces are where they were.
LEMMA CalmThreads ==
    ASSUME IndInv, Calm
    PROVE  (\A w \in Workers : WorkerAt(w)') /\ (\A c \in Callers : CallerAt(c)') /\ Alone'
<1> USE DEF IndInv
<1>0. /\ queue' = queue /\ at' = at /\ UNCHANGED <<ran, failed, result>>
      /\ Workers \subseteq Threads /\ Callers \subseteq Threads /\ Callers \cap Workers = {}
      /\ \A j \in Jobs : SameBlock(j)
  BY Constants DEF Calm, history, Threads
<1>1. ASSUME NEW q \in Threads PROVE
        \/ pc'[q] = pc[q]
        \/ q \notin Callers /\ pc[q] \in Loose /\ pc'[q] \in Loose
        \/ q \notin Callers /\ pc[q] \in {"kick", "wake"} /\ pc'[q] \in {"wake", "share"}
  BY <1>0 DEF Calm, Moves
<1>2. \A q \in Threads : J(q)' = J(q) /\ J(q) \in Jobs \cup {None}
  BY <1>0 DEF J, Typed
<1>3. ASSUME NEW j \in Jobs, Kind(j) \in Kinds
      PROVE  Kind(j)' = Kind(j) /\ job'[j].n = job[j].n /\ job'[j].begun = job[j].begun
             /\ job'[j].mask = job[j].mask
  BY <1>0, <1>3 DEF SameBlock
<1>4. ASSUME NEW w \in Workers PROVE WorkerAt(w)'
  <2>1. WorkerAt(w)
    OBVIOUS
  <2>2. CASE pc'[w] = pc[w]
    <3>1. CASE pc[w] \in {"task", "count", "drop", "kick", "wake", "share"}
      <4>1. J(w) \in Jobs /\ Kind(J(w)) \in Kinds
        BY <2>1, <3>1 DEF WorkerAt, Kinds
      <4> QED BY <1>0, <1>2, <1>3, <2>1, <2>2, <3>1, <4>1 DEF WorkerAt, Kinds, J, PyxOf
    <3>2. CASE pc[w] \notin {"task", "count", "drop", "kick", "wake", "share"}
      BY <1>0, <2>1, <2>2, <3>2 DEF WorkerAt
    <3> QED BY <3>1, <3>2
  <2>3. CASE pc[w] \in Loose /\ pc'[w] \in Loose
    BY <1>0, <2>1, <2>3 DEF WorkerAt, Loose
  <2>4. CASE pc[w] \in {"kick", "wake"} /\ pc'[w] \in {"wake", "share"}
    <3>1. J(w) \in Jobs /\ Kind(J(w)) = "locales"
      BY <2>1, <2>4 DEF WorkerAt
    <3>2. Kind(J(w)) \in Kinds
      BY <3>1 DEF Kinds
    <3> QED BY <1>0, <1>2, <1>3, <2>1, <2>4, <3>1, <3>2 DEF WorkerAt, J, PyxOf
  <2> QED BY <1>0, <1>1, <2>2, <2>3, <2>4
<1>5. ASSUME NEW c \in Callers PROVE CallerAt(c)'
  <2>1. CallerAt(c) /\ pc'[c] = pc[c]
    BY <1>0, <1>1
  <2>2. CASE pc[c] = "idle"
    BY <1>0, <2>1, <2>2 DEF CallerAt
  <2>3. CASE pc[c] # "idle"
    <3>0. J(c) \in Jobs
      BY <2>1, <2>3 DEF CallerAt
    <3>1. Kind(J(c)) \in Kinds
      BY <2>1, <2>3 DEF CallerAt, Typed, CallerPlaces, Kinds
    <3>2. Queued(J(c))' = Queued(J(c))
      BY <1>0 DEF Queued, J
    <3>3. /\ job'[J(c)].n = job[J(c)].n /\ job'[J(c)].begun = job[J(c)].begun
          /\ job'[J(c)].mask = job[J(c)].mask /\ Kind(J(c))' = Kind(J(c)) /\ J(c)' = J(c)
      BY <1>0, <1>2, <1>3, <3>0, <3>1 DEF Kind
    <3> QED BY <1>0, <2>1, <3>2, <3>3 DEF CallerAt
  <2> QED BY <2>2, <2>3
<1>6. Alone'
  <2>0. Alone
    OBVIOUS
  <2>1. \A c, d \in Callers : (pc[c] # "idle" /\ pc[d] # "idle" /\ J(c) = J(d))' => c = d
    BY <1>0, <1>1, <1>2, <2>0 DEF Alone
  <2>2. \A w, v \in Workers : (pc[w] = "drop" /\ pc[v] = "drop" /\ J(w) = J(v))' => w = v
    <3>1. \A w \in Workers : pc'[w] = "drop" => pc[w] = "drop"
      BY <1>0, <1>1 DEF Loose
    <3> QED BY <1>0, <1>2, <2>0, <3>1 DEF Alone
  <2>3. ASSUME NEW w \in Workers, NEW v \in Workers,
               (pc[w] = "share" /\ pc[v] = "share" /\ J(w) = J(v) /\ Kind(J(w)) = "user")'
        PROVE  w = v
    <3>1. ASSUME NEW u \in Workers, pc'[u] = "share", Kind(J(u))' = "user"
          PROVE  pc[u] = "share" /\ Kind(J(u)) = "user"
      <4>1. WorkerAt(u)
        OBVIOUS
      <4>2. pc[u] = "share" \/ pc[u] \in {"kick", "wake"}
        BY <1>0, <1>1, <3>1 DEF Loose
      <4>3. J(u) \in Jobs /\ Kind(J(u)) \in Kinds /\ (pc[u] # "share" => Kind(J(u)) = "locales")
        BY <4>1, <4>2 DEF WorkerAt, Kinds
      <4>4. Kind(J(u))' = Kind(J(u))
        BY <1>0, <1>2, <1>3, <4>3 DEF Kind
      <4> QED BY <3>1, <4>2, <4>3, <4>4
    <3>2. Kind(J(v))' = "user"
      BY <2>3 DEF Kind
    <3>3. J(w) = J(v)
      BY <1>0, <1>2, <2>3
    <3> QED BY <2>0, <2>3, <3>1, <3>2, <3>3 DEF Alone
  <2>4. ASSUME NEW j \in Jobs, Kind(j)' = "internal"
        PROVE  \A p, q \in Threads : \A i \in Tasks : (Holds(p, j, i) /\ Holds(q, j, i))' => p = q
    <3>1. Kind(j) = "internal"
      BY <1>0, <2>4 DEF SameBlock
    <3>2. SameThreads(j)
      BY CalmJobs
    <3> QED BY <2>0, <3>1, <3>2 DEF Alone, SameThreads
  <2> QED BY <2>1, <2>2, <2>3, <2>4 DEF Alone
<1> QED BY <1>4, <1>5, <1>6

-----------------------------------------------------------------------------
\* Steps of a thread p at a piece of a job: what the other threads keep.

\* Job j goes on, if any other thread is at it.
Grown(p, j) ==
  \/ \A q \in Threads \ {p} : J(q) # j
  \/ Kind(j) \in Kinds =>
       /\ Kind(j)' = Kind(j) /\ job'[j].n = job[j].n /\ job'[j].mask = job[j].mask
       /\ IF Kind(j) = "locales" THEN job[j].begun \subseteq job'[j].begun
                                 ELSE job[j].begun <= job'[j].begun
       /\ job'[j].err = 0 => job[j].err = 0
       /\ \/ Queued(j)
          \/ job'[j].begun = job[j].begun /\ ~Queued(j)'
          \/ p \in Callers /\ InCallOf(p, j)

\* The other threads can be where they are after a step of p.
LEMMA OthersKeep ==
    ASSUME IndInv, NEW p \in Threads, Frame(p), \A j \in Jobs : Grown(p, j), JobsOK'
    PROVE  /\ \A w \in Workers \ {p} : WorkerAt(w)'
           /\ \A c \in Callers \ {p} : CallerAt(c)'
<1> USE DEF IndInv
<1>0. Workers \subseteq Threads /\ Callers \subseteq Threads /\ Callers \cap Workers = {}
  BY Constants DEF Threads
<1>1. ASSUME NEW j \in Jobs, Kind(j) = "internal"
      PROVE  job[j].n \in Nat /\ job[j].begun \in Nat /\ job[j].begun <= job[j].n + 1
  <2>1. InternalOK(j)
    BY <1>1 DEF JobsOK, JobOK
  <2>2. job[j].n \in Sizes /\ job[j].begun \in 1..job[j].n + 1
    BY <2>1 DEF InternalOK
  <2>3. job[j].n \in Nat
    BY <2>2, CountsAssumption
  <2> QED BY <2>2, <2>3
<1>2. ASSUME NEW j \in Jobs, (Kind(j) = "internal")'
      PROVE  job'[j].n \in Nat /\ job'[j].begun \in Nat /\ job'[j].begun <= job'[j].n + 1
  <2>1. InternalOK(j)'
    BY <1>2 DEF JobsOK, JobOK
  <2>2. job'[j].n \in Sizes /\ job'[j].begun \in 1..job'[j].n + 1
    BY <2>1 DEF InternalOK
  <2>3. job'[j].n \in Nat
    BY <2>2, CountsAssumption
  <2> QED BY <2>2, <2>3
<1>3. ASSUME NEW w \in Workers \ {p} PROVE WorkerAt(w)'
  <2>0. WorkerAt(w) /\ w \in Threads \ {p}
    BY <1>0
  <2>1. at'[w] = at[w] /\ J(w)' = J(w) /\ (pc'[w] = pc[w] \/ (pc[w] = "asleep" /\ pc'[w] = "polling"))
    BY <2>0 DEF Frame, J
  <2>2. CASE pc[w] \in {"task", "count", "drop", "kick", "wake", "share"}
    <3>1. J(w) \in Jobs /\ Kind(J(w)) \in Kinds /\ pc'[w] = pc[w]
      BY <2>0, <2>1, <2>2 DEF WorkerAt, Kinds
    <3>2. /\ Kind(J(w))' = Kind(J(w)) /\ job'[J(w)].n = job[J(w)].n /\ job'[J(w)].mask = job[J(w)].mask
          /\ IF Kind(J(w)) = "locales" THEN job[J(w)].begun \subseteq job'[J(w)].begun
                                 ELSE job[J(w)].begun <= job'[J(w)].begun
      BY <2>0, <2>1, <3>1 DEF Grown, Kind, J
    <3>3. CASE Kind(J(w)) = "internal"
      <4>1. /\ job[J(w)].n \in Nat /\ job[J(w)].begun \in Nat
            /\ job'[J(w)].begun \in Nat /\ job'[J(w)].begun <= job[J(w)].n + 1
        BY <1>1, <1>2, <2>1, <3>1, <3>2, <3>3 DEF Kind, J
      <4>2. at[w].task \in Nat
        BY <2>0, Constants DEF Typed
      <4> QED BY <2>0, <2>1, <2>2, <3>1, <3>2, <3>3, <4>1, <4>2 DEF WorkerAt
    <3>4. CASE Kind(J(w)) = "user"
      <4>1. UserOK(J(w))'
        BY <2>1, <3>1, <3>2, <3>4 DEF JobsOK, JobOK, Kind, J
      <4>2. job'[J(w)].begun \in {1, 2}
        BY <2>1, <4>1 DEF UserOK, J
      <4> QED BY <2>0, <2>1, <2>2, <3>1, <3>2, <3>4, <4>2 DEF WorkerAt
    <3>5. CASE Kind(J(w)) = "locales"
      BY <2>0, <2>1, <2>2, <3>1, <3>2, <3>5 DEF WorkerAt, PyxOf
    <3> QED BY <3>1, <3>3, <3>4, <3>5 DEF Kinds
  <2>3. CASE pc[w] \notin {"task", "count", "drop", "kick", "wake", "share"}
    BY <2>0, <2>1, <2>3 DEF WorkerAt
  <2> QED BY <2>2, <2>3
<1>4. ASSUME NEW c \in Callers \ {p} PROVE CallerAt(c)'
  <2>0. CallerAt(c) /\ c \in Threads \ {p} /\ c \notin Workers
    BY <1>0
  <2>1. at'[c] = at[c] /\ J(c)' = J(c) /\ pc'[c] = pc[c]
    BY <2>0 DEF Frame, J, Typed, CallerPlaces
  <2>2. CASE pc[c] = "idle"
    BY <2>0, <2>1, <2>2 DEF CallerAt
  <2>3. CASE pc[c] # "idle"
    <3>0. J(c) \in Jobs
      BY <2>0, <2>3 DEF CallerAt
    <3>1. Kind(J(c)) \in Kinds
      BY <2>0, <2>3 DEF CallerAt, Typed, CallerPlaces, Kinds
    <3>2. /\ Kind(J(c))' = Kind(J(c)) /\ job'[J(c)].n = job[J(c)].n /\ job'[J(c)].mask = job[J(c)].mask
          /\ IF Kind(J(c)) = "locales" THEN job[J(c)].begun \subseteq job'[J(c)].begun
                                 ELSE job[J(c)].begun <= job'[J(c)].begun
          /\ \/ Queued(J(c))
             \/ job'[J(c)].begun = job[J(c)].begun /\ ~Queued(J(c))'
             \/ p \in Callers /\ InCallOf(p, J(c))
      BY <2>0, <2>1, <3>0, <3>1 DEF Grown, Kind, J, Queued
    <3>3. ~(p \in Callers /\ InCallOf(p, J(c)))
      BY <2>3, <2>0 DEF Alone, InCallOf
    <3>4. CASE Kind(J(c)) = "internal"
      <4>1. /\ job[J(c)].n \in Nat /\ job[J(c)].begun \in Nat
            /\ job'[J(c)].begun \in Nat /\ job'[J(c)].begun <= job[J(c)].n + 1
        BY <1>1, <1>2, <2>1, <3>0, <3>2, <3>4 DEF Kind, J
      <4>2. at[c].task \in Nat
        BY <2>0, Constants DEF Typed
      <4> QED BY <2>0, <2>1, <2>3, <3>0, <3>2, <3>3, <3>4, <4>1, <4>2 DEF CallerAt
    <3>5. CASE Kind(J(c)) # "internal"
      BY <2>0, <2>1, <2>3, <3>0, <3>2, <3>5 DEF CallerAt
    <3> QED BY <3>4, <3>5
  <2> QED BY <2>2, <2>3
<1> QED BY <1>3, <1>4

\* What p is at after the step, no other thread is.
Claims(p) ==
  /\ p \in Callers /\ pc'[p] # "idle" => \A c \in Callers \ {p} : pc[c] # "idle" => J(c) # J(p)'
  /\ p \in Workers /\ pc'[p] = "drop" => \A v \in Workers \ {p} : ~Drops(v, J(p)')
  /\ p \in Workers /\ pc'[p] = "share" /\ (Kind(J(p)) = "user")' =>
       \A v \in Workers \ {p} : ~(pc[v] = "share" /\ J(v) = J(p)')
  /\ \A j \in Jobs : (Kind(j) = "internal")' =>
       \A q \in Threads \ {p} : \A i \in Tasks : Holds(p, j, i)' => ~Holds(q, j, i)

\* Nobody else is at a piece after a step of p that claims only its own.
LEMMA AloneKept ==
    ASSUME IndInv, NEW p \in Threads, Frame(p), \A j \in Jobs : Grown(p, j), Claims(p)
    PROVE  Alone'
<1> USE DEF IndInv
<1>0. /\ Workers \subseteq Threads /\ Callers \subseteq Threads /\ Callers \cap Workers = {}
      /\ Alone
  BY Constants DEF Threads
<1>1. ASSUME NEW q \in Threads \ {p}
      PROVE  J(q)' = J(q) /\ at'[q] = at[q] /\ (pc'[q] = pc[q] \/ (q \notin Callers /\ pc[q] = "asleep" /\ pc'[q] = "polling"))
  BY DEF Frame, J, Typed, CallerPlaces
<1>2. \A c, d \in Callers : (pc[c] # "idle" /\ pc[d] # "idle" /\ J(c) = J(d))' => c = d
  <2> SUFFICES ASSUME NEW c \in Callers, NEW d \in Callers, (pc[c] # "idle" /\ pc[d] # "idle" /\ J(c) = J(d))', c # d
               PROVE FALSE
    OBVIOUS
  <2>1. c \in Threads /\ d \in Threads
    BY <1>0
  <2>2. CASE c # p /\ d # p
    BY <1>0, <1>1, <2>1, <2>2 DEF Alone
  <2>3. CASE c = p
    BY <1>1, <2>1, <2>3 DEF Claims
  <2>4. CASE d = p
    BY <1>1, <2>1, <2>4 DEF Claims
  <2> QED BY <2>2, <2>3, <2>4
<1>3. \A w, v \in Workers : (pc[w] = "drop" /\ pc[v] = "drop" /\ J(w) = J(v))' => w = v
  <2> SUFFICES ASSUME NEW w \in Workers, NEW v \in Workers, (pc[w] = "drop" /\ pc[v] = "drop" /\ J(w) = J(v))', w # v
               PROVE FALSE
    OBVIOUS
  <2>1. w \in Threads /\ v \in Threads
    BY <1>0
  <2>2. CASE w # p /\ v # p
    BY <1>0, <1>1, <2>1, <2>2 DEF Alone
  <2>3. CASE w = p
    BY <1>1, <2>1, <2>3 DEF Claims, Drops
  <2>4. CASE v = p
    BY <1>1, <2>1, <2>4 DEF Claims, Drops
  <2> QED BY <2>2, <2>3, <2>4
<1>4. \A w, v \in Workers : (pc[w] = "share" /\ pc[v] = "share" /\ J(w) = J(v) /\ Kind(J(w)) = "user")' => w = v
  <2> SUFFICES ASSUME NEW w \in Workers, NEW v \in Workers, w # v,
                      (pc[w] = "share" /\ pc[v] = "share" /\ J(w) = J(v) /\ Kind(J(w)) = "user")'
               PROVE FALSE
    OBVIOUS
  <2>1. w \in Threads /\ v \in Threads
    BY <1>0
  <2>2. CASE w # p /\ v # p
    <3>1. pc[w] = "share" /\ pc[v] = "share" /\ J(w) = J(v)
      BY <1>1, <2>1, <2>2
    <3>2. J(w) \in Jobs /\ Kind(J(w)) \in Kinds
      BY <3>1 DEF WorkerAt, Kinds
    <3>3. Kind(J(w))' = Kind(J(w))
      BY <1>1, <2>1, <2>2, <3>2 DEF Grown, Kind
    <3> QED BY <1>0, <3>1, <3>3 DEF Alone
  <2>3. CASE w = p
    BY <1>1, <2>1, <2>3 DEF Claims
  <2>4. CASE v = p
    BY <1>1, <2>1, <2>4 DEF Claims, Kind
  <2> QED BY <2>2, <2>3, <2>4
<1>5. ASSUME NEW j \in Jobs, Kind(j)' = "internal"
      PROVE  \A x, y \in Threads : \A i \in Tasks : (Holds(x, j, i) /\ Holds(y, j, i))' => x = y
  <2> SUFFICES ASSUME NEW x \in Threads, NEW y \in Threads, NEW i \in Tasks, Holds(x, j, i)', Holds(y, j, i)', x # y
               PROVE  FALSE
    OBVIOUS
  <2>1. \A q \in Threads \ {p} : Holds(q, j, i)' => Holds(q, j, i)
    BY <1>1 DEF Holds
  <2>2. CASE x # p /\ y # p
    <3>1. Holds(x, j, i) /\ Holds(y, j, i)
      BY <2>1, <2>2
    <3>2. J(x) = j
      BY <3>1 DEF Holds
    <3>3. Kind(j) \in Kinds
      <4>1. CASE x \in Workers
        BY <3>1, <3>2, <4>1 DEF WorkerAt, Kinds, Holds, Typed, WorkerPlaces, Waiting, Running
      <4>2. CASE x \in Callers
        BY <3>1, <3>2, <4>2 DEF CallerAt, Kinds, Holds, Typed, CallerPlaces
      <4> QED BY <4>1, <4>2 DEF Threads
    <3>4. Kind(j) = "internal"
      BY <1>5, <2>2, <3>2, <3>3 DEF Grown
    <3> QED BY <1>0, <2>2, <3>1, <3>4 DEF Alone
  <2>3. CASE x = p
    BY <1>5, <2>1, <2>3 DEF Claims
  <2>4. CASE y = p
    BY <1>5, <2>1, <2>4 DEF Claims
  <2> QED BY <2>2, <2>3, <2>4
<1> QED BY <1>2, <1>3, <1>4, <1>5 DEF Alone

\* An error that a thread has seen stays one of its job.
LEMMA ErrsKept ==
    ASSUME IndInv, NEW p \in Threads, Frame(p), \A j \in Jobs : Grown(p, j),
           at'[p].err # 0 => (Kind(J(p)) = "internal")' /\ (job[J(p)].err # 0)'
    PROVE  Errs'
<1> USE DEF IndInv
<1>1. ASSUME NEW q \in Threads \ {p}, at'[q].err # 0
      PROVE  (Kind(J(q)) = "internal")' /\ (job[J(q)].err # 0)'
  <2>1. at'[q] = at[q] /\ J(q)' = J(q)
    BY DEF Frame, J
  <2>2. Kind(J(q)) = "internal" /\ job[J(q)].err # 0
    BY <1>1, <2>1 DEF Errs
  <2>3. J(q) \in Jobs
    <3>1. J(q) \in Jobs \cup {None}
      BY DEF J, Typed
    <3>2. CASE J(q) = None
      <4>1. at[q] = Nowhere
        <5>1. CASE q \in Callers
          BY <3>2, <5>1, Constants DEF CallerAt
        <5>2. CASE q \in Workers
          BY <3>2, <5>2, Constants DEF WorkerAt
        <5> QED BY <5>1, <5>2 DEF Threads
      <4> QED BY <1>1, <2>1, <4>1 DEF Nowhere
    <3> QED BY <3>1, <3>2
  <2> QED BY <2>1, <2>2, <2>3 DEF Grown, Kinds, Kind, J
<1> QED BY <1>1 DEF Errs

-----------------------------------------------------------------------------
\* What the blocks of each kind hold, and what is in the queue after its changes.
LEMMA BlockOf ==
    ASSUME IndInv, NEW j \in Jobs
    PROVE  /\ Kind(j) \in Kinds =>
                /\ job[j] \in Blocks /\ job[j].refs \in Nat /\ job[j].nf \in Nat
                /\ job[j].mask \in SUBSET Indices /\ job[j].n \in 0..MaxTasks /\ job[j].err \in 0..MaxTasks
           /\ Kind(j) = "user" => UserOK(j) /\ job[j].begun \in {1, 2}
           /\ Kind(j) = "locales" => LocalesOK(j) /\ job[j].begun \subseteq Indices
           /\ Kind(j) = "internal" =>
                /\ InternalOK(j) /\ job[j].n \in Sizes /\ job[j].n \in Nat \ {0} /\ job[j].n <= MaxTasks
                /\ job[j].begun \in Nat /\ 1 <= job[j].begun /\ job[j].begun <= job[j].n + 1
                /\ 0..job[j].n - 1 \subseteq Tasks /\ IsFiniteSet(Open(j)) /\ Cardinality(Open(j)) \in Nat
<1> USE DEF IndInv
<1>1. JobOK(j)
  BY DEF JobsOK
<1>2. Kind(j) \in Kinds =>
                /\ job[j] \in Blocks /\ job[j].refs \in Nat /\ job[j].nf \in Nat
                /\ job[j].mask \in SUBSET Indices /\ job[j].n \in 0..MaxTasks /\ job[j].err \in 0..MaxTasks
  BY KindOf DEF Blocks
<1>3. Kind(j) = "user" => UserOK(j) /\ job[j].begun \in {1, 2}
  BY <1>1 DEF JobOK, UserOK
<1>4. Kind(j) = "locales" => LocalesOK(j) /\ job[j].begun \subseteq Indices
  BY <1>1 DEF JobOK, LocalesOK
<1>5. ASSUME Kind(j) = "internal"
      PROVE /\ InternalOK(j) /\ job[j].n \in Sizes /\ job[j].n \in Nat \ {0} /\ job[j].n <= MaxTasks
            /\ job[j].begun \in Nat /\ 1 <= job[j].begun /\ job[j].begun <= job[j].n + 1
            /\ 0..job[j].n - 1 \subseteq Tasks /\ IsFiniteSet(Open(j)) /\ Cardinality(Open(j)) \in Nat
  <2>1. InternalOK(j)
    BY <1>1, <1>5 DEF JobOK
  <2>2. job[j].n \in Sizes /\ job[j].begun \in 1..job[j].n + 1
    BY <2>1 DEF InternalOK
  <2>3. job[j].n \in Nat \ {0}
    BY <2>2, CountsAssumption
  <2>4. job[j].begun \in Nat /\ 1 <= job[j].begun /\ job[j].begun <= job[j].n + 1
    BY <2>2, <2>3
  <2>5. job[j].n <= MaxTasks /\ 0..job[j].n - 1 \subseteq Tasks
    BY <2>2, Constants
  <2>6. IsFiniteSet(Open(j)) /\ Cardinality(Open(j)) \in Nat
    BY <2>3, Finite, Sized
  <2> QED BY <2>1, <2>2, <2>3, <2>4, <2>5, <2>6
<1> QED BY <1>2, <1>3, <1>4, <1>5

\* The head of the queue is a block in use, with users left.
LEMMA HeadQueued ==
    ASSUME IndInv, queue # <<>>
    PROVE  LET j == Head(queue) IN j \in Jobs /\ Queued(j) /\ Kind(j) \in Kinds /\ job[j].refs > 0
<1>1. Head(queue) \in Jobs /\ Queued(Head(queue))
  BY QueueTail DEF IndInv, Typed, Queued
<1> QED BY <1>1, InUse

\* Appending a job queues that job and no other.
LEMMA AfterAppend ==
    ASSUME Typed, QueueOK, NEW k \in Jobs, queue' = Append(queue, k)
    PROVE  /\ \A j : Queued(j)' = (Queued(j) \/ j = k)
           /\ ~Queued(k) => QueueOK'
<1>1. queue \in Seq(Jobs)
  BY DEF Typed
<1>2. /\ DOMAIN queue' = 1..Len(queue) + 1 /\ Len(queue) \in Nat
      /\ \A i \in DOMAIN queue : queue'[i] = queue[i]
      /\ queue'[Len(queue) + 1] = k
      /\ DOMAIN queue = 1..Len(queue)
  BY <1>1, QueueAppend, LenProperties
<1>3. \A i \in DOMAIN queue' : i \in DOMAIN queue \/ i = Len(queue) + 1
  BY <1>2
<1>4. DOMAIN queue \subseteq DOMAIN queue' /\ Len(queue) + 1 \in DOMAIN queue'
  BY <1>2
<1>5. \A j : Queued(j)' = (Queued(j) \/ j = k)
  BY <1>2, <1>3, <1>4 DEF Queued
<1>6. ASSUME ~Queued(k) PROVE QueueOK'
  <2>1. \A i \in DOMAIN queue : queue[i] # k
    BY <1>6 DEF Queued
  <2> QED BY <1>2, <1>3, <2>1 DEF QueueOK
<1> QED BY <1>5, <1>6

\* Taking the head off the queue dequeues that job and no other.
LEMMA AfterTail ==
    ASSUME Typed, QueueOK, queue # <<>>, queue' = Tail(queue)
    PROVE  /\ \A j : Queued(j)' = (Queued(j) /\ j # Head(queue))
           /\ QueueOK'
<1>1. queue \in Seq(Jobs)
  BY DEF Typed
<1>2. /\ Head(queue) = queue[1] /\ 1 \in DOMAIN queue
      /\ Len(queue) \in Nat \ {0} /\ DOMAIN queue' = 1..Len(queue) - 1 /\ DOMAIN queue = 1..Len(queue)
      /\ \A i \in DOMAIN queue' : i + 1 \in DOMAIN queue /\ queue'[i] = queue[i + 1]
  BY <1>1, QueueTail
<1>3. ASSUME NEW j, Queued(j)' PROVE Queued(j) /\ j # Head(queue)
  <2>1. PICK i \in DOMAIN queue' : queue'[i] = j
    BY <1>3 DEF Queued
  <2>2. i + 1 \in DOMAIN queue /\ queue[i + 1] = j /\ i + 1 # 1
    BY <1>2, <2>1
  <2> QED BY <1>2, <2>2 DEF Queued, QueueOK
<1>4. ASSUME NEW j, Queued(j), j # Head(queue) PROVE Queued(j)'
  <2>1. PICK i \in DOMAIN queue : queue[i] = j
    BY <1>4 DEF Queued
  <2>2. i # 1 /\ i \in 1..Len(queue)
    BY <1>2, <1>4, <2>1
  <2>3. i - 1 \in DOMAIN queue' /\ queue'[i - 1] = queue[(i - 1) + 1] /\ (i - 1) + 1 = i
    BY <1>2, <2>2
  <2> QED BY <2>1, <2>3 DEF Queued
<1>5. QueueOK'
  <2> SUFFICES ASSUME NEW i \in DOMAIN queue', NEW k \in DOMAIN queue', queue'[i] = queue'[k] PROVE i = k
    BY DEF QueueOK
  <2>1. i + 1 = k + 1
    BY <1>2 DEF QueueOK
  <2> QED BY <1>2, <2>1
<1>6. \A j : Queued(j)' \in BOOLEAN /\ Queued(j) \in BOOLEAN
  BY DEF Queued
<1> QED BY <1>3, <1>4, <1>5, <1>6

-----------------------------------------------------------------------------
\* A worker takes a piece of the head.
Took(w, less, j) ==
  /\ j \in Jobs /\ Queued(j) /\ Kind(j) \in Kinds /\ job[j].refs > 0
  /\ w \in Threads /\ at[w] = Nowhere /\ J(w) = None /\ J(w)' = j
  /\ Frame(w) /\ OnlyJob(j) /\ UNCHANGED history /\ fresh' = fresh /\ waiters' = waiters - less
  /\ job' \in [Jobs -> {Unused, Gone} \cup Blocks] /\ queue' \in Seq(Jobs)
  /\ job'[j].n = job[j].n /\ job'[j].nf = job[j].nf /\ job'[j].err = job[j].err
  /\ job'[j].refs = job[j].refs /\ job'[j].mask = job[j].mask /\ job'[j].asked = job[j].asked
  /\ Kind(j)' = Kind(j)
  /\ QueueOK' /\ queue' \in {queue, Tail(queue)} /\ (Queued(j)' <=> queue' = queue)
  /\ Kind(j) = "user" =>
       /\ job[j].begun = 1 /\ job'[j].begun = 2 /\ queue' = Tail(queue)
       /\ pc'[w] = "share" /\ at'[w] = [job |-> j, err |-> 0, task |-> 0]
  /\ Kind(j) = "locales" =>
       /\ w \notin job[j].begun /\ job'[j].begun = job[j].begun \cup {w} /\ w \in job[j].mask
       /\ (queue' = queue) <=> (job'[j].begun # Indices)
       /\ pc'[w] = IF job'[j].begun = Indices /\ job[j].asked THEN "kick" ELSE "share"
       /\ at'[w] = [job |-> j, err |-> 0, task |-> PyxOf(w, job[j].mask)]
  /\ Kind(j) = "internal" =>
       /\ job'[j].begun = job[j].begun + 1
       /\ \/ /\ job[j].begun < job[j].n
             /\ (queue' = queue) <=> (job[j].begun + 1 < job[j].n)
             /\ pc'[w] = "task" /\ at'[w] = [job |-> j, err |-> job[j].err, task |-> job[j].begun]
          \/ /\ job[j].begun = job[j].n /\ queue' = Tail(queue)
             /\ pc'[w] = "drop" /\ at'[w] = [job |-> j, err |-> job[j].err, task |-> 0]

\* The code of a worker that takes from the head, by kind of block.
LEMMA TakenStep ==
    ASSUME IndInv, NEW w \in Workers, pc[w] \in {"look", "polling"}, NEW less \in {0, 1},
           queue # <<>>, Taken(w, less), UNCHANGED history, NEW j, j = Head(queue)
    PROVE  Took(w, less, j)
<1> USE DEF IndInv
<1> DEFINE r == job[j]
           begun == IF r.kind = "locales" THEN r.begun \cup {w} ELSE r.begun + 1
           a == [job |-> j, err |-> IF r.kind = "internal" THEN r.err ELSE 0,
                 task |-> CASE r.kind = "internal" /\ r.begun < r.n -> r.begun
                            [] r.kind = "locales" -> PyxOf(w, r.mask)
                            [] OTHER -> 0]
           place == CASE r.kind = "internal" /\ begun > r.n -> "drop"
                 [] r.kind = "internal" /\ begun <= r.n -> "task"
                 [] r.kind = "locales" /\ begun = Indices /\ r.asked -> "kick"
                 [] OTHER -> "share"
<1>1. /\ ~(r.kind = "locales" /\ w \in r.begun)
      /\ job' = [job EXCEPT ![j].begun = begun]
      /\ queue' = IF AllBegun(r, begun) THEN Tail(queue) ELSE queue
      /\ pc' = [pc EXCEPT ![w] = place] /\ at' = [at EXCEPT ![w] = a]
      /\ waiters' = waiters - less /\ fresh' = fresh
  BY Zenon DEF Taken, GoWith, Go
<1>2. /\ j \in Jobs /\ Queued(j) /\ Kind(j) \in Kinds /\ job[j].refs > 0
      /\ w \in Threads /\ w \notin Callers
  BY HeadQueued, Constants DEF Threads
<1>3. at[w] = Nowhere /\ J(w) = None
  BY DEF WorkerAt, J, Nowhere
<1>4. /\ pc \in [Threads -> WorkerPlaces \cup CallerPlaces] /\ DOMAIN at = Threads /\ DOMAIN job = Jobs
      /\ job[j] \in Blocks
  BY <1>2, BlockOf DEF Typed
<1>5. pc'[w] = place /\ at'[w] = a /\ J(w)' = j
  BY <1>1, <1>2, <1>4 DEF J
<1>6. Frame(w)
  BY <1>1, <1>2, <1>4 DEF Frame
<1>7. job'[j] = [job[j] EXCEPT !.begun = begun] /\ \A k \in Jobs \ {j} : job'[k] = job[k]
  BY <1>1, <1>2, <1>4
<1>8. /\ job'[j].n = job[j].n /\ job'[j].nf = job[j].nf /\ job'[j].err = job[j].err
      /\ job'[j].refs = job[j].refs /\ job'[j].mask = job[j].mask /\ job'[j].asked = job[j].asked
      /\ Kind(j)' = Kind(j) /\ job'[j].begun = begun
  BY <1>4, <1>7 DEF Blocks, Kind
<1>9. begun \in Nat \cup SUBSET Indices
  <2>1. CASE Kind(j) = "locales"
    BY <1>2, <2>1, BlockOf, Constants DEF Kind, Indices, Workers
  <2>2. CASE Kind(j) \in {"user", "internal"}
    BY <1>2, <2>2, BlockOf DEF Kind
  <2> QED BY <1>2, <2>1, <2>2 DEF Kinds
<1>10. job' \in [Jobs -> {Unused, Gone} \cup Blocks]
  <2>1. job'[j] \in Blocks
    <3>1. \A x \in Nat \cup SUBSET Indices : [job[j] EXCEPT !.begun = x] \in Blocks
      BY <1>4, StoreBlock
    <3> HIDE DEF begun
    <3> QED BY <1>7, <1>9, <3>1
  <2> QED BY <1>1, <1>2, <2>1 DEF Typed
<1>11. queue' \in {queue, Tail(queue)} /\ queue' \in Seq(Jobs) /\ QueueOK' /\ Tail(queue) # queue
  <2>1. queue \in Seq(Jobs) /\ Tail(queue) \in Seq(Jobs) /\ Tail(queue) # queue
    BY QueueTail DEF Typed
  <2>2. CASE queue' = queue
    BY <1>1, <2>1, <2>2 DEF QueueOK
  <2>3. CASE queue' = Tail(queue)
    BY <2>1, <2>3, AfterTail
  <2> QED BY <1>1, <2>1, <2>2, <2>3
<1>12. /\ \A k \in Jobs \ {j} : Queued(k)' = Queued(k)
       /\ Queued(j)' <=> queue' = queue
  <2>1. CASE queue' = queue
    BY <1>2, <2>1 DEF Queued
  <2>2. CASE queue' = Tail(queue)
    BY <1>11, <2>2, AfterTail DEF Queued
  <2> QED BY <1>11, <2>1, <2>2
<1>13. OnlyJob(j)
  BY <1>7, <1>12 DEF OnlyJob, history
<1>14. ASSUME Kind(j) = "user"
       PROVE  /\ job[j].begun = 1 /\ job'[j].begun = 2 /\ queue' = Tail(queue)
              /\ pc'[w] = "share" /\ at'[w] = [job |-> j, err |-> 0, task |-> 0]
  <2>1. r.begun = 1
    BY <1>2, <1>14, BlockOf DEF UserOK
  <2> QED BY <1>1, <1>5, <1>8, <1>14, <2>1 DEF Kind, AllBegun
<1>15. ASSUME Kind(j) = "locales"
       PROVE  /\ w \notin job[j].begun /\ job'[j].begun = job[j].begun \cup {w} /\ w \in job[j].mask
              /\ (queue' = queue) <=> (job'[j].begun # Indices)
              /\ pc'[w] = IF job'[j].begun = Indices /\ job[j].asked THEN "kick" ELSE "share"
              /\ at'[w] = [job |-> j, err |-> 0, task |-> PyxOf(w, job[j].mask)]
  <2>0. r.kind = "locales" /\ r.asked \in BOOLEAN
    BY <1>4, <1>15 DEF Kind, Blocks
  <2>1. Indices \ job[j].mask \subseteq job[j].begun
    BY <1>2, <1>15, BlockOf DEF LocalesOK
  <2>2. w \in Indices
    BY Constants DEF Indices, Workers
  <2>3. w \notin job[j].begun /\ begun = r.begun \cup {w}
    BY <1>1, <2>0
  <2>4. AllBegun(r, begun) <=> begun = Indices
    BY <2>0 DEF AllBegun
  <2>5. place = IF begun = Indices /\ r.asked THEN "kick" ELSE "share"
    BY <2>0
  <2>6. a = [job |-> j, err |-> 0, task |-> PyxOf(w, job[j].mask)]
    BY <2>0
  <2> QED BY <1>1, <1>5, <1>8, <1>11, <2>1, <2>2, <2>3, <2>4, <2>5, <2>6
<1>16. ASSUME Kind(j) = "internal"
       PROVE  /\ job'[j].begun = job[j].begun + 1
              /\ \/ /\ job[j].begun < job[j].n
                    /\ (queue' = queue) <=> (job[j].begun + 1 < job[j].n)
                    /\ pc'[w] = "task" /\ at'[w] = [job |-> j, err |-> job[j].err, task |-> job[j].begun]
                 \/ /\ job[j].begun = job[j].n /\ queue' = Tail(queue)
                    /\ pc'[w] = "drop" /\ at'[w] = [job |-> j, err |-> job[j].err, task |-> 0]
  <2>0. r.kind = "internal" /\ begun = r.begun + 1
    BY <1>16 DEF Kind
  <2>1. r.begun \in Nat /\ r.n \in Nat /\ r.begun <= r.n
    BY <1>2, <1>16, BlockOf DEF InternalOK
  <2>2. AllBegun(r, begun) <=> r.begun + 1 >= r.n
    BY <2>0 DEF AllBegun
  <2>3. CASE r.begun < r.n
    <3>1. place = "task"
      BY <2>0, <2>1, <2>3
    <3>2. a = [job |-> j, err |-> job[j].err, task |-> job[j].begun]
      BY <2>0, <2>3
    <3> QED BY <1>1, <1>5, <1>8, <1>11, <2>0, <2>1, <2>2, <2>3, <3>1, <3>2
  <2>4. CASE r.begun = r.n
    <3>1. place = "drop"
      BY <2>0, <2>1, <2>4
    <3>2. a = [job |-> j, err |-> job[j].err, task |-> 0]
      BY <2>0, <2>1, <2>4
    <3> QED BY <1>1, <1>5, <1>8, <1>11, <2>0, <2>1, <2>2, <2>4, <3>1, <3>2
  <2> QED BY <2>1, <2>3, <2>4
<1> HIDE DEF r, begun, a, place, IndInv
<1>17. UNCHANGED history /\ fresh' = fresh /\ waiters' = waiters - less
  BY <1>1
<1>18. Kind(j) \in Kinds /\ QueueOK' /\ queue' \in {queue, Tail(queue)} /\ (Queued(j)' <=> queue' = queue)
  BY <1>2, <1>11, <1>12
<1> QED BY <1>17, <1>18, <1>1, <1>2, <1>3, <1>5, <1>6, <1>8, <1>10, <1>11, <1>12, <1>13, <1>14, <1>15, <1>16 DEF Took

\* What the other threads are at.
LEMMA OtherThreads ==
    ASSUME Typed, NEW p \in Threads, Frame(p), NEW j
    PROVE  /\ \A w \in Workers \ {p} : Runs(w, j)' = Runs(w, j) /\ Drops(w, j)' = Drops(w, j)
           /\ \A c \in Callers \ {p} : InCallOf(c, j)' = InCallOf(c, j)
           /\ \A q \in Threads \ {p} : \A i : /\ Holds(q, j, i)' = Holds(q, j, i)
                                               /\ (Holds(q, j, i) /\ IsPre(q))' = (Holds(q, j, i) /\ IsPre(q))
           /\ p \in Workers => Called(j)' = Called(j) /\ Enqueuing(j)' = Enqueuing(j)
<1>1. /\ Workers \subseteq Threads /\ Callers \subseteq Threads /\ Callers \cap Workers = {}
  BY Constants DEF Threads
<1>2. ASSUME NEW q \in Threads \ {p} PROVE
        /\ J(q)' = J(q) /\ at'[q] = at[q]
        /\ pc'[q] = pc[q] \/ (pc[q] = "asleep" /\ pc'[q] = "polling" /\ q \notin Callers)
  BY DEF Frame, J, Typed, CallerPlaces
<1>3. \A w \in Workers \ {p} : Runs(w, j)' = Runs(w, j) /\ Drops(w, j)' = Drops(w, j)
  BY <1>1, <1>2 DEF Runs, Drops
<1>4. \A c \in Callers \ {p} : InCallOf(c, j)' = InCallOf(c, j) /\ pc'[c] = pc[c] /\ J(c)' = J(c)
  BY <1>1, <1>2 DEF InCallOf
<1>5. \A q \in Threads \ {p} : \A i : /\ Holds(q, j, i)' = Holds(q, j, i)
                                      /\ (Holds(q, j, i) /\ IsPre(q))' = (Holds(q, j, i) /\ IsPre(q))
  BY <1>1, <1>2 DEF Holds, IsPre
<1>6. ASSUME p \in Workers PROVE Called(j)' = Called(j) /\ Enqueuing(j)' = Enqueuing(j)
  <2>1. \A c \in Callers : InCallOf(c, j)' = InCallOf(c, j) /\ pc'[c] = pc[c] /\ J(c)' = J(c)
    BY <1>1, <1>4, <1>6
  <2> QED BY <2>1 DEF Called, Enqueuing
<1> QED BY <1>3, <1>4, <1>5, <1>6

\* The jobs are in order after a worker took a piece.
LEMMA TakenJobs ==
    ASSUME IndInv, NEW w \in Workers, pc[w] \in {"look", "polling"}, NEW less \in {0, 1},
           queue # <<>>, Taken(w, less), UNCHANGED history, NEW j, j = Head(queue)
    PROVE  JobsOK'
<1>t. Took(w, less, j)
  BY TakenStep
<1> USE DEF IndInv
<1>0. /\ j \in Jobs /\ Queued(j) /\ Kind(j) \in Kinds /\ job[j].refs > 0
      /\ w \in Threads /\ at[w] = Nowhere /\ J(w) = None /\ J(w)' = j
      /\ Frame(w) /\ OnlyJob(j) /\ UNCHANGED history
      /\ job'[j].n = job[j].n /\ job'[j].nf = job[j].nf /\ job'[j].err = job[j].err
      /\ job'[j].refs = job[j].refs /\ job'[j].mask = job[j].mask
      /\ Kind(j)' = Kind(j) /\ queue' \in {queue, Tail(queue)} /\ (Queued(j)' <=> queue' = queue)
      /\ Tail(queue) # queue
  BY <1>t, QueueTail DEF Typed, Took
<1>1. /\ ran' = ran /\ failed' = failed /\ result' = result
      /\ Called(j)' = Called(j) /\ Enqueuing(j)' = Enqueuing(j)
      /\ \A v \in Workers \ {w} : Runs(v, j)' = Runs(v, j) /\ Drops(v, j)' = Drops(v, j)
      /\ \A q \in Threads \ {w} : \A i : /\ Holds(q, j, i)' = Holds(q, j, i)
                                         /\ (Holds(q, j, i) /\ IsPre(q))' = (Holds(q, j, i) /\ IsPre(q))
  BY <1>0, OtherThreads DEF history
<1>2. ~Runs(w, j) /\ ~Drops(w, j) /\ \A i : ~Holds(w, j, i)
  BY DEF Runs, Drops, Holds
<1>3. ASSUME Kind(j) = "user" PROVE JobOK(j)'
  <2>1. /\ job[j].begun = 1 /\ job'[j].begun = 2 /\ queue' = Tail(queue)
        /\ pc'[w] = "share" /\ at'[w] = [job |-> j, err |-> 0, task |-> 0]
    BY <1>3, <1>t DEF Took
  <2>2. UserOK(j)
    BY <1>0, <1>3, BlockOf
  <2>3. ~Enqueuing(j) /\ Runs(w, j)' /\ job[j].refs = 1 /\ ~Queued(j)'
    BY <1>0, <1>3, <2>1, <2>2 DEF UserOK, Runs, J, One
  <2>4. UserOK(j)'
    BY <1>0, <1>1, <2>1, <2>2, <2>3 DEF UserOK, One
  <2> QED BY <1>0, <1>3, <2>4 DEF JobOK
<1>4. ASSUME Kind(j) = "locales" PROVE JobOK(j)'
  <2>1. /\ w \notin job[j].begun /\ job'[j].begun = job[j].begun \cup {w} /\ w \in job[j].mask
        /\ (queue' = queue) <=> (job'[j].begun # Indices)
        /\ pc'[w] \in {"kick", "share"}
    BY <1>4, <1>t DEF Took
  <2>2. LocalesOK(j)
    BY <1>0, <1>4, BlockOf
  <2>3. ~Enqueuing(j) /\ Runs(w, j)'
    BY <1>0, <1>4, <2>1, <2>2 DEF LocalesOK, Runs, J
  <2>4. Pending(j)' = Pending(j)
    BY <1>1, <1>2, <2>1, <2>3 DEF Pending
  <2>5. w \in Indices
    BY Constants DEF Indices, Workers
  <2>6. /\ job'[j].begun \subseteq Indices /\ {0} \cup (Indices \ job[j].mask) \subseteq job'[j].begun
        /\ ~Enqueuing(j)' /\ (Queued(j)' <=> job'[j].begun # Indices)
    BY <1>0, <1>1, <2>1, <2>2, <2>3, <2>5 DEF LocalesOK
  <2>7. /\ \A v \in job'[j].mask \ {0} : ran'[j][PyxOf(v, job'[j].mask)] = One(v \notin Pending(j)')
        /\ \A i \in Tasks : (\A v \in job'[j].mask : i # PyxOf(v, job'[j].mask)) => ran'[j][i] = 0
        /\ 0 \in job'[j].mask => ran'[j][0] = One(~Called(j)')
    BY <1>0, <1>1, <2>2, <2>4 DEF LocalesOK
  <2>8. /\ job'[j].n = 0 /\ job'[j].nf = 0 /\ job'[j].err = 0 /\ result'[j] = None /\ failed'[j] = {}
        /\ job'[j].mask \ {0} # {} /\ job'[j].refs = Cardinality(Pending(j)')
    BY <1>0, <1>1, <2>2, <2>4 DEF LocalesOK
  <2>9. LocalesOK(j)'
    BY <1>0, <2>6, <2>7, <2>8 DEF LocalesOK, PyxOf
  <2> QED BY <1>0, <1>4, <2>9 DEF JobOK
<1>5. ASSUME Kind(j) = "internal" PROVE JobOK(j)'
  <2>1. job'[j].begun = job[j].begun + 1
    BY <1>5, <1>t DEF Took
  <2>2. /\ InternalOK(j) /\ job[j].n \in Sizes /\ job[j].n \in Nat \ {0}
        /\ job[j].begun \in Nat /\ 1 <= job[j].begun /\ job[j].begun <= job[j].n
        /\ 0..job[j].n - 1 \subseteq Tasks
    BY <1>0, <1>5, BlockOf DEF InternalOK
  <2>3. \A v \in Workers : ~Drops(v, j)
    BY <2>2 DEF Drops, WorkerAt
  <2>4. CASE job[j].begun < job[j].n
    <3>1. /\ (queue' = queue) <=> (job[j].begun + 1 < job[j].n)
          /\ pc'[w] = "task" /\ at'[w] = [job |-> j, err |-> job[j].err, task |-> job[j].begun]
      BY <1>5, <2>2, <2>4, <1>t DEF Took
    <3>2. \A i : Holds(w, j, i)' <=> i = job[j].begun
      BY <3>1 DEF Holds, J
    <3>3. IsPre(w)'
      BY <3>1 DEF IsPre
    <3>4. Open(j)' = Open(j)
      <4>1. \A i \in 0..job[j].n - 1 :
              (i >= job'[j].begun \/ \E p \in Threads : Holds(p, j, i)') <=> (i >= job[j].begun \/ \E p \in Threads : Holds(p, j, i))
        <5>1. \A i : (\E p \in Threads : Holds(p, j, i)') <=> (i = job[j].begun \/ \E p \in Threads : Holds(p, j, i))
          BY <1>0, <1>1, <1>2, <3>2
        <5>2. \A i \in 0..job[j].n - 1 : (i >= job'[j].begun \/ i = job[j].begun) <=> i >= job[j].begun
          BY <2>1, <2>2
        <5> QED BY <5>1, <5>2, Zenon
      <4> QED BY <1>0, <4>1 DEF Open
    <3>5. \A i \in 0..job[j].n - 1 : Pre(j, i)' <=> Pre(j, i)
      BY <1>0, <1>1, <1>2, <2>1, <2>2, <3>2, <3>3 DEF Pre
    <3>6. ~Kept2(j) /\ ~Kept2(j)'
      <4>1. ~Kept2(j)
        BY <2>2, <2>3, <2>4 DEF Kept2
      <4>2. \A v \in Workers : ~Drops(v, j)'
        BY <1>1, <2>3, <3>1 DEF Drops
      <4>3. Queued(j)' => job'[j].begun # job[j].n
        BY <1>0, <2>1, <2>2, <3>1
      <4> QED BY <1>0, <4>1, <4>2, <4>3 DEF Kept2
    <3>7. InternalOK(j)'
      BY <1>0, <1>1, <2>1, <2>2, <2>4, <3>1, <3>4, <3>5, <3>6 DEF InternalOK, One
    <3> QED BY <1>0, <1>5, <3>7 DEF JobOK
  <2>5. CASE job[j].begun = job[j].n
    <3>1. queue' = Tail(queue) /\ pc'[w] = "drop" /\ at'[w] = [job |-> j, err |-> job[j].err, task |-> 0]
      BY <1>5, <2>2, <2>5, <1>t DEF Took
    <3>2. \A i : ~Holds(w, j, i)'
      BY <3>1 DEF Holds
    <3>4. Open(j)' = Open(j)
      <4>1. \A i \in 0..job[j].n - 1 :
              (i >= job'[j].begun \/ \E p \in Threads : Holds(p, j, i)') <=> (i >= job[j].begun \/ \E p \in Threads : Holds(p, j, i))
        BY <1>0, <1>1, <1>2, <2>1, <2>2, <2>5, <3>2
      <4> QED BY <1>0, <4>1 DEF Open
    <3>5. \A i \in 0..job[j].n - 1 : Pre(j, i)' <=> Pre(j, i)
      <4>1. \A i : (\E p \in Threads : Holds(p, j, i) /\ IsPre(p))'
                     <=> \E p \in Threads : Holds(p, j, i) /\ IsPre(p)
        BY <1>1, <1>2, <3>2
      <4>2. \A i \in 0..job[j].n - 1 : ~(i >= job'[j].begun) /\ ~(i >= job[j].begun)
        BY <2>1, <2>2, <2>5
      <4> QED BY <4>1, <4>2, Zenon DEF Pre
    <3>6. Kept2(j) /\ Kept2(j)'
      BY <1>0, <1>1, <2>1, <2>2, <2>5, <3>1 DEF Kept2, Drops, J
    <3>7. InternalOK(j)'
      BY <1>0, <1>1, <2>1, <2>2, <2>5, <3>1, <3>4, <3>5, <3>6 DEF InternalOK, One
    <3> QED BY <1>0, <1>5, <3>7 DEF JobOK
  <2> QED BY <2>2, <2>4, <2>5
<1>6. \A k \in Jobs \ {j} : JobOK(k)'
  BY <1>0, OtherJobs
<1> QED BY <1>0, <1>3, <1>4, <1>5, <1>6 DEF JobsOK, Kinds

\* The part of the invariant about where the threads are.
Placed == (\A w \in Workers : WorkerAt(w)) /\ (\A c \in Callers : CallerAt(c)) /\ Alone /\ Errs

\* The threads are where they can be after a step of p that grows no other job.
LEMMA PlacedKept ==
    ASSUME IndInv, NEW p \in Threads, Frame(p), \A j \in Jobs : Grown(p, j), Claims(p), JobsOK',
           p \in Workers => WorkerAt(p)', p \in Callers => CallerAt(p)',
           at'[p].err # 0 => (Kind(J(p)) = "internal")' /\ (job[J(p)].err # 0)'
    PROVE  Placed'
<1>1. /\ \A w \in Workers \ {p} : WorkerAt(w)'
      /\ \A c \in Callers \ {p} : CallerAt(c)'
  BY OthersKeep
<1>2. Alone' /\ Errs'
  BY AloneKept, ErrsKept
<1> QED BY <1>1, <1>2 DEF Placed

\* A worker that took a piece is where it can be, and so is everybody else.
LEMMA TakenPlaces ==
    ASSUME IndInv, NEW w \in Workers, pc[w] \in {"look", "polling"}, NEW less \in {0, 1},
           queue # <<>>, Taken(w, less), UNCHANGED history, NEW j, j = Head(queue)
    PROVE  Placed' /\ InOrder'
<1>t. Took(w, less, j)
  BY TakenStep
<1>j. JobsOK'
  BY TakenJobs
<1> USE DEF IndInv
<1>0. /\ j \in Jobs /\ Queued(j) /\ Kind(j) \in Kinds /\ job[j].refs > 0
      /\ w \in Threads /\ at[w] = Nowhere /\ J(w) = None /\ J(w)' = j
      /\ Frame(w) /\ OnlyJob(j) /\ UNCHANGED history /\ w \notin Callers
      /\ job'[j].n = job[j].n /\ job'[j].nf = job[j].nf /\ job'[j].err = job[j].err
      /\ job'[j].refs = job[j].refs /\ job'[j].mask = job[j].mask
      /\ Kind(j)' = Kind(j)
  BY <1>t, Constants DEF Took
<1>1. ASSUME NEW k \in Jobs PROVE Grown(w, k)
  <2>1. CASE k # j
    <3>1. job'[k] = job[k] /\ (Queued(k)' = Queued(k))
      BY <1>0, <2>1 DEF OnlyJob
    <3>2. Kind(k) \in {"user", "internal"} => job[k].begun \in Nat
      BY BlockOf
    <3> QED BY <3>1, <3>2 DEF Grown, Kind, Kinds, Queued
  <2>2. CASE k = j
    <3>1. Kind(j) \in {"user", "internal"} => job[j].begun \in Nat /\ job[j].begun <= job'[j].begun
      BY <1>0, <1>t, BlockOf DEF Took
    <3>2. Kind(j) = "locales" => job[j].begun \subseteq job'[j].begun
      BY <1>t DEF Took
    <3> QED BY <1>0, <2>2, <3>1, <3>2 DEF Grown, Kinds
  <2> QED BY <2>1, <2>2
<1>2. \A k \in Jobs : Kind(k)' = Kind(k)
  BY <1>0 DEF OnlyJob, Kind
<1>3. InOrder'
  BY <1>2 DEF InOrder
<1>4. CASE Kind(j) = "user"
  <2>1. /\ job[j].begun = 1 /\ job'[j].begun = 2
        /\ pc'[w] = "share" /\ at'[w] = [job |-> j, err |-> 0, task |-> 0]
    BY <1>t, <1>4 DEF Took
  <2>2. WorkerAt(w)'
    BY <1>0, <1>4, <2>1 DEF WorkerAt
  <2>3. \A v \in Workers \ {w} : ~(pc[v] = "share" /\ J(v) = j)
    BY <1>4, <2>1 DEF WorkerAt
  <2>4. Claims(w)
    BY <1>0, <2>1, <2>3 DEF Claims, Holds
  <2> QED BY <1>0, <1>1, <1>3, <1>j, <2>1, <2>2, <2>4, PlacedKept
<1>5. CASE Kind(j) = "locales"
  <2>1. /\ w \notin job[j].begun /\ job'[j].begun = job[j].begun \cup {w} /\ w \in job[j].mask
        /\ pc'[w] \in {"kick", "share"} /\ at'[w] = [job |-> j, err |-> 0, task |-> PyxOf(w, job[j].mask)]
    BY <1>t, <1>5 DEF Took
  <2>2. WorkerAt(w)'
    BY <1>0, <1>5, <2>1 DEF WorkerAt, PyxOf
  <2>3. (Kind(J(w)) = "locales")'
    BY <1>0, <1>5 DEF Kind
  <2>4. Claims(w)
    BY <1>0, <2>1, <2>3 DEF Claims, Holds
  <2> QED BY <1>0, <1>1, <1>3, <1>j, <2>1, <2>2, <2>4, PlacedKept
<1>6. CASE Kind(j) = "internal"
  <2>0. /\ job[j].n \in Nat \ {0} /\ job[j].begun \in Nat /\ 1 <= job[j].begun /\ job[j].begun <= job[j].n + 1
    BY <1>0, <1>6, BlockOf
  <2>1. job'[j].begun = job[j].begun + 1
    BY <1>t, <1>6 DEF Took
  <2>2. at'[w].err = job[j].err
    BY <1>t, <1>6 DEF Took
  <2>3. at'[w].err # 0 => (Kind(J(w)) = "internal")' /\ (job[J(w)].err # 0)'
    BY <1>0, <1>6, <2>2 DEF Kind, J
  <2>4. CASE job[j].begun < job[j].n
    <3>1. pc'[w] = "task" /\ at'[w] = [job |-> j, err |-> job[j].err, task |-> job[j].begun]
      BY <2>0, <2>4, <1>t, <1>6 DEF Took
    <3>2. WorkerAt(w)'
      BY <1>0, <1>6, <2>0, <2>1, <2>4, <3>1 DEF WorkerAt
    <3>3. ASSUME NEW q \in Threads \ {w} PROVE ~Holds(q, j, job[j].begun)
      <4> SUFFICES ASSUME Holds(q, j, job[j].begun) PROVE FALSE
        OBVIOUS
      <4>0. J(q) = j /\ at[q].task = job[j].begun
        BY DEF Holds
      <4>1. CASE q \in Workers
        <5>1. pc[q] \in {"task", "count"}
          BY <4>1 DEF Holds, Typed, WorkerPlaces, Waiting, Running
        <5>2. at[q].task < job[j].begun
          BY <4>0, <4>1, <5>1 DEF WorkerAt
        <5> QED BY <2>0, <4>0, <5>2
      <4>2. CASE q \in Callers
        <5>1. pc[q] \in {"append", "wakeall", "own", "next"}
          BY <4>2 DEF Holds, Typed, CallerPlaces
        <5>2. at[q].task < job[j].begun
          BY <1>6, <4>0, <4>2, <5>1 DEF CallerAt
        <5> QED BY <2>0, <4>0, <5>2
      <4> QED BY <4>1, <4>2 DEF Threads
    <3>4. \A k : \A i \in Tasks : Holds(w, k, i)' => k = j /\ i = job[j].begun
      BY <1>0, <3>1 DEF Holds
    <3>5. Claims(w)
      BY <1>0, <3>1, <3>3, <3>4 DEF Claims
    <3> QED BY <1>0, <1>1, <1>3, <1>j, <2>3, <3>2, <3>5, PlacedKept
  <2>5. CASE job[j].begun = job[j].n
    <3>1. pc'[w] = "drop" /\ at'[w] = [job |-> j, err |-> job[j].err, task |-> 0]
      BY <2>0, <2>5, <1>t, <1>6 DEF Took
    <3>2. WorkerAt(w)'
      BY <1>0, <1>6, <2>0, <2>1, <2>5, <3>1 DEF WorkerAt
    <3>3. \A v \in Workers : ~Drops(v, j)
      BY <2>0, <2>5 DEF WorkerAt, Drops
    <3>4. Claims(w)
      BY <1>0, <3>1, <3>3 DEF Claims, Holds
    <3> QED BY <1>0, <1>1, <1>3, <1>j, <2>3, <3>2, <3>4, PlacedKept
  <2>6. job[j].begun < job[j].n \/ job[j].begun = job[j].n
    BY <1>t, <1>6 DEF Took
  <2> QED BY <2>4, <2>5, <2>6
<1> QED BY <1>0, <1>4, <1>5, <1>6 DEF Kinds

-----------------------------------------------------------------------------
\* The parts of the invariant about the jobs and the threads at their pieces.
Sound == JobsOK /\ Placed /\ QueueOK /\ InOrder

\* A step that touches no job keeps jobs and threads sound.
LEMMA CalmSound ==
    ASSUME IndInv, Calm
    PROVE  Sound'
BY CalmJobs, CalmThreads DEF Sound, Placed

\* So does a worker that takes a piece.
LEMMA TakenSound ==
    ASSUME IndInv, NEW w \in Workers, pc[w] \in {"look", "polling"}, NEW less \in {0, 1},
           queue # <<>>, Taken(w, less), UNCHANGED history
    PROVE  Sound'
<1>1. PICK j : j = Head(queue)
  OBVIOUS
<1>2. QueueOK'
  BY <1>1, TakenStep DEF Took
<1> QED BY <1>1, <1>2, TakenJobs, TakenPlaces DEF Sound

\* The jobs that a step leaves alone go on.
LEMMA GrownElsewhere ==
    ASSUME IndInv, NEW p, NEW j, OnlyJob(j), j \in Jobs => Grown(p, j)
    PROVE  /\ \A k \in Jobs : Grown(p, k)
           /\ (j \in Jobs => Kind(j)' = Kind(j)) => InOrder'
<1>1. ASSUME NEW k \in Jobs \ {j} PROVE Grown(p, k)
  <2>1. job'[k] = job[k] /\ (Queued(k)' = Queued(k))
    BY DEF OnlyJob
  <2>2. Kind(k) \in {"user", "internal"} => job[k].begun \in Nat
    BY BlockOf
  <2> QED BY <2>1, <2>2 DEF Grown, Kind, Kinds, Queued
<1>2. ASSUME j \in Jobs => Kind(j)' = Kind(j) PROVE InOrder'
  <2>1. \A k \in Jobs : Kind(k)' = Kind(k)
    BY <1>2 DEF OnlyJob, Kind
  <2> QED BY <2>1 DEF InOrder, IndInv
<1> QED BY <1>1, <1>2

\* A worker drops a block that its caller left in the queue.
LEMMA DropSound ==
    ASSUME IndInv, NEW w \in Workers, Drop(w)
    PROVE  Sound'
<1>1. PICK j : j = J(w)
  OBVIOUS
<1> USE DEF IndInv
<1>2. /\ pc[w] = "drop" /\ j \in Jobs /\ Kind(j) = "internal" /\ job[j].begun = job[j].n + 1
      /\ w \in Threads /\ w \notin Callers /\ Kind(j) \in Kinds
      /\ InternalOK(j) /\ job[j].refs \in Nat /\ job[j].refs > 0 /\ job[j].n \in Nat
  BY <1>1, InUse, BlockOf, Constants DEF Drop, WorkerAt, Threads, Kinds
<1>3. /\ pc'[w] = "look" /\ at'[w] = Nowhere /\ J(w)' = None
      /\ Frame(w) /\ queue' = queue /\ history' = history
      /\ job' = [job EXCEPT ![j].refs = job[j].refs - 1]
  BY <1>1, <1>2 DEF Drop, GoWith, Go, Free, Frame, Typed, J, Nowhere
<1>4. /\ OnlyJob(j) /\ Kind(j)' = "internal" /\ job'[j].refs = job[j].refs - 1
      /\ job'[j].n = job[j].n /\ job'[j].nf = job[j].nf /\ job'[j].err = job[j].err
      /\ job'[j].begun = job[j].begun /\ job'[j].mask = job[j].mask
  BY <1>2, <1>3, BlockOf DEF OnlyJob, history, Queued, Kind, Typed, Blocks
<1>5. /\ Called(j)' = Called(j) /\ Queued(j)' = Queued(j)
      /\ \A v \in Workers \ {w} : Drops(v, j)' = Drops(v, j)
      /\ \A q \in Threads \ {w} : \A i : /\ Holds(q, j, i)' = Holds(q, j, i)
                                         /\ (Holds(q, j, i) /\ IsPre(q))' = (Holds(q, j, i) /\ IsPre(q))
  BY <1>2, <1>3, OtherThreads DEF Queued
<1>6. \A i : ~Holds(w, j, i) /\ ~Holds(w, j, i)'
  BY <1>2, <1>3 DEF Holds
<1>7. Kept2(j) /\ ~Kept2(j)'
  <2>1. Kept2(j)
    BY <1>1, <1>2 DEF Kept2, Drops
  <2>2. \A v \in Workers : ~Drops(v, j)'
    BY <1>1, <1>2, <1>3, <1>5 DEF Alone, Drops
  <2> QED BY <1>2, <1>4, <2>1, <2>2 DEF Kept2
<1>8. Open(j)' = Open(j) /\ \A i \in 0..job[j].n - 1 : Pre(j, i)' <=> Pre(j, i)
  BY <1>4, <1>5, <1>6 DEF Open, Pre
<1>9. job'[j].refs = One(Called(j)') + One(Kept2(j)')
  BY <1>2, <1>4, <1>5, <1>7 DEF InternalOK, One
<1>10. InternalOK(j)'
  BY <1>2, <1>3, <1>4, <1>5, <1>8, <1>9 DEF InternalOK, history
<1>11. JobsOK'
  BY <1>1, <1>2, <1>3, <1>4, <1>10, OtherJobs DEF JobsOK, JobOK
<1>12. Grown(w, j)
  BY <1>2, <1>4, <1>5, BlockOf DEF Grown, Kinds, Queued
<1>13. Claims(w) /\ WorkerAt(w)'
  BY <1>2, <1>3 DEF Claims, WorkerAt, Holds
<1>14. Placed' /\ InOrder'
  BY <1>2, <1>3, <1>4, <1>11, <1>12, <1>13, GrownElsewhere, PlacedKept DEF Nowhere
<1>15. QueueOK'
  BY <1>3 DEF QueueOK
<1> QED BY <1>11, <1>14, <1>15 DEF Sound

\* A task of an internal job is run, by a worker or by the caller.
LEMMA RanSound ==
    ASSUME IndInv, NEW p \in Threads, (p \in Workers /\ Task(p)) \/ (p \in Callers /\ Own(p))
    PROVE  Sound'
<1>1. PICK j, n : j = J(p) /\ n = at[p].task
  OBVIOUS
<1> USE DEF IndInv
<1>2. /\ j \in Jobs /\ Kind(j) = "internal" /\ Called(j) /\ Kind(j) \in Kinds /\ n \in Open(j)
      /\ n \in 0..job[j].n - 1 /\ n < job[j].begun
      /\ pc[p] \in {"task", "own"} /\ (p \in Workers <=> pc[p] = "task")
      /\ p \in Callers => InCallOf(p, j)
  <2>1. CASE p \in Workers /\ Task(p)
    BY <1>1, <2>1, InUse, Constants DEF Task, Kinds, WorkerAt, Open
  <2>2. CASE p \in Callers /\ Own(p)
    <3>1. pc[p] = "own" /\ p \notin Workers
      BY <2>2, Constants DEF Own
    <3> QED BY <1>1, <2>2, <3>1, InUse DEF Own, Kinds, CallerAt, Open, Called, InCallOf
  <2> QED BY <2>1, <2>2
<1>3. /\ InternalOK(j) /\ job[j].n \in Nat \ {0} /\ job[j].n <= MaxTasks /\ job[j].err \in 0..MaxTasks
      /\ job[j].begun \in Nat /\ 0..job[j].n - 1 \subseteq Tasks /\ job[j] \in Blocks /\ n \in Nat
  BY <1>2, BlockOf
<1>4. /\ RunTask(p) /\ pc' = [pc EXCEPT ![p] = IF p \in Workers THEN "count" ELSE "next"]
      /\ queue' = queue /\ at' = at
  BY <1>2, Constants DEF Task, Own, Go
<1>5. /\ Frame(p) /\ pc'[p] \in {"count", "next"} /\ (p \in Workers <=> pc'[p] = "count")
      /\ at'[p] = at[p] /\ J(p)' = j
  BY <1>1, <1>4 DEF Frame, Typed, J
<1>6. PICK fails \in BOOLEAN :
        IF at[p].err = 0
        THEN Ran(j, n, fails) /\ job' = [job EXCEPT ![j].err = ErrAfter(job[j].err, n, fails)]
        ELSE UNCHANGED <<job, history>>
  BY <1>1, <1>4 DEF RunTask
<1>7. /\ Kind(j)' = Kind(j) /\ job'[j].n = job[j].n /\ job'[j].nf = job[j].nf /\ job'[j].refs = job[j].refs
      /\ job'[j].begun = job[j].begun /\ job'[j].mask = job[j].mask
      /\ job'[j].err = IF at[p].err = 0 THEN ErrAfter(job[j].err, n, fails) ELSE job[j].err
      /\ \A k \in Jobs \ {j} : job'[k] = job[k]
  BY <1>2, <1>3, <1>6 DEF Typed, Blocks, Kind
<1>8. /\ result' = result
      /\ \A k \in Jobs \ {j} : ran'[k] = ran[k] /\ failed'[k] = failed[k]
      /\ \A i \in Tasks \ {n} : ran'[j][i] = ran[j][i]
      /\ ran'[j][n] = IF at[p].err = 0 THEN IF ran[j][n] < 2 THEN ran[j][n] + 1 ELSE ran[j][n] ELSE ran[j][n]
      /\ failed'[j] = IF at[p].err = 0 /\ fails THEN failed[j] \cup {n} ELSE failed[j]
  <2>1. n \in Tasks
    BY <1>2, <1>3
  <2>2. CASE at[p].err = 0
    <3>1. /\ ran' = [ran EXCEPT ![j][n] = IF ran[j][n] < 2 THEN ran[j][n] + 1 ELSE ran[j][n]]
          /\ failed' = IF fails THEN [failed EXCEPT ![j] = failed[j] \cup {n}] ELSE failed
          /\ result' = result
      BY <1>6, <2>2 DEF Ran
    <3>2. ran \in [Jobs -> [Tasks -> 0..2]] /\ failed \in [Jobs -> SUBSET Tasks]
      BY DEF Typed
    <3> HIDE DEF IndInv
    <3>3. /\ \A k \in Jobs \ {j} : ran'[k] = ran[k]
          /\ ran'[j] = [ran[j] EXCEPT ![n] = IF ran[j][n] < 2 THEN ran[j][n] + 1 ELSE ran[j][n]]
          /\ ran[j] \in [Tasks -> 0..2]
      BY <1>2, <3>1, <3>2
    <3>4. /\ \A i \in Tasks \ {n} : ran'[j][i] = ran[j][i]
          /\ ran'[j][n] = IF ran[j][n] < 2 THEN ran[j][n] + 1 ELSE ran[j][n]
      BY <2>1, <3>3
    <3>5. /\ \A k \in Jobs \ {j} : failed'[k] = failed[k]
          /\ failed'[j] = IF fails THEN failed[j] \cup {n} ELSE failed[j]
      BY <1>2, <3>1, <3>2
    <3> QED BY <2>2, <3>1, <3>3, <3>4, <3>5
  <2>3. CASE at[p].err # 0
    BY <1>6, <2>3 DEF history
  <2> QED BY <2>2, <2>3
<1>9. OnlyJob(j) /\ Queued(j)' = Queued(j)
  BY <1>4, <1>7, <1>8 DEF OnlyJob, Queued
\* what the threads are at
<1>10. /\ \A q \in Threads : \A i : Holds(q, j, i)' = Holds(q, j, i)
       /\ \A q \in Threads \ {p} : \A i : (Holds(q, j, i) /\ IsPre(q))' = (Holds(q, j, i) /\ IsPre(q))
       /\ Holds(p, j, n) /\ IsPre(p) /\ ~IsPre(p)' /\ \A i : Holds(p, j, i) <=> i = n
  BY <1>1, <1>2, <1>5, OtherThreads DEF Holds, IsPre
<1>11. Called(j)' = Called(j) /\ Kept2(j)' = Kept2(j)
  <2>1. \A c \in Callers : InCallOf(c, j)' = InCallOf(c, j)
    BY <1>1, <1>2, <1>5, OtherThreads DEF InCallOf
  <2>2. \A w \in Workers : Drops(w, j)' = Drops(w, j)
    BY <1>2, <1>5, OtherThreads DEF Drops
  <2> QED BY <1>7, <1>9, <2>1, <2>2 DEF Called, Kept2
<1>12. Open(j)' = Open(j)
  BY <1>7, <1>10 DEF Open
<1>13. \A i \in 0..job[j].n - 1 : Pre(j, i)' <=> Pre(j, i) /\ i # n
  <2>1. \A q \in Threads \ {p} : ~Holds(q, j, n)
    BY <1>2, <1>3, <1>10 DEF Alone
  <2>2. ~Pre(j, n)'
    BY <1>2, <1>3, <1>7, <1>10, <2>1 DEF Pre
  <2>3. \A i \in 0..job[j].n - 1 : i # n => (Pre(j, i)' <=> Pre(j, i))
    BY <1>7, <1>10 DEF Pre
  <2> QED BY <2>2, <2>3
<1>14. ran[j][n] = 0 /\ Pre(j, n) /\ result[j] = None
  <2>1. Pre(j, n)
    BY <1>10 DEF Pre
  <2> QED BY <1>2, <1>3, <2>1 DEF InternalOK
<1>15. /\ at[p].err # 0 => job[j].err # 0
       /\ job'[j].err = 0 => job[j].err = 0 /\ at[p].err = 0
       /\ job'[j].err = 0 <=> failed'[j] = {}
       /\ job'[j].err # 0 => job'[j].err - 1 \in failed'[j]
       /\ job'[j].err <= job'[j].n
  <2>1. at[p].err # 0 => job[j].err # 0
    BY <1>1 DEF Errs
  <2>2. /\ job[j].err = 0 <=> failed[j] = {}
        /\ job[j].err # 0 => job[j].err - 1 \in failed[j]
        /\ job[j].err <= job[j].n
    BY <1>3 DEF InternalOK
  <2>3. CASE at[p].err = 0 /\ fails /\ job[j].err = 0
    BY <1>2, <1>3, <1>7, <1>8, <2>1, <2>2, <2>3 DEF ErrAfter
  <2>4. CASE ~(at[p].err = 0 /\ fails /\ job[j].err = 0)
    BY <1>2, <1>3, <1>7, <1>8, <2>1, <2>2, <2>4 DEF ErrAfter
  <2> QED BY <2>1, <2>3, <2>4
<1>16. /\ \A i \in Tasks : i >= job'[j].n => ran'[j][i] = 0
       /\ \A i \in 0..job'[j].n-1 : IF Pre(j, i)' THEN ran'[j][i] = 0
                         ELSE ran'[j][i] < 2 /\ (job'[j].err = 0 => ran'[j][i] = 1)
  <2>1. /\ \A i \in Tasks : i >= job[j].n => ran[j][i] = 0
        /\ \A i \in 0..job[j].n-1 : IF Pre(j, i) THEN ran[j][i] = 0
                         ELSE ran[j][i] < 2 /\ (job[j].err = 0 => ran[j][i] = 1)
    BY <1>3 DEF InternalOK
  <2>2. ran'[j][n] = IF at[p].err = 0 THEN 1 ELSE 0
    BY <1>8, <1>14
  <2>3. \A i \in Tasks : i >= job'[j].n => ran'[j][i] = 0
    BY <1>2, <1>3, <1>7, <1>8, <2>1
  <2>4. ASSUME NEW i \in 0..job[j].n-1, i # n
        PROVE  IF Pre(j, i)' THEN ran'[j][i] = 0 ELSE ran'[j][i] < 2 /\ (job'[j].err = 0 => ran'[j][i] = 1)
    <3>1. ran'[j][i] = ran[j][i] /\ (Pre(j, i)' <=> Pre(j, i))
      BY <1>3, <1>8, <1>13, <2>4
    <3> QED BY <1>15, <2>1, <3>1
  <2>5. ~Pre(j, n)' /\ ran'[j][n] < 2 /\ (job'[j].err = 0 => ran'[j][n] = 1)
    BY <1>2, <1>13, <1>15, <2>2
  <2> QED BY <1>7, <2>3, <2>4, <2>5
<1>17. /\ job'[j].n \in Sizes /\ job'[j].begun \in 1..job'[j].n + 1
       /\ job'[j].refs = One(Called(j)') + One(Kept2(j)')
       /\ Queued(j)' => job'[j].begun <= job'[j].n
       /\ job'[j].nf + Cardinality(Open(j)') = job'[j].n
       /\ Called(j)' /\ result'[j] = None
  <2>1. /\ job[j].n \in Sizes /\ job[j].begun \in 1..job[j].n + 1
        /\ job[j].refs = One(Called(j)) + One(Kept2(j))
        /\ Queued(j) => job[j].begun <= job[j].n
        /\ job[j].nf + Cardinality(Open(j)) = job[j].n
    BY <1>3 DEF InternalOK
  <2>2. job'[j].refs = One(Called(j)') + One(Kept2(j)')
    BY <1>7, <1>11, <2>1 DEF One
  <2>3. job'[j].nf + Cardinality(Open(j)') = job'[j].n
    BY <1>7, <1>12, <2>1
  <2> QED BY <1>2, <1>7, <1>8, <1>9, <1>11, <1>14, <2>1, <2>2, <2>3
<1>18. InternalOK(j)'
  BY <1>15, <1>16, <1>17 DEF InternalOK
<1>19. JobsOK'
  BY <1>1, <1>2, <1>5, <1>7, <1>9, <1>18, OtherJobs DEF JobsOK, JobOK
<1>20. Grown(p, j)
  BY <1>2, <1>3, <1>7, <1>9, <1>15, BlockOf DEF Grown, Kinds, Queued
<1>21. Claims(p)
  <2>1. \A k \in Jobs : \A i \in Tasks : Holds(p, k, i)' => Holds(p, k, i)
    BY <1>1, <1>2, <1>5 DEF Holds
  <2>2. \A k \in Jobs \ {j} : \A i : ~Holds(p, k, i)'
    BY <1>5 DEF Holds
  <2>3. \A q \in Threads \ {p} : \A i \in Tasks : Holds(p, j, i)' => ~Holds(q, j, i)
    BY <1>2, <2>1 DEF Alone
  <2>4. p \in Callers => \A c \in Callers \ {p} : pc[c] # "idle" => J(c) # j
    BY <1>2 DEF Alone, InCallOf
  <2> QED BY <1>5, <2>2, <2>3, <2>4 DEF Claims
<1>22. /\ p \in Workers => WorkerAt(p)'
       /\ p \in Callers => CallerAt(p)'
  <2>1. p \in Workers => WorkerAt(p)'
    BY <1>1, <1>2, <1>5, <1>7 DEF WorkerAt
  <2>2. p \in Callers => CallerAt(p)'
    <3>1. p \in Callers => pc'[p] = "next"
      BY <1>5, Constants
    <3> QED BY <1>1, <1>2, <1>5, <1>7, <3>1 DEF CallerAt
  <2> QED BY <2>1, <2>2
<1>23. at'[p].err # 0 => (Kind(J(p)) = "internal")' /\ (job[J(p)].err # 0)'
  <2>1. at'[p].err # 0 => Kind(j)' = "internal" /\ job'[j].err # 0
    BY <1>2, <1>5, <1>7, <1>15
  <2> QED BY <1>5, <2>1 DEF Kind
<1>24. Placed' /\ InOrder'
  BY <1>2, <1>5, <1>7, <1>9, <1>19, <1>20, <1>21, <1>22, <1>23, GrownElsewhere, PlacedKept
<1>25. QueueOK'
  BY <1>4 DEF QueueOK
<1> QED BY <1>19, <1>24, <1>25 DEF Sound

\* A worker counts the task it ran.
LEMMA CountTaskSound ==
    ASSUME IndInv, NEW w \in Workers, CountTask(w)
    PROVE  Sound'
<1>1. PICK j, n : j = J(w) /\ n = at[w].task
  OBVIOUS
<1> USE DEF IndInv
<1>2. /\ j \in Jobs /\ Kind(j) = "internal" /\ Called(j) /\ Kind(j) \in Kinds /\ n \in Open(j)
      /\ pc[w] = "count" /\ w \in Threads /\ w \notin Callers
      /\ InternalOK(j) /\ job[j].n \in Nat \ {0} /\ job[j].nf \in Nat /\ 0..job[j].n - 1 \subseteq Tasks
      /\ job[j].begun \in Nat /\ n < job[j].begun /\ n \in 0..job[j].n - 1
  BY <1>1, InUse, BlockOf, Constants DEF CountTask, Kinds, Threads, Open, WorkerAt
<1>3. /\ pc'[w] \in {"look", "ended"} /\ at'[w] = Nowhere /\ J(w)' = None
      /\ Frame(w) /\ queue' = queue /\ history' = history
      /\ job' = [job EXCEPT ![j].nf = job[j].nf + 1]
  BY <1>1, <1>2 DEF CountTask, EndOrGoOn, Go, Frame, Typed, J, Nowhere
<1>4. /\ OnlyJob(j) /\ Kind(j)' = "internal" /\ job'[j].refs = job[j].refs
      /\ job'[j].n = job[j].n /\ job'[j].nf = job[j].nf + 1 /\ job'[j].err = job[j].err
      /\ job'[j].begun = job[j].begun /\ job'[j].mask = job[j].mask
  BY <1>2, <1>3, BlockOf DEF OnlyJob, history, Queued, Kind, Typed, Blocks
<1>5. /\ Called(j)' = Called(j) /\ Queued(j)' = Queued(j)
      /\ \A v \in Workers : Drops(v, j)' = Drops(v, j)
      /\ \A q \in Threads \ {w} : \A i : /\ Holds(q, j, i)' = Holds(q, j, i)
                                         /\ (Holds(q, j, i) /\ IsPre(q))' = (Holds(q, j, i) /\ IsPre(q))
  BY <1>2, <1>3, OtherThreads DEF Queued, Drops
<1>6. /\ \A i : Holds(w, j, i) <=> i = n
      /\ \A i : ~Holds(w, j, i)'
      /\ ~IsPre(w)
  BY <1>1, <1>2, <1>3 DEF Holds, IsPre
<1>7. \A q \in Threads \ {w} : ~Holds(q, j, n)
  BY <1>2, <1>6 DEF Alone
<1>8. Open(j)' = Open(j) \ {n}
  <2>1. \A i \in 0..job[j].n - 1 :
          (i >= job[j].begun \/ \E q \in Threads : Holds(q, j, i)')
            <=> (i >= job[j].begun \/ \E q \in Threads : Holds(q, j, i)) /\ i # n
    BY <1>2, <1>5, <1>6, <1>7
  <2> QED BY <1>4, <2>1 DEF Open
<1>9. \A i \in 0..job[j].n - 1 : Pre(j, i)' <=> Pre(j, i)
  BY <1>4, <1>5, <1>6 DEF Pre
<1>10. Cardinality(Open(j)') = Cardinality(Open(j)) - 1 /\ Cardinality(Open(j)) \in Nat
  BY <1>2, <1>8, Finite, Sized
<1>11. Kept2(j)' = Kept2(j)
  BY <1>4, <1>5 DEF Kept2
<1>12. /\ job'[j].refs = One(Called(j)') + One(Kept2(j)')
       /\ job'[j].nf + Cardinality(Open(j)') = job'[j].n
  BY <1>2, <1>4, <1>5, <1>10, <1>11 DEF InternalOK, One
<1>13. result[j] = None
  BY <1>2 DEF InternalOK
<1>14. InternalOK(j)'
  BY <1>2, <1>3, <1>4, <1>5, <1>9, <1>12, <1>13 DEF InternalOK, history
<1>15. JobsOK'
  BY <1>1, <1>2, <1>3, <1>4, <1>14, OtherJobs DEF JobsOK, JobOK
<1>16. Grown(w, j)
  BY <1>2, <1>4, <1>5, BlockOf DEF Grown, Kinds, Queued
<1>17. Claims(w) /\ WorkerAt(w)'
  BY <1>2, <1>3 DEF Claims, WorkerAt, Holds
<1>18. Placed' /\ InOrder'
  BY <1>2, <1>3, <1>4, <1>15, <1>16, <1>17, GrownElsewhere, PlacedKept DEF Nowhere
<1>19. QueueOK'
  BY <1>3 DEF QueueOK
<1> QED BY <1>15, <1>18, <1>19 DEF Sound

\* What a task that is run leaves in the history.
LEMMA RanOf ==
    ASSUME Typed, NEW j \in Jobs, NEW n \in Tasks, Ran(j, n, FALSE)
    PROVE  /\ failed' = failed /\ result' = result
           /\ \A k \in Jobs \ {j} : ran'[k] = ran[k]
           /\ \A i \in Tasks \ {n} : ran'[j][i] = ran[j][i]
           /\ ran'[j][n] = IF ran[j][n] < 2 THEN ran[j][n] + 1 ELSE ran[j][n]
<1>1. /\ ran' = [ran EXCEPT ![j][n] = IF ran[j][n] < 2 THEN ran[j][n] + 1 ELSE ran[j][n]]
      /\ failed' = failed /\ result' = result
  BY DEF Ran
<1>2. ran \in [Jobs -> [Tasks -> 0..2]]
  BY DEF Typed
<1>3. /\ \A k \in Jobs \ {j} : ran'[k] = ran[k]
      /\ ran'[j] = [ran[j] EXCEPT ![n] = IF ran[j][n] < 2 THEN ran[j][n] + 1 ELSE ran[j][n]]
      /\ ran[j] \in [Tasks -> 0..2]
  BY <1>1, <1>2
<1>4. /\ \A i \in Tasks \ {n} : ran'[j][i] = ran[j][i]
      /\ ran'[j][n] = IF ran[j][n] < 2 THEN ran[j][n] + 1 ELSE ran[j][n]
  BY <1>3
<1> QED BY <1>1, <1>3, <1>4

\* A worker runs a user job, or its share of a locales job.
LEMMA ShareSound ==
    ASSUME IndInv, NEW w \in Workers, Share(w)
    PROVE  Sound'
<1>1. PICK j, n : j = J(w) /\ n = at[w].task
  OBVIOUS
<1> USE DEF IndInv
<1>2. /\ j \in Jobs /\ Kind(j) \in {"user", "locales"} /\ Kind(j) \in Kinds /\ n \in Tasks
      /\ pc[w] = "share" /\ w \in Threads /\ w \notin Callers /\ Runs(w, j)
      /\ job[j].refs \in Nat /\ job[j].refs > 0
      /\ w \in Indices /\ w # 0
  <2>1. pc[w] = "share" /\ w \in Threads /\ w \notin Callers /\ w \in Indices /\ w # 0
    BY Constants DEF Share, Threads, Indices, Workers
  <2> QED BY <1>1, <2>1, InUse, BlockOf DEF WorkerAt, Typed, Runs, Kinds
<1>3. /\ pc'[w] \in {"finish", "finishjob"} /\ at'[w] = Nowhere /\ J(w)' = None
      /\ Frame(w) /\ queue' = queue /\ Ran(j, n, FALSE)
      /\ job' = [job EXCEPT ![j].refs = job[j].refs - 1]
  BY <1>1, <1>2 DEF Share, GoWith, Go, Free, Frame, Typed, J, Nowhere
<1>4. /\ failed' = failed /\ result' = result
      /\ \A k \in Jobs \ {j} : ran'[k] = ran[k]
      /\ \A i \in Tasks \ {n} : ran'[j][i] = ran[j][i]
      /\ ran'[j][n] = IF ran[j][n] < 2 THEN ran[j][n] + 1 ELSE ran[j][n]
  BY <1>2, <1>3, RanOf
<1>5. /\ OnlyJob(j) /\ Kind(j)' = Kind(j) /\ job'[j].refs = job[j].refs - 1
      /\ job'[j].n = job[j].n /\ job'[j].nf = job[j].nf /\ job'[j].err = job[j].err
      /\ job'[j].begun = job[j].begun /\ job'[j].mask = job[j].mask
  BY <1>2, <1>3, <1>4, BlockOf DEF OnlyJob, Queued, Kind, Typed, Blocks
<1>6. /\ Called(j)' = Called(j) /\ Enqueuing(j)' = Enqueuing(j) /\ Queued(j)' = Queued(j)
      /\ \A v \in Workers \ {w} : Runs(v, j)' = Runs(v, j)
      /\ ~Runs(w, j)'
  BY <1>2, <1>3, OtherThreads DEF Queued, Runs
<1>7. ASSUME Kind(j) = "user" PROVE JobOK(j)'
  <2>1. /\ UserOK(j) /\ job[j].begun = 2 /\ n = 0
    BY <1>1, <1>2, <1>7, BlockOf DEF WorkerAt
  <2>2. \A v \in Workers : ~Runs(v, j)'
    <3>1. \A v \in Workers \ {w} : ~Runs(v, j)
      BY <1>1, <1>2, <1>7 DEF Alone, Runs, WorkerAt
    <3> QED BY <1>6, <3>1
  <2>3. job[j].refs = 1
    BY <1>2, <2>1 DEF UserOK, One
  <2>4. job'[j].refs = 0 /\ \A i \in Tasks : ran'[j][i] = IF i = 0 THEN 1 ELSE 0
    BY <1>4, <1>5, <2>1, <2>3 DEF UserOK
  <2>5. UserOK(j)'
    BY <1>4, <1>5, <1>6, <2>1, <2>2, <2>4 DEF UserOK, One
  <2> QED BY <1>5, <1>7, <2>5 DEF JobOK
<1>8. ASSUME Kind(j) = "locales" PROVE JobOK(j)'
  <2>1. /\ LocalesOK(j) /\ w \in job[j].mask /\ w \in job[j].begun /\ n = PyxOf(w, job[j].mask)
        /\ job[j].mask \in SUBSET Indices
    BY <1>1, <1>2, <1>8, BlockOf DEF WorkerAt
  <2>2. w \in Pending(j) /\ Pending(j)' = Pending(j) \ {w}
    BY <1>2, <1>5, <1>6, <2>1 DEF Pending
  <2>3. job'[j].refs = Cardinality(Pending(j)')
    <3>1. job[j].refs = Cardinality(Pending(j))
      BY <2>1 DEF LocalesOK
    <3> QED BY <1>5, <2>2, <3>1, Finite, Sized
  <2>4. /\ \A v \in job[j].mask : PyxOf(v, job[j].mask) \in Tasks
        /\ \A v \in job[j].mask : PyxOf(v, job[j].mask) = n => v = w
        /\ PyxOf(0, job[j].mask) = 0
    BY <2>1, PyxOfShare
  <2>5. ran[j][n] = 0
    BY <1>2, <2>1, <2>2 DEF LocalesOK, One
  <2>6. \A v \in job'[j].mask \ {0} : ran'[j][PyxOf(v, job'[j].mask)] = One(v \notin Pending(j)')
    <3>1. ASSUME NEW v \in job[j].mask \ {0}, v # w
          PROVE  ran'[j][PyxOf(v, job[j].mask)] = One(v \notin Pending(j)')
      <4>1. ran'[j][PyxOf(v, job[j].mask)] = ran[j][PyxOf(v, job[j].mask)]
        BY <1>4, <2>4, <3>1
      <4>2. ran[j][PyxOf(v, job[j].mask)] = One(v \notin Pending(j))
        BY <2>1 DEF LocalesOK
      <4> QED BY <2>2, <3>1, <4>1, <4>2 DEF One
    <3>2. ran'[j][PyxOf(w, job[j].mask)] = One(w \notin Pending(j)')
      BY <1>4, <2>1, <2>2, <2>5 DEF One
    <3> QED BY <1>5, <2>1, <3>1, <3>2
  <2>7. \A i \in Tasks : (\A v \in job'[j].mask : i # PyxOf(v, job'[j].mask)) => ran'[j][i] = 0
    BY <1>4, <1>5, <2>1 DEF LocalesOK
  <2>8. 0 \in job'[j].mask => ran'[j][0] = One(~Called(j)')
    <3>1. 0 \in job[j].mask => 0 # n
      BY <1>2, <2>4
    <3> QED BY <1>4, <1>5, <1>6, <2>1, <3>1, Constants DEF LocalesOK
  <2>9. /\ job'[j].n = 0 /\ job'[j].nf = 0 /\ job'[j].err = 0 /\ result'[j] = None /\ failed'[j] = {}
        /\ job'[j].mask \ {0} # {}
        /\ {0} \cup (Indices \ job'[j].mask) \subseteq job'[j].begun /\ job'[j].begun \subseteq Indices
        /\ Enqueuing(j)' => job'[j].begun = {0} \cup (Indices \ job'[j].mask)
        /\ Queued(j)' <=> job'[j].begun # Indices /\ ~Enqueuing(j)'
    BY <1>4, <1>5, <1>6, <2>1 DEF LocalesOK
  <2>10. LocalesOK(j)'
    BY <2>3, <2>6, <2>7, <2>8, <2>9 DEF LocalesOK, PyxOf
  <2> QED BY <1>5, <1>8, <2>10 DEF JobOK
<1>9. JobsOK'
  BY <1>1, <1>2, <1>3, <1>5, <1>7, <1>8, OtherJobs DEF JobsOK
<1>10. Grown(w, j)
  BY <1>2, <1>5, <1>6, BlockOf DEF Grown, Kinds, Queued
<1>11. Claims(w) /\ WorkerAt(w)'
  BY <1>2, <1>3 DEF Claims, WorkerAt, Holds
<1>12. Placed' /\ InOrder'
  BY <1>2, <1>3, <1>5, <1>9, <1>10, <1>11, GrownElsewhere, PlacedKept DEF Nowhere
<1>13. QueueOK'
  BY <1>3 DEF QueueOK
<1> QED BY <1>9, <1>12, <1>13 DEF Sound

-----------------------------------------------------------------------------
\* Queueing.

\* No other thread is at a job that is yet to be queued, and it has not been run.
LEMMA NotQueuedYet ==
    ASSUME IndInv, NEW c \in Callers, pc[c] = "enqueue", NEW j, j = J(c)
    PROVE  /\ j \in Jobs /\ Kind(j) \in {"user", "locales"} /\ Kind(j) \in Kinds /\ ~Queued(j)
           /\ c \in Threads /\ c \notin Workers
           /\ Enqueuing(j) /\ Called(j) /\ InCallOf(c, j)
           /\ \A q \in Threads \ {c} : J(q) # j
           /\ \A w \in Workers : ~Runs(w, j)
           /\ result[j] = None /\ failed[j] = {}
           /\ \A i \in Tasks : ran[j][i] < 2 /\ (Kind(j) = "user" => ran[j][i] = 0)
<1> USE DEF IndInv
<1>1. /\ j \in Jobs /\ Kind(j) \in {"user", "locales"} /\ Kind(j) \in Kinds
      /\ c \in Threads /\ c \notin Workers
      /\ Enqueuing(j) /\ Called(j) /\ InCallOf(c, j)
  BY Constants DEF CallerAt, Enqueuing, Called, InCallOf, Kinds, Threads
<1>2. ~Queued(j)
  BY <1>1, BlockOf DEF UserOK, LocalesOK
<1>3. ASSUME NEW w \in Workers PROVE J(w) # j
  <2> SUFFICES ASSUME J(w) = j PROVE FALSE
    OBVIOUS
  <2>1. J(w) # None
    BY <1>1, Constants
  <2>2. pc[w] \in {"kick", "wake", "share"}
    BY <1>1, <2>1 DEF WorkerAt, J, Nowhere
  <2>3. CASE Kind(j) = "user"
    <3>1. job[j].begun = 2
      BY <2>2, <2>3 DEF WorkerAt
    <3> QED BY <1>1, <2>3, <3>1, BlockOf DEF UserOK
  <2>4. CASE Kind(j) = "locales"
    <3>1. w \in job[j].mask /\ w \in job[j].begun
      BY <2>2, <2>4 DEF WorkerAt
    <3>2. job[j].begun = {0} \cup (Indices \ job[j].mask)
      BY <1>1, <2>4, BlockOf DEF LocalesOK
    <3> QED BY <3>1, <3>2, Constants DEF Workers
  <2> QED BY <1>1, <2>3, <2>4
<1>4. ASSUME NEW d \in Callers \ {c} PROVE J(d) # j
  <2>1. pc[d] = "idle" => J(d) = None
    BY DEF CallerAt, J, Nowhere
  <2> QED BY <1>1, <2>1, Constants DEF Alone
<1>5. \A q \in Threads \ {c} : J(q) # j
  BY <1>3, <1>4 DEF Threads
<1>6. \A w \in Workers : ~Runs(w, j)
  BY <1>3 DEF Runs
<1>7. result[j] = None /\ failed[j] = {}
  BY <1>1, BlockOf DEF UserOK, LocalesOK
<1>8. ASSUME NEW i \in Tasks PROVE ran[j][i] < 2 /\ (Kind(j) = "user" => ran[j][i] = 0)
  <2>1. CASE Kind(j) = "user"
    <3>1. UserOK(j) /\ job[j].begun = 1
      BY <1>1, <2>1, BlockOf DEF UserOK
    <3> QED BY <3>1 DEF UserOK, One
  <2>2. CASE Kind(j) = "locales"
    <3>1. LocalesOK(j) /\ job[j].mask \in SUBSET Indices
      BY <1>1, <2>2, BlockOf
    <3>2. CASE \E v \in job[j].mask : i = PyxOf(v, job[j].mask)
      <4>1. PICK v \in job[j].mask : i = PyxOf(v, job[j].mask)
        BY <3>2
      <4>2. CASE v = 0
        BY <2>2, <3>1, <4>1, <4>2, PyxOfShare DEF LocalesOK, One
      <4>3. CASE v # 0
        BY <2>2, <3>1, <4>1, <4>3 DEF LocalesOK, One
      <4> QED BY <4>2, <4>3
    <3>3. CASE ~\E v \in job[j].mask : i = PyxOf(v, job[j].mask)
      BY <2>2, <3>1, <3>3 DEF LocalesOK
    <3> QED BY <3>2, <3>3
  <2> QED BY <1>1, <2>1, <2>2
<1> QED BY <1>1, <1>2, <1>5, <1>6, <1>7, <1>8

\* So does a call that appends its block to the queue.
LEMMA QueuedSound ==
    ASSUME IndInv, NEW c \in Callers, NEW j, j = J(c), pc[c] = "enqueue", AppendJob(j),
           pc' = [pc EXCEPT ![c] = IF Kind(j) = "locales" THEN "wakeall" ELSE "wakeone"],
           UNCHANGED <<job, at, history>>
    PROVE  Sound'
<1> USE DEF IndInv
<1>1. /\ j \in Jobs /\ Kind(j) \in {"user", "locales"} /\ Kind(j) \in Kinds /\ ~Queued(j)
      /\ c \in Threads /\ c \notin Workers
      /\ Enqueuing(j) /\ Called(j) /\ InCallOf(c, j)
      /\ \A q \in Threads \ {c} : J(q) # j
      /\ \A w \in Workers : ~Runs(w, j)
  BY NotQueuedYet
<1>2. /\ pc'[c] = IF Kind(j) = "locales" THEN "wakeall" ELSE "wakeone"
      /\ at' = at /\ J(c)' = j /\ Frame(c) /\ job' = job /\ ran' = ran /\ failed' = failed /\ result' = result
      /\ queue' = Append(queue, j)
  BY <1>1 DEF Frame, Typed, J, history, AppendJob
<1>3. /\ \A k : Queued(k)' = (Queued(k) \/ k = j)
      /\ QueueOK' /\ OnlyJob(j)
  BY <1>1, <1>2, AfterAppend DEF OnlyJob, Queued
<1>4. Called(j)' /\ ~Enqueuing(j)' /\ \A w \in Workers : Runs(w, j)' = Runs(w, j)
  <2>1. Called(j)'
    BY <1>2 DEF Called, InCallOf
  <2>2. ~Enqueuing(j)'
    BY <1>1, <1>2 DEF Enqueuing, Frame, J, Threads
  <2>3. \A w \in Workers : Runs(w, j)' = Runs(w, j)
    BY <1>1, <1>2, OtherThreads
  <2> QED BY <2>1, <2>2, <2>3
<1>5. Kind(j)' = Kind(j)
  BY <1>2 DEF Kind
<1>6. ASSUME Kind(j) = "user" PROVE JobOK(j)'
  <2>1. UserOK(j)
    BY <1>1, <1>6, BlockOf
  <2>2. UserOK(j)'
    BY <1>1, <1>2, <1>3, <1>4, <2>1 DEF UserOK, One
  <2> QED BY <1>5, <1>6, <2>2 DEF JobOK
<1>7. ASSUME Kind(j) = "locales" PROVE JobOK(j)'
  <2>1. LocalesOK(j) /\ job[j].mask \in SUBSET Indices
    BY <1>1, <1>7, BlockOf
  <2>2. Pending(j)' = Pending(j)
    BY <1>2, <1>4 DEF Pending
  <2>3. job[j].begun # Indices
    BY <1>1, <2>1 DEF LocalesOK
  <2>4. /\ job'[j].begun \subseteq Indices /\ {0} \cup (Indices \ job'[j].mask) \subseteq job'[j].begun
        /\ ~Enqueuing(j)' /\ (Queued(j)' <=> job'[j].begun # Indices)
    BY <1>1, <1>2, <1>3, <1>4, <2>1, <2>3 DEF LocalesOK
  <2>5. /\ \A v \in job'[j].mask \ {0} : ran'[j][PyxOf(v, job'[j].mask)] = One(v \notin Pending(j)')
        /\ \A i \in Tasks : (\A v \in job'[j].mask : i # PyxOf(v, job'[j].mask)) => ran'[j][i] = 0
        /\ 0 \in job'[j].mask => ran'[j][0] = One(~Called(j)')
    BY <1>1, <1>2, <1>4, <2>1, <2>2 DEF LocalesOK, One
  <2>6. /\ job'[j].n = 0 /\ job'[j].nf = 0 /\ job'[j].err = 0 /\ result'[j] = None /\ failed'[j] = {}
        /\ job'[j].mask \ {0} # {} /\ job'[j].refs = Cardinality(Pending(j)')
    BY <1>1, <1>2, <2>1, <2>2 DEF LocalesOK
  <2>7. LocalesOK(j)'
    BY <2>4, <2>5, <2>6 DEF LocalesOK, PyxOf
  <2> QED BY <1>5, <1>7, <2>7 DEF JobOK
<1>8. JobsOK'
  BY <1>1, <1>2, <1>3, <1>6, <1>7, OtherJobs DEF JobsOK
<1>9. Grown(c, j)
  BY <1>1 DEF Grown
<1>10. Claims(c) /\ CallerAt(c)'
  <2>1. Claims(c)
    BY <1>1, <1>2, <1>5, Constants DEF Claims, Holds, Kind, Threads
  <2>2. CallerAt(c)'
    BY <1>1, <1>2, <1>5 DEF CallerAt
  <2> QED BY <2>1, <2>2
<1>11. at[c].err = 0
  BY <1>1 DEF Errs
<1>12. Placed' /\ InOrder'
  BY <1>1, <1>2, <1>3, <1>5, <1>8, <1>9, <1>10, <1>11, GrownElsewhere, PlacedKept
<1> QED BY <1>3, <1>8, <1>12 DEF Sound

\* The caller frees the block and runs the verb itself, or fails.
LEMMA SelfSound ==
    ASSUME IndInv, NEW c \in Callers, NEW j \in Jobs, NEW r, Self(c, j, r), queue' = queue,
           ~Queued(j), \A q \in Threads \ {c} : J(q) # j, J(c) \in {j, None},
           result[j] = None, failed[j] = {},
           \A i \in Tasks : ran[j][i] < 2 /\ (r.kind # "locales" => ran[j][i] = 0)
    PROVE  /\ JobsOK' /\ Placed' /\ QueueOK'
           /\ job' = [job EXCEPT ![j] = Gone] /\ at' = [at EXCEPT ![c] = Nowhere]
           /\ pc' = [pc EXCEPT ![c] = "idle"]
<1> USE DEF IndInv
<1>1. /\ job' = [job EXCEPT ![j] = Gone] /\ at' = [at EXCEPT ![c] = Nowhere]
      /\ pc' = [pc EXCEPT ![c] = "idle"]
      /\ IF r.kind = "locales" THEN UNCHANGED history ELSE Ran(j, 0, FALSE)
      /\ c \in Threads /\ c \notin Workers /\ 0 \in Tasks
  BY Constants DEF Self, GoWith, Go, Threads
<1>2. /\ pc'[c] = "idle" /\ at'[c] = Nowhere /\ J(c)' = None /\ Frame(c) /\ Kind(j)' = "gone"
      /\ \A k \in Jobs \ {j} : job'[k] = job[k]
  BY <1>1 DEF Frame, Typed, J, Nowhere, Gone, Kind
<1>3. /\ failed' = failed /\ result' = result
      /\ \A k \in Jobs \ {j} : ran'[k] = ran[k]
      /\ \A i \in Tasks : ran'[j][i] < 2
  <2>1. CASE r.kind = "locales"
    BY <1>1, <2>1 DEF history
  <2>2. CASE r.kind # "locales"
    <3>1. Ran(j, 0, FALSE) /\ \A i \in Tasks : ran[j][i] = 0
      BY <1>1, <2>2
    <3>2. /\ failed' = failed /\ result' = result
          /\ \A k \in Jobs \ {j} : ran'[k] = ran[k]
          /\ \A i \in Tasks \ {0} : ran'[j][i] = ran[j][i]
          /\ ran'[j][0] = IF ran[j][0] < 2 THEN ran[j][0] + 1 ELSE ran[j][0]
      BY <1>1, <3>1, RanOf
    <3>3. ran'[j][0] = 1
      BY <1>1, <3>1, <3>2
    <3>4. \A i \in Tasks : ran'[j][i] < 2
      BY <3>1, <3>2, <3>3
    <3> QED BY <3>2, <3>4
  <2> QED BY <2>1, <2>2
<1>4. OnlyJob(j) /\ ~Queued(j)'
  BY <1>2, <1>3 DEF OnlyJob, Queued
<1>5. ~Called(j)'
  <2>1. ASSUME NEW d \in Callers PROVE ~InCallOf(d, j)'
    <3>1. CASE d = c
      BY <1>2, <3>1 DEF InCallOf
    <3>2. CASE d # c
      BY <1>2, <3>2 DEF InCallOf, Frame, J, Threads
    <3> QED BY <3>1, <3>2
  <2> QED BY <2>1 DEF Called
<1>6. GoneOK(j)'
  BY <1>3, <1>4, <1>5 DEF GoneOK
<1>7. JobsOK'
  BY <1>1, <1>2, <1>4, <1>6, OtherJobs DEF JobsOK, JobOK
<1>8. Grown(c, j)
  BY DEF Grown
<1>9. Claims(c) /\ CallerAt(c)'
  BY <1>1, <1>2 DEF Claims, CallerAt, Holds
<1>10. Placed'
  BY <1>1, <1>2, <1>4, <1>7, <1>8, <1>9, GrownElsewhere, PlacedKept DEF Nowhere
<1>11. QueueOK'
  BY DEF QueueOK
<1> QED BY <1>1, <1>7, <1>10, <1>11

\* Every way out of the enqueueing of a block keeps jobs and
\* threads sound: appended, or refused and freed by the caller.
LEMMA EnqueueSound ==
    ASSUME IndInv, NEW c \in Callers, Enqueue(c)
    PROVE  Sound'
<1>1. PICK j : j = J(c)
  OBVIOUS
<1>2. pc[c] = "enqueue"
  BY DEF Enqueue
<1>3. CASE RoomFor(job[j])
  <2>1. /\ AppendJob(j) /\ UNCHANGED <<job, at, history>>
        /\ pc' = [pc EXCEPT ![c] = IF Kind(j) = "locales" THEN "wakeall" ELSE "wakeone"]
    BY <1>1, <1>3 DEF Enqueue, Go, Kind
  <2> QED BY <1>1, <1>2, <2>1, QueuedSound
<1>4. CASE ~RoomFor(job[j])
  <2>1. Self(c, j, job[j]) /\ queue' = queue
    BY <1>1, <1>4 DEF Enqueue
  <2>2. /\ j \in Jobs /\ Kind(j) \in {"user", "locales"} /\ ~Queued(j)
        /\ \A q \in Threads \ {c} : J(q) # j
        /\ result[j] = None /\ failed[j] = {}
        /\ \A i \in Tasks : ran[j][i] < 2 /\ (Kind(j) = "user" => ran[j][i] = 0)
    BY <1>1, <1>2, NotQueuedYet
  <2>3. \A i \in Tasks : ran[j][i] < 2 /\ (job[j].kind # "locales" => ran[j][i] = 0)
    BY <2>2 DEF Kind
  <2>4. /\ JobsOK' /\ Placed' /\ QueueOK' /\ job' = [job EXCEPT ![j] = Gone]
    BY <1>1, <2>1, <2>2, <2>3, SelfSound
  <2>5. InOrder'
    <3>1. \A k \in Jobs : (Kind(k)' = "none") = (Kind(k) = "none")
      BY <2>2, <2>4 DEF Kind, Gone, IndInv, Typed
    <3> QED BY <3>1 DEF InOrder, IndInv
  <2> QED BY <2>4, <2>5 DEF Sound
<1> QED BY <1>3, <1>4

\* The caller wakes the workers and goes on.
LEMMA WakeSound ==
    ASSUME IndInv, NEW c \in Callers, Wake(c)
    PROVE  Sound'
<1>1. PICK j, next : /\ j = J(c)
                     /\ next = IF job[j].kind = "locales" /\ 0 \in job[j].mask THEN "ownshare"
                               ELSE IF job[j].kind = "internal" THEN "own" ELSE "idle"
  OBVIOUS
<1> USE DEF IndInv
<1>2. /\ pc[c] \in {"wakeall", "wakeone"} /\ c \in Threads /\ c \notin Workers
      /\ j \in Jobs /\ Kind(j) \in Kinds /\ InCallOf(c, j)
      /\ pc[c] = "wakeone" => Kind(j) = "user"
      /\ pc[c] = "wakeall" => Kind(j) \in {"locales", "internal"}
      /\ (pc[c] = "wakeall" /\ WakeAll(c, next)) \/ (pc[c] = "wakeone" /\ WakeOne(c, next))
      /\ at' = [at EXCEPT ![c] = IF next = "idle" THEN Nowhere ELSE at[c]]
      /\ UNCHANGED <<queue, job, history>>
  BY <1>1, Constants DEF Wake, Threads, CallerAt, Kinds, InCallOf
<1>3. /\ pc'[c] = next /\ at'[c] = IF next = "idle" THEN Nowhere ELSE at[c]
      /\ J(c)' = IF next = "idle" THEN None ELSE j
      /\ queue' = queue /\ job' = job /\ ran' = ran /\ failed' = failed /\ result' = result
  <2>1. pc'[c] = next
    <3>1. CASE WakeAll(c, next)
      BY <1>2, <3>1 DEF WakeAll
    <3>2. CASE WakeOne(c, next)
      <4>1. CASE Asleep = {}
        BY <1>2, <3>2, <4>1 DEF WakeOne, Go, Typed
      <4>2. CASE Asleep # {}
        <5>1. PICK w \in Asleep : pc' = [pc EXCEPT ![c] = next, ![w] = "polling"]
          BY <3>2, <4>2 DEF WakeOne
        <5>2. w # c
          BY <1>2, <5>1 DEF Asleep
        <5> QED BY <1>2, <5>1, <5>2 DEF Typed
      <4> QED BY <4>1, <4>2
    <3> QED BY <1>2, <3>1, <3>2
  <2> QED BY <1>1, <1>2, <2>1 DEF Typed, J, Nowhere, history
<1>4. Frame(c)
  <2>1. \A q \in Threads \ {c} : at'[q] = at[q]
    BY <1>2 DEF Typed
  <2>2. \A q \in Threads \ {c} : pc'[q] = pc[q] \/ (pc[q] = "asleep" /\ pc'[q] = "polling")
    <3>1. CASE WakeAll(c, next)
      BY <3>1 DEF WakeAll
    <3>2. CASE WakeOne(c, next)
      <4>1. CASE Asleep = {}
        BY <3>2, <4>1 DEF WakeOne, Go, Typed
      <4>2. CASE Asleep # {}
        <5>1. PICK w \in Asleep : pc' = [pc EXCEPT ![c] = next, ![w] = "polling"]
          BY <3>2, <4>2 DEF WakeOne
        <5> QED BY <5>1 DEF Typed, Asleep, Threads
      <4> QED BY <4>1, <4>2
    <3> QED BY <1>2, <3>1, <3>2
  <2> QED BY <2>1, <2>2 DEF Frame
<1>5. /\ OnlyJob(j) /\ Kind(j)' = Kind(j) /\ Queued(j)' = Queued(j) /\ QueueOK'
      /\ ~Enqueuing(j) /\ ~Enqueuing(j)'
      /\ \A w \in Workers : Runs(w, j)' = Runs(w, j) /\ Drops(w, j)' = Drops(w, j)
      /\ \A d \in Callers \ {c} : ~InCallOf(d, j) /\ ~InCallOf(d, j)'
      /\ \A q \in Threads \ {c} : \A i : /\ Holds(q, j, i)' = Holds(q, j, i)
                                         /\ (Holds(q, j, i) /\ IsPre(q))' = (Holds(q, j, i) /\ IsPre(q))
  <2>1. \A d \in Callers \ {c} : ~InCallOf(d, j) /\ ~InCallOf(d, j)'
    BY <1>2, <1>4, OtherThreads DEF Alone, InCallOf
  <2>2. ~Enqueuing(j) /\ ~Enqueuing(j)'
    BY <1>1, <1>2, <1>3, <2>1 DEF Enqueuing, InCallOf
  <2> QED BY <1>2, <1>3, <1>4, <2>1, <2>2, OtherThreads DEF OnlyJob, Queued, QueueOK, Kind
<1>6. ASSUME Kind(j) = "user" PROVE JobOK(j)'
  <2>1. UserOK(j)
    BY <1>2, <1>6, BlockOf
  <2>2. UserOK(j)'
    BY <1>3, <1>5, <2>1 DEF UserOK, One
  <2> QED BY <1>5, <1>6, <2>2 DEF JobOK
<1>7. ASSUME Kind(j) = "locales" PROVE JobOK(j)'
  <2>1. LocalesOK(j)
    BY <1>2, <1>7, BlockOf
  <2>2. Pending(j)' = Pending(j)
    BY <1>3, <1>5 DEF Pending
  <2>3. 0 \in job[j].mask => Called(j) /\ Called(j)'
    BY <1>1, <1>2, <1>3, <1>7 DEF Called, InCallOf, Kind
  <2>4. /\ \A v \in job'[j].mask \ {0} : ran'[j][PyxOf(v, job'[j].mask)] = One(v \notin Pending(j)')
        /\ \A i \in Tasks : (\A v \in job'[j].mask : i # PyxOf(v, job'[j].mask)) => ran'[j][i] = 0
        /\ 0 \in job'[j].mask => ran'[j][0] = One(~Called(j)')
    BY <1>3, <2>1, <2>2, <2>3 DEF LocalesOK, One
  <2>5. /\ job'[j].n = 0 /\ job'[j].nf = 0 /\ job'[j].err = 0 /\ result'[j] = None /\ failed'[j] = {}
        /\ job'[j].mask \ {0} # {} /\ job'[j].refs = Cardinality(Pending(j)')
        /\ {0} \cup (Indices \ job'[j].mask) \subseteq job'[j].begun /\ job'[j].begun \subseteq Indices
        /\ (Queued(j)' <=> job'[j].begun # Indices /\ ~Enqueuing(j)')
    BY <1>3, <1>5, <2>1, <2>2 DEF LocalesOK
  <2>6. LocalesOK(j)'
    BY <1>5, <2>4, <2>5 DEF LocalesOK, PyxOf
  <2> QED BY <1>5, <1>7, <2>6 DEF JobOK
<1>8. ASSUME Kind(j) = "internal" PROVE JobOK(j)' /\ pc[c] = "wakeall" /\ next = "own"
  <2>1. InternalOK(j) /\ pc[c] = "wakeall" /\ next = "own"
    BY <1>1, <1>2, <1>8, BlockOf DEF Kind
  <2>2. /\ \A i : Holds(c, j, i)' <=> Holds(c, j, i)
        /\ IsPre(c)' /\ IsPre(c) /\ Called(j) /\ Called(j)' /\ Kept2(j)' = Kept2(j)
    BY <1>1, <1>2, <1>3, <1>5, <2>1 DEF Holds, IsPre, Called, InCallOf, Kept2, J
  <2>3. Open(j)' = Open(j) /\ \A i \in 0..job[j].n - 1 : Pre(j, i)' <=> Pre(j, i)
    BY <1>3, <1>5, <2>2 DEF Open, Pre
  <2>4. InternalOK(j)'
    BY <1>3, <1>5, <2>1, <2>2, <2>3 DEF InternalOK, One
  <2> QED BY <1>5, <1>8, <2>1, <2>4 DEF JobOK
<1>9. JobsOK'
  <2>1. J(c) \in {j, None} /\ J(c)' \in {j, None}
    BY <1>1, <1>3
  <2> QED BY <1>2, <1>4, <1>5, <1>6, <1>7, <1>8, <2>1, OtherJobs DEF JobsOK, Kinds
<1>10. Grown(c, j)
  BY <1>2, <1>3, <1>5, BlockOf DEF Grown, Kinds, Queued
<1>11. Claims(c)
  <2>1. \A k \in Jobs : (Kind(k) = "internal")' => \A i \in Tasks : Holds(c, k, i)' => Holds(c, k, i)
    BY <1>1, <1>2, <1>3, <1>5, <1>8 DEF Holds, J, Kind
  <2>2. \A d \in Callers \ {c} : pc[d] # "idle" => J(d) # j
    BY <1>5 DEF InCallOf
  <2>3. \A k \in Jobs : Kind(k)' = Kind(k)
    BY <1>3 DEF Kind
  <2> QED BY <1>1, <1>2, <1>3, <2>1, <2>2, <2>3 DEF Claims, Alone
<1>12. CallerAt(c)'
  BY <1>1, <1>2, <1>3, <1>5, <1>8 DEF CallerAt, Nowhere, Kind, J
<1>13. at'[c].err # 0 => (Kind(J(c)) = "internal")' /\ (job[J(c)].err # 0)'
  <2>1. at'[c].err # 0 => Kind(j)' = "internal" /\ job'[j].err # 0 /\ J(c)' = j
    BY <1>1, <1>2, <1>3, <1>5 DEF Errs, Nowhere
  <2> QED BY <2>1 DEF Kind
<1>14. Placed' /\ InOrder'
  BY <1>2, <1>4, <1>5, <1>9, <1>10, <1>11, <1>12, <1>13, GrownElsewhere, PlacedKept
<1> QED BY <1>5, <1>9, <1>14 DEF Sound

\* The caller runs its own share.
LEMMA OwnShareSound ==
    ASSUME IndInv, NEW c \in Callers, OwnShare(c)
    PROVE  Sound'
<1>1. PICK j : j = J(c)
  OBVIOUS
<1> USE DEF IndInv
<1>2. /\ pc[c] = "ownshare" /\ c \in Threads /\ c \notin Workers /\ 0 \in Tasks
      /\ j \in Jobs /\ Kind(j) = "locales" /\ 0 \in job[j].mask /\ Kind(j) \in Kinds
      /\ InCallOf(c, j) /\ Called(j)
      /\ Ran(j, 0, FALSE) /\ pc' = [pc EXCEPT ![c] = "idle"] /\ at' = [at EXCEPT ![c] = Nowhere]
      /\ queue' = queue /\ job' = job
  BY <1>1, Constants DEF OwnShare, GoWith, Go, Threads, CallerAt, Kinds, InCallOf, Called
<1>3. /\ pc'[c] = "idle" /\ at'[c] = Nowhere /\ J(c)' = None /\ Frame(c)
  BY <1>2 DEF Frame, Typed, J, Nowhere
<1>4. /\ failed' = failed /\ result' = result
      /\ \A k \in Jobs \ {j} : ran'[k] = ran[k]
      /\ \A i \in Tasks \ {0} : ran'[j][i] = ran[j][i]
      /\ ran'[j][0] = IF ran[j][0] < 2 THEN ran[j][0] + 1 ELSE ran[j][0]
  BY <1>2, RanOf
<1>5. /\ OnlyJob(j) /\ Kind(j)' = Kind(j) /\ Queued(j)' = Queued(j) /\ QueueOK'
      /\ ~Enqueuing(j) /\ ~Enqueuing(j)' /\ ~Called(j)'
      /\ \A w \in Workers : Runs(w, j)' = Runs(w, j)
  <2>1. \A d \in Callers \ {c} : ~InCallOf(d, j) /\ ~InCallOf(d, j)'
    BY <1>2, <1>3, OtherThreads DEF Alone, InCallOf
  <2>2. ~Enqueuing(j) /\ ~Enqueuing(j)' /\ ~Called(j)'
    BY <1>1, <1>2, <1>3, <2>1 DEF Enqueuing, InCallOf, Called
  <2> QED BY <1>2, <1>3, <1>4, <2>2, OtherThreads DEF OnlyJob, Queued, QueueOK, Kind
<1>6. LocalesOK(j)'
  <2>1. LocalesOK(j) /\ job[j].mask \in SUBSET Indices
    BY <1>2, BlockOf
  <2>2. Pending(j)' = Pending(j)
    BY <1>2, <1>5 DEF Pending
  <2>3. /\ \A v \in job[j].mask : PyxOf(v, job[j].mask) \in Tasks
        /\ \A v \in job[j].mask : PyxOf(v, job[j].mask) = 0 => v = 0
        /\ PyxOf(0, job[j].mask) = 0
    <3>1. /\ \A v \in Indices : PyxOf(v, job[j].mask) \in Tasks
          /\ \A v, x \in job[j].mask : PyxOf(v, job[j].mask) = PyxOf(x, job[j].mask) => v = x
          /\ PyxOf(0, job[j].mask) = 0
      BY <2>1, PyxOfShare
    <3> QED BY <1>2, <2>1, <3>1
  <2>4. ran'[j][0] = 1
    BY <1>2, <1>4, <2>1 DEF LocalesOK, One
  <2>5. \A v \in job'[j].mask \ {0} : ran'[j][PyxOf(v, job'[j].mask)] = One(v \notin Pending(j)')
    BY <1>2, <1>4, <2>1, <2>2, <2>3 DEF LocalesOK, One
  <2>6. \A i \in Tasks : (\A v \in job'[j].mask : i # PyxOf(v, job'[j].mask)) => ran'[j][i] = 0
    BY <1>2, <1>4, <2>1, <2>3 DEF LocalesOK
  <2>7. 0 \in job'[j].mask => ran'[j][0] = One(~Called(j)')
    BY <1>5, <2>4 DEF One
  <2>8. /\ job'[j].n = 0 /\ job'[j].nf = 0 /\ job'[j].err = 0 /\ result'[j] = None /\ failed'[j] = {}
        /\ job'[j].mask \ {0} # {} /\ job'[j].refs = Cardinality(Pending(j)')
        /\ {0} \cup (Indices \ job'[j].mask) \subseteq job'[j].begun /\ job'[j].begun \subseteq Indices
        /\ (Queued(j)' <=> job'[j].begun # Indices /\ ~Enqueuing(j)')
    BY <1>2, <1>4, <1>5, <2>1, <2>2 DEF LocalesOK
  <2> QED BY <1>5, <2>5, <2>6, <2>7, <2>8 DEF LocalesOK, PyxOf
<1>7. JobsOK'
  BY <1>1, <1>2, <1>3, <1>5, <1>6, OtherJobs DEF JobsOK, JobOK
<1>8. Grown(c, j)
  BY <1>2, <1>5, BlockOf DEF Grown, Kinds, Queued
<1>9. Claims(c) /\ CallerAt(c)'
  BY <1>2, <1>3 DEF Claims, CallerAt, Holds
<1>10. Placed' /\ InOrder'
  BY <1>2, <1>3, <1>5, <1>7, <1>8, <1>9, GrownElsewhere, PlacedKept DEF Nowhere
<1> QED BY <1>5, <1>7, <1>10 DEF Sound

\* jtjobrun queues its tasks.
LEMMA AppendTasksSound ==
    ASSUME IndInv, NEW c \in Callers, AppendTasks(c)
    PROVE  Sound'
<1>1. PICK j : j = J(c)
  OBVIOUS
<1> USE DEF IndInv
<1>2. /\ pc[c] = "append" /\ c \in Threads /\ c \notin Workers
      /\ j \in Jobs /\ Kind(j) = "internal" /\ Kind(j) \in Kinds /\ ~Queued(j)
      /\ at[c].task < job[j].n /\ at[c].task < job[j].begun /\ job[j].begun < job[j].n
      /\ InCallOf(c, j) /\ Called(j)
      /\ pc' = [pc EXCEPT ![c] = IF waiters # 0 THEN "wakeall" ELSE "own"]
      /\ queue' = Append(queue, j) /\ job' = job /\ at' = at /\ history' = history
  BY <1>1, Constants DEF AppendTasks, AppendJob, Go, Threads, CallerAt, Kinds, InCallOf, Called
<1>3. /\ pc'[c] \in {"wakeall", "own"} /\ at'[c] = at[c] /\ J(c)' = j /\ Frame(c)
      /\ ran' = ran /\ failed' = failed /\ result' = result
  BY <1>1, <1>2 DEF Frame, Typed, J, history
<1>4. /\ \A k : Queued(k)' = (Queued(k) \/ k = j)
      /\ QueueOK' /\ OnlyJob(j) /\ Kind(j)' = Kind(j) /\ Queued(j)'
  BY <1>2, <1>3, AfterAppend DEF OnlyJob, Queued, Kind
<1>5. /\ \A w \in Workers : Drops(w, j)' = Drops(w, j)
      /\ \A d \in Callers \ {c} : ~InCallOf(d, j)
      /\ \A q \in Threads : \A i : /\ Holds(q, j, i)' = Holds(q, j, i)
                                   /\ (Holds(q, j, i) /\ IsPre(q))' = (Holds(q, j, i) /\ IsPre(q))
  <2>1. \A w \in Workers : Drops(w, j)' = Drops(w, j)
    BY <1>2, <1>3, OtherThreads
  <2>2. \A i : /\ Holds(c, j, i)' = Holds(c, j, i)
               /\ (Holds(c, j, i) /\ IsPre(c))' = (Holds(c, j, i) /\ IsPre(c))
    BY <1>1, <1>2, <1>3 DEF Holds, IsPre
  <2>3. \A d \in Callers \ {c} : ~InCallOf(d, j)
    BY <1>2 DEF Alone, InCallOf
  <2> QED BY <1>2, <1>3, <2>1, <2>2, <2>3, OtherThreads
<1>6. InternalOK(j)'
  <2>1. InternalOK(j) /\ job[j].begun \in Nat /\ job[j].n \in Nat
    BY <1>2, BlockOf
  <2>2. Called(j)'
    BY <1>3 DEF Called, InCallOf
  <2>3. ~Kept2(j) /\ ~Kept2(j)'
    <3>1. \A w \in Workers : ~Drops(w, j)
      BY <1>2, <2>1 DEF Drops, WorkerAt
    <3> QED BY <1>2, <1>5, <2>1, <3>1 DEF Kept2
  <2>4. Open(j)' = Open(j) /\ \A i \in 0..job[j].n - 1 : Pre(j, i)' <=> Pre(j, i)
    BY <1>2, <1>5 DEF Open, Pre
  <2> QED BY <1>2, <1>3, <1>4, <2>1, <2>2, <2>3, <2>4 DEF InternalOK, One
<1>7. JobsOK'
  BY <1>1, <1>2, <1>3, <1>4, <1>6, OtherJobs DEF JobsOK, JobOK
<1>8. Grown(c, j)
  BY <1>2, <1>4, BlockOf DEF Grown, Kinds
<1>9. Claims(c)
  <2>1. \A k \in Jobs : \A i \in Tasks : Holds(c, k, i)' => Holds(c, k, i)
    BY <1>1, <1>2, <1>3 DEF Holds, J
  <2>2. \A d \in Callers \ {c} : pc[d] # "idle" => J(d) # j
    BY <1>5 DEF InCallOf
  <2>3. \A k \in Jobs : Kind(k)' = Kind(k)
    BY <1>2 DEF Kind
  <2> QED BY <1>1, <1>2, <1>3, <2>1, <2>2, <2>3 DEF Claims, Alone
<1>10. CallerAt(c)'
  BY <1>1, <1>2, <1>3, <1>4 DEF CallerAt, Kind
<1>11. at'[c].err # 0 => (Kind(J(c)) = "internal")' /\ (job[J(c)].err # 0)'
  <2>1. at'[c].err # 0 => Kind(j)' = "internal" /\ job'[j].err # 0
    BY <1>1, <1>2, <1>3, <1>4 DEF Errs
  <2> QED BY <1>3, <2>1 DEF Kind
<1>12. Placed' /\ InOrder'
  BY <1>2, <1>3, <1>4, <1>7, <1>8, <1>9, <1>10, <1>11, GrownElsewhere, PlacedKept
<1> QED BY <1>4, <1>7, <1>12 DEF Sound

\* jtjobrun returns.
LEMMA ReturnSound ==
    ASSUME IndInv, NEW c \in Callers, Return(c)
    PROVE  Sound'
<1>1. PICK j : j = J(c)
  OBVIOUS
<1> USE DEF IndInv
<1>2. /\ pc[c] = "spin" /\ c \in Threads /\ c \notin Workers
      /\ j \in Jobs /\ Kind(j) = "internal" /\ Kind(j) \in Kinds
      /\ InCallOf(c, j) /\ Called(j) /\ job[j].nf >= job[j].n
      /\ InternalOK(j) /\ job[j].n \in Nat \ {0} /\ job[j].nf \in Nat /\ Cardinality(Open(j)) \in Nat
      /\ job[j].refs \in Nat /\ job[j] \in Blocks /\ IsFiniteSet(Open(j)) /\ job[j].err \in 0..MaxTasks
  BY <1>1, BlockOf, Constants DEF Return, Returns, Threads, CallerAt, Kinds, InCallOf, Called
<1>3. /\ pc' = [pc EXCEPT ![c] = "idle"] /\ at' = [at EXCEPT ![c] = Nowhere]
      /\ job' = [job EXCEPT ![j].refs = job[j].refs - 1] /\ result' = [result EXCEPT ![j] = job[j].err]
      /\ queue' = queue /\ ran' = ran /\ failed' = failed
  BY <1>1 DEF Return, GoWith, Go, Free
<1>4. /\ pc'[c] = "idle" /\ at'[c] = Nowhere /\ J(c)' = None /\ Frame(c)
      /\ Kind(j)' = "internal" /\ job'[j].refs = job[j].refs - 1
      /\ job'[j].n = job[j].n /\ job'[j].nf = job[j].nf /\ job'[j].err = job[j].err
      /\ job'[j].begun = job[j].begun /\ job'[j].mask = job[j].mask
      /\ result'[j] = job[j].err /\ OnlyJob(j) /\ Queued(j)' = Queued(j) /\ QueueOK'
  BY <1>2, <1>3 DEF Frame, Typed, J, Nowhere, OnlyJob, Queued, QueueOK, Kind, Blocks
<1>5. /\ \A w \in Workers : Drops(w, j)' = Drops(w, j)
      /\ \A d \in Callers \ {c} : ~InCallOf(d, j) /\ ~InCallOf(d, j)'
      /\ \A q \in Threads : \A i : /\ Holds(q, j, i)' = Holds(q, j, i)
                                   /\ (Holds(q, j, i) /\ IsPre(q))' = (Holds(q, j, i) /\ IsPre(q))
      /\ ~Called(j)'
  <2>1. \A w \in Workers : Drops(w, j)' = Drops(w, j)
    BY <1>2, <1>4, OtherThreads
  <2>2. \A i : ~Holds(c, j, i)' /\ ~Holds(c, j, i)
    BY <1>1, <1>2, <1>4 DEF Holds
  <2>3. \A d \in Callers \ {c} : ~InCallOf(d, j) /\ ~InCallOf(d, j)'
    BY <1>2, <1>4, OtherThreads DEF Alone, InCallOf
  <2>4. ~Called(j)'
    BY <1>4, <2>3 DEF Called, InCallOf
  <2>5. \A q \in Threads \ {c} : \A i : /\ Holds(q, j, i)' = Holds(q, j, i)
                                      /\ (Holds(q, j, i) /\ IsPre(q))' = (Holds(q, j, i) /\ IsPre(q))
    BY <1>2, <1>4, OtherThreads
  <2>6. \A i : /\ Holds(c, j, i)' = Holds(c, j, i)
               /\ (Holds(c, j, i) /\ IsPre(c))' = (Holds(c, j, i) /\ IsPre(c))
    BY <1>2, <1>4 DEF Holds
  <2> QED BY <1>2, <2>1, <2>3, <2>4, <2>5, <2>6
<1>6. InternalOK(j)'
  <2>1. Kept2(j)' = Kept2(j)
    BY <1>4, <1>5 DEF Kept2
  <2>2. Open(j)' = Open(j) /\ \A i \in 0..job[j].n - 1 : Pre(j, i)' <=> Pre(j, i)
    BY <1>4, <1>5 DEF Open, Pre
  <2>3. job[j].nf = job[j].n
    BY <1>2 DEF InternalOK
  <2>4. job'[j].refs = One(Called(j)') + One(Kept2(j)')
    BY <1>2, <1>4, <1>5, <2>1 DEF InternalOK, One
  <2>5. job[j].err # None
    BY <1>2, Constants
  <2>6. /\ Called(j)' <=> result'[j] = None
        /\ result'[j] # None => result'[j] = job'[j].err /\ job'[j].nf = job'[j].n
    BY <1>4, <1>5, <2>3, <2>5
  <2> QED BY <1>2, <1>3, <1>4, <2>2, <2>4, <2>6 DEF InternalOK
<1>7. JobsOK'
  BY <1>1, <1>2, <1>4, <1>6, OtherJobs DEF JobsOK, JobOK
<1>8. Grown(c, j)
  BY <1>2, <1>4, BlockOf DEF Grown, Kinds, Queued
<1>9. Claims(c) /\ CallerAt(c)'
  BY <1>2, <1>4 DEF Claims, CallerAt, Holds
<1>10. Placed' /\ InOrder'
  BY <1>2, <1>4, <1>7, <1>8, <1>9, GrownElsewhere, PlacedKept DEF Nowhere
<1> QED BY <1>4, <1>7, <1>10 DEF Sound

\* A task that a thread holds has been taken, and from the job.
LEMMA Held ==
    ASSUME IndInv, NEW j \in Jobs, Kind(j) = "internal", NEW q \in Threads, NEW i, Holds(q, j, i)
    PROVE  i \in Nat /\ i < job[j].begun /\ i < job[j].n
<1> USE DEF IndInv
<1>0. J(q) = j /\ at[q].task = i
  BY DEF Holds
<1>1. i \in Nat
  BY <1>0, Constants DEF Typed
<1>2. CASE q \in Workers
  <2>1. pc[q] \in {"task", "count"}
    BY <1>2 DEF Holds, Typed, WorkerPlaces, Waiting, Running
  <2> QED BY <1>0, <1>1, <1>2, <2>1 DEF WorkerAt
<1>3. CASE q \in Callers
  <2>1. pc[q] \in {"append", "wakeall", "own", "next"}
    BY <1>3 DEF Holds, Typed, CallerPlaces
  <2> QED BY <1>0, <1>1, <1>3, <2>1 DEF CallerAt
<1> QED BY <1>2, <1>3 DEF Threads

\* jtjobrun counts its task and takes the next one, or waits for the others.
LEMMA NextTaskSound ==
    ASSUME IndInv, NEW c \in Callers, NextTask(c)
    PROVE  Sound'
<1>1. PICK j, n, i, m : j = J(c) /\ n = at[c].task /\ i = job[j].begun /\ m = job[j].n
  OBVIOUS
<1> USE DEF IndInv
<1>2. /\ pc[c] = "next" /\ c \in Threads /\ c \notin Workers
      /\ j \in Jobs /\ Kind(j) = "internal" /\ Kind(j) \in Kinds
      /\ InCallOf(c, j) /\ Called(j) /\ n \in Open(j) /\ n < i /\ n \in 0..m - 1
      /\ InternalOK(j) /\ m \in Nat \ {0} /\ job[j].nf \in Nat /\ i \in Nat /\ i <= m + 1 /\ 1 <= i
      /\ job[j].refs \in Nat /\ job[j] \in Blocks /\ IsFiniteSet(Open(j)) /\ job[j].err \in 0..MaxTasks
      /\ 0..m - 1 \subseteq Tasks
  <2>1. pc[c] = "next" /\ c \in Threads /\ c \notin Workers
    BY Constants DEF NextTask, Threads
  <2>2. j \in Jobs /\ Kind(j) = "internal" /\ Kind(j) \in Kinds /\ InCallOf(c, j) /\ Called(j) /\ n < i
    BY <1>1, <2>1 DEF CallerAt, Kinds, InCallOf, Called
  <2>3. n \in Open(j) /\ n \in 0..m - 1
    BY <1>1, <2>1, InUse DEF Open
  <2> QED BY <1>1, <2>1, <2>2, <2>3, BlockOf
<1>3. /\ job' = [job EXCEPT ![j].nf = job[j].nf + 1, ![j].refs = Kept(j),
                            ![j].begun = IF i < m THEN i + 1 ELSE i]
      /\ queue' = QueueAfter(j) /\ history' = history
      /\ pc' = [pc EXCEPT ![c] = IF i < m THEN "own" ELSE "spin"]
      /\ at' = [at EXCEPT ![c] = IF i < m THEN [job |-> j, task |-> i, err |-> job[j].err]
                                          ELSE [Nowhere EXCEPT !.job = j]]
  BY <1>1 DEF NextTask, GoWith, Go
<1>4. /\ pc'[c] = (IF i < m THEN "own" ELSE "spin") /\ J(c)' = j /\ Frame(c)
      /\ at'[c].task = (IF i < m THEN i ELSE 0) /\ at'[c].err = (IF i < m THEN job[j].err ELSE 0)
      /\ Kind(j)' = "internal" /\ job'[j].refs = Kept(j)
      /\ job'[j].n = m /\ job'[j].nf = job[j].nf + 1 /\ job'[j].err = job[j].err
      /\ job'[j].begun = (IF i < m THEN i + 1 ELSE i) /\ job'[j].mask = job[j].mask
      /\ ran' = ran /\ failed' = failed /\ result' = result
      /\ \A k \in Jobs \ {j} : job'[k] = job[k]
  BY <1>1, <1>2, <1>3 DEF Frame, Typed, J, Nowhere, Kind, Blocks, history
<1>5. /\ \A k \in Jobs \ {j} : Queued(k)' = Queued(k)
      /\ QueueOK' /\ OnlyJob(j)
      /\ Queued(j)' <=> Queued(j) /\ ~(i = m - 1 /\ queue = <<j>>)
  <2>1. CASE i = m - 1 /\ queue = <<j>>
    <3>1. queue' = <<>>
      BY <1>1, <1>3, <2>1 DEF QueueAfter
    <3>2. \A k \in Jobs \ {j} : ~Queued(k)
      BY <2>1 DEF Queued
    <3>3. \A k \in Jobs : ~Queued(k)'
      BY <3>1 DEF Queued
    <3>4. QueueOK'
      BY <3>1 DEF QueueOK
    <3> QED BY <1>2, <1>4, <2>1, <3>2, <3>3, <3>4 DEF OnlyJob, Queued
  <2>2. CASE ~(i = m - 1 /\ queue = <<j>>)
    <3>1. queue' = queue
      BY <1>1, <1>3, <2>2 DEF QueueAfter
    <3> QED BY <1>2, <1>4, <2>2, <3>1 DEF OnlyJob, Queued, QueueOK
  <2> QED BY <2>1, <2>2
<1>6. /\ \A w \in Workers : Drops(w, j)' = Drops(w, j)
      /\ \A d \in Callers \ {c} : ~InCallOf(d, j)
      /\ \A q \in Threads \ {c} : \A x : /\ Holds(q, j, x)' = Holds(q, j, x)
                                         /\ (Holds(q, j, x) /\ IsPre(q))' = (Holds(q, j, x) /\ IsPre(q))
      /\ Called(j)'
  <2>1. \A w \in Workers : Drops(w, j)' = Drops(w, j)
    BY <1>2, <1>4, OtherThreads
  <2>2. \A d \in Callers \ {c} : ~InCallOf(d, j)
    BY <1>2 DEF Alone, InCallOf
  <2>3. Called(j)'
    BY <1>2, <1>4 DEF Called, InCallOf
  <2>4. \A q \in Threads \ {c} : \A x : /\ Holds(q, j, x)' = Holds(q, j, x)
                                         /\ (Holds(q, j, x) /\ IsPre(q))' = (Holds(q, j, x) /\ IsPre(q))
    BY <1>2, <1>4, OtherThreads
  <2> QED BY <2>1, <2>2, <2>3, <2>4
<1>7. /\ \A x : Holds(c, j, x) <=> x = n
      /\ \A x : Holds(c, j, x)' <=> i < m /\ x = i
      /\ ~IsPre(c) /\ (i < m => IsPre(c)')
      /\ \A q \in Threads \ {c} : ~Holds(q, j, n)
      /\ \A q \in Threads \ {c} : ~Holds(q, j, i)
  <2>1. /\ \A x : Holds(c, j, x) <=> x = n
        /\ \A x : Holds(c, j, x)' <=> i < m /\ x = i
        /\ ~IsPre(c) /\ (i < m => IsPre(c)')
    BY <1>1, <1>2, <1>4 DEF Holds, IsPre
  <2>2. \A q \in Threads \ {c} : ~Holds(q, j, n)
    BY <1>2, <2>1 DEF Alone
  <2>3. \A q \in Threads \ {c} : ~Holds(q, j, i)
    BY <1>1, <1>2, Held
  <2> QED BY <2>1, <2>2, <2>3
<1>8. \A x : (\E q \in Threads : Holds(q, j, x)') <=> (i < m /\ x = i) \/ \E q \in Threads : Holds(q, j, x) /\ x # n
  BY <1>2, <1>6, <1>7
<1>9. Open(j)' = Open(j) \ {n}
  <2>1. \A x \in 0..m - 1 : (x >= job'[j].begun \/ (i < m /\ x = i)) <=> x >= i
    BY <1>2, <1>4
  <2>2. \A x \in 0..m - 1 : (x >= job'[j].begun \/ \E q \in Threads : Holds(q, j, x)')
                             <=> (x >= i \/ \E q \in Threads : Holds(q, j, x)) /\ x # n
    <3>1. ~(n >= i)
      BY <1>2
    <3> QED BY <1>8, <2>1, <3>1, Zenon
  <2> QED BY <1>1, <1>4, <2>2 DEF Open
<1>10. \A x \in 0..m - 1 : Pre(j, x)' <=> Pre(j, x)
  <2>1. \A x \in 0..m - 1 : (x >= job'[j].begun \/ (i < m /\ x = i)) <=> x >= i
    BY <1>2, <1>4
  <2>2. \A x : (\E q \in Threads : Holds(q, j, x)' /\ IsPre(q)')
                 <=> (i < m /\ x = i) \/ \E q \in Threads : Holds(q, j, x) /\ IsPre(q)
    BY <1>2, <1>6, <1>7
  <2> QED BY <1>1, <1>4, <2>1, <2>2 DEF Pre
<1>11. job'[j].nf + Cardinality(Open(j)') = job'[j].n
  BY <1>1, <1>2, <1>4, <1>9, Sized DEF InternalOK
<1>12. job'[j].refs = One(Called(j)') + One(Kept2(j)')
  <2>1. job[j].refs = 1 + One(Kept2(j))
    BY <1>2 DEF InternalOK, One
  <2>2. i <= m => \A w \in Workers : ~Drops(w, j) /\ ~Drops(w, j)'
    BY <1>1, <1>2, <1>6 DEF Drops, WorkerAt
  <2>3. CASE i < m
    <3>1. ~Kept2(j) /\ (Kept2(j)' <=> Queued(j)' /\ i = m - 1)
      BY <1>1, <1>2, <1>4, <2>2, <2>3 DEF Kept2
    <3>2. Kept(j) = IF i = m - 1 /\ Queued(j) /\ queue # <<j>> THEN 2 ELSE 1
      BY <1>1, <2>1, <3>1 DEF Kept, One
    <3> QED BY <1>4, <1>5, <1>6, <3>1, <3>2 DEF One
  <2>4. CASE ~(i < m)
    <3>1. Queued(j)' <=> Queued(j)
      BY <1>2, <1>5, <2>4
    <3>2. Kept2(j)' <=> Kept2(j)
      BY <1>1, <1>4, <1>6, <2>4, <3>1 DEF Kept2
    <3>3. Kept(j) = job[j].refs
      BY <1>1, <1>2, <2>4 DEF Kept
    <3> QED BY <1>4, <1>6, <2>1, <3>2, <3>3 DEF One
  <2> QED BY <2>3, <2>4
<1>13. InternalOK(j)'
  <2>1. /\ job'[j].n \in Sizes /\ job'[j].begun \in 1..job'[j].n + 1
        /\ Queued(j)' => job'[j].begun <= job'[j].n
    <3>1. m \in Sizes /\ (Queued(j) => i <= m)
      BY <1>1, <1>2 DEF InternalOK
    <3> QED BY <1>2, <1>4, <1>5, <3>1
  <2>2. /\ job'[j].err = 0 <=> failed'[j] = {}
        /\ job'[j].err # 0 => job'[j].err - 1 \in failed'[j]
        /\ job'[j].err <= job'[j].n
        /\ \A x \in Tasks : x >= job'[j].n => ran'[j][x] = 0
        /\ Called(j)' <=> result'[j] = None
        /\ result'[j] = None
    BY <1>1, <1>2, <1>4, <1>6 DEF InternalOK
  <2>3. \A x \in 0..job'[j].n-1 : IF Pre(j, x)' THEN ran'[j][x] = 0
                         ELSE ran'[j][x] < 2 /\ (job'[j].err = 0 => ran'[j][x] = 1)
    BY <1>1, <1>2, <1>4, <1>10 DEF InternalOK
  <2> QED BY <1>11, <1>12, <2>1, <2>2, <2>3 DEF InternalOK
<1>14. JobsOK'
  BY <1>1, <1>2, <1>4, <1>5, <1>13, OtherJobs DEF JobsOK, JobOK
<1>15. Grown(c, j)
  BY <1>1, <1>2, <1>4 DEF Grown, Kinds
<1>16. Claims(c)
  <2>1. \A k \in Jobs : \A x \in Tasks : Holds(c, k, x)' => k = j /\ x = i
    BY <1>4, <1>7 DEF Holds
  <2>2. \A d \in Callers \ {c} : pc[d] # "idle" => J(d) # j
    BY <1>6 DEF InCallOf
  <2> QED BY <1>2, <1>4, <1>7, <2>1, <2>2 DEF Claims
<1>17. CallerAt(c)'
  BY <1>1, <1>2, <1>4 DEF CallerAt
<1>18. at'[c].err # 0 => (Kind(J(c)) = "internal")' /\ (job[J(c)].err # 0)'
  <2>1. at'[c].err # 0 => Kind(j)' = "internal" /\ job'[j].err # 0
    BY <1>2, <1>4
  <2> QED BY <1>4, <2>1 DEF Kind
<1>19. Placed' /\ InOrder'
  BY <1>1, <1>2, <1>4, <1>5, <1>14, <1>15, <1>16, <1>17, <1>18, GrownElsewhere, PlacedKept
<1> QED BY <1>5, <1>14, <1>19 DEF Sound

-----------------------------------------------------------------------------
\* A call makes a block.
IsNew(r, kind, mask, n) ==
  /\ r \in Blocks /\ r.kind = kind /\ r.mask = mask /\ r.n = n /\ r.nf = 0 /\ r.err = 0
  /\ r.begun = IF kind = "locales" THEN {0} \cup (Indices \ mask) ELSE 1
  /\ r.refs = IF kind = "locales" THEN Cardinality(mask \ {0}) ELSE 1

\* The fields of a block just made.
LEMMA NewBlock ==
    ASSUME NEW kind \in Kinds, NEW mask \in SUBSET Indices, NEW forced \in BOOLEAN, NEW n \in 0..MaxTasks
    PROVE  IsNew(NewJob(kind, mask, forced, n), kind, mask, n)
<1> DEFINE r == NewJob(kind, mask, forced, n)
           begun == CASE kind = "locales" -> {0} \cup (Indices \ mask) [] OTHER -> 1
           refs == IF kind = "locales" THEN Cardinality(mask \ {0}) ELSE 1
<1>1. r = [kind |-> kind, mask |-> mask, forced |-> forced, n |-> n, begun |-> begun,
           nf |-> 0, err |-> 0, asked |-> FALSE, refs |-> refs]
  BY DEF NewJob
<1>2. begun = IF kind = "locales" THEN {0} \cup (Indices \ mask) ELSE 1
  OBVIOUS
<1>3. 0 \in Indices
  BY Constants DEF Indices
<1>4. begun \in Nat \cup SUBSET Indices
  BY <1>2, <1>3
<1>5. refs \in Nat
  <2>1. IsFiniteSet(mask \ {0})
    BY Constants, FS_Subset
  <2> QED BY <2>1, Sized
<1>6. 0 \in 0..MaxTasks
  BY Constants
<1> HIDE DEF begun, refs, r
<1>7. r \in Blocks
  BY <1>1, <1>4, <1>5, <1>6 DEF Blocks
<1> QED BY <1>1, <1>2, <1>7 DEF refs, r, IsNew

\* Nobody is at a block that is not in use.
LEMMA NotInUse ==
    ASSUME IndInv, NEW j \in Jobs, Kind(j) = "none"
    PROVE  /\ \A q \in Threads : J(q) # j
           /\ ~Queued(j) /\ result[j] = None /\ failed[j] = {}
           /\ \A i \in Tasks : ran[j][i] = 0
<1> USE DEF IndInv
<1>0. j # None
  BY Constants
<1>1. ASSUME NEW w \in Workers PROVE J(w) # j
  BY <1>0 DEF WorkerAt, J, Nowhere
<1>2. ASSUME NEW c \in Callers PROVE J(c) # j
  <2>1. CASE pc[c] = "idle"
    BY <1>0, <2>1 DEF CallerAt, J, Nowhere
  <2>2. CASE pc[c] # "idle"
    BY <2>2 DEF CallerAt, Typed, CallerPlaces
  <2> QED BY <2>1, <2>2
<1>3. NoneOK(j)
  BY DEF JobsOK, JobOK
<1> QED BY <1>1, <1>2, <1>3 DEF NoneOK, Threads

\* A call that makes a block and has yet to queue it keeps jobs and threads sound.
LEMMA CallSelfSound ==
    ASSUME IndInv, NEW c \in Callers, NEW r, NEW j \in Jobs, pc[c] = "idle",
           \A k \in Jobs : k >= j <=> job[k].kind = "none", Self(c, j, r), queue' = queue
    PROVE  Sound'
<1>1. j >= j
  BY Constants DEF Jobs
<1>2. Kind(j) = "none"
  BY <1>1 DEF Kind
<1>3. J(c) = None
  BY DEF CallerAt, IndInv, J, Nowhere
<1>4. /\ \A q \in Threads : J(q) # j
      /\ ~Queued(j) /\ result[j] = None /\ failed[j] = {}
      /\ \A i \in Tasks : ran[j][i] = 0
  BY <1>2, NotInUse
<1>5. /\ JobsOK' /\ Placed' /\ QueueOK' /\ job' = [job EXCEPT ![j] = Gone]
  BY <1>3, <1>4, SelfSound
<1>6. InOrder'
  <2>1. /\ Kind(j)' = "gone" /\ \A k \in Jobs \ {j} : Kind(k)' = Kind(k)
    BY <1>5 DEF Kind, Gone, IndInv, Typed
  <2>2. \A a, b \in Jobs : a <= b /\ Kind(b)' # "none" => Kind(a)' # "none"
    BY <2>1 DEF Kind, Jobs
  <2> QED BY <2>2 DEF InOrder
<1> QED BY <1>5, <1>6 DEF Sound

\* A call that goes on with a block of its own.
LEMMA MadeSound ==
    ASSUME IndInv, NEW c \in Callers, NEW j \in Jobs, pc[c] = "idle",
           \A k \in Jobs : k >= j <=> job[k].kind = "none", queue' = queue, history' = history,
           NEW kind \in Kinds, NEW mask \in SUBSET Indices, NEW n \in 0..MaxTasks,
           NEW r, IsNew(r, kind, mask, n), job' = [job EXCEPT ![j] = r],
           kind = "user" => n = 0, kind = "locales" => n = 0 /\ mask \ {0} # {},
           kind = "internal" => n \in Sizes,
           NEW place, GoWith(c, place, [Nowhere EXCEPT !.job = j]),
           kind # "internal" => place = "enqueue",
           kind = "internal" => place = "own" \/ (place = "append" /\ n > 1)
    PROVE  Sound'
<1>1. /\ r \in Blocks /\ r.kind = kind /\ r.mask = mask /\ r.n = n /\ r.nf = 0 /\ r.err = 0
      /\ r.begun = IF kind = "locales" THEN {0} \cup (Indices \ mask) ELSE 1
      /\ r.refs = IF kind = "locales" THEN Cardinality(mask \ {0}) ELSE 1
  BY DEF IsNew
<1> USE DEF IndInv
<1>2. Kind(j) = "none" /\ c \in Threads /\ c \notin Workers
  <2>1. j >= j
    BY Constants DEF Jobs
  <2> QED BY <2>1, Constants DEF Kind, Threads
<1>3. J(c) = None
  BY DEF CallerAt, J, Nowhere
<1>4. /\ \A q \in Threads : J(q) # j
      /\ ~Queued(j) /\ result[j] = None /\ failed[j] = {}
      /\ \A i \in Tasks : ran[j][i] = 0
  BY <1>2, NotInUse
<1>5. /\ pc'[c] = place /\ J(c)' = j /\ at'[c].task = 0 /\ at'[c].err = 0 /\ Frame(c)
      /\ job'[j] = r /\ Kind(j)' = kind /\ \A k \in Jobs \ {j} : job'[k] = job[k]
      /\ ran' = ran /\ failed' = failed /\ result' = result
  BY <1>1, <1>2 DEF GoWith, Go, Frame, Typed, J, Nowhere, Kind, history
<1>6. /\ OnlyJob(j) /\ QueueOK' /\ ~Queued(j)'
  BY <1>4, <1>5 DEF OnlyJob, Queued, QueueOK
<1>7. /\ \A w \in Workers : ~Runs(w, j)' /\ ~Drops(w, j)'
      /\ \A q \in Threads \ {c} : \A i : ~Holds(q, j, i)'
      /\ \A d \in Callers \ {c} : ~InCallOf(d, j)'
      /\ \A q \in Threads \ {c} : J(q)' # j
  <2>1. \A q \in Threads \ {c} : J(q)' # j
    BY <1>4, <1>5 DEF Frame, J
  <2> QED BY <1>2, <2>1 DEF Runs, Drops, Holds, InCallOf, Threads
<1>8. Called(j)' /\ (Enqueuing(j)' <=> place = "enqueue")
  <2>1. place # "idle"
    BY DEF Kinds
  <2>2. Called(j)'
    BY <1>5, <2>1 DEF Called, InCallOf
  <2>3. Enqueuing(j)' <=> place = "enqueue"
    BY <1>5, <1>7 DEF Enqueuing, InCallOf, Threads
  <2> QED BY <2>2, <2>3
<1>9. ASSUME kind = "user" PROVE JobOK(j)'
  <2>1. UserOK(j)'
    BY <1>1, <1>4, <1>5, <1>6, <1>7, <1>8, <1>9 DEF UserOK, One
  <2> QED BY <1>5, <1>9, <2>1 DEF JobOK
<1>10. ASSUME kind = "locales" PROVE JobOK(j)'
  <2>1. /\ r.begun = {0} \cup (Indices \ mask) /\ r.refs = Cardinality(mask \ {0}) /\ 0 \in Indices
        /\ Workers = Indices \ {0}
    BY <1>1, <1>10, Constants DEF Indices, Workers
  <2>2. Pending(j)' = mask \ {0}
    BY <1>5, <1>7, <2>1 DEF Pending
  <2>3. \A v \in mask \ {0} : ran'[j][PyxOf(v, mask)] = One(v \notin Pending(j)')
    BY <1>4, <1>5, <2>2, PyxOfShare DEF One
  <2>4. 0 \in mask => ran'[j][0] = One(~Called(j)')
    BY <1>4, <1>5, <1>8, Constants DEF One
  <2>5. Queued(j)' <=> r.begun # Indices /\ ~Enqueuing(j)'
    BY <1>6, <1>8, <1>10
  <2>6. /\ \A i \in Tasks : ran'[j][i] = 0
        /\ r.n = 0 /\ r.nf = 0 /\ r.err = 0 /\ result'[j] = None /\ failed'[j] = {}
        /\ r.mask \ {0} # {} /\ {0} \cup (Indices \ r.mask) \subseteq r.begun /\ r.begun \subseteq Indices
        /\ r.refs = Cardinality(Pending(j)') /\ r.mask = mask /\ r.begun = {0} \cup (Indices \ r.mask)
    BY <1>1, <1>4, <1>5, <1>10, <2>1, <2>2
  <2>7. LocalesOK(j)'
    BY <1>5, <2>3, <2>4, <2>5, <2>6 DEF LocalesOK, PyxOf
  <2> QED BY <1>5, <1>10, <2>7 DEF JobOK
<1>11. ASSUME kind = "internal" PROVE JobOK(j)'
  <2>1. /\ n \in Sizes /\ n \in Nat \ {0} /\ 0..n - 1 \subseteq Tasks /\ r.begun = 1 /\ r.refs = 1 /\ r.n = n
    BY <1>1, <1>11, Constants
  <2>2. Holds(c, j, 0)' /\ IsPre(c)'
    BY <1>5, <1>11 DEF Holds, IsPre
  <2>3. \A i \in 0..n - 1 : i >= 1 \/ i = 0
    BY <2>1
  <2>4. Open(j)' = 0..n - 1
    BY <1>2, <1>5, <2>1, <2>2, <2>3 DEF Open
  <2>5. Cardinality(Open(j)') = n
    <3>1. 0 \in Int /\ n - 1 \in Int /\ ~(0 > n - 1) /\ (n - 1) - 0 + 1 = n
      BY <2>1
    <3>2. Cardinality(0..n - 1) = IF 0 > n - 1 THEN 0 ELSE (n - 1) - 0 + 1
      BY <3>1, FS_Interval
    <3> QED BY <2>4, <3>1, <3>2
  <2>6. \A i \in 0..n - 1 : Pre(j, i)'
    BY <1>2, <1>5, <2>1, <2>2, <2>3 DEF Pre
  <2>7. ~Kept2(j)'
    BY <1>6, <1>7 DEF Kept2
  <2>8. /\ r.n \in Sizes /\ r.begun \in 1..r.n + 1 /\ r.refs = One(Called(j)') + One(Kept2(j)')
        /\ r.nf + Cardinality(Open(j)') = r.n
        /\ r.err = 0 /\ failed'[j] = {} /\ result'[j] = None /\ r.err <= r.n
    BY <1>1, <1>4, <1>5, <1>8, <2>1, <2>5, <2>7 DEF One
  <2>9. \A i \in 0..r.n - 1 : Pre(j, i)' /\ ran'[j][i] = 0
    BY <1>4, <1>5, <2>1, <2>6
  <2>10. InternalOK(j)'
    BY <1>4, <1>5, <1>6, <1>8, <2>8, <2>9 DEF InternalOK
  <2> QED BY <1>5, <1>11, <2>10 DEF JobOK
<1>12. JobsOK'
  BY <1>2, <1>3, <1>5, <1>6, <1>9, <1>10, <1>11, OtherJobs DEF JobsOK, Kinds
<1>13. Grown(c, j)
  BY <1>4 DEF Grown
<1>14. Claims(c)
  <2>1. \A k \in Jobs : \A i \in Tasks : Holds(c, k, i)' => k = j
    BY <1>5 DEF Holds
  <2>2. \A q \in Threads \ {c} : \A i : ~Holds(q, j, i)
    BY <1>4 DEF Holds
  <2>3. \A d \in Callers \ {c} : J(d) # j
    BY <1>4 DEF Threads
  <2> QED BY <1>2, <1>5, <2>1, <2>2, <2>3 DEF Claims
<1>15. CallerAt(c)'
  <2>1. CASE kind # "internal"
    BY <1>5, <2>1 DEF CallerAt, Kinds
  <2>2. CASE kind = "internal"
    <3>1. n \in Nat \ {0} /\ r.begun = 1 /\ r.n = n
      BY <1>1, <2>2, Constants
    <3> QED BY <1>5, <1>6, <2>2, <3>1 DEF CallerAt, Queued
  <2> QED BY <2>1, <2>2
<1>16. Placed'
  BY <1>2, <1>5, <1>6, <1>12, <1>13, <1>14, <1>15, GrownElsewhere, PlacedKept
<1>17. InOrder'
  <2>1. /\ Kind(j)' # "none" /\ \A k \in Jobs \ {j} : Kind(k)' = Kind(k)
    BY <1>5 DEF Kind, Kinds
  <2>2. \A a, b \in Jobs : a <= b /\ Kind(b)' # "none" => Kind(a)' # "none"
    BY <2>1 DEF Kind, Jobs
  <2> QED BY <2>2 DEF InOrder
<1> QED BY <1>6, <1>12, <1>16, <1>17 DEF Sound

\* Every call does.
LEMMA CallSound ==
    ASSUME IndInv, NEW c \in Callers, CallUser(c) \/ CallLocales(c) \/ CallInternal(c)
    PROVE  Sound'
<1>1. ASSUME NEW kind \in Kinds, NEW mask \in SUBSET Indices, NEW forced \in BOOLEAN, NEW n \in 0..MaxTasks,
             kind = "user" => n = 0, kind = "locales" => n = 0 /\ mask \ {0} # {},
             kind = "internal" => n \in Sizes,
             Call(c, NewJob(kind, mask, forced, n))
      PROVE  Sound'
  <2>1. PICK r : r = NewJob(kind, mask, forced, n)
    OBVIOUS
  <2>2. IsNew(r, kind, mask, n)
    BY <2>1, NewBlock
  <2>3. Call(c, r)
    BY <1>1, <2>1
  <2>4. PICK j \in Jobs :
          /\ pc[c] = "idle" /\ \A k \in Jobs : k >= j <=> job[k].kind = "none"
          /\ \/ /\ r.kind = "internal" \/ (~suspended /\ RoomFor(r))
                /\ job' = [job EXCEPT ![j] = r]
                /\ GoWith(c, CASE r.kind # "internal" -> "enqueue"
                               [] ~suspended /\ nthreads # 0 /\ r.n > 1 -> "append"
                               [] OTHER -> "own", [Nowhere EXCEPT !.job = j])
                /\ UNCHANGED history
             \/ r.kind # "internal" /\ (suspended \/ ~RoomFor(r)) /\ Self(c, j, r)
          /\ UNCHANGED <<queue, holder, fresh, counts, world>>
    BY <2>3 DEF Call
  <2>5. r.kind = kind /\ r.n = n
    BY <2>2 DEF IsNew
  <2>6. CASE job' = [job EXCEPT ![j] = r] /\ UNCHANGED history
             /\ GoWith(c, CASE r.kind # "internal" -> "enqueue"
                            [] ~suspended /\ nthreads # 0 /\ r.n > 1 -> "append"
                            [] OTHER -> "own", [Nowhere EXCEPT !.job = j])
    <3>1. PICK place : place = CASE r.kind # "internal" -> "enqueue"
                                 [] ~suspended /\ nthreads # 0 /\ r.n > 1 -> "append"
                                 [] OTHER -> "own"
      OBVIOUS
    <3>2. GoWith(c, place, [Nowhere EXCEPT !.job = j])
      BY <2>6, <3>1
    <3>3. kind # "internal" => place = "enqueue"
      <4>1. ASSUME kind # "internal" PROVE place = "enqueue"
        <5>1. n \in Nat /\ ~(n > 1) /\ r.n = n /\ r.kind # "internal"
          BY <1>1, <2>5, <4>1, Constants DEF Kinds
        <5> QED BY <3>1, <5>1
      <4> QED BY <4>1
    <3>4. kind = "internal" => place = "own" \/ (place = "append" /\ n > 1)
      BY <2>5, <3>1
    <3> QED BY <1>1, <2>2, <2>4, <2>6, <3>2, <3>3, <3>4, MadeSound
  <2>7. CASE Self(c, j, r)
    BY <2>4, <2>7, CallSelfSound
  <2> QED BY <2>4, <2>6, <2>7
<1>2. CASE CallUser(c)
  <2>1. PICK forced \in BOOLEAN : Call(c, NewJob("user", {}, forced, 0))
    BY <1>2 DEF CallUser
  <2>2. 0 \in 0..MaxTasks
    BY Constants
  <2> QED BY <1>1, <2>1, <2>2 DEF Kinds
<1>3. CASE CallLocales(c)
  <2>1. PICK mask \in Masks : Call(c, NewJob("locales", mask, FALSE, 0))
    BY <1>3 DEF CallLocales
  <2>2. 0 \in 0..MaxTasks /\ mask \in SUBSET Indices /\ mask # {} /\ mask # {0}
    BY Constants, MasksAssumption DEF Indices
  <2>3. mask \ {0} # {}
    BY <2>2
  <2> QED BY <1>1, <2>1, <2>2, <2>3 DEF Kinds
<1>4. CASE CallInternal(c)
  <2>1. PICK n \in Sizes : Call(c, NewJob("internal", {}, FALSE, n))
    BY <1>4 DEF CallInternal
  <2>2. n \in 0..MaxTasks
    BY Constants
  <2> QED BY <1>1, <2>1, <2>2 DEF Kinds
<1> QED BY <1>2, <1>3, <1>4

-----------------------------------------------------------------------------
\* Every step keeps the parts of the invariant about jobs and pieces.

\* Steps that touch neither job nor place, or move one thread between places
\* that are at no piece.
LEMMA CalmStep ==
    ASSUME IndInv, NEW w \in Workers,
           \/ Look(w) /\ (queue # <<>> => Refused(w, 0))
           \/ Poll(w) /\ (queue # <<>> => Refused(w, 1))
           \/ FutexWait(w) \/ Kick(w) \/ Kicked(w) \/ Finish(w)
    PROVE  Calm
<1>0. /\ w \in Threads /\ w \notin Callers /\ pc \in [Threads -> WorkerPlaces \cup CallerPlaces]
      /\ \A q \in Callers : pc[q] # "asleep"
  BY Constants DEF IndInv, Typed, Threads, CallerPlaces
<1>1. ASSUME job' = job PROVE \A j \in Jobs : SameBlock(j)
  BY <1>1 DEF SameBlock, Kind
<1>2. ASSUME queue # <<>>, NEW a \in BOOLEAN, job' = [job EXCEPT ![Head(queue)].asked = a],
             job[Head(queue)].kind = "locales"
      PROVE  \A j \in Jobs : SameBlock(j)
  <2>1. PICK h : h = Head(queue)
    OBVIOUS
  <2>2. h \in Jobs /\ job' = [job EXCEPT ![h].asked = a] /\ job[h] \in Blocks
    <3>1. h \in Jobs /\ Kind(h) = "locales"
      BY <1>2, <2>1, QueueTail DEF IndInv, Typed, Kind
    <3> QED BY <1>2, <2>1, <3>1, KindOf DEF Kinds, IndInv
  <2>3. job \in [Jobs -> {Unused, Gone} \cup Blocks]
    BY DEF IndInv, Typed
  <2> QED BY <2>2, <2>3 DEF SameBlock, Kind, Blocks
<1>3. ASSUME NEW place, Go(w, place), pc[w] \in Loose, place \in Loose
      PROVE  \A q \in Threads : Moves(q)
  BY <1>0, <1>3 DEF Go, Moves
<1>4. ASSUME NEW less, queue # <<>>, Refused(w, less), pc[w] \in {"look", "polling"}, UNCHANGED history
      PROVE  Calm
  <2>1. PICK a \in BOOLEAN : job' = [job EXCEPT ![Head(queue)].asked = a]
    <3>1. (job[Head(queue)].asked \/ Len(queue) > 1) \in BOOLEAN
      OBVIOUS
    <3> QED BY <1>4, <3>1 DEF Refused
  <2>2. \A j \in Jobs : SameBlock(j)
    BY <1>2, <1>4, <2>1 DEF Refused
  <2>3. Go(w, "sampled") /\ UNCHANGED <<queue, at>>
    BY <1>4 DEF Refused, Sample
  <2> QED BY <1>3, <1>4, <2>2, <2>3 DEF Calm, Loose
<1>5. ASSUME NEW up, Rest(w, up), pc[w] \in {"look", "polling"}, UNCHANGED history
      PROVE  Calm
  <2>1. PICK place \in {"ended", "sampled"} : Go(w, place)
    BY <1>5 DEF Rest, Sample
  <2>2. UNCHANGED <<queue, job, at>>
    BY <1>5 DEF Rest
  <2> QED BY <1>1, <1>3, <1>5, <2>1, <2>2 DEF Calm, Loose
<1>6. CASE Look(w) /\ (queue # <<>> => Refused(w, 0))
  <2>1. pc[w] = "look" /\ UNCHANGED history
    BY <1>6 DEF Look
  <2>2. CASE queue # <<>>
    BY <1>4, <1>6, <2>1, <2>2
  <2>3. CASE Rest(w, 1)
    BY <1>5, <2>1, <2>3
  <2>4. CASE Linger(w)
    BY <1>1, <1>3, <2>1, <2>4 DEF Calm, Linger, Loose
  <2> QED BY <1>6, <2>2, <2>3, <2>4 DEF Look, TakeHead
<1>7. CASE Poll(w) /\ (queue # <<>> => Refused(w, 1))
  <2>1. pc[w] = "polling" /\ UNCHANGED history
    BY <1>7 DEF Poll
  <2>2. CASE queue # <<>>
    BY <1>4, <1>7, <2>1, <2>2
  <2>3. CASE Rest(w, 0)
    BY <1>5, <2>1, <2>3
  <2> QED BY <1>7, <2>2, <2>3 DEF Poll, TakeHead
<1>8. CASE FutexWait(w)
  <2>1. PICK place \in {"asleep", "polling"} : Go(w, place)
    BY <1>8 DEF FutexWait
  <2> QED BY <1>1, <1>3, <1>8, <2>1 DEF Calm, Loose, FutexWait
<1>9. CASE Kick(w)
  BY <1>0, <1>1, <1>9 DEF Calm, Kick, Go, Moves
<1>10. CASE Kicked(w)
  BY <1>0, <1>1, <1>10 DEF Calm, Kicked, WakeAll, Moves, Loose, Threads
<1>11. CASE Finish(w)
  <2>1. PICK place \in {"ended", "look"} : Go(w, place)
    BY <1>11 DEF Finish, EndOrGoOn
  <2>2. UNCHANGED <<queue, job, history>> /\ pc[w] \in {"finish", "finishjob"} /\ at' = [at EXCEPT ![w] = Nowhere]
    BY <1>11 DEF Finish, EndOrGoOn
  <2>3. at' = at
    <3>1. at[w] = Nowhere /\ at \in [Threads -> [job : Jobs \cup {None}, task : Tasks, err : 0..MaxTasks]]
      BY <2>2 DEF IndInv, WorkerAt, Typed
    <3> QED BY <2>2, <3>1
  <2> QED BY <1>1, <1>3, <2>1, <2>2, <2>3 DEF Calm, Loose
<1> QED BY <1>6, <1>7, <1>8, <1>9, <1>10, <1>11

\* The steps that are no call and no piece touch no job.
LEMMA CalmWorld ==
    ASSUME IndInv, KickPool \/ Delete \/ WakePool \/ Suspend \/ Unsuspend \/ UNCHANGED vars
    PROVE  Calm
<1>1. UNCHANGED <<queue, at, history>> /\ \A j \in Jobs : SameBlock(j)
  BY DEF KickPool, Delete, WakePool, Suspend, Unsuspend, vars, SameBlock, Kind, history
<1>2. CASE WakePool
  <2>1. \A q \in Callers : pc[q] # "asleep"
    BY DEF IndInv, Typed, CallerPlaces
  <2>2. \A q \in Threads : Moves(q)
    BY <1>2, <2>1 DEF WakePool, Moves, Loose, Threads
  <2> QED BY <1>1, <2>2 DEF Calm
<1>3. CASE pc' = pc
  BY <1>1, <1>3 DEF Calm, Moves
<1> QED BY <1>2, <1>3 DEF KickPool, Delete, WakePool, Suspend, Unsuspend, vars

\* Every step keeps jobs and threads sound.
LEMMA SoundStep ==
    ASSUME IndInv, [Next]_vars
    PROVE  Sound'
<1>1. ASSUME NEW w \in Workers, Worker(w) PROVE Sound'
  <2>0. w \in Threads
    BY DEF Threads
  <2>1. CASE Look(w)
    <3>0. Look(w)
      BY <2>1
    <3>1. CASE queue # <<>> /\ Taken(w, 0)
      BY <2>1, <3>1, TakenSound DEF Look
    <3>2. CASE queue # <<>> => Refused(w, 0)
      <4>1. Look(w) /\ (queue # <<>> => Refused(w, 0))
        BY <3>0, <3>2
      <4>2. Calm
        BY <4>1, CalmStep
      <4> QED BY <4>2, CalmSound
    <3> QED BY <2>1, <3>1, <3>2 DEF Look, TakeHead, Rest, Linger
  <2>2. CASE Poll(w)
    <3>1. CASE queue # <<>> /\ Taken(w, 1)
      BY <2>2, <3>1, TakenSound DEF Poll
    <3>2. CASE queue # <<>> => Refused(w, 1)
      <4>1. Calm
        BY <2>2, <3>2, CalmStep
      <4> QED BY <4>1, CalmSound
    <3> QED BY <2>2, <3>1, <3>2 DEF Poll, TakeHead, Rest
  <2>3. CASE FutexWait(w) \/ Kick(w) \/ Kicked(w) \/ Finish(w)
    <3>1. Calm
      BY <2>3, CalmStep
    <3> QED BY <3>1, CalmSound
  <2>4. CASE Drop(w)
    BY <2>4, DropSound
  <2>5. CASE Task(w)
    BY <2>0, <2>5, RanSound
  <2>6. CASE CountTask(w)
    BY <2>6, CountTaskSound
  <2>7. CASE Share(w)
    BY <2>7, ShareSound
  <2> QED BY <1>1, <2>1, <2>2, <2>3, <2>4, <2>5, <2>6, <2>7 DEF Worker
<1>2. ASSUME NEW c \in Callers, InCall(c) PROVE Sound'
  <2>1. CASE Own(c)
    BY <2>1, RanSound DEF Threads
  <2> QED BY <1>2, <2>1, EnqueueSound, WakeSound, OwnShareSound, AppendTasksSound,
             NextTaskSound, ReturnSound DEF InCall
<1>3. ASSUME NEW c \in Callers, CallUser(c) \/ CallLocales(c) \/ CallInternal(c) PROVE Sound'
  BY <1>3, CallSound
<1>4. CASE KickPool \/ Delete \/ WakePool \/ Suspend \/ Unsuspend \/ UNCHANGED vars
  BY <1>4, CalmWorld, CalmSound
<1> QED BY <1>1, <1>2, <1>3, <1>4 DEF Next

-----------------------------------------------------------------------------
\* The counts of the queue.

\* A step moves one thread, besides the sleepers it wakes.
LEMMA WorkerFrame ==
    ASSUME IndInv, NEW w \in Workers, Worker(w)
    PROVE  Frame(w) /\ w \in Threads /\ w \notin Callers
<1>1. /\ pc \in [Threads -> WorkerPlaces \cup CallerPlaces] /\ w \in Threads /\ w \notin Callers
      /\ at \in [Threads -> [job : Jobs \cup {None}, task : Tasks, err : 0..MaxTasks]]
  BY Constants DEF IndInv, Typed, Threads
<1>2. ASSUME NEW place, Go(w, place), at' = at \/ \E a : at' = [at EXCEPT ![w] = a]
      PROVE  Frame(w)
  BY <1>1, <1>2 DEF Go, Frame
<1>3. CASE Look(w) \/ Poll(w)
  <2>1. \E place : Go(w, place) /\ (at' = at \/ \E a : at' = [at EXCEPT ![w] = a])
    BY <1>3 DEF Look, Poll, TakeHead, Refused, Taken, Rest, Linger, Sample, GoWith, Go
  <2> QED BY <1>1, <1>2, <2>1
<1>4. CASE FutexWait(w) \/ Drop(w) \/ Task(w) \/ CountTask(w) \/ Kick(w) \/ Share(w) \/ Finish(w)
  <2>1. \E place : Go(w, place) /\ (at' = at \/ \E a : at' = [at EXCEPT ![w] = a])
    BY <1>4 DEF FutexWait, Drop, Task, CountTask, Kick, Share, Finish, EndOrGoOn, GoWith, Go
  <2> QED BY <1>1, <1>2, <2>1
<1>5. CASE Kicked(w)
  BY <1>1, <1>5 DEF Kicked, WakeAll, Frame
<1> QED BY <1>1, <1>3, <1>4, <1>5 DEF Worker

\* A step of a caller moves that caller, and no worker but sleepers it wakes.
LEMMA CallerFrame ==
    ASSUME IndInv, NEW c \in Callers, InCall(c) \/ CallUser(c) \/ CallLocales(c) \/ CallInternal(c)
    PROVE  Frame(c) /\ c \in Threads /\ c \notin Workers
<1>1. /\ pc \in [Threads -> WorkerPlaces \cup CallerPlaces] /\ c \in Threads /\ c \notin Workers
      /\ at \in [Threads -> [job : Jobs \cup {None}, task : Tasks, err : 0..MaxTasks]]
  BY Constants DEF IndInv, Typed, Threads
<1>2. ASSUME NEW place, Go(c, place), at' = at \/ \E a : at' = [at EXCEPT ![c] = a]
      PROVE  Frame(c)
  BY <1>1, <1>2 DEF Go, Frame
<1>3. ASSUME NEW r, Call(c, r) PROVE Frame(c)
  <2>1. \E place : Go(c, place) /\ (at' = at \/ \E a : at' = [at EXCEPT ![c] = a])
    BY <1>3 DEF Call, Self, GoWith, Go
  <2> QED BY <1>1, <1>2, <2>1
<1>4. CASE CallUser(c) \/ CallLocales(c) \/ CallInternal(c)
  BY <1>1, <1>3, <1>4 DEF CallUser, CallLocales, CallInternal
<1>5. CASE Enqueue(c) \/ OwnShare(c) \/ AppendTasks(c) \/ Own(c) \/ NextTask(c) \/ Return(c)
  <2>1. \E place : Go(c, place) /\ (at' = at \/ \E a : at' = [at EXCEPT ![c] = a])
    BY <1>5 DEF Enqueue, Self, OwnShare, AppendTasks, Own, NextTask, Return, GoWith, Go
  <2> QED BY <1>1, <1>2, <2>1
<1>6. CASE Wake(c)
  <2>1. \A q \in Threads \ {c} : at'[q] = at[q]
    BY <1>1, <1>6 DEF Wake
  <2>2. ASSUME NEW place, WakeAll(c, place) \/ WakeOne(c, place)
        PROVE  \A q \in Threads \ {c} : pc'[q] = pc[q] \/ (pc[q] = "asleep" /\ pc'[q] = "polling")
    <3>1. CASE WakeAll(c, place)
      BY <1>1, <3>1 DEF WakeAll
    <3>2. CASE WakeOne(c, place) /\ Asleep = {}
      BY <1>1, <3>2 DEF WakeOne, Go
    <3>3. CASE WakeOne(c, place) /\ Asleep # {}
      <4>1. PICK w \in Asleep : pc' = [pc EXCEPT ![c] = place, ![w] = "polling"]
        BY <3>3 DEF WakeOne
      <4> QED BY <1>1, <4>1 DEF Asleep
    <3> QED BY <2>2, <3>1, <3>2, <3>3
  <2>3. \E place : WakeAll(c, place) \/ WakeOne(c, place)
    BY <1>6 DEF Wake
  <2> QED BY <1>1, <2>1, <2>2, <2>3 DEF Frame
<1> QED BY <1>1, <1>4, <1>5, <1>6 DEF InCall

\* The workers at these places.
AtPlaces(S) == {w \in Workers : pc[w] \in S}

\* How the number of workers at some places changes when one thread moves.
LEMMA Moved ==
    ASSUME NEW S, "asleep" \in S <=> "polling" \in S, NEW p, Frame(p), Workers \subseteq Threads
    PROVE  /\ Cardinality(AtPlaces(S)) \in Nat
           /\ (p \in Workers => (pc[p] \in S <=> pc'[p] \in S)) =>
                Cardinality(AtPlaces(S)') = Cardinality(AtPlaces(S))
           /\ p \in Workers /\ pc[p] \notin S /\ pc'[p] \in S =>
                Cardinality(AtPlaces(S)') = Cardinality(AtPlaces(S)) + 1
           /\ p \in Workers /\ pc[p] \in S /\ pc'[p] \notin S =>
                Cardinality(AtPlaces(S)') = Cardinality(AtPlaces(S)) - 1 /\ Cardinality(AtPlaces(S)) > 0
<1>1. IsFiniteSet(AtPlaces(S)) /\ Cardinality(AtPlaces(S)) \in Nat
  BY Finite, Sized DEF AtPlaces
<1>2. \A w \in Workers \ {p} : pc'[w] \in S <=> pc[w] \in S
  BY DEF Frame
<1>3. CASE p \in Workers => (pc[p] \in S <=> pc'[p] \in S)
  <2>1. AtPlaces(S)' = AtPlaces(S)
    BY <1>2, <1>3 DEF AtPlaces
  <2> QED BY <1>1, <1>3, <2>1
<1>4. CASE p \in Workers /\ pc[p] \notin S /\ pc'[p] \in S
  <2>1. AtPlaces(S)' = AtPlaces(S) \cup {p} /\ p \notin AtPlaces(S)
    BY <1>2, <1>4 DEF AtPlaces
  <2> QED BY <1>1, <1>4, <2>1, Sized
<1>5. CASE p \in Workers /\ pc[p] \in S /\ pc'[p] \notin S
  <2>1. AtPlaces(S)' = AtPlaces(S) \ {p} /\ p \in AtPlaces(S)
    BY <1>2, <1>5 DEF AtPlaces
  <2> QED BY <1>1, <1>5, <2>1, Sized
<1> QED BY <1>1, <1>3, <1>4, <1>5

\* A worker that took a piece is in no wait.
LEMMA TakenPlace ==
    ASSUME Typed, NEW w \in Workers, NEW less, Taken(w, less)
    PROVE  /\ waiters' = waiters - less /\ pc'[w] \notin Waiting
           /\ pc'[w] \in {"drop", "task", "kick", "share"}
<1>1. PICK r, begun : GoWith(w, CASE r.kind = "internal" /\ begun > r.n -> "drop"
                              [] r.kind = "internal" /\ begun <= r.n -> "task"
                              [] r.kind = "locales" /\ begun = Indices /\ r.asked -> "kick"
                              [] OTHER -> "share", at'[w])
  BY DEF Taken, GoWith, Typed, Threads
<1>2. pc'[w] \in {"drop", "task", "kick", "share"}
  BY <1>1 DEF GoWith, Go, Typed, Threads
<1> QED BY <1>2 DEF Taken, Waiting

\* waiters counts the workers in a wait, or on their way to or from it.
LEMMA WaitersStep ==
    ASSUME IndInv, [Next]_vars
    PROVE  waiters' = Cardinality(AtPlaces(Waiting)') /\ waiters' \in Nat
<1> USE DEF IndInv
<1>0. /\ waiters = Cardinality(AtPlaces(Waiting)) /\ waiters \in Nat
      /\ Workers \subseteq Threads /\ pc \in [Threads -> WorkerPlaces \cup CallerPlaces]
      /\ "asleep" \in Waiting <=> "polling" \in Waiting
  BY DEF Counts, CountsExact, AtPlaces, Typed, Threads, Waiting
<1>1. ASSUME NEW p, Frame(p), waiters' = waiters, p \in Workers => (pc[p] \in Waiting <=> pc'[p] \in Waiting)
      PROVE  waiters' = Cardinality(AtPlaces(Waiting)') /\ waiters' \in Nat
  BY <1>0, <1>1, Moved
<1>2. ASSUME NEW w \in Workers, Frame(w), waiters' = waiters + 1, pc[w] \notin Waiting, pc'[w] \in Waiting
      PROVE  waiters' = Cardinality(AtPlaces(Waiting)') /\ waiters' \in Nat
  BY <1>0, <1>2, Moved
<1>3. ASSUME NEW w \in Workers, Frame(w), waiters' = waiters - 1, pc[w] \in Waiting, pc'[w] \notin Waiting
      PROVE  waiters' = Cardinality(AtPlaces(Waiting)') /\ waiters' \in Nat
  <2>1. Cardinality(AtPlaces(Waiting)') = Cardinality(AtPlaces(Waiting)) - 1 /\ Cardinality(AtPlaces(Waiting)) > 0
    BY <1>0, <1>3, Moved
  <2> QED BY <1>0, <1>3, <2>1
<1>4. ASSUME NEW w \in Workers, Look(w) PROVE waiters' = Cardinality(AtPlaces(Waiting)') /\ waiters' \in Nat
  <2>0. Frame(w) /\ pc[w] = "look" /\ pc[w] \notin Waiting /\ w \in Threads
    BY <1>4, WorkerFrame DEF Look, Worker, Waiting
  <2>1. CASE Refused(w, 0) \/ Linger(w) \/ (Rest(w, 1) /\ w \notin told)
    <3>1. waiters' = waiters + 1 /\ pc'[w] \in Waiting
      BY <1>0, <2>0, <2>1 DEF Refused, Linger, Rest, Sample, Go, Waiting
    <3> QED BY <1>2, <2>0, <3>1
  <2>2. CASE Taken(w, 0) \/ (Rest(w, 1) /\ w \in told)
    <3>1. CASE Taken(w, 0)
      BY <1>0, <1>1, <2>0, <3>1, TakenPlace
    <3>2. CASE Rest(w, 1) /\ w \in told
      <4>1. waiters' = waiters /\ pc'[w] \notin Waiting
        BY <1>0, <2>0, <3>2 DEF Rest, Go, Waiting
      <4> QED BY <1>1, <2>0, <4>1
    <3> QED BY <2>2, <3>1, <3>2
  <2> QED BY <1>4, <2>1, <2>2 DEF Look, TakeHead
<1>5. ASSUME NEW w \in Workers, Poll(w) PROVE waiters' = Cardinality(AtPlaces(Waiting)') /\ waiters' \in Nat
  <2>0. Frame(w) /\ pc[w] = "polling" /\ pc[w] \in Waiting /\ w \in Threads
    BY <1>5, WorkerFrame DEF Poll, Worker, Waiting
  <2>1. CASE Refused(w, 1) \/ (Rest(w, 0) /\ w \notin told)
    <3>1. waiters' = waiters /\ pc'[w] \in Waiting
      BY <1>0, <2>0, <2>1 DEF Refused, Rest, Sample, Go, Waiting
    <3> QED BY <1>1, <2>0, <3>1
  <2>2. CASE Taken(w, 1) \/ (Rest(w, 0) /\ w \in told)
    <3>1. CASE Taken(w, 1)
      BY <1>0, <1>3, <2>0, <3>1, TakenPlace
    <3>2. CASE Rest(w, 0) /\ w \in told
      <4>1. waiters' = waiters - 1 /\ pc'[w] \notin Waiting
        BY <1>0, <2>0, <3>2 DEF Rest, Go, Waiting
      <4> QED BY <1>3, <2>0, <4>1
    <3> QED BY <2>2, <3>1, <3>2
  <2> QED BY <1>5, <2>1, <2>2 DEF Poll, TakeHead
<1>6. ASSUME NEW w \in Workers, Worker(w), ~Look(w), ~Poll(w)
      PROVE  waiters' = Cardinality(AtPlaces(Waiting)') /\ waiters' \in Nat
  <2>1. Frame(w) /\ w \in Threads
    BY <1>6, WorkerFrame
  <2>2. waiters' = waiters /\ (pc[w] \in Waiting <=> pc'[w] \in Waiting)
    BY <1>0, <1>6, <2>1 DEF Worker, FutexWait, Drop, Task, CountTask, Kick, Kicked, WakeAll, Share, Finish,
         EndOrGoOn, GoWith, Go, counts, Waiting
  <2> QED BY <1>1, <2>1, <2>2
<1>7. ASSUME NEW c \in Callers, InCall(c) \/ CallUser(c) \/ CallLocales(c) \/ CallInternal(c)
      PROVE  waiters' = Cardinality(AtPlaces(Waiting)') /\ waiters' \in Nat
  <2>1. Frame(c) /\ c \notin Workers
    BY <1>7, CallerFrame
  <2>2. waiters' = waiters
    BY <1>7 DEF InCall, Enqueue, Wake, OwnShare, AppendTasks, Own, NextTask, Return, CallUser, CallLocales,
         CallInternal, Call, counts
  <2> QED BY <1>1, <2>1, <2>2
<1>8. CASE KickPool \/ Delete \/ WakePool \/ Suspend \/ Unsuspend \/ UNCHANGED vars
  <2>1. 1 \in Workers
    BY Constants DEF Workers
  <2>2. waiters' = waiters
    BY <1>8 DEF KickPool, Delete, WakePool, Suspend, Unsuspend, vars, counts
  <2>3. Frame(1) /\ (pc[1] \in Waiting <=> pc'[1] \in Waiting)
    <3>1. CASE WakePool
      BY <1>0, <2>1, <3>1 DEF WakePool, Frame, Waiting
    <3>2. CASE pc' = pc /\ at' = at
      BY <3>2 DEF Frame
    <3> QED BY <1>8, <3>1, <3>2 DEF KickPool, Delete, Suspend, Unsuspend, vars
  <2> QED BY <1>1, <2>2, <2>3
<1> QED BY <1>4, <1>5, <1>6, <1>7, <1>8 DEF Next, Worker

\* The user and locales jobs that were queued and have not ended, and those that have.
IsLive(j) == Kind(j) \in {"user", "locales"} /\ job[j].refs > 0 /\ ~Enqueuing(j)
LiveJobs == {j \in Jobs : IsLive(j)}
EndedJobs == {j \in Jobs : Ends(j)}
Finishing == {"finishjob"}
Unended == nuunfin = Cardinality(LiveJobs) + Cardinality(AtPlaces(Finishing))
FewFinish == Cardinality(AtPlaces(Finishing)) <= Cardinality(EndedJobs)

\* A step that changes the standing of no user or locales job.
LEMMA LiveKept ==
    ASSUME IndInv, NEW p \in Threads, Frame(p), pc[p] # "enqueue", pc'[p] # "enqueue", NEW j,
           \A k \in Jobs \ {j} : job'[k] = job[k],
           j \in Jobs => \/ Kind(j) \notin {"user", "locales"} /\ Kind(j)' \notin {"user", "locales"}
                         \/ Kind(j)' = Kind(j) /\ job'[j].refs = job[j].refs
    PROVE  LiveJobs' = LiveJobs /\ EndedJobs' = EndedJobs
<1>1. \A q \in Callers \ {p} : pc'[q] = pc[q] /\ J(q)' = J(q)
  BY DEF IndInv, Typed, CallerPlaces, Frame, J, Threads
<1>2. \A k : Enqueuing(k)' <=> Enqueuing(k)
  BY <1>1 DEF Enqueuing
<1>3. \A k \in Jobs : (IsLive(k)' <=> IsLive(k)) /\ (Ends(k)' <=> Ends(k))
  BY <1>2 DEF IsLive, Ends, Kind
<1> QED BY <1>3 DEF LiveJobs, EndedJobs

\* A step that ends no user or locales job keeps the count of the unfinished ones.
LEMMA NuunfinKept ==
    ASSUME IndInv, NEW p \in Threads, Frame(p), LiveJobs' = LiveJobs, EndedJobs' = EndedJobs, nuunfin' = nuunfin,
           p \in Workers => (pc[p] = "finishjob" <=> pc'[p] = "finishjob")
    PROVE  Unended' /\ FewFinish' /\ nuunfin' \in Nat
<1>0. Unended /\ FewFinish /\ Workers \subseteq Threads /\ nuunfin \in Nat
  BY DEF IndInv, Counts, CountsExact, Unended, FewFinish, AtPlaces, LiveJobs, EndedJobs, IsLive, Finishing, Typed,
         Threads, Enqueuing, Kind
<1>1. Cardinality(AtPlaces(Finishing)') = Cardinality(AtPlaces(Finishing))
  <2>1. /\ "asleep" \in Finishing <=> "polling" \in Finishing
        /\ p \in Workers => (pc[p] \in Finishing <=> pc'[p] \in Finishing)
    BY DEF Finishing
  <2> QED BY <1>0, <2>1, Moved
<1> QED BY <1>0, <1>1 DEF Unended, FewFinish

\* A user or locales job ends when its last share does, and is counted until
\* its worker has the lock.
LEMMA ShareCounted ==
    ASSUME IndInv, NEW w \in Workers, Share(w)
    PROVE  Unended' /\ FewFinish' /\ nuunfin' \in Nat
<1>0. Unended /\ FewFinish /\ Workers \subseteq Threads /\ nuunfin \in Nat
  BY DEF IndInv, Counts, CountsExact, Unended, FewFinish, AtPlaces, LiveJobs, EndedJobs, IsLive, Finishing, Typed,
         Threads, Enqueuing, Kind
<1>1. PICK j : j = J(w)
  OBVIOUS
<1>2. /\ pc[w] = "share" /\ j \in Jobs /\ Kind(j) \in {"user", "locales"} /\ job[j].refs > 0
      /\ job[j].refs \in Nat /\ job[j] \in Blocks /\ ~Enqueuing(j)
  <2>1. pc[w] = "share"
    BY DEF Share
  <2>2. j \in Jobs /\ Kind(j) \in {"user", "locales"} /\ job[j].refs > 0
    BY <1>1, <2>1, InUse DEF IndInv, WorkerAt
  <2>3. job[j] \in Blocks
    BY <2>2, KindOf DEF IndInv, Kinds
  <2>4. ASSUME Enqueuing(j) PROVE FALSE
    <3>1. PICK c \in Callers : pc[c] = "enqueue" /\ J(c) = j
      BY <2>4 DEF Enqueuing
    <3> QED BY <1>1, <2>1, <3>1, NotQueuedYet, Constants DEF Runs, Threads
  <2> QED BY <2>1, <2>2, <2>3, <2>4 DEF Blocks
<1>3. Frame(w) /\ w \in Threads /\ w \notin Callers
  BY WorkerFrame DEF Worker
<1>4. /\ nuunfin' = nuunfin /\ job' = [job EXCEPT ![j].refs = @ - 1]
      /\ pc'[w] = IF job[j].refs < 2 THEN "finishjob" ELSE "finish"
  BY <1>1, <1>3 DEF Share, Free, GoWith, Go, counts, IndInv, Typed
<1>5. job'[j].refs = job[j].refs - 1 /\ Kind(j)' = Kind(j) /\ \A k \in Jobs \ {j} : job'[k] = job[k]
  BY <1>2, <1>4 DEF IndInv, Typed, Kind, Blocks
<1>6. \A k : Enqueuing(k)' <=> Enqueuing(k)
  <2>1. \A q \in Callers : pc'[q] = pc[q] /\ J(q)' = J(q)
    BY <1>3 DEF IndInv, Typed, CallerPlaces, Frame, J, Threads
  <2> QED BY <2>1 DEF Enqueuing
<1>7. \A k \in Jobs \ {j} : (IsLive(k)' <=> IsLive(k)) /\ (Ends(k)' <=> Ends(k))
  BY <1>5, <1>6 DEF IsLive, Ends, Kind
<1>8. IsLive(j) /\ ~Ends(j)
  BY <1>2 DEF IsLive, Ends
<1>9. /\ IsFiniteSet(LiveJobs) /\ IsFiniteSet(EndedJobs)
      /\ "asleep" \in Finishing <=> "polling" \in Finishing
  BY Finite DEF LiveJobs, EndedJobs, Finishing
<1>10. CASE job[j].refs >= 2
  <2>1. IsLive(j)' /\ ~Ends(j)'
    BY <1>2, <1>5, <1>6, <1>10 DEF IsLive, Ends
  <2>2. LiveJobs' = LiveJobs /\ EndedJobs' = EndedJobs
    BY <1>7, <1>8, <2>1 DEF LiveJobs, EndedJobs
  <2> QED BY <1>2, <1>3, <1>4, <1>10, <2>2, NuunfinKept
<1>11. CASE job[j].refs = 1
  <2>1. ~IsLive(j)' /\ Ends(j)'
    BY <1>2, <1>5, <1>11 DEF IsLive, Ends
  <2>2. LiveJobs' = LiveJobs \ {j} /\ j \in LiveJobs /\ EndedJobs' = EndedJobs \cup {j} /\ j \notin EndedJobs
    BY <1>2, <1>7, <1>8, <2>1 DEF LiveJobs, EndedJobs
  <2>3. Cardinality(LiveJobs') = Cardinality(LiveJobs) - 1 /\ Cardinality(LiveJobs) \in Nat
    BY <1>9, <2>2, Sized
  <2>4. Cardinality(EndedJobs') = Cardinality(EndedJobs) + 1 /\ Cardinality(EndedJobs) \in Nat
    BY <1>9, <2>2, Sized
  <2>5. pc[w] \notin Finishing /\ pc'[w] \in Finishing
    BY <1>2, <1>4, <1>11 DEF Finishing
  <2>6. /\ Cardinality(AtPlaces(Finishing)') = Cardinality(AtPlaces(Finishing)) + 1
        /\ Cardinality(AtPlaces(Finishing)) \in Nat
    BY <1>0, <1>3, <1>9, <2>5, Moved
  <2> QED BY <1>0, <1>4, <2>3, <2>4, <2>6 DEF Unended, FewFinish
<1> QED BY <1>2, <1>10, <1>11

\* A worker that has the lock again uncounts the job it has ended.
LEMMA FinishCounted ==
    ASSUME IndInv, NEW w \in Workers, Finish(w)
    PROVE  Unended' /\ FewFinish' /\ nuunfin' \in Nat
<1>0. Unended /\ FewFinish /\ Workers \subseteq Threads /\ nuunfin \in Nat
  BY DEF IndInv, Counts, CountsExact, Unended, FewFinish, AtPlaces, LiveJobs, EndedJobs, IsLive, Finishing, Typed,
         Threads, Enqueuing, Kind
<1>1. Frame(w) /\ w \in Threads
  BY WorkerFrame DEF Worker
<1>2. job' = job /\ pc'[w] \in {"look", "ended"} /\ pc[w] \in {"finish", "finishjob"}
  BY <1>1 DEF Finish, EndOrGoOn, Go, IndInv, Typed
<1>3. LiveJobs' = LiveJobs /\ EndedJobs' = EndedJobs
  <2>1. /\ \A k \in Jobs \ {w} : job'[k] = job[k]
        /\ w \in Jobs => Kind(w)' = Kind(w) /\ job'[w].refs = job[w].refs
        /\ pc[w] # "enqueue" /\ pc'[w] # "enqueue"
    BY <1>2 DEF Kind
  <2> QED BY <1>1, <2>1, LiveKept
<1>4. CASE pc[w] = "finish"
  <2>1. nuunfin' = nuunfin
    BY <1>4 DEF Finish, Unfinished
  <2> QED BY <1>1, <1>2, <1>3, <1>4, <2>1, NuunfinKept
<1>5. CASE pc[w] = "finishjob"
  <2>1. nuunfin' = nuunfin - 1
    BY <1>5 DEF Finish, Unfinished
  <2>2. /\ "asleep" \in Finishing <=> "polling" \in Finishing
        /\ pc[w] \in Finishing /\ pc'[w] \notin Finishing
    BY <1>2, <1>5 DEF Finishing
  <2>3. /\ Cardinality(AtPlaces(Finishing)') = Cardinality(AtPlaces(Finishing)) - 1
        /\ Cardinality(AtPlaces(Finishing)) > 0 /\ Cardinality(AtPlaces(Finishing)) \in Nat
    BY <1>0, <1>1, <2>2, Moved
  <2>4. Cardinality(LiveJobs) \in Nat /\ Cardinality(EndedJobs) \in Nat
    BY Finite, Sized DEF LiveJobs, EndedJobs
  <2> QED BY <1>0, <1>3, <2>1, <2>3, <2>4 DEF Unended, FewFinish
<1> QED BY <1>2, <1>4, <1>5

\* A user or locales job is counted as it is queued.
LEMMA EnqueueCounted ==
    ASSUME IndInv, NEW c \in Callers, Enqueue(c)
    PROVE  Unended' /\ FewFinish' /\ nuunfin' \in Nat
<1>0. Unended /\ FewFinish /\ Workers \subseteq Threads /\ nuunfin \in Nat
  BY DEF IndInv, Counts, CountsExact, Unended, FewFinish, AtPlaces, LiveJobs, EndedJobs, IsLive, Finishing, Typed,
         Threads, Enqueuing, Kind
<1>1. PICK j : j = J(c)
  OBVIOUS
<1>2. Frame(c) /\ c \in Threads /\ c \notin Workers
  BY CallerFrame DEF InCall
<1>3. /\ pc[c] = "enqueue" /\ j \in Jobs /\ Kind(j) \in {"user", "locales"} /\ Enqueuing(j)
      /\ \A q \in Threads \ {c} : J(q) # j
  BY <1>1, NotQueuedYet DEF Enqueue
<1>4. job[j] \in Blocks /\ job[j].refs > 0
  <2>1. job[j] \in Blocks /\ JobOK(j)
    BY <1>3, KindOf DEF IndInv, Kinds, JobsOK
  <2>2. CASE Kind(j) = "user"
    BY <1>3, <2>1, <2>2 DEF JobOK, UserOK, One
  <2>3. CASE Kind(j) = "locales"
    <3>1. LocalesOK(j)
      BY <2>1, <2>3 DEF JobOK
    <3>2. /\ job[j].begun = {0} \cup (Indices \ job[j].mask) /\ job[j].mask \ {0} # {}
          /\ job[j].refs = Cardinality(Pending(j)) /\ job[j].mask \subseteq Indices
      BY <1>3, <2>1, <3>1 DEF LocalesOK, Blocks
    <3>3. PICK v \in job[j].mask \ {0} : TRUE
      BY <3>2
    <3>4. v \in Pending(j)
      BY <3>2, <3>3, Constants DEF Pending, Indices, Workers
    <3>5. IsFiniteSet(Pending(j))
      BY Finite
    <3> QED BY <2>1, <3>2, <3>4, <3>5, Sized
  <2> QED BY <1>3, <2>2, <2>3, <2>1
<1>5. /\ \A q \in Callers \ {c} : pc'[q] = pc[q] /\ J(q)' = J(q)
      /\ pc'[c] # "enqueue" /\ \A k \in Jobs \ {j} : job'[k] = job[k]
  BY <1>1, <1>2, <1>3 DEF IndInv, Typed, CallerPlaces, Frame, J, Threads, Enqueue, Go, Self, GoWith
<1>6. ~Enqueuing(j)' /\ \A k \in Jobs \ {j} : Enqueuing(k)' <=> Enqueuing(k)
  BY <1>1, <1>2, <1>3, <1>5 DEF Enqueuing, Threads
<1>7. \A k \in Jobs \ {j} : (IsLive(k)' <=> IsLive(k)) /\ (Ends(k)' <=> Ends(k))
  BY <1>5, <1>6 DEF IsLive, Ends, Kind
<1>8. ~IsLive(j) /\ ~Ends(j)
  BY <1>3, <1>4 DEF IsLive, Ends, Blocks
<1>9. CASE RoomFor(job[j])
  <2>1. job' = job /\ nuunfin' = nuunfin + 1
    BY <1>1, <1>9 DEF Enqueue
  <2>2. IsLive(j)' /\ ~Ends(j)'
    BY <1>3, <1>4, <1>6, <2>1 DEF IsLive, Ends, Kind, Blocks
  <2>3. LiveJobs' = LiveJobs \cup {j} /\ j \notin LiveJobs /\ EndedJobs' = EndedJobs
    BY <1>3, <1>7, <1>8, <2>2 DEF LiveJobs, EndedJobs
  <2>4. Cardinality(LiveJobs') = Cardinality(LiveJobs) + 1 /\ Cardinality(LiveJobs) \in Nat
    BY <2>3, Finite, Sized DEF LiveJobs
  <2>5. "asleep" \in Finishing <=> "polling" \in Finishing
    BY DEF Finishing
  <2>6. Cardinality(AtPlaces(Finishing)') = Cardinality(AtPlaces(Finishing)) /\ Cardinality(AtPlaces(Finishing)) \in Nat
    BY <1>0, <1>2, <2>5, Moved
  <2> QED BY <1>0, <2>1, <2>3, <2>4, <2>6 DEF Unended, FewFinish
<1>10. CASE ~RoomFor(job[j])
  <2>1. nuunfin' = nuunfin /\ job' = [job EXCEPT ![j] = Gone]
    BY <1>1, <1>10 DEF Enqueue, Self
  <2>2. ~IsLive(j)' /\ ~Ends(j)'
    BY <1>3, <2>1 DEF IsLive, Ends, Kind, IndInv, Typed, Gone
  <2>3. LiveJobs' = LiveJobs /\ EndedJobs' = EndedJobs
    BY <1>3, <1>7, <1>8, <2>2 DEF LiveJobs, EndedJobs
  <2> QED BY <1>2, <2>1, <2>3, NuunfinKept
<1> QED BY <1>9, <1>10

\* The other steps change neither.
LEMMA NoneCounted ==
    ASSUME IndInv, NEW p \in Threads, Frame(p), nuunfin' = nuunfin,
           p \in Workers => pc'[p] # "finishjob" /\ pc[p] # "finishjob",
           pc[p] # "enqueue" /\ pc'[p] # "enqueue", NEW j, \A k \in Jobs \ {j} : job'[k] = job[k],
           j \in Jobs => \/ Kind(j) \notin {"user", "locales"} /\ Kind(j)' \notin {"user", "locales"}
                         \/ Kind(j)' = Kind(j) /\ job'[j].refs = job[j].refs
    PROVE  Unended' /\ FewFinish' /\ nuunfin' \in Nat
<1>1. LiveJobs' = LiveJobs /\ EndedJobs' = EndedJobs
  BY LiveKept
<1> QED BY <1>1, NuunfinKept

\* What a call makes.
LEMMA CallOf ==
    ASSUME NEW c, CallUser(c) \/ CallLocales(c) \/ CallInternal(c)
    PROVE  \E r \in Blocks : Call(c, r) /\ r.refs # 0 /\ (r.kind # "internal" => r.n = 0)
<1>0. 0 \in 0..MaxTasks /\ {} \in SUBSET Indices
  BY Constants
<1>1. CASE CallUser(c)
  <2>1. PICK forced \in BOOLEAN : Call(c, NewJob("user", {}, forced, 0))
    BY <1>1 DEF CallUser
  <2>2. IsNew(NewJob("user", {}, forced, 0), "user", {}, 0)
    BY <1>0, NewBlock DEF Kinds
  <2> QED BY <2>1, <2>2 DEF IsNew
<1>2. CASE CallLocales(c)
  <2>1. PICK mask \in Masks : Call(c, NewJob("locales", mask, FALSE, 0))
    BY <1>2 DEF CallLocales
  <2>2. mask \in SUBSET Indices /\ mask # {} /\ mask # {0}
    BY MasksAssumption DEF Indices
  <2>3. mask \ {0} # {} /\ IsFiniteSet(mask \ {0})
    <3>1. mask \ {0} \in SUBSET Indices /\ mask \ {0} # {}
      BY <2>2
    <3> QED BY <3>1, Constants, FS_Subset
  <2>4. IsNew(NewJob("locales", mask, FALSE, 0), "locales", mask, 0)
    BY <1>0, <2>2, NewBlock DEF Kinds
  <2>5. Cardinality(mask \ {0}) \in Nat \ {0}
    BY <2>3, Sized
  <2> QED BY <2>1, <2>4, <2>5 DEF IsNew
<1>3. CASE CallInternal(c)
  <2>1. PICK n \in Sizes : Call(c, NewJob("internal", {}, FALSE, n))
    BY <1>3 DEF CallInternal
  <2>2. n \in 0..MaxTasks
    BY Constants
  <2>3. IsNew(NewJob("internal", {}, FALSE, n), "internal", {}, n)
    BY <1>0, <2>2, NewBlock DEF Kinds
  <2>4. PICK s : s = NewJob("internal", {}, FALSE, n)
    OBVIOUS
  <2>5. s \in Blocks /\ s.refs = 1 /\ s.kind = "internal"
    BY <2>3, <2>4 DEF IsNew
  <2>6. Call(c, s)
    BY <2>1, <2>4
  <2>7. Call(c, s) /\ s.refs # 0 /\ (s.kind # "internal" => s.n = 0)
    BY <2>5, <2>6
  <2> QED BY <2>5, <2>7
<1> QED BY <1>1, <1>2, <1>3

\* A new block is not counted yet.
LEMMA CallCounted ==
    ASSUME IndInv, NEW c \in Callers, CallUser(c) \/ CallLocales(c) \/ CallInternal(c)
    PROVE  Unended' /\ FewFinish' /\ nuunfin' \in Nat
<1>0. Frame(c) /\ c \in Threads /\ c \notin Workers
  BY CallerFrame
<1>1. PICK r \in Blocks : Call(c, r) /\ r.refs # 0 /\ (r.kind # "internal" => r.n = 0)
  BY CallOf
<1>2. PICK j \in Jobs :
        /\ pc[c] = "idle" /\ \A k \in Jobs : k >= j <=> job[k].kind = "none"
        /\ \/ /\ job' = [job EXCEPT ![j] = r] /\ r.kind # "internal"
              /\ GoWith(c, "enqueue", [Nowhere EXCEPT !.job = j])
           \/ /\ job' = [job EXCEPT ![j] = r] /\ r.kind = "internal"
              /\ \E place \in {"append", "own"} : Go(c, place)
           \/ job' = [job EXCEPT ![j] = Gone] /\ Go(c, "idle")
        /\ nuunfin' = nuunfin
  <2>1. r.kind # "internal" => ~(r.n > 1)
    BY <1>1
  <2>2. PICK j \in Jobs :
          /\ pc[c] = "idle" /\ \A k \in Jobs : k >= j <=> job[k].kind = "none"
          /\ \/ /\ job' = [job EXCEPT ![j] = r]
                /\ GoWith(c, CASE r.kind # "internal" -> "enqueue"
                               [] ~suspended /\ nthreads # 0 /\ r.n > 1 -> "append"
                               [] OTHER -> "own", [Nowhere EXCEPT !.job = j])
             \/ job' = [job EXCEPT ![j] = Gone] /\ Go(c, "idle")
          /\ nuunfin' = nuunfin
    BY <1>1 DEF Call, Self, counts, GoWith
  <2>3. PICK place : place = CASE r.kind # "internal" -> "enqueue"
                               [] ~suspended /\ nthreads # 0 /\ r.n > 1 -> "append"
                               [] OTHER -> "own"
    OBVIOUS
  <2>4. IF r.kind # "internal" THEN place = "enqueue" ELSE place \in {"append", "own"}
    BY <2>1, <2>3
  <2>5. /\ pc[c] = "idle" /\ \A k \in Jobs : k >= j <=> job[k].kind = "none"
        /\ \/ job' = [job EXCEPT ![j] = r] /\ GoWith(c, place, [Nowhere EXCEPT !.job = j])
           \/ job' = [job EXCEPT ![j] = Gone] /\ Go(c, "idle")
        /\ nuunfin' = nuunfin
    BY <2>2, <2>3
  <2> QED BY <2>4, <2>5 DEF GoWith
<1>3. /\ Kind(j) = "none" /\ ~IsLive(j) /\ ~Ends(j) /\ \A k \in Jobs \ {j} : job'[k] = job[k]
      /\ j \in Jobs /\ job \in [Jobs -> {Unused, Gone} \cup Blocks]
      /\ pc \in [Threads -> WorkerPlaces \cup CallerPlaces]
      /\ at \in [Threads -> [job : Jobs \cup {None}, task : Tasks, err : 0..MaxTasks]]
  <2>1. j >= j
    BY Constants DEF Jobs
  <2> QED BY <1>2, <2>1 DEF Kind, IsLive, Ends, IndInv, Typed
<1>4. CASE job' = [job EXCEPT ![j] = r] /\ r.kind # "internal" /\ GoWith(c, "enqueue", [Nowhere EXCEPT !.job = j])
  <2>1. pc'[c] = "enqueue" /\ J(c)' = j
    BY <1>0, <1>3, <1>4 DEF GoWith, Go, J, Nowhere
  <2>2. \A q \in Callers \ {c} : pc'[q] = pc[q] /\ J(q)' = J(q)
    BY <1>0 DEF IndInv, Typed, CallerPlaces, Frame, J, Threads
  <2>3. Enqueuing(j)' /\ \A k \in Jobs \ {j} : Enqueuing(k)' <=> Enqueuing(k)
    BY <1>2, <2>1, <2>2 DEF Enqueuing
  <2>4. Ends(j)' <=> FALSE
    BY <1>1, <1>3, <1>4 DEF Ends, Kind
  <2>5. \A k \in Jobs : (IsLive(k)' <=> IsLive(k)) /\ (Ends(k)' <=> Ends(k))
    BY <1>3, <2>3, <2>4 DEF IsLive, Ends, Kind
  <2>6. LiveJobs' = LiveJobs /\ EndedJobs' = EndedJobs
    BY <2>5 DEF LiveJobs, EndedJobs
  <2> QED BY <1>0, <1>2, <2>6, NuunfinKept
<1>5. CASE job' = [job EXCEPT ![j] = r] /\ r.kind = "internal" /\ \E place \in {"append", "own"} : Go(c, place)
  <2>1. Kind(j)' = "internal" /\ pc'[c] \in {"append", "own"}
    BY <1>0, <1>3, <1>5 DEF Kind, Go
  <2> QED BY <1>0, <1>2, <1>3, <2>1, NoneCounted
<1>6. CASE job' = [job EXCEPT ![j] = Gone] /\ Go(c, "idle")
  <2>1. Kind(j)' = "gone" /\ pc'[c] = "idle"
    BY <1>0, <1>3, <1>6 DEF Kind, Go, Gone
  <2> QED BY <1>0, <1>2, <1>3, <2>1, NoneCounted
<1> QED BY <1>2, <1>4, <1>5, <1>6

\* Every step keeps the count of the unfinished user and locales jobs.
LEMMA UnfinishedStep ==
    ASSUME IndInv, [Next]_vars
    PROVE  Unended' /\ FewFinish' /\ nuunfin' \in Nat
<1>0. /\ pc \in [Threads -> WorkerPlaces \cup CallerPlaces] /\ job \in [Jobs -> {Unused, Gone} \cup Blocks]
      /\ Workers \subseteq Threads
  BY DEF IndInv, Typed, Threads
<1>1. ASSUME NEW w \in Workers, Worker(w), ~Share(w), ~Finish(w)
      PROVE  Unended' /\ FewFinish' /\ nuunfin' \in Nat
  <2>1. Frame(w) /\ w \in Threads /\ pc[w] # "enqueue"
    BY <1>1, WorkerFrame DEF IndInv, Typed, WorkerPlaces, Waiting, Running
  <2>2. nuunfin' = nuunfin
    BY <1>1 DEF Worker, Look, Poll, FutexWait, Drop, Task, CountTask, Kick, Kicked, counts
  <2>3. pc[w] # "finishjob" /\ pc'[w] # "finishjob" /\ pc'[w] # "enqueue"
    <3>1. CASE (Look(w) \/ Poll(w)) /\ (Taken(w, 0) \/ Taken(w, 1))
      <4>1. pc[w] \in {"look", "polling"}
        BY <3>1 DEF Look, Poll
      <4> QED BY <3>1, <4>1, TakenPlace DEF IndInv
    <3>2. CASE Look(w) /\ ~Taken(w, 0)
      BY <1>0, <2>1, <3>2 DEF Look, TakeHead, Refused, Rest, Linger, Sample, Go
    <3>3. CASE Poll(w) /\ ~Taken(w, 1)
      BY <1>0, <2>1, <3>3 DEF Poll, TakeHead, Refused, Rest, Sample, Go
    <3>4. CASE FutexWait(w) \/ Drop(w) \/ Task(w) \/ CountTask(w) \/ Kick(w) \/ Kicked(w)
      BY <1>0, <2>1, <3>4 DEF FutexWait, Drop, Task, CountTask, Kick, Kicked, WakeAll, EndOrGoOn, GoWith, Go
    <3> QED BY <1>1, <3>1, <3>2, <3>3, <3>4 DEF Worker
  <2>4. PICK j : /\ \A k \in Jobs \ {j} : job'[k] = job[k]
                 /\ j \in Jobs => \/ Kind(j) \notin {"user", "locales"} /\ Kind(j)' \notin {"user", "locales"}
                                  \/ Kind(j)' = Kind(j) /\ job'[j].refs = job[j].refs
    <3>1. CASE job' = job
      BY <3>1 DEF Kind
    <3>2. CASE Look(w) \/ Poll(w)
      <4>1. CASE queue # <<>>
        <5>1. PICK h : h = Head(queue)
          OBVIOUS
        <5>2. h \in Jobs /\ job[h] \in Blocks
          <6>1. h \in Jobs /\ Queued(h)
            BY <4>1, <5>1, QueueTail DEF IndInv, Typed, Queued
          <6> QED BY <6>1, InUse, KindOf DEF IndInv
        <5>3. \E a \in BOOLEAN : \/ job' = [job EXCEPT ![h].asked = a]
                               \/ \E b : job' = [job EXCEPT ![h].begun = b]
          <6>1. (job[h].asked \/ Len(queue) > 1) \in BOOLEAN
            OBVIOUS
          <6> QED BY <3>2, <4>1, <5>1, <6>1 DEF Look, Poll, TakeHead, Refused, Taken, Rest, Linger
        <5> QED BY <1>0, <5>2, <5>3 DEF Kind, Blocks
      <4>2. CASE queue = <<>>
        BY <3>1, <3>2, <4>2 DEF Look, Poll, TakeHead, Rest, Linger
      <4> QED BY <4>1, <4>2
    <3>3. CASE Drop(w) \/ Task(w) \/ CountTask(w)
      <4>1. PICK h : h = J(w)
        OBVIOUS
      <4>2. h \in Jobs /\ Kind(h) = "internal"
        <5>1. pc[w] \in {"drop", "task", "count"}
          BY <3>3 DEF Drop, Task, CountTask
        <5> QED BY <4>1, <5>1 DEF IndInv, WorkerAt
      <4>3. job[h] \in Blocks
        BY <4>2, KindOf DEF IndInv, Kinds
      <4>4. \/ job' = job
            \/ \E x : job' = [job EXCEPT ![h].refs = x]
            \/ \E x : job' = [job EXCEPT ![h].err = x]
            \/ \E x : job' = [job EXCEPT ![h].nf = x]
        BY <3>3, <4>1 DEF Drop, Task, CountTask, RunTask, Free
      <4>5. Kind(h)' = "internal" /\ \A k \in Jobs \ {h} : job'[k] = job[k]
        BY <1>0, <4>2, <4>3, <4>4 DEF Kind, Blocks
      <4> QED BY <4>2, <4>5
    <3>4. CASE FutexWait(w) \/ Kick(w) \/ Kicked(w)
      BY <3>1, <3>4 DEF FutexWait, Kick, Kicked
    <3> QED BY <1>1, <3>2, <3>3, <3>4 DEF Worker
  <2> QED BY <2>1, <2>2, <2>3, <2>4, NoneCounted
<1>2. ASSUME NEW c \in Callers, InCall(c), ~Enqueue(c)
      PROVE  Unended' /\ FewFinish' /\ nuunfin' \in Nat
  <2>1. Frame(c) /\ c \in Threads /\ c \notin Workers
    BY <1>2, CallerFrame
  <2>2. nuunfin' = nuunfin /\ pc[c] # "enqueue"
    BY <1>2 DEF InCall, Wake, OwnShare, AppendTasks, Own, NextTask, Return, counts
  <2>3. pc'[c] # "enqueue"
    BY <1>0, <1>2, <2>1 DEF InCall, Wake, WakeAll, WakeOne, OwnShare, AppendTasks, Own, NextTask, Return, GoWith, Go, Asleep
  <2>4. PICK j : /\ \A k \in Jobs \ {j} : job'[k] = job[k]
                 /\ j \in Jobs => \/ Kind(j) \notin {"user", "locales"} /\ Kind(j)' \notin {"user", "locales"}
                                  \/ Kind(j)' = Kind(j) /\ job'[j].refs = job[j].refs
    <3>1. CASE job' = job
      BY <3>1 DEF Kind
    <3>2. CASE Own(c) \/ NextTask(c) \/ Return(c)
      <4>1. PICK h : h = J(c)
        OBVIOUS
      <4>2. h \in Jobs /\ Kind(h) = "internal"
        <5>1. pc[c] \in {"own", "next", "spin"}
          BY <3>2 DEF Own, NextTask, Return
        <5> QED BY <4>1, <5>1 DEF IndInv, CallerAt
      <4>3. job[h] \in Blocks
        BY <4>2, KindOf DEF IndInv, Kinds
      <4>4. CASE Own(c)
        <5>1. job' = job \/ \E x : job' = [job EXCEPT ![h].err = x]
          BY <4>1, <4>4 DEF Own, RunTask
        <5>2. Kind(h)' = "internal" /\ \A k \in Jobs \ {h} : job'[k] = job[k]
          BY <1>0, <4>2, <4>3, <5>1 DEF Kind, Blocks
        <5> QED BY <4>2, <5>2
      <4>5. CASE NextTask(c)
        <5>1. Kind(h)' = "internal" /\ \A k \in Jobs \ {h} : job'[k] = job[k]
          BY <1>0, <4>1, <4>2, <4>3, <4>5 DEF NextTask, Kind, Blocks
        <5> QED BY <4>2, <5>1
      <4>6. CASE Return(c)
        <5>1. Kind(h)' = "internal" /\ \A k \in Jobs \ {h} : job'[k] = job[k]
          BY <1>0, <4>1, <4>2, <4>3, <4>6 DEF Return, Free, Kind, Blocks
        <5> QED BY <4>2, <5>1
      <4> QED BY <3>2, <4>4, <4>5, <4>6
    <3> QED BY <1>2, <3>1, <3>2 DEF InCall, Wake, OwnShare, AppendTasks
  <2> QED BY <2>1, <2>2, <2>3, <2>4, NoneCounted
<1>3. CASE KickPool \/ Delete \/ WakePool \/ Suspend \/ Unsuspend \/ UNCHANGED vars
  <2>1. 1 \in Workers
    BY Constants DEF Workers
  <2>2. nuunfin' = nuunfin /\ job' = job
    BY <1>3 DEF KickPool, Delete, WakePool, Suspend, Unsuspend, vars, counts
  <2>3. Frame(1) /\ pc[1] # "enqueue" /\ pc'[1] # "enqueue" /\ (pc[1] = "finishjob" <=> pc'[1] = "finishjob")
    <3>0. pc[1] # "enqueue"
      BY <2>1 DEF IndInv, Typed, WorkerPlaces, Waiting, Running
    <3>1. CASE WakePool
      BY <1>0, <2>1, <3>0, <3>1 DEF WakePool, Frame
    <3>2. CASE pc' = pc /\ at' = at
      BY <3>0, <3>2 DEF Frame
    <3> QED BY <1>3, <3>1, <3>2 DEF KickPool, Delete, Suspend, Unsuspend, vars
  <2>4. LiveJobs' = LiveJobs /\ EndedJobs' = EndedJobs
    <3>1. /\ \A k \in Jobs \ {1} : job'[k] = job[k]
          /\ 1 \in Jobs => Kind(1)' = Kind(1) /\ job'[1].refs = job[1].refs
      BY <2>2 DEF Kind
    <3> QED BY <1>0, <2>1, <2>3, <3>1, LiveKept
  <2> QED BY <2>1, <2>2, <2>3, <2>4, NuunfinKept, <1>0
<1> QED BY <1>1, <1>2, <1>3, ShareCounted, FinishCounted, EnqueueCounted, CallCounted DEF Next, Worker, InCall

\* Every step keeps both counts.
LEMMA CountsStep ==
    ASSUME IndInv, [Next]_vars
    PROVE  Counts' /\ nuunfin' \in Nat /\ waiters' \in Nat
BY WaitersStep, UnfinishedStep
   DEF Counts, CountsExact, Unended, FewFinish, AtPlaces, LiveJobs, EndedJobs, IsLive, Finishing, Enqueuing, Kind

-----------------------------------------------------------------------------
\* The types.

\* The records of the jobs keep their types.
LEMMA TypedJob ==
    ASSUME IndInv, [Next]_vars
    PROVE  job' \in [Jobs -> {Unused, Gone} \cup Blocks]
<1> USE DEF IndInv
<1>0. job \in [Jobs -> {Unused, Gone} \cup Blocks]
  BY DEF Typed
<1>1. ASSUME NEW j \in Jobs, NEW b \in {Gone} \cup Blocks, job' = [job EXCEPT ![j] = b]
      PROVE  job' \in [Jobs -> {Unused, Gone} \cup Blocks]
  BY <1>0, <1>1
<1>2. CASE job' = job
  BY <1>0, <1>2
<1>3. ASSUME NEW p, J(p) \in Jobs, Kind(J(p)) \in Kinds, job[J(p)].refs > 0, job' = Free(J(p))
      PROVE  job' \in [Jobs -> {Unused, Gone} \cup Blocks]
  <2>1. PICK j \in Jobs : j = J(p)
    BY <1>3
  <2>2. job[j] \in Blocks /\ job[j].refs - 1 \in Nat
    BY <1>3, <2>1, BlockOf
  <2>3. job' = [job EXCEPT ![j] = [job[j] EXCEPT !.refs = job[j].refs - 1]]
    BY <1>3, <2>1 DEF Free
  <2>4. [job[j] EXCEPT !.refs = job[j].refs - 1] \in Blocks
    BY <2>2, StoreBlock
  <2> QED BY <1>1, <2>3, <2>4
<1>4. ASSUME NEW p, J(p) \in Jobs, Kind(J(p)) = "internal", at[p].task < job[J(p)].n, at[p].task \in Nat, RunTask(p)
      PROVE  job' \in [Jobs -> {Unused, Gone} \cup Blocks]
  <2>1. PICK j \in Jobs : j = J(p)
    BY <1>4
  <2>2. job[j] \in Blocks /\ job[j].err \in 0..MaxTasks /\ job[j].n \in Nat /\ job[j].n <= MaxTasks
    BY <1>4, <2>1, BlockOf DEF Kinds
  <2>3. CASE at[p].err # 0
    BY <1>2, <1>4, <2>3 DEF RunTask
  <2>4. CASE at[p].err = 0
    <3>1. PICK fails \in BOOLEAN : job' = [job EXCEPT ![j].err = ErrAfter(@, at[p].task, fails)]
      BY <1>4, <2>1, <2>4 DEF RunTask
    <3>2. PICK e : e = ErrAfter(job[j].err, at[p].task, fails)
      OBVIOUS
    <3>3. e \in 0..MaxTasks
      BY <1>4, <2>1, <2>2, <3>2, Constants DEF ErrAfter
    <3>4. [job[j] EXCEPT !.err = e] \in Blocks
      BY <2>2, <3>3, StoreBlock
    <3>5. job' = [job EXCEPT ![j] = [job[j] EXCEPT !.err = e]]
      BY <3>1, <3>2
    <3> QED BY <1>1, <3>4, <3>5
  <2> QED BY <2>3, <2>4
<1>5. ASSUME NEW w \in Workers, Look(w) \/ Poll(w), queue # <<>>
      PROVE  job' \in [Jobs -> {Unused, Gone} \cup Blocks]
  <2>1. PICK h : h = Head(queue)
    OBVIOUS
  <2>2. PICK less \in {0, 1} : (Refused(w, less) \/ Taken(w, less)) /\ pc[w] \in {"look", "polling"} /\ UNCHANGED history
    BY <1>5 DEF Look, Poll, TakeHead, Rest, Linger
  <2>3. CASE Taken(w, less)
    <3>1. Took(w, less, h)
      BY <1>5, <2>1, <2>2, <2>3, TakenStep
    <3> QED BY <3>1 DEF Took
  <2>4. CASE Refused(w, less)
    <3>1. h \in Jobs /\ job[h] \in Blocks
      BY <1>5, <2>1, HeadQueued, BlockOf
    <3>2. PICK a : a = (job[h].asked \/ Len(queue) > 1)
      OBVIOUS
    <3>3. a \in BOOLEAN
      BY <3>2
    <3>4. [job[h] EXCEPT !.asked = a] \in Blocks
      BY <3>1, <3>3, StoreBlock
    <3>5. job' = [job EXCEPT ![h] = [job[h] EXCEPT !.asked = a]]
      BY <2>1, <2>4, <3>2 DEF Refused
    <3> QED BY <1>1, <3>1, <3>4, <3>5
  <2> QED BY <2>2, <2>3, <2>4
<1>6. ASSUME NEW w \in Workers, Worker(w) PROVE job' \in [Jobs -> {Unused, Gone} \cup Blocks]
  <2>1. CASE Look(w) \/ Poll(w)
    BY <1>2, <1>5, <2>1 DEF Look, Poll, TakeHead, Rest, Linger
  <2>2. CASE Drop(w) \/ Share(w)
    <3>1. pc[w] \in {"drop", "share"} /\ job' = Free(J(w))
      BY <2>2 DEF Drop, Share
    <3> QED BY <1>3, <3>1, InUse
  <2>3. CASE Task(w)
    <3>1. pc[w] = "task" /\ RunTask(w) /\ w \in Threads
      BY <2>3 DEF Task, Threads
    <3>2. J(w) \in Jobs /\ Kind(J(w)) = "internal" /\ at[w].task < job[J(w)].n
      BY <3>1 DEF WorkerAt
    <3>3. at[w].task \in Nat
      BY <3>1, Constants DEF Typed
    <3> QED BY <1>4, <3>1, <3>2, <3>3
  <2>4. CASE CountTask(w)
    <3>1. pc[w] = "count"
      BY <2>4 DEF CountTask
    <3>2. PICK j \in Jobs : j = J(w) /\ Kind(j) = "internal"
      BY <3>1 DEF WorkerAt
    <3>3. job[j] \in Blocks /\ job[j].nf + 1 \in Nat
      BY <3>2, BlockOf DEF Kinds
    <3>4. [job[j] EXCEPT !.nf = job[j].nf + 1] \in Blocks
      BY <3>3, StoreBlock
    <3>5. job' = [job EXCEPT ![j] = [job[j] EXCEPT !.nf = job[j].nf + 1]]
      BY <2>4, <3>2 DEF CountTask
    <3> QED BY <1>1, <3>4, <3>5
  <2>5. CASE FutexWait(w) \/ Kick(w) \/ Kicked(w) \/ Finish(w)
    BY <1>2, <2>5 DEF FutexWait, Kick, Kicked, Finish
  <2> QED BY <1>6, <2>1, <2>2, <2>3, <2>4, <2>5 DEF Worker
<1>7. ASSUME NEW c \in Callers, InCall(c) PROVE job' \in [Jobs -> {Unused, Gone} \cup Blocks]
  <2>1. CASE Enqueue(c)
    <3>1. J(c) \in Jobs
      BY <2>1 DEF CallerAt, Enqueue
    <3> QED BY <1>1, <1>2, <2>1, <3>1 DEF Enqueue, Self
  <2>2. CASE Wake(c) \/ OwnShare(c) \/ AppendTasks(c)
    BY <1>2, <2>2 DEF Wake, OwnShare, AppendTasks
  <2>3. CASE Own(c)
    <3>1. pc[c] = "own" /\ RunTask(c) /\ c \in Threads
      BY <2>3 DEF Own, Threads
    <3>2. J(c) \in Jobs /\ Kind(J(c)) = "internal" /\ at[c].task < job[J(c)].n
      BY <3>1 DEF CallerAt
    <3>3. at[c].task \in Nat
      BY <3>1, Constants DEF Typed
    <3> QED BY <1>4, <3>1, <3>2, <3>3
  <2>4. CASE NextTask(c)
    <3>1. pc[c] = "next"
      BY <2>4 DEF NextTask
    <3>2. PICK j \in Jobs : j = J(c) /\ Kind(j) = "internal"
      BY <3>1 DEF CallerAt
    <3>3. PICK k, b : k = Kept(j) /\ b = IF job[j].begun < job[j].n THEN job[j].begun + 1 ELSE job[j].begun
      OBVIOUS
    <3>4. job[j] \in Blocks /\ job[j].nf + 1 \in Nat /\ k \in Nat /\ b \in Nat
      BY <3>2, <3>3, BlockOf DEF Kinds, Kept
    <3>5. [job[j] EXCEPT !.nf = job[j].nf + 1, !.refs = k, !.begun = b] \in Blocks
      BY <3>4 DEF Blocks
    <3>6. job' = [job EXCEPT ![j].nf = @ + 1, ![j].refs = k, ![j].begun = b]
      BY <2>4, <3>2, <3>3 DEF NextTask
    <3>7. job' = [job EXCEPT ![j] = [job[j] EXCEPT !.nf = job[j].nf + 1, !.refs = k, !.begun = b]]
      BY <1>0, <3>4, <3>6 DEF Blocks
    <3> QED BY <1>1, <3>5, <3>7
  <2>5. CASE Return(c)
    <3>1. pc[c] = "spin" /\ job' = Free(J(c))
      BY <2>5 DEF Return
    <3>2. J(c) \in Jobs /\ Kind(J(c)) \in Kinds /\ job[J(c)].refs > 0
      BY <3>1, InUse DEF Kinds
    <3> QED BY <1>3, <3>1, <3>2
  <2> QED BY <1>7, <2>1, <2>2, <2>3, <2>4, <2>5 DEF InCall
<1>8. ASSUME NEW c \in Callers, CallUser(c) \/ CallLocales(c) \/ CallInternal(c)
      PROVE  job' \in [Jobs -> {Unused, Gone} \cup Blocks]
  <2>1. PICK r \in Blocks : Call(c, r)
    BY <1>8, CallOf
  <2> QED BY <1>1, <2>1 DEF Call, Self
<1>9. CASE KickPool \/ Delete \/ WakePool \/ Suspend \/ Unsuspend \/ UNCHANGED vars
  BY <1>2, <1>9 DEF KickPool, Delete, WakePool, Suspend, Unsuspend, vars
<1> QED BY <1>6, <1>7, <1>8, <1>9 DEF Next

\* The threads stay at places of their own code.
LEMMA TypedPlaces ==
    ASSUME IndInv, [Next]_vars
    PROVE  /\ pc' \in [Threads -> WorkerPlaces \cup CallerPlaces]
           /\ \A w \in Workers : pc'[w] \in WorkerPlaces
           /\ \A c \in Callers : pc'[c] \in CallerPlaces
<1> USE DEF IndInv
<1>0. /\ pc \in [Threads -> WorkerPlaces \cup CallerPlaces] /\ Callers \cap Workers = {}
      /\ \A w \in Workers : pc[w] \in WorkerPlaces
      /\ \A c \in Callers : pc[c] \in CallerPlaces
      /\ Threads = Workers \cup Callers /\ "polling" \in WorkerPlaces
      /\ \A c \in Callers : pc[c] # "asleep"
  BY Constants DEF Typed, Threads, WorkerPlaces, CallerPlaces, Waiting
<1>1. ASSUME NEW p \in Threads, NEW place, p \in Workers => place \in WorkerPlaces,
             p \in Callers => place \in CallerPlaces, Go(p, place) \/ WakeAll(p, place) \/ WakeOne(p, place)
      PROVE  /\ pc' \in [Threads -> WorkerPlaces \cup CallerPlaces]
             /\ \A w \in Workers : pc'[w] \in WorkerPlaces
             /\ \A c \in Callers : pc'[c] \in CallerPlaces
  <2>1. CASE Go(p, place)
    BY <1>0, <1>1, <2>1 DEF Go
  <2>2. CASE WakeAll(p, place)
    BY <1>0, <1>1, <2>2 DEF WakeAll
  <2>3. CASE WakeOne(p, place)
    <3>1. CASE Asleep = {}
      BY <1>0, <1>1, <2>3, <3>1 DEF WakeOne, Go
    <3>2. CASE Asleep # {}
      <4>1. PICK w \in Workers : pc' = [pc EXCEPT ![p] = place, ![w] = "polling"]
        BY <2>3, <3>2 DEF WakeOne, Asleep
      <4> QED BY <1>0, <1>1, <4>1
    <3> QED BY <3>1, <3>2
  <2> QED BY <1>1, <2>1, <2>2, <2>3
<1>2. CASE pc' = pc
  BY <1>0, <1>2
<1>3. ASSUME NEW w \in Workers, Worker(w)
      PROVE  /\ pc' \in [Threads -> WorkerPlaces \cup CallerPlaces]
             /\ \A v \in Workers : pc'[v] \in WorkerPlaces
             /\ \A c \in Callers : pc'[c] \in CallerPlaces
  <2>1. w \in Threads /\ w \notin Callers
    BY <1>0
  <2>2. \E place \in WorkerPlaces : Go(w, place) \/ WakeAll(w, place)
    <3>1. CASE Taken(w, 0) \/ Taken(w, 1)
      <4>1. pc'[w] \in {"drop", "task", "kick", "share"}
        BY <3>1, TakenPlace
      <4>2. \E place : Go(w, place)
        BY <3>1 DEF Taken, GoWith
      <4>3. Go(w, pc'[w])
        BY <1>0, <2>1, <4>2 DEF Go
      <4>4. pc'[w] \in WorkerPlaces
        BY <4>1 DEF WorkerPlaces, Running
      <4> QED BY <4>3, <4>4
    <3>2. CASE ~Taken(w, 0) /\ ~Taken(w, 1)
      <4>1. CASE Look(w) \/ Poll(w)
        <5>1. Go(w, "sampled") \/ Go(w, "ended") \/ Go(w, "polling")
          BY <3>2, <4>1 DEF Look, Poll, TakeHead, Refused, Rest, Linger, Sample
        <5> QED BY <5>1 DEF WorkerPlaces, Waiting, Running
      <4>2. CASE FutexWait(w) \/ Drop(w) \/ Task(w) \/ Kick(w) \/ Share(w)
        <5>1. Go(w, "asleep") \/ Go(w, "polling") \/ Go(w, "look") \/ Go(w, "count") \/ Go(w, "wake")
              \/ Go(w, "finishjob") \/ Go(w, "finish")
          BY <4>2 DEF FutexWait, Drop, Task, Kick, Share, GoWith
        <5> QED BY <5>1 DEF WorkerPlaces, Waiting, Running
      <4>3. CASE CountTask(w) \/ Finish(w) \/ Kicked(w)
        <5>1. Go(w, "ended") \/ Go(w, "look") \/ WakeAll(w, "share")
          BY <4>3 DEF CountTask, Finish, EndOrGoOn, Kicked
        <5> QED BY <5>1 DEF WorkerPlaces, Waiting, Running
      <4> QED BY <1>3, <4>1, <4>2, <4>3 DEF Worker
    <3> QED BY <3>1, <3>2
  <2> QED BY <1>1, <2>1, <2>2
<1>4. ASSUME NEW c \in Callers, InCall(c) \/ CallUser(c) \/ CallLocales(c) \/ CallInternal(c)
      PROVE  /\ pc' \in [Threads -> WorkerPlaces \cup CallerPlaces]
             /\ \A v \in Workers : pc'[v] \in WorkerPlaces
             /\ \A d \in Callers : pc'[d] \in CallerPlaces
  <2>1. c \in Threads /\ c \notin Workers
    BY <1>0
  <2>2. \E place \in CallerPlaces : Go(c, place) \/ WakeAll(c, place) \/ WakeOne(c, place)
    <3>1. CASE InCall(c)
      <4>1. CASE Wake(c)
        <5>1. PICK next \in {"ownshare", "own", "idle"} : WakeAll(c, next) \/ WakeOne(c, next)
          BY <4>1 DEF Wake
        <5> QED BY <5>1 DEF CallerPlaces
      <4>2. CASE ~Wake(c)
        <5>1. Go(c, "idle") \/ Go(c, "wakeall") \/ Go(c, "wakeone") \/ Go(c, "own") \/ Go(c, "next") \/ Go(c, "spin")
          BY <3>1, <4>2 DEF InCall, Enqueue, Self, OwnShare, AppendTasks, Own, NextTask, Return, GoWith
        <5> QED BY <5>1 DEF CallerPlaces
      <4> QED BY <4>1, <4>2
    <3>2. CASE ~InCall(c)
      <4>1. PICK r \in Blocks : Call(c, r) /\ (r.kind # "internal" => r.n = 0)
        BY <1>4, <3>2, CallOf
      <4>2. \/ Go(c, CASE r.kind # "internal" -> "enqueue"
                      [] ~suspended /\ nthreads # 0 /\ r.n > 1 -> "append"
                      [] OTHER -> "own")
            \/ Go(c, "idle")
        BY <4>1 DEF Call, GoWith, Self
      <4>3. r.kind # "internal" => ~(r.n > 1)
        BY <4>1
      <4>4. Go(c, "enqueue") \/ Go(c, "append") \/ Go(c, "own") \/ Go(c, "idle")
        BY <4>2, <4>3
      <4> QED BY <4>4 DEF CallerPlaces
    <3> QED BY <3>1, <3>2
  <2> QED BY <1>1, <2>1, <2>2
<1>5. CASE WakePool
  BY <1>0, <1>5 DEF WakePool
<1>6. CASE KickPool \/ Delete \/ Suspend \/ Unsuspend \/ UNCHANGED vars
  BY <1>2, <1>6 DEF KickPool, Delete, Suspend, Unsuspend, vars
<1> QED BY <1>3, <1>4, <1>5, <1>6 DEF Next

\* The pieces that threads hold keep their types.
LEMMA TypedAt ==
    ASSUME IndInv, [Next]_vars
    PROVE  at' \in [Threads -> [job : Jobs \cup {None}, task : Tasks, err : 0..MaxTasks]]
<1> USE DEF IndInv
<1>0. /\ at \in [Threads -> [job : Jobs \cup {None}, task : Tasks, err : 0..MaxTasks]]
      /\ 0 \in Tasks /\ 0 \in 0..MaxTasks
  BY Constants DEF Typed
<1>1. ASSUME NEW p, NEW a \in [job : Jobs \cup {None}, task : Tasks, err : 0..MaxTasks], at' = [at EXCEPT ![p] = a]
      PROVE  at' \in [Threads -> [job : Jobs \cup {None}, task : Tasks, err : 0..MaxTasks]]
  BY <1>0, <1>1
<1>2. Nowhere \in [job : Jobs \cup {None}, task : Tasks, err : 0..MaxTasks]
  BY <1>0 DEF Nowhere
<1>3. \A j \in Jobs : [Nowhere EXCEPT !.job = j] \in [job : Jobs \cup {None}, task : Tasks, err : 0..MaxTasks]
  BY <1>0 DEF Nowhere
<1>4. ASSUME NEW w \in Workers, queue # <<>>, Look(w) \/ Poll(w)
      PROVE  at' \in [Threads -> [job : Jobs \cup {None}, task : Tasks, err : 0..MaxTasks]]
  <2>1. PICK h : h = Head(queue)
    OBVIOUS
  <2>2. PICK less \in {0, 1} : (Refused(w, less) \/ Taken(w, less)) /\ pc[w] \in {"look", "polling"} /\ UNCHANGED history
    BY <1>4 DEF Look, Poll, TakeHead, Rest, Linger
  <2>3. CASE Refused(w, less)
    BY <1>0, <2>3 DEF Refused
  <2>4. CASE Taken(w, less)
    <3>1. Took(w, less, h)
      BY <1>4, <2>1, <2>2, <2>4, TakenStep
    <3>2. h \in Jobs /\ Kind(h) \in Kinds
      BY <3>1 DEF Took
    <3>3. at'[w] \in [job : Jobs \cup {None}, task : Tasks, err : 0..MaxTasks]
      <4>1. CASE Kind(h) = "user"
        BY <1>0, <3>1, <3>2, <4>1 DEF Took
      <4>2. CASE Kind(h) = "locales"
        <5>1. PyxOf(w, job[h].mask) \in Tasks
          <6>1. job[h].mask \in SUBSET Indices /\ w \in Indices
            BY <3>2, BlockOf, Constants DEF Workers, Indices
          <6> QED BY <6>1, PyxOfShare
        <5> QED BY <1>0, <3>1, <3>2, <4>2, <5>1 DEF Took
      <4>3. CASE Kind(h) = "internal"
        <5>1. /\ job[h].err \in 0..MaxTasks /\ job[h].begun \in Nat /\ job[h].n \in Nat
              /\ job[h].begun < job[h].n => job[h].begun \in Tasks
          BY <3>2, <4>3, BlockOf
        <5> QED BY <1>0, <3>1, <3>2, <4>3, <5>1 DEF Took
      <4> QED BY <3>2, <4>1, <4>2, <4>3 DEF Kinds
    <3>4. at' = [at EXCEPT ![w] = at'[w]]
      <4>1. PICK a : at' = [at EXCEPT ![w] = a]
        BY <2>4 DEF Taken, GoWith
      <4> QED BY <1>0, <4>1 DEF Threads
    <3> QED BY <1>1, <3>3, <3>4
  <2> QED BY <2>2, <2>3, <2>4
<1>5. ASSUME NEW w \in Workers, Worker(w)
      PROVE  at' \in [Threads -> [job : Jobs \cup {None}, task : Tasks, err : 0..MaxTasks]]
  <2>1. CASE (Look(w) \/ Poll(w)) /\ queue = <<>>
    BY <1>0, <2>1 DEF Look, Poll, TakeHead, Rest, Linger
  <2>2. CASE FutexWait(w) \/ Task(w) \/ Kick(w) \/ Kicked(w)
    BY <1>0, <2>2 DEF FutexWait, Task, Kick, Kicked
  <2>3. CASE Drop(w) \/ Share(w) \/ CountTask(w) \/ Finish(w)
    BY <1>1, <1>2, <2>3 DEF Drop, Share, CountTask, Finish, EndOrGoOn, GoWith
  <2> QED BY <1>4, <1>5, <2>1, <2>2, <2>3 DEF Worker
<1>6. ASSUME NEW c \in Callers, InCall(c)
      PROVE  at' \in [Threads -> [job : Jobs \cup {None}, task : Tasks, err : 0..MaxTasks]]
  <2>1. CASE Enqueue(c) \/ OwnShare(c) \/ Return(c)
    BY <1>0, <1>1, <1>2, <2>1 DEF Enqueue, Self, OwnShare, Return, GoWith
  <2>2. CASE AppendTasks(c) \/ Own(c)
    BY <1>0, <2>2 DEF AppendTasks, Own
  <2>3. CASE Wake(c)
    BY <1>0, <1>2, <2>3 DEF Wake
  <2>4. CASE NextTask(c)
    <3>1. pc[c] = "next"
      BY <2>4 DEF NextTask
    <3>2. PICK j \in Jobs : j = J(c) /\ Kind(j) = "internal"
      BY <3>1 DEF CallerAt
    <3>3. /\ job[j].err \in 0..MaxTasks /\ job[j].begun \in Nat /\ job[j].n \in Nat
          /\ job[j].begun < job[j].n => job[j].begun \in Tasks
      BY <3>2, BlockOf DEF Kinds
    <3>4. \/ job[j].begun < job[j].n /\ at' = [at EXCEPT ![c] = [job |-> j, task |-> job[j].begun, err |-> job[j].err]]
          \/ at' = [at EXCEPT ![c] = [Nowhere EXCEPT !.job = j]]
      BY <2>4, <3>2 DEF NextTask, GoWith
    <3> QED BY <1>1, <1>3, <3>3, <3>4
  <2> QED BY <1>6, <2>1, <2>2, <2>3, <2>4 DEF InCall
<1>7. ASSUME NEW c \in Callers, CallUser(c) \/ CallLocales(c) \/ CallInternal(c)
      PROVE  at' \in [Threads -> [job : Jobs \cup {None}, task : Tasks, err : 0..MaxTasks]]
  BY <1>1, <1>2, <1>3, <1>7 DEF CallUser, CallLocales, CallInternal, Call, Self, GoWith
<1>8. CASE KickPool \/ Delete \/ WakePool \/ Suspend \/ Unsuspend \/ UNCHANGED vars
  BY <1>0, <1>8 DEF KickPool, Delete, WakePool, Suspend, Unsuspend, vars
<1> QED BY <1>5, <1>6, <1>7, <1>8 DEF Next

\* What has been run, has failed and was returned keeps its types.
LEMMA TypedHistory ==
    ASSUME IndInv, [Next]_vars
    PROVE  /\ ran' \in [Jobs -> [Tasks -> 0..2]]
           /\ failed' \in [Jobs -> SUBSET Tasks]
           /\ result' \in [Jobs -> (0..MaxTasks) \cup {None}]
<1> USE DEF IndInv
<1>0. /\ ran \in [Jobs -> [Tasks -> 0..2]]
      /\ failed \in [Jobs -> SUBSET Tasks]
      /\ result \in [Jobs -> (0..MaxTasks) \cup {None}]
      /\ at \in [Threads -> [job : Jobs \cup {None}, task : Tasks, err : 0..MaxTasks]] /\ 0 \in Tasks
      /\ Workers \subseteq Threads /\ Callers \subseteq Threads
  BY Constants DEF Typed, Threads
<1>1. CASE UNCHANGED history
  BY <1>0, <1>1 DEF history
<1>2. ASSUME NEW j \in Jobs, NEW i \in Tasks, NEW fails \in BOOLEAN, Ran(j, i, fails)
      PROVE  /\ ran' \in [Jobs -> [Tasks -> 0..2]]
             /\ failed' \in [Jobs -> SUBSET Tasks]
             /\ result' \in [Jobs -> (0..MaxTasks) \cup {None}]
  <2>1. PICK x : x = IF ran[j][i] < 2 THEN ran[j][i] + 1 ELSE ran[j][i]
    OBVIOUS
  <2>2. x \in 0..2
    BY <1>0, <2>1
  <2>3. ran' = [ran EXCEPT ![j] = [ran[j] EXCEPT ![i] = x]]
    BY <1>2, <2>1 DEF Ran
  <2>4. [ran[j] EXCEPT ![i] = x] \in [Tasks -> 0..2]
    BY <1>0, <2>2
  <2>5. ran' \in [Jobs -> [Tasks -> 0..2]]
    BY <1>0, <2>3, <2>4
  <2> QED BY <1>0, <1>2, <2>5 DEF Ran
<1>3. ASSUME NEW p \in Threads, J(p) \in Jobs, RunTask(p)
      PROVE  /\ ran' \in [Jobs -> [Tasks -> 0..2]]
             /\ failed' \in [Jobs -> SUBSET Tasks]
             /\ result' \in [Jobs -> (0..MaxTasks) \cup {None}]
  <2>1. at[p].task \in Tasks
    BY <1>0
  <2> QED BY <1>1, <1>2, <1>3, <2>1 DEF RunTask
<1>4. ASSUME NEW w \in Workers, Worker(w)
      PROVE  /\ ran' \in [Jobs -> [Tasks -> 0..2]]
             /\ failed' \in [Jobs -> SUBSET Tasks]
             /\ result' \in [Jobs -> (0..MaxTasks) \cup {None}]
  <2>1. CASE Task(w)
    <3>1. J(w) \in Jobs
      BY <2>1 DEF Task, WorkerAt
    <3> QED BY <1>0, <1>3, <2>1, <3>1 DEF Task
  <2>2. CASE Share(w)
    <3>1. J(w) \in Jobs /\ at[w].task \in Tasks
      BY <1>0, <2>2 DEF Share, WorkerAt
    <3> QED BY <1>2, <2>2, <3>1 DEF Share
  <2> QED BY <1>1, <1>4, <2>1, <2>2 DEF Worker, Look, Poll, FutexWait, Drop, CountTask, Kick, Kicked, Finish
<1>5. ASSUME NEW c \in Callers, InCall(c)
      PROVE  /\ ran' \in [Jobs -> [Tasks -> 0..2]]
             /\ failed' \in [Jobs -> SUBSET Tasks]
             /\ result' \in [Jobs -> (0..MaxTasks) \cup {None}]
  <2>0. pc[c] # "idle" => J(c) \in Jobs
    BY DEF CallerAt
  <2>1. CASE Enqueue(c)
    BY <1>0, <1>1, <1>2, <2>0, <2>1 DEF Enqueue, Self
  <2>2. CASE Own(c)
    BY <1>0, <1>3, <2>0, <2>2 DEF Own
  <2>3. CASE OwnShare(c)
    BY <1>0, <1>2, <2>0, <2>3 DEF OwnShare
  <2>4. CASE Return(c)
    <3>1. PICK j \in Jobs : j = J(c) /\ Kind(j) = "internal"
      BY <2>4 DEF Return, CallerAt
    <3>2. job[j].err \in 0..MaxTasks
      BY <3>1, BlockOf DEF Kinds
    <3>3. result' = [result EXCEPT ![j] = job[j].err] /\ ran' = ran /\ failed' = failed
      BY <2>4, <3>1 DEF Return
    <3> QED BY <1>0, <3>2, <3>3
  <2> QED BY <1>1, <1>5, <2>1, <2>2, <2>3, <2>4 DEF InCall, Wake, AppendTasks, NextTask
<1>6. ASSUME NEW c \in Callers, CallUser(c) \/ CallLocales(c) \/ CallInternal(c)
      PROVE  /\ ran' \in [Jobs -> [Tasks -> 0..2]]
             /\ failed' \in [Jobs -> SUBSET Tasks]
             /\ result' \in [Jobs -> (0..MaxTasks) \cup {None}]
  BY <1>0, <1>1, <1>2, <1>6 DEF CallUser, CallLocales, CallInternal, Call, Self
<1>7. CASE KickPool \/ Delete \/ WakePool \/ Suspend \/ Unsuspend \/ UNCHANGED vars
  BY <1>1, <1>7 DEF KickPool, Delete, WakePool, Suspend, Unsuspend, vars, history
<1> QED BY <1>4, <1>5, <1>6, <1>7 DEF Next

\* The queue, the lock and the pool keep their types.
LEMMA TypedWorld ==
    ASSUME IndInv, [Next]_vars
    PROVE  /\ queue' \in Seq(Jobs) /\ holder' \in Workers \cup {None} /\ fresh' \subseteq Workers
           /\ nthreads' \in 0..NWorkers
           /\ told' \subseteq Workers /\ suspended' \in BOOLEAN /\ kicks' \in Nat /\ left' \in Nat
           /\ kicks' + left' <= MaxUpsets
<1> USE DEF IndInv
<1>0. /\ queue \in Seq(Jobs) /\ holder \in Workers \cup {None} /\ fresh \subseteq Workers
      /\ nthreads \in 0..NWorkers /\ NWorkers \in Nat /\ MaxUpsets \in Nat
      /\ told \subseteq Workers /\ suspended \in BOOLEAN /\ kicks \in Nat /\ left \in Nat
      /\ kicks + left <= MaxUpsets
      /\ Tail(queue) \in Seq(Jobs) \/ queue = <<>>
  BY Constants, QueueTail DEF Typed
<1>1. ASSUME NEW w \in Workers, Look(w) \/ Poll(w)
      PROVE  queue' \in Seq(Jobs)
  <2>1. CASE queue # <<>>
    BY <1>0, <1>1, <2>1 DEF Look, Poll, TakeHead, Refused, Taken, Rest, Linger
  <2>2. CASE queue = <<>>
    BY <1>0, <1>1, <2>2 DEF Look, Poll, TakeHead, Rest, Linger
  <2> QED BY <2>1, <2>2
<1>2. ASSUME NEW w \in Workers, Worker(w)
      PROVE  /\ holder' \in Workers \cup {None} /\ fresh' \subseteq Workers
             /\ nthreads' = nthreads /\ suspended' = suspended /\ kicks' = kicks /\ left' = left
             /\ told' \subseteq Workers /\ queue' \in Seq(Jobs)
  <2>1. CASE Look(w) \/ Poll(w)
    <3>1. fresh' \subseteq Workers /\ told' \subseteq Workers
      BY <1>0, <2>1 DEF Look, Poll, TakeHead, Refused, Taken, Rest, Linger, Sample
    <3> QED BY <1>0, <1>1, <2>1, <3>1 DEF Look, Poll
  <2>2. CASE CountTask(w) \/ Finish(w)
    BY <1>0, <2>2 DEF CountTask, Finish, EndOrGoOn, counts
  <2> QED BY <1>0, <1>2, <2>1, <2>2 DEF Worker, FutexWait, Drop, Task, Kick, Kicked, Share, counts, world
<1>3. ASSUME NEW c \in Callers, InCall(c) \/ CallUser(c) \/ CallLocales(c) \/ CallInternal(c)
      PROVE  /\ holder' = holder /\ fresh' \subseteq Workers
             /\ nthreads' = nthreads /\ suspended' = suspended /\ kicks' = kicks /\ left' = left
             /\ told' = told /\ queue' \in Seq(Jobs)
  <2>0. pc[c] # "idle" => J(c) \in Jobs
    BY DEF CallerAt
  <2>1. CASE Enqueue(c)
    BY <1>0, <2>0, <2>1, QueueAppend DEF Enqueue, AppendJob, counts, world
  <2>2. CASE AppendTasks(c)
    BY <1>0, <2>0, <2>2, QueueAppend DEF AppendTasks, AppendJob, counts, world
  <2>3. CASE NextTask(c)
    BY <1>0, <2>3 DEF NextTask, QueueAfter, counts, world
  <2> QED BY <1>0, <1>3, <2>1, <2>2, <2>3 DEF InCall, Wake, OwnShare, Own, Return,
            CallUser, CallLocales, CallInternal, Call, counts, world
<1>4. CASE KickPool \/ Delete \/ WakePool \/ Suspend \/ Unsuspend \/ UNCHANGED vars
  <2>1. CASE KickPool
    BY <1>0, <2>1 DEF KickPool, counts
  <2>2. CASE Delete
    <3>1. told' \subseteq Workers
      BY <1>0, <2>2 DEF Delete
    <3>2. nthreads' \in 0..NWorkers /\ kicks' \in Nat /\ left' \in Nat /\ kicks' + left' <= MaxUpsets
      BY <1>0, <2>2 DEF Delete
    <3>3. queue' = queue /\ holder' = holder /\ fresh' \subseteq Workers /\ suspended' = suspended
      BY <1>0, <2>2 DEF Delete
    <3> QED BY <1>0, <3>1, <3>2, <3>3
  <2>3. CASE WakePool
    BY <1>0, <2>3 DEF WakePool, counts
  <2>4. CASE Suspend \/ Unsuspend
    <3>1. suspended' \in BOOLEAN
      BY <2>4 DEF Suspend, Unsuspend
    <3>2. left' \in Nat /\ kicks' = kicks /\ kicks' + left' <= MaxUpsets
      BY <1>0, <2>4 DEF Suspend, Unsuspend
    <3>3. queue' = queue /\ holder' = holder /\ fresh' = fresh /\ nthreads' = nthreads /\ told' = told
      BY <2>4 DEF Suspend, Unsuspend, counts
    <3> QED BY <1>0, <3>1, <3>2, <3>3
  <2>5. CASE UNCHANGED vars
    BY <1>0, <2>5 DEF vars
  <2> QED BY <1>4, <2>1, <2>2, <2>3, <2>4, <2>5
<1> QED BY <1>0, <1>2, <1>3, <1>4 DEF Next

\* Every step keeps all types.
LEMMA TypedStep ==
    ASSUME IndInv, [Next]_vars
    PROVE  Typed'
BY TypedJob, TypedPlaces, TypedAt, TypedHistory, TypedWorld, CountsStep DEF Typed

-----------------------------------------------------------------------------
\* What the queued jobs are does not change, except as the head is taken or
\* refuses a worker.
SameQueued ==
  \A j \in Jobs : Queued(j) =>
    /\ Kind(j)' = Kind(j)
    /\ Kind(j) = "locales" => job'[j].begun = job[j].begun /\ job'[j].asked = job[j].asked

\* Only a worker at the head changes which blocks are queued with work to start, or
\* their kinds, apart from what an append adds.
LEMMA QueuedFixed ==
    ASSUME IndInv,
           \/ \E w \in Workers : Worker(w) /\ pc[w] \notin {"look", "polling"}
           \/ \E c \in Callers : InCall(c) \/ CallUser(c) \/ CallLocales(c) \/ CallInternal(c)
           \/ KickPool \/ Delete \/ WakePool \/ Suspend \/ Unsuspend \/ UNCHANGED vars
    PROVE  SameQueued
<1> USE DEF IndInv
<1>0. job \in [Jobs -> {Unused, Gone} \cup Blocks]
  BY DEF Typed
<1>1. CASE job' = job
  BY <1>1 DEF SameQueued, Kind
<1>2. ASSUME NEW h \in Jobs, \A k \in Jobs \ {h} : job'[k] = job[k],
             \/ ~Queued(h)
             \/ Kind(h)' = Kind(h) /\ job'[h].begun = job[h].begun /\ job'[h].asked = job[h].asked
             \/ Kind(h)' = "internal" /\ Kind(h) = "internal"
      PROVE  SameQueued
  BY <1>2 DEF SameQueued, Kind
<1>3. ASSUME NEW h \in Jobs, job[h] \in Blocks,
             \/ \E x : job' = [job EXCEPT ![h].refs = x] \/ job' = [job EXCEPT ![h].nf = x]
             \/ \E x : job' = [job EXCEPT ![h].err = x]
      PROVE  SameQueued
  <2>1. /\ \A k \in Jobs \ {h} : job'[k] = job[k]
        /\ Kind(h)' = Kind(h) /\ job'[h].begun = job[h].begun /\ job'[h].asked = job[h].asked
    BY <1>0, <1>3 DEF Kind, Blocks
  <2> QED BY <1>2, <2>1
<1>4. ASSUME NEW w \in Workers, Worker(w), pc[w] \notin {"look", "polling"} PROVE SameQueued
  <2>1. CASE Drop(w) \/ Share(w) \/ Task(w) \/ CountTask(w)
    <3>1. PICK h \in Jobs : h = J(w) /\ job[h] \in Blocks
      <4>1. pc[w] \in {"drop", "share", "task", "count"}
        BY <2>1 DEF Drop, Share, Task, CountTask
      <4>2. J(w) \in Jobs /\ Kind(J(w)) \in Kinds
        BY <4>1 DEF WorkerAt, Kinds
      <4> QED BY <4>2, KindOf
    <3> QED BY <1>1, <1>3, <2>1, <3>1 DEF Drop, Share, Task, CountTask, Free, RunTask
  <2> QED BY <1>1, <1>4, <2>1 DEF Worker, Look, Poll, FutexWait, Kick, Kicked, Finish
<1>5. ASSUME NEW c \in Callers, InCall(c) PROVE SameQueued
  <2>1. CASE Enqueue(c)
    <3>1. PICK h \in Jobs : h = J(c) /\ ~Queued(h)
      BY <2>1, NotQueuedYet DEF Enqueue
    <3>2. job' = job \/ job' = [job EXCEPT ![h] = Gone]
      BY <2>1, <3>1 DEF Enqueue, Self
    <3>3. \A k \in Jobs \ {h} : job'[k] = job[k]
      BY <1>0, <3>2
    <3> QED BY <1>2, <3>1, <3>3
  <2>2. CASE Own(c) \/ NextTask(c) \/ Return(c)
    <3>1. PICK h \in Jobs : h = J(c) /\ job[h] \in Blocks /\ Kind(h) = "internal"
      <4>1. pc[c] \in {"own", "next", "spin"}
        BY <2>2 DEF Own, NextTask, Return
      <4>2. J(c) \in Jobs /\ Kind(J(c)) = "internal"
        BY <4>1 DEF CallerAt
      <4> QED BY <4>2, KindOf DEF Kinds
    <3>2. CASE Own(c) \/ Return(c)
      BY <1>1, <1>3, <3>1, <3>2 DEF Own, Return, Free, RunTask
    <3>3. CASE NextTask(c)
      <4>1. Kind(h)' = "internal" /\ \A k \in Jobs \ {h} : job'[k] = job[k]
        BY <1>0, <3>1, <3>3 DEF NextTask, Kind, Blocks
      <4> QED BY <1>2, <3>1, <4>1
    <3> QED BY <2>2, <3>2, <3>3
  <2> QED BY <1>1, <1>5, <2>1, <2>2 DEF InCall, Wake, OwnShare, AppendTasks
<1>6. ASSUME NEW c \in Callers, CallUser(c) \/ CallLocales(c) \/ CallInternal(c) PROVE SameQueued
  <2>1. PICK r : Call(c, r)
    BY <1>6 DEF CallUser, CallLocales, CallInternal
  <2>2. PICK h \in Jobs : /\ \A k \in Jobs : k >= h <=> job[k].kind = "none"
                          /\ \A k \in Jobs \ {h} : job'[k] = job[k]
    BY <1>0, <2>1 DEF Call, Self
  <2>3. Kind(h) = "none"
    BY <2>2 DEF Kind, Jobs
  <2>4. ~Queued(h)
    BY <2>3, NotInUse
  <2> QED BY <1>2, <2>2, <2>4
<1>7. CASE KickPool \/ Delete \/ WakePool \/ Suspend \/ Unsuspend \/ UNCHANGED vars
  BY <1>1, <1>7 DEF KickPool, Delete, WakePool, Suspend, Unsuspend, vars
<1> QED BY <1>4, <1>5, <1>6, <1>7

-----------------------------------------------------------------------------
\* Who is there to take work.

\* A worker ends only when it was told to.
LEMMA StayingStep ==
    ASSUME IndInv, [Next]_vars
    PROVE  /\ {w \in Workers : pc[w] # "ended" /\ w \notin told}' = (1..nthreads)'
           /\ (\A w \in told : pc[w] # "ended")'
<1> USE DEF IndInv
<1>0. /\ {w \in Workers : pc[w] # "ended" /\ w \notin told} = 1..nthreads
      /\ \A w \in told : pc[w] # "ended"
      /\ told \subseteq Workers /\ Workers \subseteq Threads /\ nthreads \in Nat /\ nthreads <= NWorkers
      /\ pc \in [Threads -> WorkerPlaces \cup CallerPlaces] /\ NWorkers \in Nat
  BY Constants DEF Pool, Typed, Threads
<1>1. ASSUME nthreads' = nthreads,
             \A w \in Workers : /\ (pc[w] # "ended" /\ w \notin told)' <=> (pc[w] # "ended" /\ w \notin told)
                                /\ w \in told' => w \in told /\ pc'[w] # "ended",
             told' \subseteq told
      PROVE  /\ {w \in Workers : pc[w] # "ended" /\ w \notin told}' = (1..nthreads)'
             /\ (\A w \in told : pc[w] # "ended")'
  BY <1>0, <1>1
<1>2. ASSUME NEW p, Frame(p), nthreads' = nthreads,
             \/ told' = told /\ (p \in Workers => pc'[p] # "ended" /\ pc[p] # "ended")
             \/ p \in told /\ told' = told \ {p} /\ pc'[p] = "ended"
      PROVE  /\ {w \in Workers : pc[w] # "ended" /\ w \notin told}' = (1..nthreads)'
             /\ (\A w \in told : pc[w] # "ended")'
  <2>1. \A w \in Workers \ {p} : pc'[w] = "ended" <=> pc[w] = "ended"
    BY <1>0, <1>2 DEF Frame
  <2>2. \A w \in Workers : /\ (pc[w] # "ended" /\ w \notin told)' <=> (pc[w] # "ended" /\ w \notin told)
                           /\ w \in told' => w \in told /\ pc'[w] # "ended"
    BY <1>0, <1>2, <2>1
  <2> QED BY <1>1, <1>2, <2>2
<1>3. ASSUME NEW w \in Workers, Worker(w)
      PROVE  /\ {v \in Workers : pc[v] # "ended" /\ v \notin told}' = (1..nthreads)'
             /\ (\A v \in told : pc[v] # "ended")'
  <2>1. Frame(w) /\ nthreads' = nthreads /\ w \in Threads
    BY <1>3, WorkerFrame DEF Worker, Look, Poll, FutexWait, Drop, Task, CountTask, Kick, Kicked, Share, Finish, counts
  <2>2. \/ told' = told /\ pc'[w] # "ended" /\ pc[w] # "ended"
        \/ w \in told /\ told' = told \ {w} /\ pc'[w] = "ended"
    <3>1. CASE Look(w) \/ Poll(w)
      <4>1. CASE Taken(w, 0) \/ Taken(w, 1)
        <5>1. pc'[w] # "ended"
          BY <4>1, TakenPlace
        <5>2. pc[w] # "ended"
          BY <3>1 DEF Look, Poll
        <5>3. told' = told
          BY <1>0, <3>1, <5>1 DEF Look, Poll, TakeHead, Rest, Linger, Go, Threads
        <5> QED BY <5>1, <5>2, <5>3
      <4>2. CASE ~Taken(w, 0) /\ ~Taken(w, 1)
        BY <1>0, <2>1, <3>1, <4>2 DEF Look, Poll, TakeHead, Refused, Rest, Linger, Sample, Go
      <4> QED BY <4>1, <4>2
    <3>2. CASE CountTask(w) \/ Finish(w)
      <4>1. pc[w] # "ended" /\ EndOrGoOn(w)
        BY <3>2 DEF CountTask, Finish
      <4>2. \/ w \in told /\ pc'[w] = "ended" /\ told' = told \ {w}
            \/ w \notin told /\ pc'[w] = "look" /\ told' = told
        BY <1>0, <2>1, <4>1 DEF EndOrGoOn, Go
      <4> QED BY <4>1, <4>2
    <3>3. CASE FutexWait(w) \/ Drop(w) \/ Task(w) \/ Kick(w) \/ Kicked(w) \/ Share(w)
      BY <1>0, <2>1, <3>3 DEF FutexWait, Drop, Task, Kick, Kicked, WakeAll, Share, GoWith, Go, world
    <3> QED BY <1>3, <3>1, <3>2, <3>3 DEF Worker
  <2> QED BY <1>2, <2>1, <2>2
<1>4. ASSUME NEW c \in Callers, InCall(c) \/ CallUser(c) \/ CallLocales(c) \/ CallInternal(c)
      PROVE  /\ {w \in Workers : pc[w] # "ended" /\ w \notin told}' = (1..nthreads)'
             /\ (\A w \in told : pc[w] # "ended")'
  <2>1. Frame(c) /\ c \notin Workers
    BY <1>4, CallerFrame
  <2>2. nthreads' = nthreads /\ told' = told
    BY <1>4 DEF InCall, Enqueue, Wake, OwnShare, AppendTasks, Own, NextTask, Return, CallUser, CallLocales,
         CallInternal, Call, counts, world
  <2> QED BY <1>2, <2>1, <2>2
<1>5. CASE Delete
  <2>1. PICK w \in Workers : /\ \A v \in Workers : v >= w => (v = w <=> pc[v] # "ended" /\ v \notin told)
                             /\ told' = told \cup {w}
    BY <1>5 DEF Delete
  <2>2. pc' = pc /\ nthreads' = nthreads - 1 /\ nthreads > 0
    BY <1>5 DEF Delete
  <2>3. w >= w /\ w \in Nat
    BY <1>0 DEF Workers
  <2>4. w \in 1..nthreads /\ nthreads \in Workers
    BY <1>0, <2>1, <2>2, <2>3 DEF Workers
  <2>5. nthreads \in {v \in Workers : pc[v] # "ended" /\ v \notin told}
    BY <1>0, <2>2, <2>4
  <2>6. nthreads >= w
    BY <1>0, <2>4
  <2>7. w = nthreads /\ pc[w] # "ended"
    BY <2>1, <2>3, <2>4, <2>5, <2>6
  <2>8. {v \in Workers : pc[v] # "ended" /\ v \notin told}' =
          {v \in Workers : pc[v] # "ended" /\ v \notin told} \ {w}
    BY <2>1, <2>2
  <2>9. (1..nthreads) \ {nthreads} = 1..(nthreads - 1)
    BY <1>0, <2>2
  <2>10. {v \in Workers : pc[v] # "ended" /\ v \notin told}' = (1..nthreads)'
    BY <1>0, <2>2, <2>7, <2>8, <2>9
  <2> QED BY <1>0, <2>1, <2>2, <2>7, <2>10
<1>6. CASE WakePool
  <2>1. nthreads' = nthreads /\ told' = told /\ \A w \in Workers : pc'[w] = "ended" <=> pc[w] = "ended"
    BY <1>0, <1>6 DEF WakePool, counts
  <2> QED BY <1>0, <1>1, <2>1
<1>7. CASE KickPool \/ Suspend \/ Unsuspend \/ UNCHANGED vars
  <2>1. nthreads' = nthreads /\ told' = told /\ pc' = pc
    BY <1>7 DEF KickPool, Suspend, Unsuspend, vars, counts
  <2> QED BY <1>0, <1>1, <2>1
<1> QED BY <1>3, <1>4, <1>5, <1>6, <1>7 DEF Next

\* The lock is held only by a worker that is to look at the queue again.
LEMMA HolderStep ==
    ASSUME IndInv, [Next]_vars
    PROVE  (holder # None => pc[holder] = "look")'
<1> USE DEF IndInv
<1>0. /\ holder \in Workers \cup {None} /\ (holder # None => pc[holder] = "look")
      /\ Workers \subseteq Threads /\ None \notin Workers
      /\ pc \in [Threads -> WorkerPlaces \cup CallerPlaces]
  BY Constants DEF Pool, Typed, Threads
<1>1. ASSUME NEW p, Frame(p), holder' = holder, pc[p] # "look"
      PROVE  (holder # None => pc[holder] = "look")'
  BY <1>0, <1>1 DEF Frame
<1>2. CASE holder' = None
  BY <1>2
<1>3. ASSUME NEW w \in Workers, Worker(w) PROVE (holder # None => pc[holder] = "look")'
  <2>1. Frame(w) /\ w \in Threads
    BY <1>3, WorkerFrame
  <2>2. CASE Look(w)
    BY <1>2, <2>2 DEF Look
  <2>3. CASE CountTask(w) \/ Finish(w)
    <3>1. pc[w] # "look" /\ EndOrGoOn(w)
      BY <2>3 DEF CountTask, Finish
    <3>2. CASE holder' = holder
      BY <1>1, <2>1, <3>1, <3>2
    <3>3. CASE holder' = w /\ pc'[w] = "look"
      BY <3>3
    <3> QED BY <1>0, <1>2, <2>1, <3>1, <3>2, <3>3 DEF EndOrGoOn, Go
  <2>4. CASE Poll(w) \/ FutexWait(w) \/ Drop(w) \/ Task(w) \/ Kick(w) \/ Kicked(w) \/ Share(w)
    <3>1. pc[w] # "look" /\ holder' = holder
      BY <2>4 DEF Poll, FutexWait, Drop, Task, Kick, Kicked, Share
    <3> QED BY <1>1, <2>1, <3>1
  <2> QED BY <1>3, <2>2, <2>3, <2>4 DEF Worker
<1>4. ASSUME NEW c \in Callers, InCall(c) \/ CallUser(c) \/ CallLocales(c) \/ CallInternal(c)
      PROVE  (holder # None => pc[holder] = "look")'
  <2>1. Frame(c) /\ c \notin Workers /\ pc[c] # "look"
    BY <1>4, CallerFrame DEF Typed, CallerPlaces
  <2>2. holder' = holder
    BY <1>4 DEF InCall, Enqueue, Wake, OwnShare, AppendTasks, Own, NextTask, Return, CallUser, CallLocales,
         CallInternal, Call
  <2> QED BY <1>1, <2>1, <2>2
<1>5. CASE KickPool \/ Delete \/ WakePool \/ Suspend \/ Unsuspend \/ UNCHANGED vars
  <2>1. holder' = holder /\ \A w \in Workers : pc[w] = "look" => pc'[w] = "look"
    BY <1>0, <1>5 DEF KickPool, Delete, WakePool, Suspend, Unsuspend, vars
  <2> QED BY <1>0, <2>1
<1> QED BY <1>3, <1>4, <1>5 DEF Next

\* While a user or locales job is queued a worker is to stay.
LEMMA ServedStep ==
    ASSUME IndInv, [Next]_vars
    PROVE  ((\E j \in Jobs : Queued(j) /\ Kind(j) # "internal") => nthreads > 0)'
<1> USE DEF IndInv
<1>0. /\ (\E j \in Jobs : Queued(j) /\ Kind(j) # "internal") => nthreads > 0
      /\ queue \in Seq(Jobs) /\ nthreads \in Nat
  BY DEF Pool, Typed
<1>1. ASSUME nthreads' = nthreads,
             \A j \in Jobs : Queued(j)' /\ Kind(j)' # "internal" => Queued(j) /\ Kind(j) # "internal"
      PROVE  ((\E j \in Jobs : Queued(j) /\ Kind(j) # "internal") => nthreads > 0)'
  BY <1>0, <1>1 DEF Kind
<1>2. ASSUME SameQueued, nthreads' = nthreads, \A j \in Jobs : Queued(j)' => Queued(j)
      PROVE  ((\E j \in Jobs : Queued(j) /\ Kind(j) # "internal") => nthreads > 0)'
  BY <1>1, <1>2 DEF SameQueued, Kind
<1>3. ASSUME NEW w \in Workers, Look(w) \/ Poll(w)
      PROVE  ((\E j \in Jobs : Queued(j) /\ Kind(j) # "internal") => nthreads > 0)'
  <2>0. nthreads' = nthreads
    BY <1>3 DEF Look, Poll
  <2>1. CASE queue = <<>>
    <3>1. queue' = queue /\ job' = job
      BY <1>3, <2>1 DEF Look, Poll, TakeHead, Rest, Linger
    <3> QED BY <1>1, <2>0, <3>1 DEF Queued, Kind
  <2>2. CASE queue # <<>>
    <3>1. PICK h : h = Head(queue)
      OBVIOUS
    <3>2. PICK less \in {0, 1} : (Refused(w, less) \/ Taken(w, less)) /\ pc[w] \in {"look", "polling"} /\ UNCHANGED history
      BY <1>3, <2>2 DEF Look, Poll, TakeHead, Rest, Linger
    <3>3. CASE Taken(w, less)
      <4>1. Took(w, less, h)
        BY <2>2, <3>1, <3>2, <3>3, TakenStep
      <4>2. h \in Jobs /\ Queued(h) /\ OnlyJob(h) /\ Kind(h)' = Kind(h)
        BY <4>1 DEF Took
      <4> QED BY <1>1, <2>0, <4>2 DEF OnlyJob, Kind
    <3>4. CASE Refused(w, less)
      <4>1. h \in Jobs /\ job[h] \in Blocks
        BY <2>2, <3>1, HeadQueued, BlockOf
      <4>2. PICK a : job' = [job EXCEPT ![h].asked = a]
        BY <3>1, <3>4 DEF Refused
      <4>3. queue' = queue /\ \A j \in Jobs : Kind(j)' = Kind(j)
        BY <3>4, <4>1, <4>2 DEF Refused, Kind, Blocks, Typed
      <4> QED BY <1>1, <2>0, <4>3 DEF Queued
    <3> QED BY <3>2, <3>3, <3>4
  <2> QED BY <2>1, <2>2
<1>4. ASSUME NEW w \in Workers, Worker(w), ~Look(w), ~Poll(w)
      PROVE  ((\E j \in Jobs : Queued(j) /\ Kind(j) # "internal") => nthreads > 0)'
  <2>1. pc[w] \notin {"look", "polling"} /\ queue' = queue /\ nthreads' = nthreads
    BY <1>4 DEF Worker, FutexWait, Drop, Task, CountTask, Kick, Kicked, Share, Finish, counts
  <2>2. SameQueued
    BY <1>4, <2>1, QueuedFixed
  <2> QED BY <1>2, <2>1, <2>2 DEF Queued
<1>5. ASSUME NEW c \in Callers, InCall(c) \/ CallUser(c) \/ CallLocales(c) \/ CallInternal(c)
      PROVE  ((\E j \in Jobs : Queued(j) /\ Kind(j) # "internal") => nthreads > 0)'
  <2>1. SameQueued
    BY <1>5, QueuedFixed
  <2>2. nthreads' = nthreads
    BY <1>5 DEF InCall, Enqueue, Wake, OwnShare, AppendTasks, Own, NextTask, Return, CallUser, CallLocales,
         CallInternal, Call, counts
  <2>3. CASE Enqueue(c)
    <3>1. CASE queue' = queue
      BY <1>2, <2>1, <2>2, <3>1 DEF Queued
    <3>2. CASE queue' # queue
      <4>1. RoomFor(job[J(c)])
        BY <2>3, <3>2 DEF Enqueue
      <4>2. nthreads > 0
        BY <1>0, <4>1 DEF RoomFor, Typed
      <4> QED BY <2>2, <4>2
    <3> QED BY <3>1, <3>2
  <2>4. CASE AppendTasks(c)
    <3>1. PICK h \in Jobs : h = J(c) /\ Kind(h) = "internal"
      BY <2>4 DEF AppendTasks, CallerAt
    <3>2. queue' = Append(queue, h) /\ job' = job
      BY <2>4, <3>1 DEF AppendTasks, AppendJob
    <3>3. \A j \in Jobs : Queued(j)' => Queued(j) \/ j = h
      <4>1. /\ DOMAIN queue' = 1..Len(queue) + 1 /\ DOMAIN queue = 1..Len(queue) /\ Len(queue) \in Nat
            /\ \A i \in DOMAIN queue : queue'[i] = queue[i]
            /\ queue'[Len(queue) + 1] = h
        BY <1>0, <3>2, QueueAppend, LenProperties
      <4>2. \A i \in 1..Len(queue) + 1 : i \in 1..Len(queue) \/ i = Len(queue) + 1
        BY <4>1
      <4> QED BY <4>1, <4>2 DEF Queued
    <3> QED BY <1>1, <2>2, <3>1, <3>2, <3>3 DEF Kind
  <2>5. CASE NextTask(c)
    <3>1. queue' = queue \/ queue' = <<>>
      BY <2>5 DEF NextTask, QueueAfter
    <3>2. \A j \in Jobs : Queued(j)' => Queued(j)
      BY <3>1 DEF Queued
    <3> QED BY <1>2, <2>1, <2>2, <3>2
  <2>6. CASE ~Enqueue(c) /\ ~AppendTasks(c) /\ ~NextTask(c)
    <3>1. queue' = queue
      BY <1>5, <2>6 DEF InCall, Wake, OwnShare, Own, Return, CallUser, CallLocales, CallInternal, Call
    <3> QED BY <1>2, <2>1, <2>2, <3>1 DEF Queued
  <2> QED BY <2>3, <2>4, <2>5, <2>6
<1>6. CASE KickPool \/ Delete \/ WakePool \/ Suspend \/ Unsuspend \/ UNCHANGED vars
  <2>1. SameQueued
    BY <1>6, QueuedFixed
  <2>2. queue' = queue /\ (nthreads' = nthreads \/ Delete)
    BY <1>6 DEF KickPool, Delete, WakePool, Suspend, Unsuspend, vars, counts
  <2>3. CASE Delete
    <3>1. CASE queue = <<>>
      BY <2>2, <3>1 DEF Queued
    <3>2. CASE queue # <<>>
      BY <1>0, <2>3, <3>2 DEF Delete
    <3> QED BY <3>1, <3>2
  <2> QED BY <1>2, <2>1, <2>2, <2>3 DEF Queued
<1> QED BY <1>3, <1>4, <1>5, <1>6 DEF Next, Worker

\* Every step keeps the pool.
LEMMA PoolStep ==
    ASSUME IndInv, [Next]_vars
    PROVE  Pool'
BY StayingStep, HolderStep, ServedStep DEF Pool

-----------------------------------------------------------------------------
\* Who will be woken, or looks at the queue.

\* The sets that are compared are finite.
LEMMA WokenSizes ==
    ASSUME IndInv
    PROVE  /\ IsFiniteSet(UsersQueued) /\ Cardinality(UsersQueued) \in Nat
           /\ IsFiniteSet(ToldLooks) /\ Cardinality(ToldLooks) \in Nat
           /\ IsFiniteSet(WakesDue) /\ Cardinality(WakesDue) \in Nat
<1>1. /\ UsersQueued \in SUBSET Jobs /\ WakesDue \in SUBSET Jobs /\ ToldLooks \in SUBSET Workers
  BY DEF UsersQueued, WakesDue, ToldLooks, IndInv, Typed
<1> QED BY <1>1, Finite, Sized

\* After a step that leaves the queue, the worker that comes to it comes still.
StillWoken(p) ==
  /\ told' \in {told, told \ {p}}
  /\ (pc[p] = "wakeone" <=> pc'[p] = "wakeone") /\ (pc[p] = "wakeone" => J(p)' = J(p))
  /\ pc[p] \in {"wakeall", "kick", "wake"} => pc'[p] \in {"wakeall", "kick", "wake"}
  /\ pc[p] = "kick" => pc'[p] = "kick" \/ fresh' = {}
  /\ p \in Workers /\ Stays(p) /\ Looks(p) => Stays(p)' /\ Looks(p)'
  /\ p \in told /\ Comes(p) => p \in told' /\ Comes(p)'
  /\ p \in fresh' => pc'[p] = "sampled"
  /\ pc'[p] = "asleep" => p \in fresh \/ pc[p] = "asleep"

\* A step after which every worker that was woken still is.
LEMMA WokenKept ==
    ASSUME IndInv, NEW p \in Threads, Frame(p), SameQueued, queue' = queue, fresh' \subseteq fresh,
           kicks' = kicks, StillWoken(p)
    PROVE  Woken'
<1> USE DEF IndInv
<1>0. /\ fresh \subseteq Workers /\ told \subseteq Workers /\ queue \in Seq(Jobs)
      /\ Workers \subseteq Threads /\ Callers \subseteq Threads /\ Callers \cap Workers = {}
      /\ \A c \in Callers : pc[c] # "asleep"
  BY Constants DEF Typed, Threads, CallerPlaces
<1>1. queue # <<>> => /\ Head(queue) \in Jobs /\ Kind(Head(queue))' = Kind(Head(queue))
                      /\ job[Head(queue)].kind = "locales" =>
                           job'[Head(queue)].begun = job[Head(queue)].begun
                           /\ job'[Head(queue)].asked = job[Head(queue)].asked
  BY <1>0, HeadQueued DEF SameQueued, Kind
<1>2. ASSUME NEW w PROVE RefusedBy(w) => RefusedBy(w)'
  BY <1>1 DEF RefusedBy, Kind
<1>3. ASSUME NEW w, queue # <<>> PROVE HeadBars(w) => HeadBars(w)'
  BY <1>1, <1>3 DEF HeadBars, Kind
<1>4. \A i \in DOMAIN queue : queue[i] \in Jobs /\ Kind(queue[i])' = Kind(queue[i])
  BY <1>0 DEF SameQueued, Queued
<1>5. UsersQueued' = UsersQueued
  BY DEF UsersQueued, SameQueued, Queued, Kind
<1>6. WakesDue' = WakesDue
  <2>1. \A c \in Callers \ {p} : pc'[c] = pc[c] /\ J(c)' = J(c)
    BY <1>0 DEF Frame, J
  <2> QED BY <2>1 DEF WakesDue, StillWoken
<1>7. AllDue => AllDue'
  BY DEF AllDue, Frame, StillWoken
<1>8. KickDue => KickDue' \/ fresh' = {}
  BY <1>0 DEF KickDue, Frame, StillWoken
<1>9. \A v \in Workers : Stays(v) /\ Looks(v) => Stays(v)' /\ Looks(v)'
  <2>1. ASSUME NEW v \in Workers \ {p}, Stays(v), Looks(v) PROVE Stays(v)' /\ Looks(v)'
    <3>1. v \in told' <=> v \in told
      BY DEF StillWoken
    <3>2. pc'[v] = pc[v] \/ (pc[v] = "asleep" /\ pc'[v] = "polling")
      BY <1>0 DEF Frame
    <3> QED BY <2>1, <3>1, <3>2 DEF Stays, Looks, Running
  <2> QED BY <2>1 DEF StillWoken
<1>10. ASSUME queue # <<>> PROVE ToldLooks \subseteq ToldLooks'
  <2>1. ASSUME NEW v \in ToldLooks PROVE v \in told' /\ Comes(v)'
    <3>1. v \in told /\ Comes(v) /\ v \in Workers
      BY <1>0 DEF ToldLooks
    <3>2. CASE v # p
      <4>1. v \in told'
        BY <3>1, <3>2 DEF StillWoken
      <4>2. pc'[v] = pc[v] \/ (pc[v] = "asleep" /\ pc'[v] = "polling")
        BY <1>0, <3>1, <3>2 DEF Frame
      <4> QED BY <3>1, <4>1, <4>2 DEF Comes
    <3> QED BY <3>1, <3>2 DEF StillWoken
  <2>2. ASSUME NEW v \in ToldLooks, Kind(Head(queue))' = "locales" PROVE v \in job'[Head(queue)].begun
    BY <1>1, <1>10, <2>2 DEF ToldLooks, Kind
  <2> QED BY <2>1, <2>2 DEF ToldLooks, Kind
<1>11. ASSUME NEW w, queue # <<>>, Enough(w) PROVE Enough(w)'
  <2>1. (\A i \in DOMAIN queue : Kind(queue[i]) = "user" \/ (i = 1 /\ HeadBars(w)))'
    BY <1>3, <1>4, <1>11 DEF Enough, Kind
  <2>2. CASE \E v \in Workers : Stays(v) /\ Looks(v)
    BY <1>9, <2>1, <2>2 DEF Enough
  <2>3. CASE Cardinality(UsersQueued) <= Cardinality(ToldLooks) + Cardinality(WakesDue)
    <3>1. ToldLooks' \in SUBSET Workers
      <4>1. told' \subseteq Workers
        BY <1>0 DEF StillWoken
      <4> QED BY <4>1 DEF ToldLooks
    <3>2. IsFiniteSet(ToldLooks') /\ Cardinality(ToldLooks') \in Nat /\ Cardinality(ToldLooks) <= Cardinality(ToldLooks')
      BY <1>10, <1>11, <3>1, Finite, Sized
    <3>3. Cardinality(UsersQueued') <= Cardinality(ToldLooks') + Cardinality(WakesDue')
      BY <1>5, <1>6, <2>3, <3>2, WokenSizes
    <3> QED BY <2>1, <3>3 DEF Enough
  <2> QED BY <1>11, <2>2, <2>3 DEF Enough
<1>12. ASSUME NEW w \in fresh' PROVE (pc[w] = "sampled" /\ (queue = <<>> \/ KickDue \/ RefusedBy(w)))'
  <2>1. w \in fresh /\ pc[w] = "sampled" /\ (queue = <<>> \/ KickDue \/ RefusedBy(w)) /\ w \in Threads
    BY <1>0 DEF Woken
  <2>2. pc'[w] = "sampled"
    BY <2>1 DEF Frame, StillWoken
  <2>3. (queue = <<>>)' \/ KickDue' \/ RefusedBy(w)'
    BY <1>2, <1>8, <2>1
  <2> QED BY <2>2, <2>3
<1>13. ASSUME NEW w \in Workers, pc'[w] = "asleep"
       PROVE  (queue = <<>> \/ AllDue \/ RefusedBy(w) \/ Enough(w))'
  <2>1. pc[w] = "asleep" \/ w \in fresh
    BY <1>0, <1>13 DEF Frame, StillWoken
  <2>2. queue = <<>> \/ AllDue \/ RefusedBy(w) \/ Enough(w)
    <3>1. KickDue => AllDue
      BY <1>0 DEF KickDue, AllDue
    <3> QED BY <2>1, <3>1 DEF Woken
  <2>3. (queue = <<>>)' \/ AllDue' \/ RefusedBy(w)' \/ Enough(w)'
    BY <1>2, <1>7, <1>11, <2>2
  <2> QED BY <2>3
<1> QED BY <1>12, <1>13 DEF Woken

\* A step after which every worker will be woken, and no sample is current.
LEMMA AllWillWake ==
    ASSUME fresh' = {}, AllDue'
    PROVE  Woken'
BY DEF Woken, AllDue

\* A step that leaves no worker asleep.
LEMMA NoneAsleep ==
    ASSUME IndInv, SameQueued, UNCHANGED <<queue, fresh>>, \A w \in Workers : pc'[w] # "asleep",
           \A w \in Workers : pc[w] \in {"sampled", "kick"} => pc'[w] = pc[w]
    PROVE  Woken'
<1> USE DEF IndInv
<1>1. ASSUME NEW w \in fresh PROVE pc'[w] = "sampled" /\ (queue = <<>> \/ KickDue' \/ RefusedBy(w)')
  <2>1. w \in Workers /\ pc[w] = "sampled" /\ (queue = <<>> \/ KickDue \/ RefusedBy(w))
    BY DEF Woken, Typed
  <2>2. KickDue => KickDue'
    BY DEF KickDue
  <2>3. ASSUME RefusedBy(w) PROVE RefusedBy(w)'
    <3>1. queue # <<>> /\ Kind(Head(queue)) = "locales"
      BY <2>3 DEF RefusedBy, Kind
    <3>2. Head(queue) \in Jobs /\ Queued(Head(queue))
      BY <3>1, HeadQueued
    <3> QED BY <2>3, <3>1, <3>2 DEF RefusedBy, SameQueued, Kind
  <2> QED BY <2>1, <2>2, <2>3
<1> QED BY <1>1 DEF Woken

\* The steps of a worker that has taken a piece, or goes to sleep.
LEMMA WorkerWoken ==
    ASSUME IndInv, NEW w \in Workers, Worker(w), ~Look(w), ~Poll(w)
    PROVE  Woken'
<1> USE DEF IndInv
<1>0. /\ fresh \subseteq Workers /\ told \subseteq Workers /\ w \in Threads /\ w \notin Callers /\ Frame(w)
      /\ pc \in [Threads -> WorkerPlaces \cup CallerPlaces] /\ Workers \subseteq Threads
      /\ \A v \in fresh : pc[v] = "sampled"
  BY WorkerFrame DEF Typed, Threads, Woken
<1>1. /\ pc[w] \notin {"look", "polling"} /\ queue' = queue /\ kicks' = kicks
      /\ (w \in fresh => pc[w] = "sampled")
  BY <1>0 DEF Worker, FutexWait, Drop, Task, CountTask, Kick, Kicked, Share, Finish, counts, world
<1>2. SameQueued
  BY <1>1, QueuedFixed
<1>3. CASE FutexWait(w)
  <2>1. pc[w] = "sampled" /\ told' = told /\ fresh' = fresh \ {w}
        /\ pc'[w] = IF w \in fresh THEN "asleep" ELSE "polling"
    BY <1>0, <1>3 DEF FutexWait, Go, world
  <2>2. StillWoken(w)
    BY <2>1 DEF StillWoken, Stays, Looks, Comes, Running
  <2> QED BY <1>0, <1>1, <1>2, <2>1, <2>2, WokenKept
<1>4. CASE Drop(w) \/ Task(w) \/ Share(w)
  <2>1. /\ pc[w] \in {"drop", "task", "share"} /\ told' = told /\ fresh' = fresh
        /\ pc[w] = "drop" => pc'[w] = "look"
        /\ pc[w] # "drop" => pc'[w] \in {"count", "finish", "finishjob"}
    BY <1>0, <1>4 DEF Drop, Task, Share, GoWith, Go, world
  <2>2. StillWoken(w)
    BY <1>0, <2>1 DEF StillWoken, Stays, Looks, Comes, Running
  <2> QED BY <1>0, <1>1, <1>2, <2>1, <2>2, WokenKept
<1>5. CASE CountTask(w) \/ Finish(w)
  <2>0. EndOrGoOn(w) /\ pc[w] \in {"count", "finish", "finishjob"} /\ fresh' = fresh
    BY <1>5 DEF CountTask, Finish
  <2>1. /\ told' = told \ {w} /\ pc'[w] = IF w \in told THEN "ended" ELSE "look"
    BY <1>0, <2>0 DEF EndOrGoOn, Go
  <2>2. StillWoken(w)
    BY <1>0, <2>0, <2>1 DEF StillWoken, Stays, Looks, Comes, Running
  <2> QED BY <1>0, <1>1, <1>2, <2>0, <2>2, WokenKept
<1>6. CASE Kick(w)
  <2>1. pc[w] = "kick" /\ pc'[w] = "wake" /\ fresh' = {}
    BY <1>0, <1>6 DEF Kick, Go
  <2> QED BY <1>0, <2>1, AllWillWake DEF AllDue
<1>7. CASE Kicked(w)
  <2>1. UNCHANGED <<queue, fresh>> /\ pc[w] = "wake"
    BY <1>7 DEF Kicked
  <2>2. \A v \in Workers : pc'[v] # "asleep" /\ (pc[v] \in {"sampled", "kick"} => pc'[v] = pc[v])
    BY <1>0, <1>7, <2>1 DEF Kicked, WakeAll
  <2> QED BY <1>2, <2>1, <2>2, NoneAsleep
<1> QED BY <1>3, <1>4, <1>5, <1>6, <1>7 DEF Worker

\* A worker that the head refuses will be woken when it has left the queue.
LEMMA RefusedWoken ==
    ASSUME IndInv, NEW w \in Workers, NEW less, pc[w] \in {"look", "polling"}, queue # <<>>, Refused(w, less),
           Frame(w), told' = told, kicks' = kicks
    PROVE  Woken'
<1> USE DEF IndInv
<1> PICK h \in Jobs : h = Head(queue) /\ job[h] \in Blocks /\ Kind(h) = "locales"
  BY HeadQueued, BlockOf DEF Refused, Kind
<1>0. /\ fresh \subseteq Workers /\ w \in Threads /\ Workers \subseteq Threads /\ w \notin Callers
      /\ pc \in [Threads -> WorkerPlaces \cup CallerPlaces] /\ job \in [Jobs -> {Unused, Gone} \cup Blocks]
  BY Constants DEF Typed, Threads
<1>1. PICK a : a = (job[h].asked \/ Len(queue) > 1)
  OBVIOUS
<1>2. /\ job[h].kind = "locales" /\ w \in job[h].begun /\ job' = [job EXCEPT ![h].asked = a]
      /\ pc' = [pc EXCEPT ![w] = "sampled"] /\ fresh' = fresh \cup {w} /\ queue' = queue
  BY <1>1 DEF Refused, Sample, Go
<1>3. job'[h].kind = "locales" /\ job'[h].begun = job[h].begun /\ job'[h].asked = a
  BY <1>0, <1>2 DEF Blocks
<1>4. Len(queue) = 1 \/ a
  <2>1. PICK n : n = Len(queue)
    OBVIOUS
  <2>2. n \in Nat \ {0}
    BY <2>1, QueueTail DEF Typed
  <2>3. n = 1 \/ n > 1
    BY <2>2
  <2> QED BY <1>1, <2>1, <2>3, Zenon
<1>5. ASSUME NEW v, v \in job[h].begun PROVE RefusedBy(v)'
  BY <1>2, <1>3, <1>4, <1>5 DEF RefusedBy
<1>6. ASSUME NEW v, RefusedBy(v) PROVE RefusedBy(v)'
  BY <1>5, <1>6 DEF RefusedBy
<1>7. ASSUME NEW v, Enough(v) PROVE RefusedBy(v)'
  <2>1. 1 \in DOMAIN queue /\ queue[1] = h
    BY QueueTail DEF Typed
  <2>2. HeadBars(v)
    BY <1>7, <2>1 DEF Enough
  <2> QED BY <1>5, <2>2 DEF HeadBars
<1>8. KickDue => KickDue'
  BY <1>0, <1>2 DEF KickDue
<1>9. AllDue => AllDue'
  BY <1>0, <1>2 DEF AllDue
<1>10. ASSUME NEW v \in fresh' PROVE (pc[v] = "sampled" /\ (queue = <<>> \/ KickDue \/ RefusedBy(v)))'
  <2>1. CASE v = w
    BY <1>0, <1>2, <1>5, <2>1
  <2>2. CASE v # w
    <3>1. v \in fresh /\ pc[v] = "sampled" /\ (KickDue \/ RefusedBy(v))
      BY <1>2, <1>10, <2>2 DEF Woken
    <3>2. pc'[v] = "sampled"
      BY <1>0, <1>2, <2>2, <3>1
    <3>3. KickDue' \/ RefusedBy(v)'
      BY <1>6, <1>8, <3>1
    <3> QED BY <3>2, <3>3
  <2> QED BY <2>1, <2>2
<1>11. ASSUME NEW v \in Workers, pc'[v] = "asleep" PROVE AllDue' \/ RefusedBy(v)'
  <2>1. pc[v] = "asleep"
    BY <1>0, <1>2, <1>11
  <2>2. AllDue \/ RefusedBy(v) \/ Enough(v)
    BY <2>1 DEF Woken
  <2> QED BY <1>6, <1>7, <1>9, <2>2
<1> QED BY <1>10, <1>11 DEF Woken

\* A worker that takes a piece leaves enough of the others to the rest.
LEMMA TakenWoken ==
    ASSUME IndInv, NEW w \in Workers, NEW less, pc[w] \in {"look", "polling"}, queue # <<>>,
           NEW h, h = Head(queue), Took(w, less, h), told' = told, kicks' = kicks
    PROVE  Woken'
<1> USE DEF IndInv
<1>0. /\ fresh \subseteq Workers /\ told \subseteq Workers /\ w \in Threads /\ Workers \subseteq Threads
      /\ w \notin Callers /\ Callers \subseteq Threads /\ Callers \cap Workers = {}
      /\ queue \in Seq(Jobs) /\ h \in Jobs /\ Queued(h) /\ fresh' = fresh
  BY Constants DEF Typed, Threads, Took
<1>1. /\ \A q \in Threads \ {w} : pc'[q] = pc[q] \/ (pc[q] = "asleep" /\ pc'[q] = "polling")
      /\ \A q \in Threads \ {w} : J(q)' = J(q)
  BY DEF Took, Frame, J
<1>2. pc'[w] \in {"share", "kick", "task", "drop"}
  BY Zenon DEF Took, Kinds
<1>3. (KickDue => KickDue') /\ (AllDue => AllDue')
  BY <1>0, <1>1 DEF KickDue, AllDue
<1>4. \A v \in Workers : Stays(v) /\ Looks(v) => Stays(v)' /\ Looks(v)'
  <2>1. ASSUME NEW v \in Workers, v # w, Stays(v), Looks(v) PROVE Stays(v)' /\ Looks(v)'
    <3>1. pc'[v] = pc[v] \/ (pc[v] = "asleep" /\ pc'[v] = "polling")
      BY <1>0, <1>1, <2>1
    <3> QED BY <1>0, <2>1, <3>1 DEF Stays, Looks, Running
  <2>2. ASSUME Stays(w) PROVE Stays(w)' /\ Looks(w)'
    BY <1>2, <2>2 DEF Stays, Looks, Running
  <2> QED BY <2>1, <2>2
<1>5. WakesDue' = WakesDue
  <2>1. \A c \in Callers : (pc'[c] = "wakeone") = (pc[c] = "wakeone") /\ J(c)' = J(c)
    BY <1>0, <1>1
  <2> QED BY <2>1 DEF WakesDue
<1>6. ASSUME NEW v \in told, v # w, Comes(v) PROVE v \in told' /\ Comes(v)'
  <2>1. pc'[v] = pc[v] \/ (pc[v] = "asleep" /\ pc'[v] = "polling")
    BY <1>0, <1>1, <1>6
  <2> QED BY <1>0, <1>6, <2>1 DEF Comes
<1>7. \A v \in Workers : pc'[v] = "asleep" => pc[v] = "asleep"
  BY <1>0, <1>1, <1>2
<1>8. \A v \in fresh : pc[v] = "sampled" /\ pc'[v] = "sampled"
  <2>1. \A v \in fresh : pc[v] = "sampled"
    BY DEF Woken
  <2> QED BY <1>0, <1>1, <2>1
<1>9. SUFFICES ASSUME queue' # <<>>, ~KickDue'
               PROVE  /\ \A v \in fresh : RefusedBy(v)'
                      /\ \A v \in Workers : pc'[v] = "asleep" => AllDue' \/ RefusedBy(v)' \/ Enough(v)'
  <2>1. KickDue' => AllDue'
    BY <1>0 DEF KickDue, AllDue
  <2> QED BY <1>0, <1>8, <1>9, <2>1 DEF Woken
<1>10. \A v \in fresh : RefusedBy(v)
  BY <1>3, <1>9 DEF Woken
<1>11. \A v \in Workers : pc'[v] = "asleep" => AllDue' \/ RefusedBy(v) \/ Enough(v)
  BY <1>3, <1>7 DEF Woken
<1>12. /\ \A k \in Jobs : Kind(k)' = Kind(k)
       /\ \A i \in DOMAIN queue : queue[i] \in Jobs
       /\ 1 \in DOMAIN queue /\ queue[1] = h
  <2>1. \A k \in Jobs : Kind(k)' = Kind(k)
    BY DEF Took, OnlyJob, Kind
  <2> QED BY <1>0, <2>1, QueueTail
<1>13. /\ IsFiniteSet(ToldLooks') /\ Cardinality(ToldLooks') \in Nat
       /\ \A T \in SUBSET ToldLooks' : IsFiniteSet(T) /\ Cardinality(T) \in Nat /\ Cardinality(T) <= Cardinality(ToldLooks')
  <2>1. ToldLooks' \in SUBSET Workers
    BY <1>0 DEF ToldLooks
  <2>2. IsFiniteSet(ToldLooks')
    BY <2>1, Finite
  <2> QED BY <2>2, Sized
<1>14. CASE Kind(h) = "internal"
  <2>1. \A v \in Workers : ~RefusedBy(v) /\ ~Enough(v)
    BY <1>12, <1>14 DEF RefusedBy, Enough, HeadBars, Kind
  <2> QED BY <1>0, <1>10, <1>11, <2>1
\* the rest of a queue behind a head that has left it
<1>15. ASSUME queue' = Tail(queue), NEW v \in Workers, Enough(v)
       PROVE  /\ \A i \in DOMAIN queue' : Kind(queue[i])' = "user"
              /\ Head(queue') \in Jobs /\ Kind(Head(queue))' = "user"
  <2>1. /\ \A i \in DOMAIN queue' : i + 1 \in DOMAIN queue /\ queue'[i] = queue[i + 1]
        /\ DOMAIN queue' = 1..Len(queue) - 1 /\ Len(queue) \in Nat \ {0} /\ queue' \in Seq(Jobs)
    BY <1>0, <1>15, QueueTail
  <2>2. ASSUME NEW i \in DOMAIN queue' PROVE Kind(queue[i])' = "user"
    <3>1. i \in Nat /\ i + 1 # 1
      BY <2>1
    <3>2. Kind(queue[i + 1]) = "user" /\ queue[i + 1] \in Jobs
      BY <1>12, <1>15, <2>1, <3>1 DEF Enough
    <3>3. queue'[i] = queue[i + 1]
      BY <2>1
    <3> QED BY <1>12, <3>2, <3>3 DEF Kind
  <2>3. Head(queue') = queue'[1] /\ 1 \in DOMAIN queue' /\ Head(queue') \in Jobs
    BY <1>9, <2>1, QueueTail
  <2> QED BY <2>2, <2>3
<1>16. CASE Kind(h) = "user"
  <2>1. queue' = Tail(queue) /\ \A v \in Workers : ~RefusedBy(v)
    BY <1>16 DEF RefusedBy, Kind, Took
  <2>2. ASSUME NEW v \in Workers, Enough(v) PROVE Enough(v)'
    <3>1. (\A i \in DOMAIN queue : Kind(queue[i]) = "user" \/ (i = 1 /\ HeadBars(v)))'
      BY <1>15, <2>1, <2>2 DEF Kind
    <3>2. CASE \E u \in Workers : Stays(u) /\ Looks(u)
      BY <1>4, <3>1, <3>2 DEF Enough
    <3>3. CASE Cardinality(UsersQueued) <= Cardinality(ToldLooks) + Cardinality(WakesDue)
      <4>1. UsersQueued' = UsersQueued \ {h} /\ h \in UsersQueued
        <5>1. \A k : Queued(k)' = (Queued(k) /\ k # h)
          BY <2>1, AfterTail
        <5> QED BY <1>0, <1>12, <1>16, <5>1 DEF UsersQueued, Kind
      <4>2. Cardinality(UsersQueued') = Cardinality(UsersQueued) - 1
        BY <4>1, WokenSizes, Sized
      <4>3. ToldLooks \ {w} \in SUBSET ToldLooks'
        <5>1. Kind(Head(queue))' = "user"
          BY <1>15, <2>1, <2>2
        <5>2. \A u \in ToldLooks \ {w} : u \in told' /\ Comes(u)'
          BY <1>6 DEF ToldLooks
        <5> QED BY <5>1, <5>2 DEF ToldLooks
      <4>4. Cardinality(ToldLooks) - 1 <= Cardinality(ToldLooks')
        <5>1. Cardinality(ToldLooks \ {w}) <= Cardinality(ToldLooks')
          BY <1>13, <4>3
        <5>2. CASE w \in ToldLooks
          <6>1. Cardinality(ToldLooks \ {w}) = Cardinality(ToldLooks) - 1
            BY <5>2, WokenSizes, Sized
          <6> QED BY <5>1, <6>1
        <5>3. CASE w \notin ToldLooks
          <6>1. ToldLooks \ {w} = ToldLooks
            BY <5>3
          <6>2. Cardinality(ToldLooks) <= Cardinality(ToldLooks')
            BY <5>1, <6>1
          <6>3. Cardinality(ToldLooks) \in Nat /\ Cardinality(ToldLooks') \in Nat
            BY <1>13, WokenSizes
          <6>4. \A m, n \in Nat : m <= n => m - 1 <= n
            OBVIOUS
          <6> QED BY <6>2, <6>3, <6>4
        <5> QED BY <5>2, <5>3
      <4>5. Cardinality(UsersQueued') <= Cardinality(ToldLooks') + Cardinality(WakesDue')
        BY <1>5, <1>13, <3>3, <4>2, <4>4, WokenSizes
      <4> QED BY <3>1, <4>5 DEF Enough
    <3> QED BY <2>2, <3>2, <3>3 DEF Enough
  <2> QED BY <1>0, <1>10, <1>11, <2>1, <2>2
<1>17. CASE Kind(h) = "locales"
  <2>0. /\ w \notin job[h].begun /\ job'[h].begun = job[h].begun \cup {w} /\ job'[h].asked = job[h].asked
        /\ queue' = queue \/ (queue' = Tail(queue) /\ queue' # queue /\ ~Queued(h)' /\ ~job[h].asked)
        /\ Kind(h)' = "locales"
    BY <1>0, <1>9, <1>12, <1>17 DEF Took, KickDue
  <2>1. UsersQueued' = UsersQueued
    <3>1. CASE queue' = queue
      BY <1>12, <3>1 DEF UsersQueued, Queued, Kind
    <3>2. CASE queue' = Tail(queue)
      <4>1. \A k : Queued(k)' = (Queued(k) /\ k # h)
        BY <3>2, AfterTail
      <4> QED BY <1>12, <1>17, <4>1 DEF UsersQueued, Kind
    <3> QED BY <2>0, <3>1, <3>2
  <2>2. ASSUME NEW v \in Workers, Enough(v) PROVE Enough(v)'
    <3>1. (\A i \in DOMAIN queue : Kind(queue[i]) = "user" \/ (i = 1 /\ HeadBars(v)))'
      <4>1. CASE queue' = queue
        <5>1. HeadBars(v) => HeadBars(v)'
          BY <2>0, <4>1 DEF HeadBars, Kind
        <5> QED BY <1>12, <2>2, <4>1, <5>1 DEF Enough, Kind
      <4>2. CASE queue' = Tail(queue)
        BY <1>15, <2>2, <4>2 DEF Kind
      <4> QED BY <2>0, <4>1, <4>2
    <3>2. CASE \E u \in Workers : Stays(u) /\ Looks(u)
      BY <1>4, <3>1, <3>2 DEF Enough
    <3>3. CASE Cardinality(UsersQueued) <= Cardinality(ToldLooks) + Cardinality(WakesDue)
      <4>1. \A u \in ToldLooks : u # w /\ u \in told /\ Comes(u) /\ u \in job[h].begun
        BY <1>17, <2>0 DEF ToldLooks
      <4>2. Kind(Head(queue))' = "locales" => Head(queue') = h
        <5>1. CASE queue' = queue
          BY <5>1
        <5>2. CASE queue' = Tail(queue)
          <6>1. Kind(Head(queue))' = "user"
            BY <1>15, <2>2, <5>2
          <6> QED BY <6>1
        <5> QED BY <2>0, <5>1, <5>2
      <4>3. ToldLooks \in SUBSET ToldLooks'
        <5>1. ASSUME NEW u \in ToldLooks PROVE u \in ToldLooks'
          <6>1. u \in told' /\ Comes(u)'
            BY <1>6, <4>1
          <6>2. Kind(Head(queue))' = "locales" => u \in job'[Head(queue')].begun
            BY <2>0, <4>1, <4>2
          <6> QED BY <6>1, <6>2 DEF ToldLooks
        <5> QED BY <5>1
      <4>4. Cardinality(UsersQueued') <= Cardinality(ToldLooks') + Cardinality(WakesDue')
        BY <1>5, <1>13, <2>1, <3>3, <4>3, WokenSizes
      <4> QED BY <3>1, <4>4 DEF Enough
    <3> QED BY <2>2, <3>2, <3>3 DEF Enough
  <2>3. ASSUME NEW v \in Workers, RefusedBy(v) PROVE RefusedBy(v)'
    <3>1. CASE queue' = queue
      BY <2>0, <2>3, <3>1 DEF RefusedBy, Kind
    <3>2. CASE queue' = Tail(queue) /\ ~job[h].asked
      <4>1. Len(queue) = 1
        BY <2>3, <3>2 DEF RefusedBy
      <4>2. Len(queue') = 0 /\ queue' \in Seq(Jobs)
        BY <1>0, <3>2, <4>1, QueueTail
      <4> QED BY <1>9, <4>2, EmptySeq
    <3> QED BY <2>0, <3>1, <3>2
  <2> QED BY <1>0, <1>10, <1>11, <2>2, <2>3
<1>18. Kind(h) \in Kinds
  BY DEF Took
<1> QED BY <1>14, <1>16, <1>17, <1>18 DEF Kinds

\* A worker that looks at the queue.
LEMMA LookWoken ==
    ASSUME IndInv, NEW w \in Workers, Look(w) \/ Poll(w)
    PROVE  Woken'
<1> USE DEF IndInv
<1>0. Frame(w) /\ w \in Threads /\ w \notin Callers /\ fresh \subseteq Workers /\ Workers \subseteq Threads
  BY WorkerFrame DEF Worker, Typed, Threads
<1>1. pc[w] \in {"look", "polling"} /\ kicks' = kicks
  BY DEF Look, Poll
<1>2. CASE queue = <<>>
  <2>1. Rest(w, 0) \/ Rest(w, 1) \/ Linger(w)
    BY <1>2 DEF Look, Poll, TakeHead, Rest, Linger
  <2>2. queue' = <<>>
    BY <1>2, <2>1 DEF Rest, Linger
  <2>3. \A v \in fresh' : pc'[v] = "sampled"
    <3>1. /\ fresh' \in {fresh, fresh \cup {w}} /\ (w \in fresh' \ fresh => pc'[w] = "sampled")
          /\ \A v \in fresh : pc[v] = "sampled"
      BY <1>0, <2>1 DEF Rest, Linger, Sample, Go, Woken, Typed
    <3> QED BY <1>0, <1>1, <3>1 DEF Frame
  <2> QED BY <2>2, <2>3 DEF Woken
<1>3. CASE queue # <<>>
  <2>1. PICK less \in {0, 1} : (Refused(w, less) \/ Taken(w, less)) /\ told' = told /\ UNCHANGED history
    BY <1>3 DEF Look, Poll, TakeHead, Rest, Linger
  <2>2. PICK h : h = Head(queue)
    OBVIOUS
  <2>3. CASE Refused(w, less)
    BY <1>0, <1>1, <1>3, <2>1, <2>3, RefusedWoken
  <2>4. CASE Taken(w, less)
    <3>1. Took(w, less, h)
      BY <1>1, <1>3, <2>1, <2>2, <2>4, TakenStep
    <3> QED BY <1>1, <1>3, <2>1, <2>2, <3>1, TakenWoken
  <2> QED BY <2>1, <2>3, <2>4
<1> QED BY <1>2, <1>3

\* The steps of a call that queue nothing and wake nobody.
LEMMA QuietCallWoken ==
    ASSUME IndInv, NEW c \in Callers, InCall(c) \/ CallUser(c) \/ CallLocales(c) \/ CallInternal(c),
           ~Wake(c), ~AppendTasks(c), Enqueue(c) => queue' = queue
    PROVE  Woken'
<1> USE DEF IndInv
<1>0. /\ fresh \subseteq Workers /\ told \subseteq Workers /\ c \in Threads /\ c \notin Workers /\ Frame(c)
      /\ pc \in [Threads -> WorkerPlaces \cup CallerPlaces] /\ Workers \subseteq Threads
      /\ pc[c] \in CallerPlaces /\ \A w \in fresh : pc[w] = "sampled"
      /\ queue \in Seq(Jobs) /\ \A j \in Jobs : Append(queue, j) # queue
  <2>1. queue \in Seq(Jobs)
    BY DEF Typed
  <2>2. ASSUME NEW j \in Jobs PROVE Append(queue, j) # queue
    <3>1. Len(Append(queue, j)) = Len(queue) + 1 /\ Len(queue) \in Nat
      BY <2>1, QueueAppend, LenProperties
    <3> QED BY <3>1
  <2> QED BY <2>1, <2>2, CallerFrame DEF Typed, Threads, Woken
<1>1. SameQueued
  BY QueuedFixed
<1>2. kicks' = kicks /\ told' = told
  BY DEF InCall, Enqueue, OwnShare, Own, NextTask, Return, CallUser, CallLocales, CallInternal, Call, world
<1>3. /\ pc[c] \in {"enqueue", "ownshare", "own", "next", "spin", "idle"} /\ fresh' = fresh
      /\ pc'[c] \in {"idle", "next", "own", "spin", "enqueue", "append"}
  <2>1. CASE Enqueue(c)
    <3>1. J(c) \in Jobs
      BY <2>1 DEF Enqueue, CallerAt
    <3>2. pc[c] = "enqueue" /\ fresh' = fresh /\ pc'[c] = "idle"
      BY <1>0, <2>1, <3>1 DEF Enqueue, AppendJob, Self, GoWith, Go
    <3> QED BY <3>2
  <2>2. CASE OwnShare(c)
    BY <1>0, <2>2 DEF OwnShare, GoWith, Go
  <2>3. CASE Own(c)
    BY <1>0, <2>3 DEF Own, Go
  <2>4. CASE NextTask(c)
    BY <1>0, <2>4 DEF NextTask, GoWith, Go
  <2>5. CASE Return(c)
    BY <1>0, <2>5 DEF Return, GoWith, Go
  <2>6. ASSUME NEW r, Call(c, r)
        PROVE  /\ pc[c] = "idle" /\ fresh' = fresh
               /\ pc'[c] \in {"idle", "own", "enqueue", "append"}
    <3>1. pc[c] = "idle" /\ fresh' = fresh
      BY <2>6 DEF Call
    <3>2. \E place \in {"idle", "own", "enqueue", "append"} : Go(c, place)
      BY <2>6, Zenon DEF Call, Self, GoWith
    <3> QED BY <1>0, <3>1, <3>2 DEF Go
  <2>7. CASE CallUser(c) \/ CallLocales(c) \/ CallInternal(c)
    BY <2>6, <2>7 DEF CallUser, CallLocales, CallInternal
  <2> QED BY <2>1, <2>2, <2>3, <2>4, <2>5, <2>7 DEF InCall
<1>4. StillWoken(c)
  BY <1>0, <1>2, <1>3 DEF StillWoken
<1>5. CASE queue' = queue
  BY <1>0, <1>1, <1>2, <1>3, <1>4, <1>5, WokenKept
<1>6. CASE queue' # queue
  <2>1. NextTask(c)
    BY <1>6 DEF InCall, OwnShare, Own, Return, CallUser, CallLocales, CallInternal, Call
  <2>2. queue' = <<>>
    BY <1>6, <2>1 DEF NextTask, QueueAfter
  <2>3. \A w \in fresh : pc'[w] = "sampled"
    BY <1>0 DEF Frame
  <2> QED BY <1>3, <2>2, <2>3 DEF Woken
<1> QED BY <1>5, <1>6

\* The tasks of jtjobrun are queued without a wake only if no worker waits.
LEMMA AppendTasksWoken ==
    ASSUME IndInv, NEW c \in Callers, AppendTasks(c)
    PROVE  Woken'
<1> USE DEF IndInv
<1>0. /\ c \in Threads /\ c \notin Workers /\ Workers \subseteq Threads /\ fresh' = {}
      /\ pc \in [Threads -> WorkerPlaces \cup CallerPlaces]
      /\ pc' = [pc EXCEPT ![c] = IF waiters # 0 THEN "wakeall" ELSE "own"]
  BY Constants DEF Typed, Threads, AppendTasks, AppendJob, Go
<1>1. CASE waiters # 0
  <2>1. AllDue'
    BY <1>0, <1>1 DEF AllDue
  <2> QED BY <1>0, <2>1, AllWillWake
<1>2. CASE waiters = 0
  <2>1. {w \in Workers : pc[w] \in Waiting} \in SUBSET Workers
    OBVIOUS
  <2>2. IsFiniteSet({w \in Workers : pc[w] \in Waiting})
    BY <2>1, Finite
  <2>3. {w \in Workers : pc[w] \in Waiting} = {}
    BY <1>2, <2>2, Sized DEF Counts, CountsExact
  <2>4. \A w \in Workers : pc'[w] # "asleep"
    BY <1>0, <2>3 DEF Waiting
  <2> QED BY <1>0, <2>4 DEF Woken
<1> QED BY <1>1, <1>2

\* A user job brings a wake along, or a thread that finds it after the head.
LEMMA EnqueueWoken ==
    ASSUME IndInv, NEW c \in Callers, Enqueue(c), queue' # queue
    PROVE  Woken'
<1> USE DEF IndInv
<1> PICK j \in Jobs : j = J(c) /\ Kind(j) \in {"user", "locales"}
  BY DEF Enqueue, CallerAt
<1>0. /\ c \in Threads /\ c \notin Workers /\ Workers \subseteq Threads /\ Callers \subseteq Threads
      /\ pc \in [Threads -> WorkerPlaces \cup CallerPlaces] /\ queue \in Seq(Jobs) /\ told \subseteq Workers
      /\ Callers \cap Workers = {} /\ fresh' = {} /\ queue' = Append(queue, j) /\ job' = job /\ at' = at
      /\ pc[c] = "enqueue" /\ told' = told /\ kicks' = kicks
      /\ pc' = [pc EXCEPT ![c] = IF Kind(j) = "locales" THEN "wakeall" ELSE "wakeone"]
  BY Constants DEF Typed, Threads, Enqueue, AppendJob, Go, Kind, world
<1>1. CASE Kind(j) = "locales"
  <2>1. AllDue'
    BY <1>0, <1>1 DEF AllDue
  <2> QED BY <1>0, <2>1, AllWillWake
<1>2. CASE Kind(j) = "user"
  <2>0. /\ DOMAIN queue' = 1..Len(queue) + 1 /\ DOMAIN queue = 1..Len(queue) /\ Len(queue) \in Nat
        /\ queue' # <<>> /\ Len(queue') = Len(queue) + 1
        /\ \A i \in DOMAIN queue : queue'[i] = queue[i] /\ queue[i] \in Jobs
        /\ queue'[Len(queue) + 1] = j
        /\ Head(queue') = IF queue = <<>> THEN j ELSE Head(queue)
    BY <1>0, QueueAppend, LenProperties
  <2>1. \A i \in DOMAIN queue' : i \in DOMAIN queue \/ i = Len(queue) + 1
    BY <2>0
  <2>2. \A k : Queued(k)' = (Queued(k) \/ k = j)
    BY <1>0, AfterAppend
  <2>3. AllDue => AllDue'
    BY <1>0 DEF AllDue
  <2>4. UsersQueued' \in SUBSET (UsersQueued \cup {j})
    BY <1>0, <2>2 DEF UsersQueued, Kind
  <2>5. WakesDue' = WakesDue \cup {j} /\ j \notin WakesDue
    <3>1. pc'[c] = "wakeone" /\ \A d \in Callers \ {c} : pc'[d] = pc[d]
      BY <1>0, <1>2
    <3>2. \A d \in Callers : J(d)' = J(d)
      BY <1>0 DEF J
    <3>3. \A d \in Callers : pc[d] = "wakeone" /\ J(d) = j => FALSE
      BY <1>0 DEF Alone
    <3> QED BY <1>0, <3>1, <3>2, <3>3 DEF WakesDue
  <2>6. \A w \in Workers : pc'[w] = pc[w]
    BY <1>0
  <2>7. \A w \in Workers : Stays(w) /\ Looks(w) => Stays(w)' /\ Looks(w)'
    BY <1>0, <2>6 DEF Stays, Looks
  <2>8. ToldLooks \in SUBSET ToldLooks' /\ ToldLooks' \in SUBSET Workers
    <3>1. \A w \in told : Comes(w) => Comes(w)'
      BY <1>0, <2>6 DEF Comes
    <3>2. Kind(Head(queue))' = "locales" => Head(queue') = Head(queue)
      BY <1>0, <1>2, <2>0 DEF Kind
    <3> QED BY <1>0, <3>1, <3>2 DEF ToldLooks, Kind
  <2>9. Cardinality(UsersQueued') <= Cardinality(UsersQueued) + 1
        /\ Cardinality(ToldLooks) <= Cardinality(ToldLooks') /\ Cardinality(WakesDue') = Cardinality(WakesDue) + 1
        /\ Cardinality(UsersQueued') \in Nat /\ Cardinality(ToldLooks') \in Nat
    <3>1. /\ IsFiniteSet(UsersQueued) /\ IsFiniteSet(WakesDue) /\ IsFiniteSet(ToldLooks')
          /\ Cardinality(ToldLooks') \in Nat
      BY <2>8, WokenSizes, Finite, Sized
    <3>2. Cardinality(ToldLooks) <= Cardinality(ToldLooks') /\ Cardinality(WakesDue') = Cardinality(WakesDue) + 1
      BY <2>5, <2>8, <3>1, Sized
    <3>3. IsFiniteSet(UsersQueued \cup {j}) /\ Cardinality(UsersQueued \cup {j}) <= Cardinality(UsersQueued) + 1
      BY <3>1, FS_AddElement, Sized, WokenSizes
    <3>4. Cardinality(UsersQueued') <= Cardinality(UsersQueued \cup {j}) /\ IsFiniteSet(UsersQueued')
      BY <2>4, <3>3, Sized
    <3>5. Cardinality(UsersQueued') \in Nat /\ Cardinality(UsersQueued \cup {j}) \in Nat /\ Cardinality(UsersQueued) \in Nat
      BY <3>1, <3>3, <3>4, Sized
    <3> QED BY <3>1, <3>2, <3>3, <3>4, <3>5
  <2>10. ASSUME NEW w, Enough(w) PROVE Enough(w)'
    <3>1. queue # <<>> /\ HeadBars(w) => HeadBars(w)'
      BY <1>0, <2>0 DEF HeadBars
    <3>2. ASSUME NEW i \in DOMAIN queue' PROVE Kind(queue[i])' = "user" \/ (i = 1 /\ HeadBars(w)')
      <4>1. CASE i = Len(queue) + 1
        BY <1>0, <1>2, <2>0, <4>1 DEF Kind
      <4>2. CASE i \in DOMAIN queue
        <5>1. queue # <<>>
          BY <2>0, <4>2
        <5>2. Kind(queue[i]) = "user" \/ (i = 1 /\ HeadBars(w))
          BY <2>10, <4>2 DEF Enough
        <5> QED BY <1>0, <2>0, <3>1, <4>2, <5>1, <5>2 DEF Kind
      <4> QED BY <2>1, <4>1, <4>2
    <3>3. CASE \E v \in Workers : Stays(v) /\ Looks(v)
      BY <2>7, <3>2, <3>3 DEF Enough
    <3>4. CASE Cardinality(UsersQueued) <= Cardinality(ToldLooks) + Cardinality(WakesDue)
      <4>1. Cardinality(UsersQueued') <= Cardinality(ToldLooks') + Cardinality(WakesDue')
        BY <2>9, <3>4, WokenSizes
      <4> QED BY <3>2, <4>1 DEF Enough
    <3> QED BY <2>10, <3>3, <3>4 DEF Enough
  <2>11. ASSUME NEW w, queue = <<>> \/ (RefusedBy(w) /\ Len(queue) = 1) PROVE Enough(w)
    <3>1. UsersQueued = {}
      <4>1. ASSUME NEW k \in UsersQueued PROVE FALSE
        <5>1. PICK i \in DOMAIN queue : queue[i] = k
          BY <4>1 DEF UsersQueued, Queued
        <5>2. i = 1 /\ queue # <<>>
          BY <2>0, <2>11, <5>1
        <5>3. Head(queue) = k /\ Kind(k) = "user"
          BY <1>0, <4>1, <5>1, <5>2, QueueTail DEF UsersQueued
        <5> QED BY <2>11, <5>2, <5>3 DEF RefusedBy, Kind
      <4> QED BY <4>1
    <3>2. Cardinality(UsersQueued) = 0
      BY <3>1, FS_EmptySet
    <3>3. \A i \in DOMAIN queue : i = 1 /\ HeadBars(w)
      BY <2>0, <2>11 DEF RefusedBy, HeadBars
    <3>4. Cardinality(UsersQueued) <= Cardinality(ToldLooks) + Cardinality(WakesDue)
      BY <3>2, WokenSizes
    <3> QED BY <3>3, <3>4 DEF Enough
  <2>12. ASSUME NEW w, RefusedBy(w), Len(queue) # 1 PROVE RefusedBy(w)'
    BY <1>0, <2>0, <2>12 DEF RefusedBy
  <2>13. ASSUME NEW w \in Workers, pc'[w] = "asleep" PROVE AllDue' \/ RefusedBy(w)' \/ Enough(w)'
    <3>1. pc[w] = "asleep"
      BY <2>6, <2>13
    <3>2. queue = <<>> \/ AllDue \/ RefusedBy(w) \/ Enough(w)
      BY <3>1 DEF Woken
    <3> QED BY <2>3, <2>10, <2>11, <2>12, <3>2
  <2> QED BY <1>0, <2>13 DEF Woken
<1> QED BY <1>1, <1>2

\* The wake of a user job wakes a sleeper, one that may have been told to end.
LEMMA WakeWoken ==
    ASSUME IndInv, NEW c \in Callers, Wake(c)
    PROVE  Woken'
<1> USE DEF IndInv
<1>0. /\ c \in Threads /\ c \notin Workers /\ Workers \subseteq Threads /\ Callers \subseteq Threads
      /\ Callers \cap Workers = {} /\ DOMAIN pc = Threads /\ DOMAIN at = Threads
      /\ fresh \subseteq Workers /\ told \subseteq Workers /\ queue \in Seq(Jobs)
      /\ queue' = queue /\ fresh' = fresh /\ job' = job /\ told' = told /\ kicks' = kicks
  BY Constants DEF Typed, Threads, Wake, world
<1>1. SameQueued
  BY QueuedFixed DEF InCall
<1>2. PICK next : /\ \/ pc[c] = "wakeall" /\ WakeAll(c, next)
                     \/ pc[c] = "wakeone" /\ WakeOne(c, next)
                  /\ next \in {"ownshare", "own", "idle"}
                  /\ at' = [at EXCEPT ![c] = IF next = "idle" THEN Nowhere ELSE @]
  BY DEF Wake
<1>3. CASE WakeAll(c, next) \/ (WakeOne(c, next) /\ Asleep = {})
  <2>1. CASE WakeAll(c, next)
    <3>1. \A v \in Workers : pc'[v] # "asleep" /\ (pc[v] \in {"sampled", "kick"} => pc'[v] = pc[v])
      BY <1>0, <2>1 DEF WakeAll
    <3> QED BY <1>0, <1>1, <3>1, NoneAsleep
  <2>2. CASE WakeOne(c, next) /\ Asleep = {}
    <3>1. pc' = [pc EXCEPT ![c] = next]
      BY <2>2 DEF WakeOne, Go
    <3>2. \A v \in Workers : pc'[v] # "asleep" /\ (pc[v] \in {"sampled", "kick"} => pc'[v] = pc[v])
      BY <1>0, <2>2, <3>1 DEF Asleep
    <3> QED BY <1>0, <1>1, <3>2, NoneAsleep
  <2> QED BY <1>3, <2>1, <2>2
<1>4. CASE pc[c] = "wakeone" /\ WakeOne(c, next) /\ Asleep # {}
  <2>1. PICK v \in Workers : pc[v] = "asleep" /\ pc' = [pc EXCEPT ![c] = next, ![v] = "polling"]
    BY <1>4 DEF WakeOne, Asleep
  <2>2. /\ pc'[v] = "polling" /\ pc'[c] = next /\ \A q \in Threads \ {c, v} : pc'[q] = pc[q]
        /\ \A w \in Workers \ {v} : pc'[w] = pc[w] /\ \A d \in Callers \ {c} : pc'[d] = pc[d] /\ J(d)' = J(d)
    BY <1>0, <1>2, <2>1 DEF J
  <2>3. (KickDue => KickDue') /\ (AllDue => AllDue')
    BY <1>0, <1>4, <2>1, <2>2 DEF KickDue, AllDue
  <2>4. \A w : (RefusedBy(w) => RefusedBy(w)') /\ (HeadBars(w) => HeadBars(w)')
    BY <1>0 DEF RefusedBy, HeadBars
  <2>5. ASSUME NEW w \in fresh PROVE (pc[w] = "sampled" /\ (queue = <<>> \/ KickDue \/ RefusedBy(w)))'
    <3>1. pc[w] = "sampled" /\ (queue = <<>> \/ KickDue \/ RefusedBy(w)) /\ w \in Workers
      BY <1>0, <2>5 DEF Woken
    <3>2. pc'[w] = "sampled"
      BY <2>1, <2>2, <3>1
    <3> QED BY <1>0, <2>3, <2>4, <3>1, <3>2
  <2>6. SUFFICES ASSUME queue # <<>>, ~AllDue,
                        NEW w \in Workers, pc[w] = "asleep", Enough(w)
                 PROVE  Enough(w)'
    <3>1. ASSUME NEW w \in Workers, pc'[w] = "asleep"
          PROVE  (queue = <<>> \/ AllDue \/ RefusedBy(w) \/ Enough(w))'
      <4>1. pc[w] = "asleep"
        BY <2>2, <3>1
      <4>2. queue = <<>> \/ AllDue \/ RefusedBy(w) \/ Enough(w)
        BY <4>1 DEF Woken
      <4>3. queue # <<>> /\ ~AllDue /\ Enough(w) => Enough(w)'
        BY <2>6, <4>1
      <4> QED BY <1>0, <2>3, <2>4, <4>2, <4>3
    <3> QED BY <1>0, <2>5, <3>1 DEF Woken
  <2>7. (\A i \in DOMAIN queue : Kind(queue[i]) = "user" \/ (i = 1 /\ HeadBars(w)))'
    BY <1>0, <2>4, <2>6 DEF Enough, Kind
  <2>8. CASE Stays(v)
    <3>1. Stays(v)' /\ Looks(v)'
      BY <1>0, <2>2, <2>8 DEF Stays, Looks
    <3> QED BY <2>7, <3>1 DEF Enough
  <2>9. CASE \E u \in Workers : Stays(u) /\ Looks(u)
    <3>1. PICK u \in Workers : Stays(u) /\ Looks(u)
      BY <2>9
    <3>2. u # v
      BY <2>1, <3>1 DEF Looks, Running
    <3>3. Stays(u)' /\ Looks(u)'
      BY <1>0, <2>2, <3>1, <3>2 DEF Stays, Looks
    <3> QED BY <2>7, <3>3 DEF Enough
  <2>10. CASE ~Stays(v) /\ Cardinality(UsersQueued) <= Cardinality(ToldLooks) + Cardinality(WakesDue)
    <3>1. v \in told /\ ~Comes(v)
      BY <2>1, <2>10 DEF Stays, Comes
    <3>2. PICK h \in Jobs : h = Head(queue) /\ 1 \in DOMAIN queue /\ queue[1] = h
      BY <1>0, <2>6, QueueTail
    <3>3. Kind(h) = "locales" => v \in job[h].begun
      <4>1. RefusedBy(v) \/ Enough(v)
        BY <2>1, <2>6 DEF Woken
      <4> QED BY <3>2, <4>1 DEF RefusedBy, Enough, HeadBars, Kind
    <3>4. v \notin ToldLooks /\ ToldLooks \cup {v} \in SUBSET ToldLooks' /\ ToldLooks' \in SUBSET Workers
      <4>1. Comes(v)'
        BY <2>2 DEF Comes
      <4>2. \A u \in told : Comes(u) => Comes(u)'
        BY <1>0, <2>2, <4>1 DEF Comes
      <4> QED BY <1>0, <3>1, <3>2, <3>3, <4>1, <4>2 DEF ToldLooks, Kind
    <3>5. PICK j \in Jobs : j = J(c)
      BY <1>4 DEF CallerAt
    <3>6. j \in WakesDue /\ WakesDue' = WakesDue \ {j}
      <4>1. \A d \in Callers \ {c} : pc[d] = "wakeone" => J(d) # j
        BY <1>4, <3>5 DEF Alone
      <4>2. pc'[c] # "wakeone"
        BY <1>2, <2>2
      <4>3. \A d \in Callers \ {c} : pc'[d] = pc[d] /\ J(d)' = J(d)
        BY <1>0, <1>2, <2>1 DEF J
      <4>4. j \in WakesDue
        BY <1>4, <3>5 DEF WakesDue
      <4>5. ASSUME NEW k \in Jobs PROVE k \in WakesDue' <=> k \in WakesDue /\ k # j
        BY <1>4, <3>5, <4>1, <4>2, <4>3 DEF WakesDue
      <4>6. WakesDue \subseteq Jobs /\ WakesDue' \subseteq Jobs
        BY DEF WakesDue
      <4> QED BY <4>4, <4>5, <4>6
    <3>7. UsersQueued' = UsersQueued
      BY <1>0 DEF UsersQueued, Queued, Kind
    <3>8. /\ Cardinality(ToldLooks') \in Nat /\ Cardinality(ToldLooks) + 1 <= Cardinality(ToldLooks')
          /\ Cardinality(WakesDue') = Cardinality(WakesDue) - 1
      <4>1. IsFiniteSet(ToldLooks) /\ IsFiniteSet(WakesDue) /\ IsFiniteSet(ToldLooks')
        BY <3>4, WokenSizes, Finite
      <4>2. Cardinality(ToldLooks \cup {v}) = Cardinality(ToldLooks) + 1
        BY <3>4, <4>1, Sized
      <4>3. Cardinality(ToldLooks \cup {v}) <= Cardinality(ToldLooks')
        BY <3>4, <4>1, Sized
      <4> QED BY <3>6, <4>1, <4>2, <4>3, Sized
    <3>9. Cardinality(UsersQueued') <= Cardinality(ToldLooks') + Cardinality(WakesDue')
      BY <2>10, <3>7, <3>8, WokenSizes
    <3> QED BY <2>7, <3>9 DEF Enough
  <2> QED BY <2>6, <2>8, <2>9, <2>10 DEF Enough
<1> QED BY <1>2, <1>3, <1>4

\* The steps of 15 T. and 55 T., their wakes, and the suspensions.
LEMMA WorldWoken ==
    ASSUME IndInv, KickPool \/ Delete \/ WakePool \/ Suspend \/ Unsuspend \/ UNCHANGED vars
    PROVE  Woken'
<1> USE DEF IndInv
<1>1. CASE KickPool \/ Delete
  <2>1. fresh' = {} /\ kicks' > 0
    BY <1>1 DEF KickPool, Delete, Typed
  <2> QED BY <2>1, AllWillWake DEF AllDue
<1>2. CASE WakePool
  <2>1. \A v \in Workers : pc'[v] # "asleep" /\ (pc[v] \in {"sampled", "kick"} => pc'[v] = pc[v])
    BY <1>2 DEF WakePool, Threads
  <2>2. UNCHANGED <<queue, fresh>>
    BY <1>2 DEF WakePool
  <2> QED BY <1>2, <2>1, <2>2, QueuedFixed, NoneAsleep
<1>3. CASE Suspend \/ Unsuspend \/ UNCHANGED vars
  <2>1. UNCHANGED <<queue, fresh, job, pc, at, told, kicks>>
    BY <1>3 DEF Suspend, Unsuspend, vars
  <2>2. Woken' <=> Woken
    BY <2>1 DEF Woken, KickDue, AllDue, RefusedBy, Enough, HeadBars, Kind, Stays, Looks, UsersQueued, Queued,
         ToldLooks, Comes, WakesDue, J
  <2> QED BY <2>2
<1> QED BY <1>1, <1>2, <1>3

\* Every step keeps the wakes.
LEMMA WokenStep ==
    ASSUME IndInv, [Next]_vars
    PROVE  Woken'
<1>1. ASSUME NEW w \in Workers, Worker(w) PROVE Woken'
  BY <1>1, WorkerWoken, LookWoken
<1>2. ASSUME NEW c \in Callers, InCall(c) \/ CallUser(c) \/ CallLocales(c) \/ CallInternal(c) PROVE Woken'
  BY <1>2, WakeWoken, AppendTasksWoken, EnqueueWoken, QuietCallWoken
<1> QED BY <1>1, <1>2, WorldWoken DEF Next

\* The invariant is inductive.
LEMMA IndInvStep ==
    ASSUME IndInv, [Next]_vars
    PROVE  IndInv'
BY TypedStep, SoundStep, CountsStep, PoolStep, WokenStep DEF IndInv, Sound, Placed

\* The invariant holds at the start: nothing queued, everybody looking or idle.
LEMMA InitInd ==
    ASSUME Init
    PROVE  IndInv
<1> USE DEF Init
<1>0. /\ NWorkers \in Nat \ {0} /\ MaxUpsets \in Nat /\ MaxTasks \in Nat \ {0} /\ 0 \in Tasks
      /\ Callers \cap Workers = {} /\ Workers \subseteq Threads /\ Callers \subseteq Threads
      /\ \A c \in Callers : pc[c] = "idle"
      /\ \A w \in Workers : pc[w] = "look"
      /\ \A p \in Threads : at[p] = Nowhere
      /\ \A j \in Jobs : job[j] = Unused /\ Kind(j) = "none"
  BY Constants DEF Threads, Unused, Kind
<1>1. Typed
  <2>1. queue \in Seq(Jobs) /\ holder \in Workers \cup {None} /\ fresh \subseteq Workers
    OBVIOUS
  <2>2. /\ nuunfin \in Nat /\ nthreads \in 0..NWorkers /\ waiters \in Nat
        /\ kicks \in Nat /\ left \in Nat /\ kicks + left <= MaxUpsets
    BY <1>0
  <2>3. /\ job \in [Jobs -> {Unused, Gone} \cup Blocks]
        /\ pc \in [Threads -> WorkerPlaces \cup CallerPlaces]
    BY DEF WorkerPlaces, CallerPlaces
  <2>4. /\ \A w \in Workers : pc[w] \in WorkerPlaces
        /\ \A c \in Callers : pc[c] \in CallerPlaces
    BY <1>0 DEF WorkerPlaces, CallerPlaces
  <2>5. Nowhere \in [job : Jobs \cup {None}, task : Tasks, err : 0..MaxTasks]
    BY <1>0 DEF Nowhere
  <2>6. /\ ran \in [Jobs -> [Tasks -> 0..2]]
        /\ failed \in [Jobs -> SUBSET Tasks]
        /\ result \in [Jobs -> (0..MaxTasks) \cup {None}]
    <3>1. [i \in Tasks |-> 0] \in [Tasks -> 0..2]
      OBVIOUS
    <3> QED BY <3>1
  <2>7. at \in [Threads -> [job : Jobs \cup {None}, task : Tasks, err : 0..MaxTasks]]
    BY <2>5
  <2> QED BY <2>1, <2>2, <2>3, <2>4, <2>6, <2>7 DEF Typed
<1>2. /\ \A w \in Workers : WorkerAt(w)
      /\ \A c \in Callers : CallerAt(c)
  BY <1>0 DEF WorkerAt, CallerAt
<1>3. Alone
  BY <1>0 DEF Alone
<1>4. JobsOK
  BY <1>0 DEF JobsOK, JobOK, NoneOK, Queued, Called, InCallOf
<1>5. Errs /\ QueueOK /\ InOrder
  BY <1>0 DEF Errs, QueueOK, InOrder, Nowhere
<1>6. Counts
  <2>1. {j \in Jobs : /\ job[j].kind \in {"user", "locales"} /\ job[j].refs > 0
                      /\ ~\E c \in Callers : J(c) = j /\ pc[c] = "enqueue"} = {}
    BY <1>0 DEF Unused
  <2>2. {w \in Workers : pc[w] = "finishjob"} = {} /\ {w \in Workers : pc[w] \in Waiting} = {}
    BY <1>0 DEF Waiting
  <2>3. {j \in Jobs : Ends(j)} = {}
    BY <1>0 DEF Ends
  <2> HIDE DEF Init
  <2>4. nuunfin = 0 /\ waiters = 0
    BY DEF Init
  <2>5. Cardinality({}) = 0
    BY FS_EmptySet
  <2>6. /\ Cardinality({j \in Jobs : /\ job[j].kind \in {"user", "locales"} /\ job[j].refs > 0
                                     /\ ~\E c \in Callers : J(c) = j /\ pc[c] = "enqueue"}) = 0
        /\ Cardinality({w \in Workers : pc[w] = "finishjob"}) = 0
        /\ Cardinality({w \in Workers : pc[w] \in Waiting}) = 0
        /\ Cardinality({j \in Jobs : Ends(j)}) = 0
    BY <2>1, <2>2, <2>3, <2>5
  <2>7. CountsExact
    BY <2>4, <2>6 DEF CountsExact
  <2>8. Cardinality({w \in Workers : pc[w] = "finishjob"}) <= Cardinality({j \in Jobs : Ends(j)})
    BY <2>6
  <2> QED BY <2>7, <2>8 DEF Counts
<1>7. Pool
  BY <1>0, Constants DEF Pool, Queued, Workers
<1>8. Woken
  BY <1>0 DEF Woken
<1> QED BY <1>1, <1>2, <1>3, <1>4, <1>5, <1>6, <1>7, <1>8 DEF IndInv

\* What the properties below rest on, for any number of workers, callers and
\* calls.
THEOREM Inductive == Spec => []IndInv
<1>1. Init => IndInv
  BY InitInd
<1>2. IndInv /\ [Next]_vars => IndInv'
  BY IndInvStep
<1> QED BY <1>1, <1>2, PTL DEF Spec

-----------------------------------------------------------------------------
\* The invariant gives the type invariant that the runs check.
LEMMA TypesBounded ==
    ASSUME IndInv
    PROVE  TypeOK
<1> USE DEF IndInv
<1>0. /\ NWorkers \in Nat \ {0} /\ MaxJobs \in Nat /\ MaxUpsets \in Nat /\ MaxTasks \in Nat \ {0}
      /\ Workers \subseteq Threads /\ Callers \subseteq Threads
  BY Constants DEF Threads
<1>1. waiters \in 0..NWorkers
  <2>1. {w \in Workers : pc[w] \in Waiting} \in SUBSET Workers
    OBVIOUS
  <2>2. waiters \in Nat /\ waiters <= NWorkers
    BY <2>1, Constants, Sized DEF Counts, CountsExact
  <2> QED BY <1>0, <2>2
<1>2. nuunfin \in 0..MaxJobs
  <2>1. Unended /\ FewFinish
    BY DEF Counts, CountsExact, Unended, FewFinish, AtPlaces, LiveJobs, EndedJobs, IsLive, Finishing, Enqueuing, Kind
  <2>2. LiveJobs \in SUBSET Jobs /\ EndedJobs \in SUBSET Jobs /\ LiveJobs \cup EndedJobs \in SUBSET Jobs
        /\ AtPlaces(Finishing) \in SUBSET Workers
    BY DEF LiveJobs, EndedJobs, AtPlaces
  <2>3. LiveJobs \cap EndedJobs = {}
    BY DEF LiveJobs, EndedJobs, IsLive, Ends
  <2>4. /\ IsFiniteSet(LiveJobs) /\ IsFiniteSet(EndedJobs)
        /\ Cardinality(LiveJobs) \in Nat /\ Cardinality(EndedJobs) \in Nat
        /\ Cardinality(AtPlaces(Finishing)) \in Nat
    BY <2>2, Finite, Sized
  <2>5. Cardinality(LiveJobs \cup EndedJobs) <= MaxJobs
    BY <2>2, Constants, Sized
  <2>6. Cardinality(LiveJobs \cup EndedJobs) = Cardinality(LiveJobs) + Cardinality(EndedJobs)
    <3>1. Cardinality(LiveJobs \cap EndedJobs) = 0
      BY <2>3, FS_EmptySet
    <3>2. Cardinality(LiveJobs \cup EndedJobs) =
            Cardinality(LiveJobs) + Cardinality(EndedJobs) - Cardinality(LiveJobs \cap EndedJobs)
      BY <2>4, FS_Union
    <3> QED BY <2>4, <3>1, <3>2
  <2>7. nuunfin \in Nat /\ nuunfin <= MaxJobs
    BY <1>0, <2>1, <2>4, <2>5, <2>6 DEF Unended, FewFinish
  <2> QED BY <1>0, <2>7
<1>3. ASSUME NEW j \in Jobs
      PROVE  \/ job[j] \in {Unused, Gone}
             \/ /\ job[j].kind \in {"user", "locales", "internal"}
                /\ job[j].n \in 0..MaxTasks /\ job[j].nf \in 0..job[j].n
                /\ job[j].kind = "locales" => job[j].begun \subseteq Indices
                /\ job[j].kind # "locales" => job[j].begun \in 1..MaxTasks + 1
                /\ job[j].err \in 0..MaxTasks /\ job[j].refs \in 0..NWorkers + 1
  <2>1. CASE Kind(j) \notin Kinds
    BY <2>1, KindOf
  <2>2. CASE Kind(j) = "user"
    <3>1. job[j].n = 0 /\ job[j].nf = 0 /\ job[j].begun \in {1, 2} /\ job[j].err = 0 /\ job[j].refs \in {0, 1}
      BY <2>2, BlockOf DEF UserOK, One
    <3> QED BY <1>0, <2>2, <3>1 DEF Kind
  <2>3. CASE Kind(j) = "locales"
    <3>1. /\ job[j].n = 0 /\ job[j].nf = 0 /\ job[j].begun \subseteq Indices /\ job[j].err = 0
          /\ job[j].refs = Cardinality(Pending(j)) /\ Pending(j) \in SUBSET Workers
      BY <2>3, BlockOf DEF LocalesOK, Pending
    <3>2. job[j].refs \in Nat /\ job[j].refs <= NWorkers
      BY <3>1, Constants, Finite, Sized
    <3> QED BY <1>0, <2>3, <3>1, <3>2 DEF Kind
  <2>4. CASE Kind(j) = "internal"
    <3>1. /\ job[j].n \in Nat \ {0} /\ job[j].n <= MaxTasks /\ job[j].nf \in Nat
          /\ job[j].nf + Cardinality(Open(j)) = job[j].n /\ Cardinality(Open(j)) \in Nat
          /\ job[j].begun \in Nat /\ 1 <= job[j].begun /\ job[j].begun <= job[j].n + 1
          /\ job[j].err \in 0..MaxTasks
      BY <2>4, BlockOf DEF InternalOK, Kinds
    <3>2. job[j].refs \in {0, 1, 2}
      BY <2>4, BlockOf DEF InternalOK, One
    <3>3. job[j].n \in 0..MaxTasks /\ job[j].nf \in 0..job[j].n /\ job[j].begun \in 1..MaxTasks + 1
      BY <1>0, <3>1
    <3> QED BY <1>0, <2>4, <3>1, <3>2, <3>3 DEF Kind
  <2> QED BY <2>1, <2>2, <2>3, <2>4 DEF Kinds
<1>4. ASSUME NEW w \in Workers
      PROVE  /\ pc[w] = "task" => at[w].task < job[J(w)].n
             /\ pc[w] \in {"kick", "wake", "share"} /\ job[J(w)].kind = "locales" =>
                  at[w].task < Cardinality(job[J(w)].mask)
  <2>1. pc[w] = "task" => at[w].task < job[J(w)].n
    BY DEF WorkerAt
  <2>2. ASSUME pc[w] \in {"kick", "wake", "share"}, job[J(w)].kind = "locales"
        PROVE  at[w].task < Cardinality(job[J(w)].mask)
    <3>1. J(w) \in Jobs /\ w \in job[J(w)].mask /\ at[w].task = PyxOf(w, job[J(w)].mask)
      BY <2>2 DEF WorkerAt, Kind
    <3>2. job[J(w)].mask \in SUBSET Indices
      BY <2>2, <3>1, BlockOf DEF Kind, Kinds
    <3> QED BY <3>1, <3>2, PyxOfShare
  <2> QED BY <2>1, <2>2
<1>5. /\ \A w \in Workers : pc[w] \in {"look", "drop", "ended"} \cup Waiting \cup Running
      /\ \A c \in Callers : pc[c] \in {"idle", "enqueue", "append", "wakeall", "wakeone",
                                       "ownshare", "own", "next", "spin"}
  BY DEF Typed, WorkerPlaces, CallerPlaces
<1>6. /\ queue \in Seq(Jobs) /\ holder \in Workers \cup {None} /\ fresh \subseteq Workers /\ nthreads \in 0..NWorkers
      /\ at \in [Threads -> [job : Jobs \cup {None}, task : Tasks, err : 0..MaxTasks]]
      /\ told \subseteq Workers /\ suspended \in BOOLEAN /\ kicks \in 0..MaxUpsets
  <2>1. kicks \in 0..MaxUpsets
    BY <1>0 DEF Typed
  <2> QED BY <2>1 DEF Typed
<1> QED BY <1>1, <1>2, <1>3, <1>4, <1>5, <1>6 DEF TypeOK

\* A JOB block is never freed under a thread that has yet to read it, nor while
\* it is queued, and the usecounts and the counts of the queue stay in range:
\* the two users of an internal job (ct.c 948 to 962) are its caller and the
\* worker that will find it in the queue with nothing left to start.
THEOREM NoBlockFreedInUse == Spec => []BlocksLive
<1>1. ASSUME IndInv PROVE BlocksLive
  <2>1. \A i \in DOMAIN queue : queue[i] \in Jobs /\ Queued(queue[i])
    BY <1>1 DEF Queued, IndInv, Typed
  <2>2. \A i \in DOMAIN queue : job[queue[i]].refs > 0
    BY <1>1, <2>1, InUse
  <2>3. \A w \in Workers : pc[w] \in (Running \ {"finish", "finishjob"}) \cup {"drop"} => job[J(w)].refs > 0
    BY <1>1, InUse DEF Running
  <2>4. \A c \in Callers : pc[c] \in {"own", "next", "spin", "append"} => job[J(c)].refs > 0
    BY <1>1, InUse
  <2> QED BY <1>1, <2>2, <2>3, <2>4, TypesBounded DEF BlocksLive
<1> QED BY <1>1, Inductive, PTL

\* Each task is run at most once, whoever takes it; when jtjobrun returns all
\* were run, unless one failed, which it then reports, and nobody is at one; a
\* locales job that ended has run the share of every worker of its mask.
THEOREM EachTaskOnce == Spec => []TasksOnce
<1>1. ASSUME IndInv PROVE TasksOnce
  <2> USE <1>1
  <2>1. ASSUME NEW j \in Jobs, NEW i \in Tasks PROVE ran[j][i] < 2
    <3>1. JobOK(j) /\ ran[j][i] \in Nat /\ i \in Nat
      BY Constants DEF IndInv, JobsOK, Typed
    <3>2. CASE Kind(j) \in {"none", "gone", "user"}
      BY <3>1, <3>2 DEF JobOK, NoneOK, GoneOK, UserOK
    <3>3. CASE Kind(j) = "locales"
      <4>1. LocalesOK(j) /\ job[j].mask \in SUBSET Indices
        BY <3>3, BlockOf DEF Kinds
      <4>2. CASE \E w \in job[j].mask : i = PyxOf(w, job[j].mask)
        <5>1. PICK w \in job[j].mask : i = PyxOf(w, job[j].mask)
          BY <4>2
        <5>2. CASE w = 0
          BY <4>1, <5>1, <5>2, PyxOfShare DEF LocalesOK, One
        <5>3. CASE w # 0
          BY <4>1, <5>1, <5>3 DEF LocalesOK, One
        <5> QED BY <5>2, <5>3
      <4>3. CASE ~\E w \in job[j].mask : i = PyxOf(w, job[j].mask)
        BY <4>1, <4>3 DEF LocalesOK
      <4> QED BY <4>2, <4>3
    <3>4. CASE Kind(j) = "internal"
      <4>1. InternalOK(j) /\ job[j].n \in Nat
        BY <3>4, BlockOf
      <4>2. i >= job[j].n \/ i \in 0..job[j].n - 1
        BY <3>1, <4>1
      <4> QED BY <4>1, <4>2 DEF InternalOK
    <3>5. Kind(j) \in Kinds \cup {"none", "gone"}
      BY KindOf DEF IndInv
    <3> QED BY <3>2, <3>3, <3>4, <3>5 DEF Kinds
  <2>2. ASSUME NEW j \in Jobs, result[j] # None
        PROVE  /\ \A w \in Workers : pc[w] \in {"task", "count"} => J(w) # j
               /\ IF result[j] = 0 THEN /\ failed[j] = {}
                                        /\ \A i \in 0..job[j].n - 1 : ran[j][i] = 1
                                   ELSE result[j] - 1 \in failed[j]
    <3>1. Kind(j) = "internal"
      <4>1. JobOK(j) /\ Kind(j) \in Kinds \cup {"none", "gone"}
        BY KindOf DEF IndInv, JobsOK
      <4> QED BY <2>2, <4>1 DEF JobOK, NoneOK, GoneOK, UserOK, LocalesOK, Kinds
    <3>2. /\ InternalOK(j) /\ IsFiniteSet(Open(j)) /\ job[j].n \in Nat /\ job[j].nf \in Nat
          /\ Cardinality(Open(j)) \in Nat
      BY <3>1, BlockOf DEF Kinds
    <3>3. ~Called(j) /\ result[j] = job[j].err /\ job[j].nf = job[j].n
      BY <2>2, <3>2 DEF InternalOK
    <3>4. Open(j) = {}
      <4>1. Cardinality(Open(j)) = 0
        BY <3>2, <3>3 DEF InternalOK
      <4> QED BY <3>2, <4>1, Sized
    <3>5. \A w \in Workers : pc[w] \in {"task", "count"} => J(w) # j
      BY <3>3, InUse
    <3>6. \A i \in 0..job[j].n - 1 : ~Pre(j, i)
      BY <3>4 DEF Open, Pre
    <3>7. CASE job[j].err = 0
      BY <3>2, <3>3, <3>5, <3>6, <3>7 DEF InternalOK
    <3>8. CASE job[j].err # 0
      BY <3>2, <3>3, <3>5, <3>8 DEF InternalOK
    <3> QED BY <3>7, <3>8
  <2>3. ASSUME NEW j \in Jobs, job[j].kind = "locales", job[j].refs = 0, NEW b \in job[j].mask \ {0}
        PROVE  ran[j][PyxOf(b, job[j].mask)] = 1
    <3>1. LocalesOK(j)
      BY <2>3, BlockOf DEF Kind
    <3>2. Pending(j) = {}
      BY <2>3, <3>1, Finite, Sized DEF LocalesOK
    <3> QED BY <2>3, <3>1, <3>2 DEF LocalesOK, One
  <2> QED BY <2>1, <2>2, <2>3 DEF TasksOnce
<1> QED BY <1>1, Inductive, PTL

\* nuunfin and waiters say what the callers take them for.
THEOREM CountsAreExact == Spec => []CountsExact
<1>1. IndInv => CountsExact
  BY DEF IndInv, Counts
<1> QED BY <1>1, Inductive, PTL

\* Work is not slept on.  Who samples the futex and then sleeps was refused by
\* the head and has asked for its kick, or leaves the queue to others who will
\* look at it: those that stay, or as many that were told to end, and wakes on
\* their way, as there are user jobs.
THEOREM WakesAreNotLost == Spec => []NoLostWake
<1>1. ASSUME IndInv, queue # <<>>, ~WakeDue
      PROVE  LET r == job[Head(queue)] IN
             IF r.kind = "locales" THEN \A w \in Workers \ r.begun : Stays(w) => Looks(w)
             ELSE (\E w \in Workers : Stays(w)) => \E w \in Workers : Looks(w)
  <2> USE <1>1 DEF IndInv
  <2>1. PICK h \in Jobs : h = Head(queue) /\ Queued(h) /\ 1 \in DOMAIN queue /\ queue[1] = h
    BY HeadQueued, QueueTail DEF Typed
  <2>2. ~AllDue /\ ~KickDue
    BY Constants DEF WakeDue, AllDue, KickDue, Threads
  <2>3. WakesDue = {}
    BY DEF WakeDue, WakesDue, Threads
  <2>4. ASSUME NEW w \in Workers, Stays(w) PROVE Looks(w) \/ RefusedBy(w) \/ Enough(w)
    <3>1. pc[w] \in {"look", "drop", "polling", "sampled", "asleep"} \cup Running
      BY <2>4 DEF Stays, Typed, WorkerPlaces, Waiting
    <3>2. w \in fresh => RefusedBy(w)
      BY <2>2 DEF Woken
    <3>3. pc[w] = "asleep" => RefusedBy(w) \/ Enough(w)
      BY <2>2 DEF Woken
    <3> QED BY <2>4, <3>1, <3>2, <3>3 DEF Looks, Stays
  <2>5. CASE job[h].kind = "locales"
    <3>1. ASSUME NEW w \in Workers, RefusedBy(w) \/ Enough(w) PROVE w \in job[h].begun
      BY <2>1, <2>5, <3>1 DEF RefusedBy, Enough, HeadBars, Kind
    <3> QED BY <2>1, <2>4, <2>5, <3>1
  <2>6. CASE job[h].kind # "locales"
    <3>1. SUFFICES ASSUME NEW w \in Workers, Stays(w) PROVE \E v \in Workers : Looks(v)
      BY <2>1, <2>6
    <3>2. CASE Enough(w)
      <4>1. SUFFICES ASSUME Cardinality(UsersQueued) <= Cardinality(ToldLooks) + Cardinality(WakesDue)
                     PROVE  \E v \in Workers : Looks(v)
        BY <3>2 DEF Enough
      <4>2. Kind(h) = "user"
        BY <2>1, <2>6, <3>2 DEF Enough, HeadBars, Kind
      <4>3. h \in UsersQueued
        BY <2>1, <4>2 DEF UsersQueued
      <4>4. Cardinality(UsersQueued) > 0 /\ Cardinality(WakesDue) = 0
        BY <2>3, <4>3, WokenSizes, Sized, FS_EmptySet
      <4>5. Cardinality(ToldLooks) # 0
        BY <4>1, <4>4, WokenSizes
      <4>6. PICK v : v \in ToldLooks
        BY <4>5, WokenSizes, Sized
      <4> QED BY <4>6 DEF ToldLooks, Comes, Looks, Typed
    <3>3. ~RefusedBy(w)
      BY <2>1, <2>6 DEF RefusedBy
    <3> QED BY <2>4, <3>1, <3>2, <3>3
  <2> QED BY <2>1, <2>5, <2>6
<1>2. IndInv => NoLostWake
  BY <1>1 DEF NoLostWake, Stays
<1> QED BY <1>2, Inductive, PTL

\* When no thread can go on every call has been carried out, unless a worker
\* that a queued mask names has ended: with a job at the head some worker would
\* be awake, a caller that spins has a task that some thread holds, and a user
\* or locales job that has not ended is queued or being run.
THEOREM NobodyWaitsForEver == Spec => []NobodyStuck
<1>1. ASSUME IndInv, Quiet, ~Orphaned, NEW j \in Jobs PROVE job[j].kind = "none" \/ Ended(j)
  <2> USE <1>1 DEF IndInv
  <2>0. /\ Workers \subseteq Threads /\ Callers \subseteq Threads
        /\ \A w \in Workers : pc[w] \in {"asleep", "ended"}
        /\ \A c \in Callers : pc[c] \in {"idle", "spin"}
    BY DEF Threads, Quiet
  <2>1. /\ ~AllDue /\ WakesDue = {} /\ ToldLooks = {}
        /\ \A w \in Workers : ~Looks(w)
    <3>1. ~AllDue /\ WakesDue = {}
      <4>1. kicks = 0 /\ \A p \in Threads : pc[p] \in {"asleep", "ended", "idle", "spin"}
        BY <2>0 DEF Quiet, Threads
      <4>2. ~(kicks > 0)
        BY <4>1
      <4>3. ~AllDue
        BY <4>1, <4>2 DEF AllDue
      <4>4. WakesDue = {}
        BY <2>0, <4>1 DEF WakesDue
      <4> QED BY <4>3, <4>4
    <3>2. \A w \in Workers : ~Looks(w) /\ ~Comes(w)
      BY <2>0 DEF Looks, Comes, Running
    <3>3. ToldLooks = {}
      BY <3>2 DEF ToldLooks, Typed
    <3> QED BY <3>1, <3>2, <3>3
  <2>2. ASSUME queue # <<>>, NEW w \in Workers, pc[w] = "asleep" PROVE FALSE
    <3>1. PICK h \in Jobs : h = Head(queue) /\ Queued(h) /\ Kind(h) \in Kinds /\ 1 \in DOMAIN queue /\ queue[1] = h
      BY <2>2, HeadQueued, QueueTail DEF Typed
    <3>2. RefusedBy(w) \/ Enough(w)
      BY <2>1, <2>2 DEF Woken
    <3>3. Kind(h) # "internal"
      BY <3>1, <3>2 DEF RefusedBy, Enough, HeadBars, Kind
    <3>4. CASE Kind(h) = "user"
      <4>1. Cardinality(UsersQueued) <= Cardinality(ToldLooks) + Cardinality(WakesDue)
        BY <2>1, <3>1, <3>2, <3>4 DEF RefusedBy, Enough, Kind
      <4>2. h \in UsersQueued
        BY <3>1, <3>4 DEF UsersQueued
      <4>3. Cardinality(UsersQueued) > 0
        BY <4>2, WokenSizes, Sized
      <4>4. Cardinality(ToldLooks) = 0 /\ Cardinality(WakesDue) = 0
        BY <2>1, FS_EmptySet
      <4> QED BY <4>1, <4>3, <4>4, WokenSizes
    <3>5. CASE Kind(h) = "locales"
      <4>1. LocalesOK(h) /\ job[h].begun \subseteq Indices
        BY <3>5, BlockOf
      <4>2. job[h].begun # Indices
        BY <3>1, <4>1 DEF LocalesOK
      <4>3. PICK v \in Indices : v \notin job[h].begun
        BY <4>1, <4>2
      <4>4. v \in Workers
        <5>1. v # 0
          BY <4>1, <4>3 DEF LocalesOK
        <5> QED BY <5>1, Constants DEF Indices, Workers
      <4>5. CASE pc[v] = "ended"
        BY <3>1, <3>5, <4>3, <4>4, <4>5 DEF Orphaned, Kind
      <4>6. CASE pc[v] = "asleep"
        <5>1. RefusedBy(v) \/ Enough(v)
          BY <2>1, <2>2, <4>4, <4>6 DEF Woken
        <5> QED BY <3>1, <3>5, <4>3, <5>1 DEF RefusedBy, Enough, HeadBars, Kind
      <4> QED BY <2>0, <4>4, <4>5, <4>6
    <3> QED BY <3>1, <3>3, <3>4, <3>5 DEF Kinds
  <2>3. ASSUME Queued(j), Kind(j) # "internal" PROVE FALSE
    <3>1. nthreads > 0 /\ nthreads \in Nat /\ nthreads <= NWorkers /\ NWorkers \in Nat
      BY <2>3, Constants DEF Pool, Typed
    <3>2. 1 \in 1..nthreads /\ 1 \in Workers
      BY <3>1 DEF Workers
    <3>3. pc[1] = "asleep"
      BY <2>0, <3>2 DEF Pool
    <3>4. queue # <<>>
      BY <2>3 DEF Queued
    <3> QED BY <2>2, <3>2, <3>3, <3>4
  <2>4. CASE Kind(j) = "internal"
    <3>1. /\ InternalOK(j) /\ IsFiniteSet(Open(j)) /\ job[j].n \in Nat /\ job[j].nf \in Nat /\ job[j].begun \in Nat
      BY <2>4, BlockOf DEF Kinds
    <3>2. SUFFICES ASSUME Called(j) PROVE FALSE
      BY <3>1 DEF InternalOK, Ended
    <3>3. PICK c \in Callers : pc[c] = "spin" /\ J(c) = j /\ ~Returns(j)
      BY <2>0, <3>2 DEF Called, InCallOf, Quiet
    <3>4. job[j].begun >= job[j].n /\ job[j].nf < job[j].n
      BY <2>4, <3>1, <3>3 DEF CallerAt, Returns
    <3>5. Open(j) = {}
      <4>1. \A p \in Threads : \A i : ~Holds(p, j, i)
        BY <2>0 DEF Holds, Threads
      <4> QED BY <3>1, <3>4, <4>1 DEF Open
    <3>6. Cardinality(Open(j)) = 0
      BY <3>5, FS_EmptySet
    <3> QED BY <3>1, <3>4, <3>6 DEF InternalOK
  <2>5. CASE Kind(j) = "user" /\ job[j].refs # 0
    <3>1. UserOK(j)
      BY <2>5, BlockOf
    <3>2. ~Enqueuing(j) /\ \A w \in Workers : ~Runs(w, j)
      BY <2>0 DEF Enqueuing, Runs
    <3>3. job[j].begun = 1
      BY <2>5, <3>1, <3>2 DEF UserOK, One
    <3> QED BY <2>3, <2>5, <3>1, <3>2, <3>3 DEF UserOK
  <2>6. CASE Kind(j) = "locales" /\ job[j].refs # 0
    <3>1. LocalesOK(j)
      BY <2>6, BlockOf
    <3>2. ~Enqueuing(j) /\ \A w \in Workers : ~Runs(w, j)
      BY <2>0 DEF Enqueuing, Runs
    <3>3. Pending(j) # {}
      BY <2>6, <3>1, FS_EmptySet DEF LocalesOK
    <3>4. job[j].begun # Indices
      <4>1. PICK w \in Workers : w \notin job[j].begun
        BY <3>2, <3>3 DEF Pending
      <4>2. w \in Indices
        BY Constants DEF Workers, Indices
      <4> QED BY <4>1, <4>2
    <3> QED BY <2>3, <2>6, <3>1, <3>2, <3>4 DEF LocalesOK
  <2>7. Kind(j) \in Kinds \cup {"none", "gone"}
    BY KindOf
  <2> QED BY <2>4, <2>5, <2>6, <2>7 DEF Ended, Kinds, Kind
<1>2. IndInv => NobodyStuck
  BY <1>1 DEF NobodyStuck
<1> QED BY <1>2, Inductive, PTL
=============================================================================
