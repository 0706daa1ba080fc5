# A TLA+ model of the concurrent core of the J engine

J is an array language; `jsrc/` is its engine, a C library. Most of it is
sequential: parser, primitives, numerics. What is hard to test is the part that
came with threads: user tasks, pools of workers, pyxes, mutexes, the lock that
stops every thread, the shared tables that many threads search and extend, the
blocks that one thread frees for another, and the locales in which several
threads execute while somebody deletes them.
These modules model that part, down to the atomic accesses where the code uses
no lock, and to the critical section where it does. All paths below are
relative to `src/jsrc/` of the repository.

## 1. Inventory

| component | code | state | operations | what is hard | what makes it correct | module |
|---|---|---|---|---|---|---|
| Mutex of `x T.` | `mt.c`, `mt.h` | the word `v`, `owner`, `ct`; the thread's `futexwt` | lock, timed lock, trylock, unlock | a lock-free word, sleepers, timeouts, recursion, interrupts, wakeups of the system lock | exclusion, exact ownership, no lost wake | `Mutex` |
| Read/write lock | `j.h` 830, 1080-1100; `ct.c` 300-345 | one 16-bit word with two counts | read and write lock and unlock | requests put up before it is known whether they stand | a writer is alone, counts never carry, writers get in | `RWLock` |
| System lock | `ct.c` 75-200, 345-380 | `systemlock`, `systemlocktct`, request bits, RUNNING and LOCKACTIVE of each thread | request, accept, start and stop running J, create a thread | a barrier in rounds that all threads enter and leave at their own pace; competing requests; failure | the function runs alone, once for each request served; the lock ends | `SystemLock` |
| Pyx | `ct.c` 200-290 | `pyxorigthread`, `errcode`, `pyxvalue`, `seqstate` | open with timeout, fill by the task, `4 T.` to `7 T.` | four words written without a lock, sleepers, two who fill, timeouts, system locks | written once, all readers get the same, none sleeps for ever | `Pyx` |
| Job queue | `ct.c` 399-780 | the queue, `nuunfin`, `nthreads`, `waiters`, the futex; each job's `ns`, `nf`, usecount | `u t. v` (plain, forced, with a mask of workers), `jtjobrun`, the worker's loop, `15 T.` | jobs of three kinds in one queue, blocks freed by whoever is last, kicks, deletion | every task runs once, errors are kept, blocks outlive their readers, work is not slept on | `JobQueue` |
| Threads and pools | `ct.c` 785-800, 1060-1250 | ACTIVE and TERMINATE, pool and index of a slot; `nthreads` | `0 T.`, `1 T.`, `15 T.`, `55 T.`, the worker's loop and its end | slots reused while the old thread still runs or leaves; workers that sleep and do not see that they are to end; refusal by the operating system | one thread in the loop of a slot, exact counts, jobs are served, calls come back | `ThreadPool` |
| Numbered locales | `sl.c` 60-170, `ct.c` 380-397 | a hash table with backward probing, a counter | install, find, erase, extend | deletion in wrapping probe chains; the lock let go while memory is allocated | a locale is found exactly while it lives | `LocaleNumbers` |
| Script names | `xs.c` 95-125 | a list and its length | look up, append, extend | an index computed before the lock is let go | a number names its script | `ScriptList` |
| External calls | `x15.c` 750-1010 | four growing tables | look up, load, insert | look up and insertion are separate sections | tables only grow, parsed calls are found | `CdTable` |
| Memo tables | `a.c` 60-165 | arguments, results, a hash table of their indices | look up, run the verb, store, extend | three blocks that grow one by one, with the lock let go each time | what is stored is found, and keeps its first answer | `MemoTable` |
| Blocks freed by another thread | `m.c` 1440-1500; `ct.c` 564-567 | `repato` and `repatq` of each thread, chains through the blocks, `sprepatneeded` | free, send, receive, signal | a chain is hung on a queue without a lock while the owner empties it | a block is in one place, its owner is asked for it | `Repatriation` |
| Life of a locale | `sc.c` 150-360, `sl.c` 330-360 and 681-745, `io.c` 459, `ct.c` 500-570 | execution count with its two flag bits, path, usecount; each thread's `global` and `bstkreqd` | call, return, cocurrent, sentence and task, `18!:55`, revival | who makes a count 0 must destroy, once, and what others still use must stay | counts are exact, no locale goes while something runs in it, and a deleted one goes then | `LocaleLife` |

The parts that are not modelled, with reasons, are in section 9.

**How they interact.** `t.` puts a job in the queue of a pool and returns a pyx;
a worker takes the job, runs it between "task running" and "not running", and
fills the pyx. Threads that wait, on a mutex, a pyx or a sleep, publish the word
they sleep on in `futexwt`, so that the leader of a system lock can wake them
(`wakeall`): each such wait loop takes part in the system lock. Mutexes and
pyxes are futexes; the queue has a futex and a lock bit of its own. The tables
are guarded by read/write locks (`stlock`, `startlock`, `cdlock`, `flock`), and
grow by `jtextendunderlock`, which lets the lock go while it allocates. A task gets
the locale of its caller, with a usecount of its own, and frees its arguments,
which its caller allocated: they go home through `repatq`.

Where a module uses a lock that another module proves correct, a section under
that lock is one step. That is justified for the read/write lock by the
theorems `Exclusion` and `Refinement`. None of these locks is reentrant, and no
modelled section takes its own lock twice.

## 2. The modules

    Mutex          <- MutexProofs, MCMutex, MCLocks
    RWLock         <- RWLockProofs, MCLocks;      implements ReadersWriter
    SystemLock     <- SystemLockProofs, MCSystemLock;  implements StopTheWorld
    Pyx            <- PyxProofs, MCReturns;       implements WriteOnce
    JobQueue       <- JobQueueProofs, MCJobQueue
    ThreadPool     <- ThreadPoolProofs, MCThreadPool, MCReturns
    Repatriation   <- RepatriationProofs, MCRepatriation
    LocaleLife     <- MCLocaleLife
    ScriptList, LocaleNumbers, CdTable, MemoTable  <- Tables <- TablesProofs, MCTables

`MCLocks`, `MCReturns` and `Tables` hold instances of modules that have nothing to do
with each other: the first state chooses one of them, and only that one moves. They
are collections of instances, not compositions. `Tables` has the constants of the four
tables as its own, with their assumptions, so that one module of proofs states its theorems
of the very properties that the run of `MCTables` checks.

**Mutex.** One action per access to shared memory. `TryFree` is the fast
compare-and-swap; `FoundMine` and `FoundBusy` its failures; `Enroll` to
`Awake` the waiting loop (store `futexwt`, exchange WAIT, accept a system lock,
test the break byte, sleep); `Withdraw` and `WaitOutWake` the way out, which
waits for a `wakeall` that is in the middle of its work on this thread;
`TakeOwnership`, `Release`, `Free` and `Wake1` the rest. `Wake*` actions are
`wakeall`, visit by visit. The word has its 32 bits' structure: lock and unlock
exchange the low 16, the futex compares all, `wakeall` adds 0x100.

**RWLock.** Eight actions, one for each atomic instruction of the macros and
of `readlock`/`writelock`. The high count is cleared as a whole by a writer's
unlock. `ReadersWriter` is the promise: readers, the thread that claims the
lock for writing, and whether it writes; a claim keeps further readers out.

**SystemLock.** A thread starts and stops running J (`EnterUser`, `LeaveUser`,
`SetRunning`, `ClrRunning`), is created (`Create*`), asks for the lock
(`Request`) or notices it (`Notice`). `Lead`, `Mark`, `SetCount`, `SetState`
are the leader's start; `Synch`, `CheckIn`, `Drained`, `HandCounts`, `HandState`
are `DOINSTATE`, used in the states 2, 3 and 5; `Function` to `Release` is what
the executor does, with success or failure. `wakeall` appears only as its
effect, that a thread that waits comes round to accept; that it does so is what
`Mutex` and `Pyx` check. `StopTheWorld` is the promise: the function runs while
every other thread has stopped, and each request is served, or refused.

**Pyx.** The setter's writes one by one (`Claim`, `StoreError`, `StoreValue`,
`Fill`, `WakeReaders`), the reader's wait loop with its timeouts and the
doubling nap, and the leader of a system lock as far as the readers see it.
`WriteOnce` is the promise: a box that is empty, then full with one outcome
that every reader gets. (An outcome is a value, or an error number with a
value slot that holds the text of the error.)

**JobQueue.** One pool. A section under the queue's lock is a step; `holder` is
a worker that keeps the lock from its count of a finished task to its next
look at the queue. `fresh` are the workers whose sample of the futex is still
current. The first empty look and the garbage collection after it are merged
with the second look; a worker that lingers (`keepwarm`) is "polling". Records
of jobs hold `ns_mask` (a count, or for jobs with a mask the set of workers
with no share to start), `nf`, the error kept, the request for a kick, and the
usecount. Callers are threads other than the pool's workers.

**ThreadPool.** A slot's bits, pool and index; a section under `flock` is a
step. `osthreads` counts the threads in the loop of a slot, `leaving` those that
have cleared ACTIVE and TERMINATE (`ct.c:576`) and have not returned (579): a slot
can have one of each. A job is only something that threads take, run and end, but
the queue of a pool keeps what decides who sleeps: a job with locales is the set
of the indices that have yet to begin it, and refuses every other index. A worker
so refused sleeps at `waitforkick` without looking at TERMINATE (`WaitForKick`),
and is woken by `Enqueue`, `Destroy`, `15 T.` (`Kick`) or, if a second job was
behind the first (`wanted`), by the last one to begin the first (`GiveKick`).
Threads call `T.` and `t.` from the master and, in the first run, from within tasks.

**LocaleNumbers, ScriptList, CdTable.** A section under the table's lock is a
step; where the lock is let go for an allocation there are two, with the locals
that live across it in `loc`, and a failing allocation is a third. The probe
sequence of `LocaleNumbers` is the code's, for any hash function of a set; in
`CdTable` probing is left out and a hash table is the set of entries that it
holds. `cdlookupl`, which reads without a lock, sees the table at one moment.

**MemoTable.** As the other tables; look up and store are separate sections,
between which the verb runs. The hash table and its backward search are the code's; a
value stands for itself, so "the answer" is the index it was stored at.

**Repatriation.** Chains run through the blocks (`chain` is `AFCHAIN`), as in
the code, so that a block which is given out again while a sender still looks at it
does what it does there. `Free` puts a block into the own pool or into `repato`; a chain that is
long enough, or is for another owner, is sent: `Load`, `Link`, `CompareAndSwap`,
and `Signal` where the total crosses the limit. `EndTask` and `TellOriginator` are the
end of a worker's task. `Receive`, `Clear` and `Walk` are the owner's part. Three
history variables name what the code accepts: `raced` and `aba` (a sender's exchange found
the head it had seen, although the queue had changed meanwhile), and `erased` (the owner's clearing
of its signal undid one that had come since it took the queue). The properties follow the words from the
first block of a chain (`Segment`); one that runs into a block in use, or in a circle, has `Foreign` in it and is no
chain.

**LocaleLife.** A thread of the user and a worker, each between sentences or tasks or in one,
with a stack of calls. `Start`, `End`: a sentence or task counts its locale.
`Call`, `Return`, `Leave`, `Restore`: `jtunquote`; `Enter`, `Switch`: `18!:4`.
`Delete` is `18!:55`; `Destroy`, `Empty`, `Release` are `jtlocdestroy`, which whoever brings
the count to 0 goes through. `Find` looks a locale up, and `Revive` makes a zombie, a locale that
was destroyed but is still in a path, a permanent locale. Two history variables: `toast`,
locales that a thread began to use after they were destroyed; `raced`, locales that were revived while
another thread was about to destroy or revive them.

## 3. The runs

All runs use two workers of TLC. Symmetry is used in safety runs only.

| run | instance | what it shows |
|---|---|---|
| `mutex_safety` | 2 tasks, recursive, depth 2, all operations, 2 system locks, 1 interrupt | `MutualExclusion`; `OwnerExact`: `owner` and `ct`, written outside any lock, tell the truth; `NoStaleWake`: `wakeall` never uses the word of a wait that is over |
| `mutex_kicked_free` | 2 tasks, 1 system lock | the first finding of section 7 |
| `locks` | *RWLock:* 4 threads, fair; or *Mutex:* 3 tasks, lock and trylock, no system lock, 1 interrupt, fair | `WordExact` (the counts, and who owns the write request), `WriterAlone`; the lock implements `ReadersWriter`; `SomebodyGetsIn`, and the writer that owns the request does. `NoLostWake`: sleepers have a wake to come; `SomebodyGetsIt`: they do not all sleep while the mutex is passed on or free |
| `systemlock` | 3 thread slots, 2 at the start, 2 priorities, fair | `BarrierExact`: one thread leads, the counter of a round is the number of threads still to come, and the byte that is both requests and error code has one meaning at a time; `RunningFrozen`; implements `StopTheWorld`; `LockEnds`, `TopIsServed` |
| `tables` | *scripts:* 3 threads, 4 names, a list of length 1; or *locales:* 3 threads, 5 slots, 6 numbers, affine hashes; or *external calls:* 2 threads, 3 strings of 2 libraries, 1 library allowed; or *memo:* 2 threads, 3 arguments, tables of 1, 1 and 3 | `NumberNamesScript`: a number names its script, and what is in the list is no garbage; `FoundIffLive`: a living locale sits in one slot, where it is found, until a thread takes an emptied table for its own (`emptied`); `TextInPlace`: no entry is mixed up, and none is there twice but for overtaken threads; `HashComplete`: parsed calls are found, and each search ends; `StoredIsFound`, `OneAnswer` of the memo table |
| `locales_emptied` | the same | the third finding of section 7 |
| `threadpool_slots` | 3 workers, 2 pools of at most 2, calls from tasks, one at a time, jobs with and without locales, refusal, 1 thread that leaves a slot | `CountIsTrue` (with the indices of a pool), `JobsAreServed`, `SlotIsOwned` |
| `returns` | *Pyx:* 2 readers, the task and another who fills, 1 system lock, timeouts, a missing locale, fair; or *ThreadPool:* 2 workers, 1 pool, 2 jobs, plain or for index 2 or both, calls from the master, fair | `NoSleeperLeft`, by the one who fills and by the leader of a lock; `WakesInside`; implements `WriteOnce`; `EverybodyReturns`. `CallsReturn`: a thread that is told to end does, unless the first job refuses it and it sleeps (`Deaf`); creation and ending come back, unless for such a thread or for a job whose thread is gone (`Orphaned`) |
| `jobqueue` | 2 workers, 2 callers, 2 jobs of any kind, 1 upset (kick, deletion or suspension) | `BlocksLive`, `TasksOnce`, `CountsExact`, `NoLostWake`, `NobodyStuck` |
| `repatriation` | the user's thread with 3 blocks, 2 workers of which one has a block, limits of 2, 1 block given out again | `OnePlace`: a block is in use or in exactly one chain, which is its owner's once it is home; `SizeExact`: the size in the head of a queue, unless ABA happened; `Asked`: an owner whose queue is over the limit knows |
| `locale_life` | the user and 1 task, 2 locales of which one is in the path of the other, calls nested once | `CountExact`: the execution counts; `AliveWhileRunning`; `DeletedGoes`; `UseExact`: the usecounts, and that a locale is freed exactly when nobody has it |
| `locale_global` | the same | the second finding of section 7 |

Each module has a type invariant `TypeOK`; it is a conjunct of the first invariant of
its run or, in a run of several instances, of each instance.

Definitions with an underscore in their name (`Fill_NoWake`) are slips: plausible
bugs that no action uses. Put in place of the definition they are named after, each
makes one of the properties fail, which shows that the property notices.

**Why the bounds are enough.** The smallest instance in which each interesting
case happens was chosen, and raised as far as minutes allow.

- *Mutex:* two tasks are enough for every race of a fast path, an unlock and a
  kick; the third task in the run `locks` is a sleeper that the first wake
  did not choose. Two system locks let the second one meet what the first left
  behind (`futexwt` cleared); depth 2 is the first at which an inner unlock
  must not free.
- *RWLock:* four threads: a reader in, a writer that drains, a reader that
  rescinds and a second writer. The theorems cover every other number.
- *SystemLock:* three threads are a leader, a follower with another
  priority, and one that is created, starts or stops meanwhile. States
  recur, so any number of locks and rounds is covered.
- *Tables:* each starts so small that it must grow once with another thread
  in between, and a third thread overtakes the second. The hash functions of the
  locales put all numbers in one slot, neighbours in a run upwards or downwards, or
  two slots apart, each from either end and the middle; the theorem covers every
  function. Behaviours are not followed beyond an `emptied` state (`Bounded`): a freed table is
  in use there.
- *Repatriation:* with limits of 2, three blocks of one owner make a chain
  that is sent when it is long enough, one left over for the end of a task, and a total
  over the limit. A second owner makes a thread change the owner it collects for. One
  block given out again is what ABA needs.
- *LocaleLife:* one locale runs, or is called, in either thread while the other
  deletes it; the second holds it in its path. A call nested once, with a cocurrent before and
  in it, has every kind of count. Behaviours are not followed beyond a `toast` or
  `raced` state (`Bounded`): what happens then is in section 8. The state that is reached so is
  still checked.
- *ThreadPool:* three slots in two pools let a slot change its pool while the
  highest is still in use; a waiting job makes a pool busy, a second one behind it makes a worker ask for a kick. One call at a
  time (`MaxCalls`) loses nothing: a pending call holds nothing and changes nothing until the
  section in which it returns, and that section looks at everything again. Under
  fairness two slots of one pool are enough: one that is to end while the other is
  used again, and a last thread that must see the jobs taken. The index 2 there is that of a thread that may be told to end, and the
  job for both indices is begun by one and waits for the other. One thread that leaves a slot
  (`MaxLeaving`) is what it takes to meet the next one; the next thread of the slot ends
  when that one has returned. Behaviours of the first run are not followed beyond a state in which more than two
  threads leave or jobs wait, in all (`Bounded`): a leaving thread touches no queue, and each pool has its own.
- *JobQueue:* two jobs suffice for a job behind the head (kick, block left in
  the queue); two tasks of a job for one that is the caller's and one that is
  not; the masks name worker 2 with and without worker 1 or the caller.

**Deadlock** is checked where some step is always possible. It is not checked
for `returns` and `jobqueue`, whose behaviours end when everybody has returned (that they
end only so is `EverybodyReturns` and `NobodyStuck`), nor for `tables`, where
no call begins when the scripts are all loaded or a table has its bound of entries
(`MaxEntries`).

## 4. Fairness

A thread that can take its next step inside an operation takes it in the end:
weak fairness for each thread, which is what a preemptive scheduler gives. No
thread has to begin an operation, no lock has to be asked for, no time has to
run out, no interrupt has to come. Two places need more:

- `Mutex`: strong fairness of `Release`. A task that has the mutex gives
  it back although, in between, it may call the mutex again and again (in vain,
  if the mutex is not recursive): without it a holder could do nothing else.
- `Pyx`: strong fairness of `Settle`, the reader's wait for a
  `wakeall` that is at this very thread. The flag that it waits for is down
  again and again, but not always.
- Holders of the read/write lock unlock (weak fairness of `Unlock`), and
  tasks run to their end in `ThreadPool`: without that no waiter could be
  promised anything. There the fairness of a slot is that of its threads: who sleeps is
  not asked to go on; who leaves is a thread of its own and returns (weak fairness of `Leave`).

`JobQueue` needs no fairness: apart from the bounded upsets it has no cycles, so
"nobody waits for ever" is the invariant `NobodyStuck` over the states in which
no thread can go on.

## 5. What is proved

The theorems of the eight modules whose names end in `Proofs` hold for every value of the
constants that the named assumptions of the modules allow. The assumptions say what a constant is
(a number, a finite set, a value outside a set) and two limits the code itself sets: fewer than 256 threads
(`RWLock`, a byte of the word), and fewer threads in a pool than an unsigned short counts (`ThreadPool`).

**Mutex** (any set of tasks, recursive or not, any operations, depth, number of
system locks and interrupts; from `MutexAssumption`):

- `Inductive`: `Spec => []IndInv`;
- `TypeCorrect`, `Exclusion` and `OwnerAccurate`: `TypeOK`, `MutualExclusion` and
  `OwnerExact` always hold;
- `WordOutlivesWake`: `NoStaleWake` does;
- `WakesAreKicked`: if no task gives a timeout, `NoLostWake` holds except while a `wakeall` is
  between its change of the word and its wake; `WakesAreNotLost`: without system locks always.

Exclusion is not inductive. A task comes to have the mutex by an exchange that
finds the state half FREE, so one needs that this half is not FREE while somebody
has it; but `wakeall` adds to that half, and the sum may be anything in 16 bits.
What `wakeall` never changes is the low byte: `WordHeld` says that the *byte* is
not FREE while somebody has the mutex, and a free half has a free byte. That the
task in the waiting loop has nothing itself (`NothingGranted`) rests on `owner`
being exact when it is read outside the lock, and that in turn on exclusion:
hence the invariant carries all of them, with `GrantedOnce` for mutexes that are
not recursive. `NoStaleWake` is about the handshake with `wakeall` alone: `KickInv`
says where a task can be while `futexwt` is set, and that a `wakeall` which has
fetched it has first set the mark that the task waits for.

That no wake-up is lost rests on what a sleeper has sampled (`WakeInv`). Lock and unlock leave the
state half FREE, LOCK or WAIT, and who samples one of those sleeps on WAIT. `wakeall` leaves something
else there, but only under a system lock, which a task in the loop accepts before it sleeps. So while
somebody sleeps the word is WAIT until its holder exchanges it and goes on to wake a sleeper; the
woken task exchanges the word in its turn. Timed locks have to be excluded: a task whose time has run out
uses up the wake that was meant for another (section 8), and the property is false for them.

**RWLock** (any finite set of fewer than 256 threads; from `ThreadsAssumption`):

- `Exclusion`: a writer is alone (`WriterAlone`);
- `CountsNeverCarry`: `WordExact`;
- `Refinement`: `Spec` implements `Abstract!RWSpec`, steps map to steps or stutter.

The invariant is what the run checks, taken together: a reader goes on because
no write is requested, hence, by `RequestOwned`, nobody owns a request; a writer
begins because no read is counted, hence nobody reads. The counts stay exact because
each is the cardinality of a set of threads, fewer than 256, so that adding one
cannot carry; lemmas about the word (`AddRead`, `SubtractRead`, `AddWrite`,
`ClearWrites`) say what each instruction does to the two counts.

**SystemLock** (any number of threads, any number of them at the start, any finite set of
priorities; from `SystemLockAssumption`):

- `Inductive`: `Spec => []IndInv`;
- `Barrier`: `BarrierExact`; `Frozen`: `RunningFrozen`;
- `Refinement`: `Spec` implements `StopTheWorld` (`StopsTheWorld`).

`BarrierExact` is far from inductive: that the count of a round is the number of threads
still to come depends on which threads run, hence on the marks of an earlier state, hence on
who may still create a thread. `IndInv` therefore says, in eight parts, what a thread can rely on
in the others. Part 1 of `SystemLockProofs` has what is
about control: where a thread can be in each state of the
lock (`Place`), that one thread leads and one executes (`OneDriver`), and that when the one that leads has
seen the count at 0 every other thread is out or has arrived (`Passed`) - there the count must be
exact, or a thread would be left behind in the state before. Part 2 is
about the tables: between the marking of the threads and the unmarking all that exist are marked and nobody
fills a slot (`Marks`), so the number of running threads stays what the leader counted, and the
counts it hands over in state 4 are still true when the executor picks them up (`Counts`); each
is the cardinality of a set, from which a thread is removed when it checks in.
Part 3 is about the byte that is both requests and error code (`Bytes`),
and about who has asked for what (`Requests`): all that saw the requests saw the same, and of those that asked
for what won only one found its bit not yet set, so that one thread executes. It derives the theorems.
In Part 4, the refinement, most steps change nothing that `StopTheWorld` sees; the function's end serves
at one stroke all who asked for what won, and the steps by which they leave show it nothing more.

**Pyx** (any number of readers, any setters, values, errors, number of locks; from
`PyxAssumption`):

- `NobodyOversleeps`: `NoSleeperLeft`; `PyxOutlivesWake`: `WakesInside`;
- `Refinement`: `Spec` implements `WriteOnce` (`WritesOnce`).

The invariant has a part for each thing that two threads could disagree on: the exchange of
`pyxorigthread` has one winner, who alone writes (`OneWriter`); what is stored is
whole when the state says it is full (`Stored`); a reader that has read the state knows what it
will find (`Reading`); who sleeps is found through the state or through `futexwt`
(`Findable`), and who is being woken is held (`Held`). A refinement step is then a read of one of the
four words, all of which belong to the one outcome.

**Tables** (`ScriptList`: any threads and names, any first length; from `ScriptAssumption`,
`LocalesAssumption`, `CallsAssumption` and `MemoAssumption`, which say that the first sizes are positive, those of
the hash tables at least 3, and hashes in range):

- `ScriptsInductive`, `NumbersName`: `NumberNamesScript`; `ScriptsAlone`: what `Tables` does with the list
  is what `ScriptList` does;
- `CallsInductive`, `TextsInPlace`: `TextInPlace`; `HashIsComplete`: `HashComplete`;
- `MemoInductive`, `ResultsAreFound`: `StoredIsFound`; `AnswersStay`: `OneAnswer`;
- `LocalesInductive`, `LocalesAreFound`: `FoundIffLive`.

*Scripts.* The point is the section that stores after an extension, at an index computed before. While
the length that a waiting thread has seen is still current the list is full up to it, so
that its copy loses nothing; and a thread that finds another length has been overtaken, which is
the exception that the property makes.

*External calls.* A thread that waits for a longer `cdarg` has put its string in already: `CallsText` says that
what it remembers is the place of its own string, which no entry and no other thread has. That a string is there at most
as often as there are threads is shown by counting, for each string, the entries together with the
threads that did not find it (`CallsOnce`): a thread becomes an entry, so the sum never grows by that, and a new
thread joins only when there is no entry. The libraries are counted in the same way.

*Hash tables.* A table is a ring that is searched backwards. `Behind` names the place so many steps behind another;
the first wanted place that a search comes to is described by its distance (`Reach`). *Memo tables:*
`Chained` says that each argument is in one place and that a search for it sees before that
place only arguments that were put in earlier. So the first that is equal is the one that was stored first, which is what
a rehash in the order of the indices preserves, and the answer with it. *Locales:* order says nothing there, as
`jterasenl` moves items. `Keeps` and `Probed` say that each living number is in one place and that no hole
is on the way to it. The closing of a hole is about distances from an empty place, at which every chain
ends: `Aligned` says the same as `Probed` in these, with one place, the hole, excepted. An item is moved over the hole when
its slot is not between the hole and itself, and the code's test `Stays`, with its two cases for a chain that wraps,
is shown to be that comparison (`StaysIs`). When the search comes to the next empty place nothing needs the
exception any more. The loop is a function of the number of steps (`Closed`), followed by a smallest counterexample.

What is left of `LocalesInv` is who waits: the table in use is the longest, so a thread that finds the
length it knew finds the table it knew, which has not been replaced; a thread that finds another length finds it
with its items, unless all were erased. That is the finding `locales_emptied`: the history variable
`emptied` names it, and `LocalesInv` holds until then. It was met in this proof, which fails without
the exception.

**JobQueue** (any number of workers, any callers, any number of calls, any set of sizes and of
masks, any number of kicks and deletions; from `CountsAssumption`, `CallersAssumption` and
`MasksAssumption`):

- `Inductive`: `Spec => []IndInv`;
- `NoBlockFreedInUse`: `BlocksLive`; `EachTaskOnce`: `TasksOnce`; `CountsAreExact`: `CountsExact`;
- `WakesAreNotLost`: `NoLostWake`; `NobodyWaitsForEver`: `NobodyStuck`.

None of the five is inductive: that a block is alive depends on who may still come to it, that a
task has run once on who has taken it, and so on. `IndInv` has

- where a thread can be, given its job (`WorkerAt`, `CallerAt`), and that nobody else is at the same
  piece (`Alone`);
- for each kind of block what its fields mean (`JobsOK`). The usecount of a user job is 1 until its worker is
  done. That of a locales job is the number of shares not yet run, which are those whose bit is not set and those a
  worker has. An internal job has two users, its caller and whoever finds the block in the queue with nothing left
  to start: the second one is the queue, then the worker that drops it. `nf` is the number of tasks that
  are neither still to be taken nor held by a thread; a task that was taken and is past its start has
  been run, unless an earlier one had failed;
- the order of the queue and of the blocks (`QueueOK`, `InOrder`), an error seen is one of the job (`Errs`);
- `Counts`: `nuunfin` and `waiters`, and that a worker about to uncount a job has ended one, so that the
  count stays above 0;
- `Pool`: the workers that stay are the first `nthreads`, so that a queued job has somebody to take it;
- `Woken`: why a worker may sleep: the queue is empty; or a wake of all is on its way; or the head has
  refused it, and whoever takes its last share will kick; or the queue holds user jobs only, behind
  a head that refuses it at most, and either a worker that stays looks at the queue or there are no more user jobs than wakes on
  their way and threads, told to end, that look once more before they do. The last case is what deletion needs:
  the wake of a user job may go to a worker that is about to end, which takes the job all the same.

A step moves one thread and may wake sleepers (`Frame`). For each step the proof shows that jobs and
threads elsewhere keep their part (`OtherJobs`, `OthersKeep`, `AloneKept`), then what the step does at its own
job; the counts change by one because one thread or one job joins or leaves a set (`Moved`, `Sized`).

**ThreadPool** (any number of slots, pools and calls, any limits, callers inside or outside the pools;
from `ThreadPoolAssumption`):

- `Inductive`: `Spec => []Inv`;
- `SlotsAreOwned`: the action property `SlotIsOwned`, whatever the operating system refuses;
- `CountsAreTrue`: `CountIsTrue`; `JobsHaveThreads`: `JobsAreServed`.

`SlotsInv` says how ACTIVE, TERMINATE, the high-water mark and a thread in its loop combine in a slot:
a thread in its loop, running, looking or asleep, has its slot ACTIVE, and TERMINATE is set only with ACTIVE, so that no
creation takes the slot before the thread itself has cleared both. Nothing is claimed of the threads that have done so and are
still to leave (`leaving`): one of them can meet the next thread of its slot, which section 8 describes. `QueuesInv` types the
queues and says that only an idle thread sleeps and only a busy one owes a kick. `PoolsInv` holds until
the first refusal: a slot is ACTIVE only with a thread, and the count of a pool is the number of its
lasting ones. A step moves at most one slot into or out of that set. The indices are the ranks of the
slots (`IndicesFill`) because a slot above all others of the pool gets the count as its index, and the
one that is ended is the highest.

**Repatriation** (any workers, any finite set of blocks, any owners and starters, any limits, any number of
reuses; from `RepatriationAssumption`):

- `Inductive`: `Spec => []IndInv`;
- `OnePlaceHolds`: `OnePlace`; `SizeExactHolds`: `SizeExact`; `AskedHolds`: `Asked`.

The properties follow chains of any length, which the provers cannot. `IndInv` therefore gives each
free block a place (`at`: the pool, the repato, the chain being sent, the queue, the next block or the chain being
walked along, of one thread) and a number (`left`: how many blocks of the chain come after it), and says of the
word in the block only that it names the block of this place with the number less one (`Chained`). No block is then
in two chains, none is in a circle, and a chain has as many blocks as its first one counts (`ChainCounted`);
`SegmentIsHeld` shows that this is what following the words finds. Each thing that the code does to a chain is a
lemma: a block is put before it, put behind it or taken from its head, a chain moves to another place
or is put before another one (`PushFront`, `PushBack`, `PopFront`, `MoveChain`, `JoinChains`).

The rest of `IndInv` is what the threads know. A sender has written the expected head behind its last block
(`LinkTrue`), so the exchange joins two chains whatever became of the queue between its load and
the exchange: an equal head is enough, which is why ABA does no harm to `OnePlace`. The size does need more: a sender
that no other has disturbed since it loaded the head has added the true size of the queue (`LookTrue`,
`TotalTrue`), and one that was disturbed fails, unless it finds the same head (`aba`). `AskedTrue` rests on the size: a
total over the limit is what makes a sender go on to the signal. Between the taking of the queue and the
clearing a signal still stands, so there `erased`, which tells of the round before, is no excuse. A step is shown to
leave alone the places of other threads and the blocks of the queues (`Frame`, `OthersKept`, `QueueKept`),
then what it does at its own.

**Only model-checked:** the invariants of `LocaleLife`; `NoLostWake` of the run `locks`, which has
interrupts, fairness and no system lock, and is there as an instance of the definition that `WakesAreNotLost` is about;
and liveness (`SomebodyGetsIn`, `SomebodyGetsIt`, `LockEnds`, `TopIsServed`, `EverybodyReturns`, `CallsReturn`).
Liveness under fairness and ENABLED are beyond the prover. No module has a RECURSIVE operator: loops
over data are recursive functions, and what such a loop keeps is shown at each number of steps.
Where a proof needs an induction over finite sets (a finite set of numbers has a
largest member: `Largest`) it takes a smallest counterexample, which the library's theorem on
well-founded orderings gives without an operator as parameter.

## 6. Hazards

`PROJECT.json` lists forty places where this code can go wrong in a way that
a test would hardly reach, each with the properties that would show it. Four have
none: in three of them the code does go wrong (the timed-out wake, the pointer stored
once, the missing locale), and one is named by the code itself (deletion of a worker in a
mask). Another is covered in part: a slot given away is what `SlotIsOwned` excludes for threads in their loop,
and what does happen to one that is leaving. Section 8 describes them.

## 7. Findings

`ct.c:105`: `wakeall` wakes a thread by adding 0x100 to the word it sleeps on.
For a mutex that is the state half: `mt.c:148` says "The upper 16 bits are a wait
counter; the state is the low 16 bits", but lock and unlock exchange 16 bits.
If the word is FREE at that moment it becomes 0x100. The next exchange does not
find FREE, stores WAIT and sleeps, though nobody has the mutex, and nobody will
wake it. The run `mutex_kicked_free` finds this: `NoPhantomHolder` fails with two
tasks and one system lock. (Exclusion is not in danger: section 5.)

`sl.c:738-740`: who destroys a locale that it is in goes to the locale `z`: "We change to z
so that (1) we can be assured jt->global is always valid". That is done for the thread
that destroys. Between two sentences nothing counts as an execution (`io.c:459`), so
a task can delete the locale that the user is in at that moment; it is freed, and
the `jt->global` of the user's thread, from which the next sentence starts, still points to it.
The run `locale_global` finds this: `GlobalIsValid` fails.

`sl.c:105-107`: a thread that installs a locale and had to wait for a larger table tells by the
new table's count being 0 that it extended the table itself: "if AM(nbuf) is 0, we were the ones who extended the
buffer. ... In this case we know that obuf has not been altered". The count is also 0 when another thread has extended the
table, moved the items and freed the old table, and all numbered locales were erased before this thread had its lock again.
It then moves the items of the freed table once more and frees it a second time. The run
`locales_emptied` finds this: `OwnsOldTable` fails.

## 8. Where the code and its comments, or two places in the code, disagree

These were met while modelling. The models do what the code does; the properties
are stated so that they hold, with the exception named here.

- **Timed-out wake** (`mt.c:213` against `mt.c:182`). An unlock wakes one sleeper;
  if that one's time has run out it returns EVTIME without looking at the word, so
  the wake is used up and another sleeper stays asleep while the mutex is FREE, until
  the next lock and unlock. The run `locks` has no timed locks.
- **Erased bump** (`ct.c:105` against `ct.c:99`). A waiter's exchange can erase what
  `wakeall` added before the sleeper has compared it.
- **`futexwt` stored once** (`mt.c:168`). It is stored before the loop and cleared
  by every `wakeall`; a task that goes on waiting afterwards cannot be found by the
  next system lock.
- **Locales erased during an extension** (`sl.c:105-107`). Section 7; `FoundIffLive`
  holds until that happens. When the thread extended the table itself nothing is lost: the
  number of locales that decides on the extension is not looked at again, so the new table may be larger than necessary.
- **Script name lost** (`xs.c:118` against `xs.c:166`). A thread overtaken while it
  extended the list stores its name over one that another thread added at that place.
  `NumberNamesScript` holds until that happens.
- **External calls** (`x15.c:842` against 759 and 843-845; 808 and 955; 761 and 873).
  After an extension `cdhash` is not always filled again; a string can be in the
  tables twice; more libraries than the limit can be loaded, by as many as there are
  threads. `HashComplete` and `TextInPlace` have these exceptions.
- **Memo table left empty** (`a.c:114-118`). A thread that has extended the hash table and
  must wait again for another block leaves it empty meanwhile; results are computed again and
  stored twice. `StoredIsFound` excepts it.
- **Thread indices** (`ct.c:1098`). With several pools, and threads ended and created
  in turn, the indices in a pool are not always in the order of the slots: two threads can have
  the same one. That part of `CountIsTrue` holds while slots are taken in ascending order.
- **Refused creation** (`ct.c:1096` against 1100-1103 and 1200). The slot is marked ACTIVE before the operating
  system is asked, and stays so when it refuses; the count of the pool is raised only on success. A slot
  below the high-water mark is then counted by `1 T.` (1003) and found by `55 T.`, which lowers the count of the pool for a
  thread that it never had: the count can wrap. `CountIsTrue` and `JobsAreServed` are about the time before.
- **Leaving thread** (`ct.c:576-579` against `m.c:1454`). A worker clears ACTIVE and TERMINATE, unlocks, and only then
  sends the blocks in its `repato` home and returns. From the unlock on the slot is free: a `0 T.`
  (1079-1100) can start a new thread on the same JTT, which may run a task and free foreign blocks, with the old one
  in `jtrepatsend`. `m.c` says of `jtrepatsend` that it "is called only from the owning thread. This thread
  owns repato", and uses `repato` without a lock: if both send it, the chain is hung on the owner's queue twice; if
  the new thread adds a block between the old one's read and the clearing (`m.c:1457`, 1462), the block may be put
  behind a chain that is no longer its own. `ThreadPool` has the overlap (`leaving`), and
  `SlotIsOwned` is about the threads in the loop only; `Repatriation` assumes one thread for each JTT.
- **Waiting for oneself** (`ct.c:1087` against 1205; 1230 against 1207). A task that
  creates a thread may be given its own slot, which is about to end, and waits
  for it; a task in the only thread of a pool that ends that thread waits while jobs keep
  coming. The endings are checked with calls from the master only (`CallsReturn`).
- **`4 T.`** (`ct.c:262` against 879-880). For a moment it says that a task is
  finished normally when it is failing.
- **`6 T.` and `7 T.`** (`ct.c:263` against 548 and 259) can fill the pyx of a task
  that is running; what the task brings is then dropped.
- **Missing locale** (`ct.c:531` against 545). A task whose locale is missing ends
  before it has begun, and its pyx is never filled. `EverybodyReturns` excepts its readers.
- **Told to end while waiting for a kick** (`ct.c:463-469` against 461 and 488). A worker sleeps at
  `waitforkick` because the head of the queue has no share for it. `55 T.` tells it to end and wakes it, but the
  head refuses it again before it looks at TERMINATE, and it goes back to sleep. When the head leaves with nothing
  behind it nobody wakes it: it stays ACTIVE and TERMINATE until the next job or `15 T.`, though `ct.c:461` says that it
  terminates "when the queue goes empty"; a `0 T.` that is given its slot (1087-1090) waits as long. `ThreadPool` models this;
  `CallsReturn` excepts the thread (`Deaf`) and the creation that waits for it (`InVain`).
- **Signal erased** (`m.c:1475-1476`). The owner takes its queue, then clears the
  signal; a signal that came in between is lost, and the owner is not asked again until more
  blocks come. `Asked` excepts it (`erased`); the code accepts it (`m.c:1451`).
- **ABA** (`m.c:1466`). The code says that the size is wrong then; the chain is right all
  the same, which is `OnePlace`.
- **Foreign blocks after the end of a task** (`ct.c:567` against 564). `m.c:1452` says that sending
  at the end of a task is vital; the stack of temporaries is popped after it, so that
  a worker can wait with foreign blocks in `repato`.
- **The wrong one is told** (`ct.c:565`). At the end of a task the thread that started it is
  asked to receive, whether or not the blocks were its own.
- **Bytes in use** (`m.c:467`, 474; `m.c:1485`). `jtspbytesinuse` subtracts `AC` of the blocks
  in a queue, though their size is in `AN`; and `jtrepatrecv` subtracts bytes that `mf` subtracts
  as well. These are statistics, which are not modelled.
- **Toast** (`sc.c:249`). A name that was looked up before its locale was destroyed is
  executed in it afterwards; the comment says so. The properties of `LocaleLife` except such
  locales.
- **Revived twice** (`sl.c:341`). Two threads that find the same zombie both raise its
  usecount; one is never taken back. And a zombie that is revived while another thread
  is about to destroy it for the second time is destroyed although it is permanent (`raced`).
- **Path of a dead locale** (`sl.c:505`; 541-547). `18!:2` can store a path into a locale that was
  destroyed meanwhile, and a refused `18!:3` leaves `LOCPATH` 0. Neither operation is modelled.
- **Deleted worker in a mask** (`ct.c:625`). The code says so itself: the queue never
  moves again. `NobodyStuck` excepts it (`Orphaned`). Nor does a `55 T.` of the last thread of that pool come back, which
  waits for an empty queue (1230): `CallsReturn` excepts it (`Orphaned`, `InVain`).

## 9. What is not modelled

- *Memory manager* (`m.c`): the pools of a thread (splitting, coalescing, the
  stack of temporaries, statistics) are sequential; of blocks freed by others, one size is modelled.
- *Locales* (`sl.c`): setting a path (`18!:2`), creation (`18!:3`) and forced deletion are not yet modelled.
- *Symbol tables and assignment* (`s.c`, `sc.c`): planned.
- *Sleep* (`mt.c`), *file locks* (`xl.c`), the lock bit of the job queue: planned.
- *Parser, explicit definitions, primitives, numerics*: sequential programs over data
  that no finite model reaches.
- *Script loading, debug dialogue, front ends*: input and output, one sentence at a time.
- Inside the modelled parts: error messages and display, the clock (a timeout may run out
  at any moment), affinity and stack sizes of threads, memory exhaustion except where a
  table grows, the `keepwarm` time, several pools in one `JobQueue`. In `Pyx`, a reader that gives up with
  EVDEADLOCK because the debugger has suspended the system (`ct.c:229`), or with EVFACE because the wait itself
  fails (238). In `CdTable`, calls with the library `'0'` or `'1'`, which look nothing up and load nothing
  (`x15.c:860-869`); and a look up without the lock is one step, though it reads several blocks. In `LocaleLife`,
  `cocurrent` called through a locative. In `ThreadPool`, the jobs of `jtjobrun` and jobs whose mask
  names the caller, which are in `JobQueue`. In `Repatriation`, a second thread on one JTT (section 8).

## 10. Plan

Model, most important first:

1. `SymbolTable`: assignment and look-up of a name under the lock of its locale (`s.c`, `sc.c`), with the
   usecount of a value that one thread reads while another replaces it. Abstract: a
   name has its old value or its new one.
2. `LocaleLife`: setting a path (`18!:2`) and creation (`18!:3`), with the table of names.
3. `JobLock`: the lock bit in the address of the queue's head (`ct.c:399-412`), so that the sections
   of `JobQueue` rest on a checked module as the others do; implements a plain lock.
4. `FileLocks` (`xl.c`): ranges of files locked under `flock`.
5. `Sleep`: `jtjsleep`, and the composition of the three wait loops with `wakeall` and `SystemLock`.

Prove: `LocaleLife`: `CountExact`, `AliveWhileRunning`, `DeletedGoes`, `UseExact`.
