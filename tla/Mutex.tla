------------------------------- MODULE Mutex -------------------------------
(***************************************************************************)
(* The mutex of x T. y: jtpthread_mutex_lock, _timedlock, _trylock and     *)
(* _unlock of jsrc/mt.c, down to each access to shared memory and to the   *)
(* futex that waiters sleep on, together with the part of the system lock  *)
(* of jsrc/ct.c that reaches into it: wakeall, which kicks the sleepers,   *)
(* and the acceptance of the lock by threads that are using the mutex.     *)
(*                                                                         *)
(* m->v is the UI4 word of the mutex.  lock and unlock exchange its low 16 *)
(* bits (US), the futex compares all 32, and wakeall adds 0x100 to it.     *)
(***************************************************************************)
EXTENDS Integers, FiniteSets

CONSTANTS
    Threads,    \* the running tasks that use the mutex
    NoThread,   \* m->owner when it is 0
    Recursive,  \* m->recursive
    Ops,        \* the operations tasks may call: a subset of OpNames
    MaxDepth,   \* bound: how deep a task nests locks of a recursive mutex
    SysLocks,   \* bound: how many system locks are requested
    Breaks      \* bound: how many times the user interrupts (JBREAK)

OpNames == {"lock", "timedlock", "trylock"}

ASSUME MutexAssumption ==
    /\ NoThread \notin Threads
    /\ Recursive \in BOOLEAN
    /\ Ops \subseteq OpNames
    /\ MaxDepth \in Nat \ {0}
    /\ SysLocks \in Nat
    /\ Breaks \in Nat

\* The values of the state half of m->v.
FREE == 0
LOCK == 1
WAIT == 3

\* What wakeall adds to the word a thread sleeps on.
WAKEBUMP == 256

VARIABLES
    v,          \* m->v
    owner,      \* m->owner
    ct,         \* m->ct
    pc,         \* where each task is
    op,         \* the operation each task is in, "none" outside
    waitval,    \* the local waitval of each task, 0 when out of scope
    depth,      \* locks each task was granted and has not given back
    futexwt,    \* TRUE: jt->futexwt points to m->v
    futexwake,  \* TASKSTATEFUTEXWAKE of jt->taskstate
    asleep,     \* the tasks sleeping in the kernel on m->v
    resume,     \* where a task goes on after it has accepted a system lock
    adbreak,    \* the user has interrupted: adbreak[0] is not 0
    breaks,     \* interrupts so far
    syslock,    \* TRUE: systemlock is 1 or 2, tasks must accept
    syslocks,   \* system locks requested so far
    kpc,        \* where the leader of the system lock is in wakeall
    ktask,      \* the task whose turn it is in wakeall
    todo        \* the tasks this pass of wakeall has yet to visit

mutexVars == <<v, owner, ct, depth>>
taskVars  == <<pc, op, waitval, resume>>
futexVars == <<futexwt, futexwake, asleep>>
breakVars == <<adbreak, breaks>>
sysVars   == <<syslock, syslocks, kpc, ktask, todo>>
vars      == <<mutexVars, taskVars, futexVars, breakVars, sysVars>>

-----------------------------------------------------------------------------
\* The word

StateHalf(x)        == x % 65536
SetStateHalf(x, s)  == (x - (x % 65536)) + s     \* a store through (US *)&m->v
OrWAIT(x)           == (x - (x % 4)) + WAIT      \* x|WAIT

-----------------------------------------------------------------------------
Init ==
    /\ v = FREE
    /\ owner = NoThread
    /\ ct = 0
    /\ pc = [t \in Threads |-> "user"]
    /\ op = [t \in Threads |-> "none"]
    /\ waitval = [t \in Threads |-> 0]
    /\ depth = [t \in Threads |-> 0]
    /\ futexwt = [t \in Threads |-> FALSE]
    /\ futexwake = [t \in Threads |-> FALSE]
    /\ asleep = {}
    /\ resume = [t \in Threads |-> "user"]
    /\ adbreak = FALSE
    /\ breaks = 0
    /\ syslock = FALSE
    /\ syslocks = 0
    /\ kpc = "idle"
    /\ ktask = NoThread
    /\ todo = {}

Goto(t, from, to) ==
    /\ pc[t] = from
    /\ pc' = [pc EXCEPT ![t] = to]

\* Where the waiting loop goes on after anything but a wake by the kernel's
\* timeout: lock tries again, timedlock looks at the clock first.
Again(t) == IF op[t] = "timedlock" THEN "retime" ELSE "xchg"

-----------------------------------------------------------------------------
\* Slips: what an action would be if the code had a plausible bug.  No action of
\* Next uses them; each shows that a property notices the bug.

\* The fast path takes a mutex that is LOCK.
TryFree_TakesLock(t) ==
    /\ pc[t] = "cas"
    /\ IF StateHalf(v) # WAIT
         THEN v' = SetStateHalf(v, LOCK) /\ pc' = [pc EXCEPT ![t] = "own"]
         ELSE v' = v /\ pc' = [pc EXCEPT ![t] = "held"]
    /\ UNCHANGED <<owner, ct, depth, op, waitval, resume,
                   futexVars, breakVars, sysVars>>

\* CLRFUTEXWT without its loop.
WaitOutWake_NoSpin(t) ==
    /\ \/ Goto(t, "spinOwn", "own") /\ op' = op
       \/ Goto(t, "spinFail", "user") /\ op' = [op EXCEPT ![t] = "none"]
    /\ UNCHANGED <<mutexVars, waitval, resume, futexVars, breakVars, sysVars>>

\* CLRFUTEXWT with its test the wrong way round.
WaitOutWake_Inverted(t) ==
    /\ \/ Goto(t, "spinOwn", "own") /\ op' = op
       \/ Goto(t, "spinFail", "user") /\ op' = [op EXCEPT ![t] = "none"]
    /\ futexwake[t]
    /\ UNCHANGED <<mutexVars, waitval, resume, futexVars, breakVars, sysVars>>

\* unlock by a task that is not the owner.
Release_NotOwner(t) ==
    /\ Goto(t, "user", "free")
    /\ depth' = [depth EXCEPT ![t] = @ - 1]
    /\ owner' = NoThread
    /\ UNCHANGED <<v, ct, op, waitval, resume, futexVars, breakVars, sysVars>>

\* unlock frees a recursive mutex at the first of its unlocks.
Release_FirstUnlock(t) ==
    /\ Goto(t, "user", "free")
    /\ owner = t
    /\ depth' = [depth EXCEPT ![t] = @ - 1]
    /\ ct' = IF Recursive THEN ct - 1 ELSE ct
    /\ owner' = NoThread
    /\ UNCHANGED <<v, op, waitval, resume, futexVars, breakVars, sysVars>>

\* unlock wakes a sleeper when the word was LOCK.
Free_WakesOnLock(t) ==
    /\ pc[t] = "free"
    /\ v' = SetStateHalf(v, FREE)
    /\ pc' = [pc EXCEPT ![t] = IF StateHalf(v) = LOCK THEN "wake1" ELSE "user"]
    /\ UNCHANGED <<owner, ct, depth, op, waitval, resume,
                   futexVars, breakVars, sysVars>>

-----------------------------------------------------------------------------
\* lock, timedlock, trylock

\* A task calls 11 T. with a mutex and possibly a timeout.
Call(t) ==
    /\ Goto(t, "user", "cas")
    /\ Recursive => depth[t] < MaxDepth
    /\ \E o \in Ops : op' = [op EXCEPT ![t] = o]
    /\ UNCHANGED <<mutexVars, waitval, resume, futexVars, breakVars, sysVars>>

\* The fast path: install LOCK in place of FREE.
TryFree(t) ==
    /\ pc[t] = "cas"
    /\ IF StateHalf(v) = FREE
         THEN /\ v' = SetStateHalf(v, LOCK)
              /\ pc' = [pc EXCEPT ![t] = "own"]
         ELSE /\ v' = v
              /\ pc' = [pc EXCEPT ![t] = "held"]
    /\ UNCHANGED <<owner, ct, depth, op, waitval, resume,
                   futexVars, breakVars, sysVars>>

\* The mutex was in use.  Mine: count it if the mutex is recursive, otherwise
\* fail with EVCONCURRENCY.
FoundMine(t) ==
    /\ Goto(t, "held", "user")
    /\ owner = t
    /\ ct' = IF Recursive THEN ct + 1 ELSE ct
    /\ depth' = IF Recursive THEN [depth EXCEPT ![t] = @ + 1] ELSE depth
    /\ op' = [op EXCEPT ![t] = "none"]
    /\ UNCHANGED <<v, owner, waitval, resume, futexVars, breakVars, sysVars>>

\* Somebody else's: trylock returns busy.
FoundBusy(t) ==
    /\ Goto(t, "held", "user")
    /\ owner # t
    /\ op[t] = "trylock"
    /\ op' = [op EXCEPT ![t] = "none"]
    /\ UNCHANGED <<mutexVars, waitval, resume, futexVars, breakVars, sysVars>>

\* Somebody else's: lock and timedlock tell wakeall where they will sleep.
Enroll(t) ==
    /\ Goto(t, "held", "xchg")
    /\ owner # t
    /\ op[t] # "trylock"
    /\ futexwt' = [futexwt EXCEPT ![t] = TRUE]
    /\ UNCHANGED <<mutexVars, op, waitval, resume, futexwake, asleep,
                   breakVars, sysVars>>

\* The head of the waiting loop: install WAIT.  Whoever replaces FREE owns it.
InstallWait(t) ==
    /\ pc[t] = "xchg"
    /\ v' = SetStateHalf(v, WAIT)
    /\ pc' = [pc EXCEPT ![t] = IF StateHalf(v) = FREE THEN "clearOwn" ELSE "load"]
    /\ UNCHANGED <<owner, ct, depth, op, waitval, resume,
                   futexVars, breakVars, sysVars>>

\* Sample the word before looking for system events.
LoadWord(t) ==
    /\ Goto(t, "load", "event")
    /\ waitval' = [waitval EXCEPT ![t] = v]
    /\ UNCHANGED <<mutexVars, op, resume, futexVars, breakVars, sysVars>>

\* A system lock is requested: accept it, then go on.
AcceptInLoop(t) ==
    /\ Goto(t, "event", "accepted")
    /\ syslock
    /\ resume' = [resume EXCEPT ![t] = Again(t)]
    /\ waitval' = [waitval EXCEPT ![t] = 0]
    /\ UNCHANGED <<mutexVars, op, futexVars, breakVars, sysVars>>

NoSystemLock(t) ==
    /\ Goto(t, "event", "break")
    /\ ~syslock
    /\ UNCHANGED <<mutexVars, op, waitval, resume, futexVars, breakVars, sysVars>>

\* JBREAK: give up.
CheckBreak(t) ==
    /\ \/ ~adbreak /\ Goto(t, "break", "wait") /\ waitval' = waitval
       \/ adbreak /\ Goto(t, "break", "clearFail") /\ waitval' = [waitval EXCEPT ![t] = 0]
    /\ UNCHANGED <<mutexVars, op, resume, futexVars, breakVars, sysVars>>

\* The futex call: sleep if the word is still waitval|WAIT.
FutexWait(t) ==
    /\ pc[t] = "wait"
    /\ IF v = OrWAIT(waitval[t])
         THEN /\ asleep' = asleep \cup {t}
              /\ pc' = [pc EXCEPT ![t] = "asleep"]
         ELSE /\ asleep' = asleep
              /\ pc' = [pc EXCEPT ![t] = Again(t)]
    /\ waitval' = [waitval EXCEPT ![t] = 0]
    /\ UNCHANGED <<mutexVars, op, resume, futexwt, futexwake,
                   breakVars, sysVars>>

\* The futex call fails: EVFACE.
FutexFails(t) ==
    /\ Goto(t, "wait", "clearFail")
    /\ waitval' = [waitval EXCEPT ![t] = 0]
    /\ UNCHANGED <<mutexVars, op, resume, futexVars, breakVars, sysVars>>

\* Awakened by wake1, by wakeall, or by a signal: the call returned 0.
Awake(t) ==
    /\ Goto(t, "asleep", Again(t))
    /\ t \notin asleep
    /\ UNCHANGED <<mutexVars, op, waitval, resume, futexVars, breakVars, sysVars>>

\* EINTR: the kernel ends the sleep of its own accord.
Interrupted(t) ==
    /\ pc[t] = "asleep"
    /\ t \in asleep
    /\ asleep' = asleep \ {t}
    /\ UNCHANGED <<mutexVars, taskVars, futexwt, futexwake, breakVars, sysVars>>

\* The kernel reports that the time given to timedlock is over.
TimedOut(t) ==
    /\ Goto(t, "asleep", "clearFail")
    /\ op[t] = "timedlock"
    /\ t \in asleep
    /\ asleep' = asleep \ {t}
    /\ UNCHANGED <<mutexVars, op, waitval, resume, futexwt, futexwake,
                   breakVars, sysVars>>

\* timedlock: recompute what is left of the time; it may be over.
Retime(t) ==
    /\ \/ Goto(t, "retime", "xchg")
       \/ Goto(t, "retime", "clearFail")
    /\ UNCHANGED <<mutexVars, op, waitval, resume, futexVars, breakVars, sysVars>>

\* CLRFUTEXWT: withdraw the pointer, then wait out a wakeall that has it.
Withdraw(t) ==
    /\ \/ Goto(t, "clearOwn", "spinOwn")
       \/ Goto(t, "clearFail", "spinFail")
    /\ futexwt' = [futexwt EXCEPT ![t] = FALSE]
    /\ UNCHANGED <<mutexVars, op, waitval, resume, futexwake, asleep,
                   breakVars, sysVars>>

WaitOutWake(t) ==
    /\ \/ Goto(t, "spinOwn", "own") /\ op' = op
       \/ Goto(t, "spinFail", "user") /\ op' = [op EXCEPT ![t] = "none"]
    /\ ~futexwake[t]
    /\ UNCHANGED <<mutexVars, waitval, resume, futexVars, breakVars, sysVars>>

\* The lock is ours: record it and return 0.
TakeOwnership(t) ==
    /\ Goto(t, "own", "user")
    /\ ct' = IF Recursive THEN ct + 1 ELSE ct
    /\ owner' = t
    /\ depth' = [depth EXCEPT ![t] = @ + 1]
    /\ op' = [op EXCEPT ![t] = "none"]
    /\ UNCHANGED <<v, waitval, resume, futexVars, breakVars, sysVars>>

-----------------------------------------------------------------------------
\* unlock.  A task that is not the owner gets EVCONCURRENCY and changes nothing.

Release(t) ==
    /\ pc[t] = "user"
    /\ owner = t
    /\ depth' = [depth EXCEPT ![t] = @ - 1]
    /\ ct' = IF Recursive THEN ct - 1 ELSE ct
    /\ IF Recursive /\ ct' # 0
         THEN UNCHANGED <<owner, pc>>
         ELSE /\ owner' = NoThread
              /\ pc' = [pc EXCEPT ![t] = "free"]
    /\ UNCHANGED <<v, op, waitval, resume, futexVars, breakVars, sysVars>>

\* Move to FREE; if the state was WAIT somebody may be sleeping.
Free(t) ==
    /\ pc[t] = "free"
    /\ v' = SetStateHalf(v, FREE)
    /\ pc' = [pc EXCEPT ![t] = IF StateHalf(v) = WAIT THEN "wake1" ELSE "user"]
    /\ UNCHANGED <<owner, ct, depth, op, waitval, resume,
                   futexVars, breakVars, sysVars>>

\* jfutex_wake1: wake one sleeper, if there is one.
Wake1(t) ==
    /\ Goto(t, "wake1", "user")
    /\ \/ /\ asleep = {}
          /\ asleep' = asleep
       \/ \E u \in asleep : asleep' = asleep \ {u}
    /\ UNCHANGED <<mutexVars, op, waitval, resume, futexwt, futexwake,
                   breakVars, sysVars>>

-----------------------------------------------------------------------------
\* The system lock, as far as it concerns the mutex

\* Between two sentences, a task notices the request and accepts it.
AcceptAtSentence(t) ==
    /\ Goto(t, "user", "accepted")
    /\ syslock
    /\ resume' = [resume EXCEPT ![t] = "user"]
    /\ UNCHANGED <<mutexVars, op, waitval, futexVars, breakVars, sysVars>>

\* A thread outside Threads becomes leader and stops the system.
RequestSystemLock ==
    /\ kpc = "idle"
    /\ syslocks < SysLocks
    /\ syslock' = TRUE
    /\ syslocks' = syslocks + 1
    /\ kpc' = "scan"
    /\ todo' = Threads
    /\ UNCHANGED <<mutexVars, taskVars, futexVars, breakVars, ktask>>

\* wakeall, turn of task t: announce the access to its futexwt ...
WakeAnnounce(t) ==
    /\ kpc = "scan"
    /\ t \in todo
    /\ todo' = todo \ {t}
    /\ kpc' = "fetch"
    /\ ktask' = t
    /\ futexwake' = [futexwake EXCEPT ![t] = TRUE]
    /\ UNCHANGED <<mutexVars, taskVars, futexwt, asleep, breakVars,
                   syslock, syslocks>>

\* ... fetch the pointer ...
WakeFetch ==
    /\ kpc = "fetch"
    /\ kpc' = IF futexwt[ktask] THEN "forget" ELSE "retract"
    /\ UNCHANGED <<mutexVars, taskVars, futexVars, breakVars,
                   syslock, syslocks, ktask, todo>>

\* ... if there is one clear it, so that the task is kicked once ...
WakeForget ==
    /\ kpc = "forget"
    /\ kpc' = "bump"
    /\ futexwt' = [futexwt EXCEPT ![ktask] = FALSE]
    /\ UNCHANGED <<mutexVars, taskVars, futexwake, asleep, breakVars,
                   syslock, syslocks, ktask, todo>>

\* ... advance the word, so that a task about to sleep will not ...
WakeBump ==
    /\ kpc = "bump"
    /\ kpc' = "kick"
    /\ v' = v + WAKEBUMP
    /\ UNCHANGED <<owner, ct, depth, taskVars, futexVars, breakVars,
                   syslock, syslocks, ktask, todo>>

\* ... wake everybody who sleeps on it ...
WakeKick ==
    /\ kpc = "kick"
    /\ kpc' = "retract"
    /\ asleep' = {}
    /\ UNCHANGED <<mutexVars, taskVars, futexwt, futexwake, breakVars,
                   syslock, syslocks, ktask, todo>>

\* ... and retract the announcement.
WakeRetract ==
    /\ kpc = "retract"
    /\ kpc' = "scan"
    /\ futexwake' = [futexwake EXCEPT ![ktask] = FALSE]
    /\ ktask' = NoThread
    /\ UNCHANGED <<mutexVars, taskVars, futexwt, asleep, breakVars,
                   syslock, syslocks, todo>>

\* The leader looks at the count between two passes: somebody is missing.
AnotherPass ==
    /\ kpc = "scan"
    /\ todo = {}
    /\ \E t \in Threads : pc[t] # "accepted"
    /\ todo' = Threads
    /\ UNCHANGED <<mutexVars, taskVars, futexVars, breakVars,
                   syslock, syslocks, kpc, ktask>>

\* Everybody has accepted: the locked function runs and the tasks go on.
FinishSystemLock ==
    /\ kpc = "scan"
    /\ todo = {}
    /\ \A t \in Threads : pc[t] = "accepted"
    /\ kpc' = "idle"
    /\ syslock' = FALSE
    /\ pc' = [t \in Threads |-> resume[t]]
    /\ resume' = [t \in Threads |-> "user"]
    /\ UNCHANGED <<mutexVars, op, waitval, futexVars, breakVars,
                   syslocks, ktask, todo>>

-----------------------------------------------------------------------------
\* JInterrupt, and the reset of the break byte by the next sentence

Interrupt ==
    /\ ~adbreak
    /\ breaks < Breaks
    /\ adbreak' = TRUE
    /\ breaks' = breaks + 1
    /\ UNCHANGED <<mutexVars, taskVars, futexVars, sysVars>>

ClearBreak ==
    /\ adbreak
    /\ adbreak' = FALSE
    /\ UNCHANGED <<mutexVars, taskVars, futexVars, sysVars, breaks>>

-----------------------------------------------------------------------------
\* What a task does once it has called lock, and the rest of an unlock.
InCall(t) ==
    \/ TryFree(t) \/ FoundMine(t) \/ FoundBusy(t) \/ Enroll(t)
    \/ InstallWait(t) \/ LoadWord(t) \/ AcceptInLoop(t) \/ NoSystemLock(t)
    \/ CheckBreak(t) \/ FutexWait(t) \/ Awake(t) \/ Retime(t)
    \/ Withdraw(t) \/ WaitOutWake(t) \/ TakeOwnership(t)
    \/ Free(t) \/ Wake1(t)

Kernel(t) == FutexFails(t) \/ Interrupted(t) \/ TimedOut(t)

TaskStep(t) ==
    \/ Call(t) \/ Release(t) \/ AcceptAtSentence(t)
    \/ InCall(t) \/ Kernel(t)

WakeAll ==
    \/ \E t \in Threads : WakeAnnounce(t)
    \/ WakeFetch \/ WakeForget \/ WakeBump \/ WakeKick \/ WakeRetract
    \/ AnotherPass

Next ==
    \/ \E t \in Threads : TaskStep(t)
    \/ RequestSystemLock \/ WakeAll \/ FinishSystemLock
    \/ Interrupt \/ ClearBreak

Spec == Init /\ [][Next]_vars

\* A thread that can run does run; a task that holds the mutex gives it back in the
\* end, though it may call lock, in vain, any number of times before that.
Fairness == \A t \in Threads : WF_vars(InCall(t)) /\ SF_vars(Release(t))

FairSpec == Spec /\ Fairness

-----------------------------------------------------------------------------
\* Properties

WaitLoop == {"xchg", "load", "event", "break", "wait", "asleep", "retime",
             "clearOwn", "spinOwn", "clearFail", "spinFail"}
Locations == WaitLoop \cup {"user", "cas", "held", "own", "free", "wake1", "accepted"}

\* Every variable has its type.
TypeOK ==
    /\ v \in Nat
    /\ owner \in Threads \cup {NoThread}
    /\ ct \in Nat
    /\ pc \in [Threads -> Locations]
    /\ op \in [Threads -> OpNames \cup {"none"}]
    /\ waitval \in [Threads -> Nat]
    /\ depth \in [Threads -> Nat]
    /\ futexwt \in [Threads -> BOOLEAN]
    /\ futexwake \in [Threads -> BOOLEAN]
    /\ asleep \subseteq Threads
    /\ resume \in [Threads -> {"user", "xchg", "retime"}]
    /\ adbreak \in BOOLEAN
    /\ breaks \in Nat
    /\ syslock \in BOOLEAN
    /\ syslocks \in Nat
    /\ kpc \in {"idle", "scan", "fetch", "forget", "bump", "kick", "retract"}
    /\ ktask \in Threads \cup {NoThread}
    /\ todo \subseteq Threads

\* Task t has taken the word from FREE and has not put FREE back.
Has(t) == depth[t] > 0 \/ pc[t] \in {"clearOwn", "spinOwn", "own", "free"}

\* At most one task has the mutex, whatever the interleaving of the fast path,
\* the waiting loop, unlock and the kicks of wakeall.
MutualExclusion == \A t, u \in Threads : Has(t) /\ Has(u) => t = u

\* owner and ct, which are written outside any lock, tell who was granted the
\* mutex and how often: so "held by me" is never answered wrongly, and a
\* recursive mutex is freed by exactly the last of the matching unlocks.
OwnerExact ==
    /\ \A t \in Threads : owner = t <=> depth[t] > 0
    /\ Recursive => ct = IF owner = NoThread THEN 0 ELSE depth[owner]

\* While wakeall works on the word it fetched from a task's futexwt, that task is
\* still inside the wait: the word may be gone once it has left.
NoStaleWake ==
    /\ TypeOK
    /\ kpc \in {"forget", "bump", "kick"} => pc[ktask] \in WaitLoop \cup {"accepted"}

\* Task t is past its sleep, or has not reached it, and will look at the word.
WillLook(t) ==
    \/ pc[t] \in {"xchg", "retime"}
    \/ pc[t] = "asleep" /\ t \notin asleep

\* If tasks sleep, either the word is WAIT, so that the unlock to come will wake
\* one, or a wake is on its way, or a task that was awakened has yet to look.
\* (mt.c: "the holder is guaranteed to perform a wake after freeing the lock".)
NoLostWake ==
    asleep # {} =>
        \/ StateHalf(v) = WAIT
        \/ \E t \in Threads : pc[t] = "wake1" \/ WillLook(t)

\* A word that is not FREE has a task that will set it FREE.
NoPhantomHolder == StateHalf(v) # FREE => \E t \in Threads : Has(t)

\* When tasks wait for the mutex, one of them (or a newcomer) is granted it, or
\* they give up: they do not all sleep while the mutex is passed on or free.
SomebodyGetsIt ==
    (\E t \in Threads : pc[t] = "asleep")
        ~> \/ \E t \in Threads : pc[t] = "own"
           \/ \A t \in Threads : pc[t] \notin WaitLoop
=============================================================================
