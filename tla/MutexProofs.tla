---------------------------- MODULE MutexProofs ----------------------------
(***************************************************************************)
(* Mutual exclusion of the mutex of x T. y, and the accuracy of its owner  *)
(* and ct fields, for any number of tasks, any nesting and any number of   *)
(* system locks and interrupts.                                            *)
(*                                                                         *)
(* The argument: the low byte of m->v, which wakeall never changes (it     *)
(* adds 0x100) is FREE only if nobody has the mutex; a task comes to have  *)
(* it only by finding the state half, and so the low byte, FREE.  That a   *)
(* task in the waiting loop holds nothing rests on owner being exact when  *)
(* it looks at it outside any lock.                                        *)
(***************************************************************************)
EXTENDS Mutex, TLAPS

\* Where a task is after it found the mutex to be another's, or while it moves
\* between having and not having it.
Between == WaitLoop \cup {"own", "free"}

\* A mutex that somebody has is not FREE in the byte that wakeall leaves alone.
WordHeld == \A t \in Threads : Has(t) => v % WAKEBUMP # FREE

\* A task is granted nothing while it waits, is about to record its ownership, or
\* has dropped it, also when it accepts a system lock in between.
NothingGranted ==
    \A t \in Threads :
        pc[t] \in Between \/ (pc[t] = "accepted" /\ resume[t] # "user")
            => depth[t] = 0

\* A mutex that is not recursive is granted once.
GrantedOnce == ~Recursive => \A t \in Threads : depth[t] <= 1

IndInv ==
    /\ TypeOK
    /\ MutualExclusion
    /\ OwnerExact
    /\ WordHeld
    /\ NothingGranted
    /\ GrantedOnce

-----------------------------------------------------------------------------
\* The word

\* An exchange of the state half leaves a word whose low byte is what was stored.
LEMMA StoreState ==
    ASSUME NEW x \in Nat, NEW s \in {FREE, LOCK, WAIT}
    PROVE  SetStateHalf(x, s) \in Nat /\ SetStateHalf(x, s) % WAKEBUMP = s
BY SMT DEF SetStateHalf, FREE, LOCK, WAIT, WAKEBUMP

\* wakeall leaves the low byte alone.
LEMMA BumpKeepsByte ==
    ASSUME NEW x \in Nat
    PROVE  x + WAKEBUMP \in Nat /\ (x + WAKEBUMP) % WAKEBUMP = x % WAKEBUMP
BY SMT DEF WAKEBUMP

\* A state half that is FREE has a low byte that is FREE.
LEMMA FreeHalfFreeByte ==
    ASSUME NEW x \in Nat, StateHalf(x) = FREE
    PROVE  x % WAKEBUMP = FREE
BY SMT DEF StateHalf, FREE, WAKEBUMP

-----------------------------------------------------------------------------
\* At first nobody has the mutex.
LEMMA InitInv == Init => IndInv
<1> SUFFICES ASSUME Init PROVE IndInv
    OBVIOUS
<1>1. TypeOK
  <2>1. futexwt \in [Threads -> BOOLEAN] /\ futexwake \in [Threads -> BOOLEAN]
      BY Zenon DEF Init
  <2>2. adbreak \in BOOLEAN /\ syslock \in BOOLEAN
      BY DEF Init
  <2>3. QED
      BY <2>1, <2>2, MutexAssumption, SMT DEF Init, TypeOK, Locations, FREE
<1>2. \A t \in Threads : ~Has(t)
    BY DEF Init, Has
<1>3. MutualExclusion /\ WordHeld
    BY <1>2 DEF MutualExclusion, WordHeld
<1>4. OwnerExact /\ NothingGranted /\ GrantedOnce
    BY MutexAssumption, SMT DEF Init, OwnerExact, NothingGranted, GrantedOnce
<1>5. QED
    BY <1>1, <1>3, <1>4 DEF IndInv

\* The fast path: a state half that is FREE says that nobody has the mutex.
LEMMA TryFreeInv ==
    ASSUME IndInv, NEW t \in Threads, TryFree(t)
    PROVE  IndInv'
<1>1. CASE StateHalf(v) = FREE
  <2>1. v' \in Nat /\ v' % WAKEBUMP # FREE
      BY <1>1, StoreState, SMT DEF TryFree, IndInv, TypeOK, LOCK, FREE
  <2>2. \A u \in Threads : ~Has(u)
      BY <1>1, FreeHalfFreeByte DEF IndInv, TypeOK, WordHeld
  <2>3. \A u \in Threads : Has(u)' => u = t
      BY <1>1, <2>2 DEF TryFree, Has, IndInv, TypeOK, Locations
  <2>4. QED
      BY <1>1, <2>1, <2>2, <2>3, SMT
      DEF TryFree, IndInv, TypeOK, MutualExclusion, OwnerExact, WordHeld, NothingGranted,
    GrantedOnce, Has, Between, WaitLoop, Locations, Goto, mutexVars, taskVars, futexVars,
    breakVars, sysVars
<1>2. CASE StateHalf(v) # FREE
    BY <1>2, MutexAssumption, SMT DEF TryFree, IndInv, TypeOK, MutualExclusion, OwnerExact, WordHeld, NothingGranted,
    GrantedOnce, Has, Between, WaitLoop, Locations, Goto, mutexVars, taskVars, futexVars,
    breakVars, sysVars
<1>3. QED
    BY <1>1, <1>2

\* The head of the waiting loop: the same of the word the exchange replaced.
LEMMA InstallWaitInv ==
    ASSUME IndInv, NEW t \in Threads, InstallWait(t)
    PROVE  IndInv'
<1>1. v' \in Nat /\ v' % WAKEBUMP # FREE
    BY StoreState, SMT DEF InstallWait, IndInv, TypeOK, WAIT, FREE
<1>2. CASE StateHalf(v) = FREE
  <2>1. \A u \in Threads : ~Has(u)
      BY <1>2, FreeHalfFreeByte DEF IndInv, TypeOK, WordHeld
  <2>2. \A u \in Threads : Has(u)' => u = t
      BY <1>2, <2>1 DEF InstallWait, Has, IndInv, TypeOK, Locations
  <2>3. QED
      BY <1>1, <1>2, <2>1, <2>2, SMT
      DEF InstallWait, IndInv, TypeOK, MutualExclusion, OwnerExact, WordHeld, NothingGranted,
    GrantedOnce, Has, Between, WaitLoop, Locations, Goto, mutexVars, taskVars, futexVars,
    breakVars, sysVars
<1>3. CASE StateHalf(v) # FREE
    BY <1>1, <1>3, MutexAssumption, SMT DEF InstallWait, IndInv, TypeOK, MutualExclusion, OwnerExact, WordHeld, NothingGranted,
    GrantedOnce, Has, Between, WaitLoop, Locations, Goto, mutexVars, taskVars, futexVars,
    breakVars, sysVars
<1>4. QED
    BY <1>2, <1>3

\* unlock: the one task that has the mutex puts FREE back.
LEMMA FreeInv ==
    ASSUME IndInv, NEW t \in Threads, Free(t)
    PROVE  IndInv'
<1>1. v' \in Nat
    BY StoreState, SMT DEF Free, IndInv, TypeOK
<1>2. \A u \in Threads : Has(u) => u = t
    BY DEF Free, IndInv, MutualExclusion, Has
<1>3. \A u \in Threads : ~Has(u)'
    BY <1>2, MutexAssumption, SMT
    DEF Free, Has, IndInv, TypeOK, NothingGranted, Between, Locations
<1>4. QED
    BY <1>1, <1>3, MutexAssumption, SMT DEF Free, IndInv, TypeOK, MutualExclusion, OwnerExact, WordHeld, NothingGranted,
    GrantedOnce, Has, Between, WaitLoop, Locations, Goto, mutexVars, taskVars, futexVars,
    breakVars, sysVars

\* The steps of a task.
LEMMA TaskStepInv ==
    ASSUME IndInv, NEW t \in Threads, TaskStep(t)
    PROVE  IndInv'
<1> USE MutexAssumption DEF IndInv, TypeOK, MutualExclusion, OwnerExact, WordHeld, NothingGranted,
    GrantedOnce, Has, Between, WaitLoop, Locations, Goto, mutexVars, taskVars, futexVars,
    breakVars, sysVars
<1>1. CASE Call(t)
    BY <1>1, SMT DEF Call
<1>2. CASE Release(t)
    BY <1>2, SMT DEF Release
<1>3. CASE AcceptAtSentence(t)
    BY <1>3, SMT DEF AcceptAtSentence
<1>4. CASE TryFree(t)
    BY <1>4, TryFreeInv
<1>5. CASE FoundMine(t)
    BY <1>5, SMT DEF FoundMine
<1>6. CASE FoundBusy(t)
    BY <1>6, SMT DEF FoundBusy
<1>7. CASE Enroll(t)
    BY <1>7, SMT DEF Enroll
<1>8. CASE InstallWait(t)
    BY <1>8, InstallWaitInv
<1>9. CASE LoadWord(t)
    BY <1>9, SMT DEF LoadWord
<1>10. CASE AcceptInLoop(t)
    BY <1>10, SMT DEF AcceptInLoop, Again
<1>11. CASE NoSystemLock(t)
    BY <1>11, SMT DEF NoSystemLock
<1>12. CASE CheckBreak(t)
    BY <1>12, SMT DEF CheckBreak
<1>13. CASE FutexWait(t)
    BY <1>13, SMT DEF FutexWait, Again
<1>14. CASE Awake(t)
    BY <1>14, SMT DEF Awake, Again
<1>15. CASE Retime(t)
    BY <1>15, SMT DEF Retime
<1>16. CASE Withdraw(t)
    BY <1>16, SMT DEF Withdraw
<1>17. CASE WaitOutWake(t)
    BY <1>17, SMT DEF WaitOutWake
<1>18. CASE TakeOwnership(t)
    BY <1>18, SMT DEF TakeOwnership
<1>19. CASE Free(t)
    BY <1>19, FreeInv
<1>20. CASE Wake1(t)
    BY <1>20, SMT DEF Wake1
<1>21. CASE FutexFails(t)
    BY <1>21, SMT DEF FutexFails
<1>22. CASE Interrupted(t)
    BY <1>22, SMT DEF Interrupted
<1>23. CASE TimedOut(t)
    BY <1>23, SMT DEF TimedOut
<1>24. QED
    BY <1>1, <1>2, <1>3, <1>4, <1>5, <1>6, <1>7, <1>8, <1>9, <1>10, <1>11, <1>12, <1>13, <1>14, <1>15, <1>16, <1>17, <1>18, <1>19, <1>20, <1>21, <1>22, <1>23
    DEF TaskStep, InCall, Kernel

\* wakeall adds to the word without making it FREE.
LEMMA WakeBumpInv ==
    ASSUME IndInv, WakeBump
    PROVE  IndInv'
<1>1. v' \in Nat /\ v' % WAKEBUMP = v % WAKEBUMP
    BY BumpKeepsByte DEF WakeBump, IndInv, TypeOK
<1>2. QED
    BY <1>1, MutexAssumption, SMT DEF WakeBump, IndInv, TypeOK, MutualExclusion, OwnerExact, WordHeld, NothingGranted,
    GrantedOnce, Has, Between, WaitLoop, Locations, Goto, mutexVars, taskVars, futexVars,
    breakVars, sysVars

\* The steps of the system lock and of the user.
LEMMA SystemStepInv ==
    ASSUME IndInv,
           RequestSystemLock \/ WakeAll \/ FinishSystemLock \/ Interrupt \/ ClearBreak
    PROVE  IndInv'
<1> USE MutexAssumption DEF IndInv, TypeOK, MutualExclusion, OwnerExact, WordHeld, NothingGranted,
    GrantedOnce, Has, Between, WaitLoop, Locations, Goto, mutexVars, taskVars, futexVars,
    breakVars, sysVars
<1>1. CASE RequestSystemLock
    BY <1>1, SMT DEF RequestSystemLock
<1>2. CASE \E t \in Threads : WakeAnnounce(t)
    BY <1>2, SMT DEF WakeAnnounce
<1>3. CASE WakeFetch
    BY <1>3, SMT DEF WakeFetch
<1>4. CASE WakeForget
  <2>1. futexwt' \in [Threads -> BOOLEAN]
      BY <1>4, Zenon DEF WakeForget
  <2>2. QED
      BY <1>4, <2>1, SMT DEF WakeForget
<1>5. CASE WakeBump
    BY <1>5, WakeBumpInv
<1>6. CASE WakeKick
    BY <1>6, SMT DEF WakeKick
<1>7. CASE WakeRetract
  <2>1. futexwake' \in [Threads -> BOOLEAN]
      BY <1>7, Zenon DEF WakeRetract
  <2>2. QED
      BY <1>7, <2>1, SMT DEF WakeRetract
<1>8. CASE AnotherPass
    BY <1>8, SMT DEF AnotherPass
<1>9. CASE FinishSystemLock
  <2>1. syslock' \in BOOLEAN
      BY <1>9, Zenon DEF FinishSystemLock
  <2>2. QED
      BY <1>9, <2>1, SMT DEF FinishSystemLock
<1>10. CASE Interrupt
    BY <1>10, SMT DEF Interrupt
<1>11. CASE ClearBreak
  <2>1. adbreak' \in BOOLEAN
      BY <1>11, Zenon DEF ClearBreak
  <2>2. QED
      BY <1>11, <2>1, SMT DEF ClearBreak
<1>12. QED
    BY <1>1, <1>2, <1>3, <1>4, <1>5, <1>6, <1>7, <1>8, <1>9, <1>10, <1>11 DEF WakeAll

\* The invariant is inductive.
LEMMA StepInv == IndInv /\ [Next]_vars => IndInv'
<1> SUFFICES ASSUME IndInv, [Next]_vars PROVE IndInv'
    OBVIOUS
<1>1. CASE \E t \in Threads : TaskStep(t)
    BY <1>1, TaskStepInv
<1>2. CASE RequestSystemLock \/ WakeAll \/ FinishSystemLock \/ Interrupt \/ ClearBreak
    BY <1>2, SystemStepInv
<1>3. CASE UNCHANGED vars
    BY <1>3, SMT
    DEF vars, IndInv, TypeOK, MutualExclusion, OwnerExact, WordHeld, NothingGranted,
    GrantedOnce, Has, Between, WaitLoop, Locations, Goto, mutexVars, taskVars, futexVars,
    breakVars, sysVars
<1>4. QED
    BY <1>1, <1>2, <1>3 DEF Next

-----------------------------------------------------------------------------
\* What the theorems about holding and waking rest on.
THEOREM Inductive == Spec => []IndInv
<1>1. Init => IndInv
    BY InitInv
<1>2. IndInv /\ [Next]_vars => IndInv'
    BY StepInv
<1>3. QED
    BY <1>1, <1>2, PTL DEF Spec

\* Every variable keeps its type.
THEOREM TypeCorrect == Spec => []TypeOK
BY Inductive, PTL DEF IndInv

\* At most one task has the mutex at any time.
THEOREM Exclusion == Spec => []MutualExclusion
BY Inductive, PTL DEF IndInv

\* owner and ct tell exactly who was granted the mutex and how often.
THEOREM OwnerAccurate == Spec => []OwnerExact
BY Inductive, PTL DEF IndInv

-----------------------------------------------------------------------------
\* wakeall and the word of a mutex: it holds the task by FUTEXWAKE from before it loads
\* the task's pointer until after it has used it, and a task whose pointer is out is in
\* the waiting loop, or accepts a system lock from there.
InLoop(t) == pc[t] \in WaitLoop \/ (pc[t] = "accepted" /\ resume[t] # "user")

KickInv ==
    /\ \A t \in Threads : futexwt[t] => InLoop(t) /\ pc[t] \notin {"spinOwn", "spinFail"}
    /\ kpc \in {"fetch", "forget", "bump", "kick", "retract"} =>
          ktask \in Threads /\ futexwake[ktask]
    /\ kpc \in {"forget", "bump", "kick"} => InLoop(ktask)

\* No task leaves the waiting loop under a wakeall that is at its word.
LEMMA TaskStepKick ==
    ASSUME TypeOK, KickInv, NEW t \in Threads, TaskStep(t)
    PROVE  KickInv'
<1>1. UNCHANGED <<kpc, ktask, futexwake>>
    BY DEF TaskStep, InCall, Kernel, Call, Release, AcceptAtSentence, TryFree, FoundMine, FoundBusy,
           Enroll, InstallWait, LoadWord, AcceptInLoop, NoSystemLock, CheckBreak, FutexWait, Awake,
           Retime, Withdraw, WaitOutWake, TakeOwnership, Free, Wake1, FutexFails, Interrupted,
           TimedOut, futexVars, sysVars
<1>2. CASE Enroll(t)
    BY <1>1, <1>2 DEF Enroll, Goto, TypeOK, KickInv, InLoop, WaitLoop
<1>3. CASE Withdraw(t)
    BY <1>1, <1>3 DEF Withdraw, Goto, TypeOK, KickInv, InLoop, WaitLoop
<1>4. CASE WaitOutWake(t)
  <2>1. ~InLoop(t) \/ ~futexwt[t]
      BY <1>4 DEF WaitOutWake, Goto, KickInv
  <2>2. kpc \in {"forget", "bump", "kick"} => ktask # t
      BY <1>4 DEF WaitOutWake, KickInv
  <2>3. /\ futexwt' = futexwt /\ resume' = resume
        /\ \A u \in Threads \ {t} : pc'[u] = pc[u]
      BY <1>4 DEF WaitOutWake, Goto, TypeOK, futexVars
  <2>4. QED
      BY <1>1, <1>4, <2>1, <2>2, <2>3 DEF WaitOutWake, Goto, KickInv, InLoop
<1>5. CASE futexwt' = futexwt /\ (\A u \in Threads : InLoop(u) => InLoop(u)')
           /\ (\A u \in Threads : pc'[u] \in {"spinOwn", "spinFail"} => pc[u] \in {"spinOwn", "spinFail"})
    BY <1>1, <1>5 DEF KickInv
<1> USE DEF TypeOK, Goto, InLoop, WaitLoop, futexVars, taskVars
<1>6. CASE Call(t) \/ Release(t) \/ AcceptAtSentence(t) \/ TryFree(t) \/ FoundMine(t) \/ FoundBusy(t)
           \/ TakeOwnership(t) \/ Free(t) \/ Wake1(t)
  <2>1. pc[t] \in {"user", "cas", "held", "own", "free", "wake1"} /\ futexwt' = futexwt
        /\ pc'[t] \notin {"spinOwn", "spinFail"} /\ \A u \in Threads \ {t} : pc'[u] = pc[u] /\ resume'[u] = resume[u]
      BY <1>6 DEF Call, Release, AcceptAtSentence, TryFree, FoundMine, FoundBusy, TakeOwnership, Free, Wake1
  <2>2. QED
      BY <1>5, <2>1
<1>7. CASE InstallWait(t) \/ LoadWord(t) \/ AcceptInLoop(t) \/ NoSystemLock(t) \/ CheckBreak(t)
           \/ FutexWait(t) \/ Awake(t) \/ Retime(t) \/ FutexFails(t) \/ TimedOut(t)
  <2>1. /\ futexwt' = futexwt /\ \A u \in Threads \ {t} : pc'[u] = pc[u] /\ resume'[u] = resume[u]
        /\ pc'[t] \notin {"spinOwn", "spinFail"}
        /\ pc'[t] \in WaitLoop \/ (pc'[t] = "accepted" /\ resume'[t] # "user")
      BY <1>7 DEF InstallWait, LoadWord, AcceptInLoop, NoSystemLock, CheckBreak, FutexWait, Awake,
                  Retime, FutexFails, TimedOut, Again
  <2>2. QED
      BY <1>5, <2>1
<1>8. CASE Interrupted(t)
    BY <1>5, <1>8 DEF Interrupted
<1>9. QED
    BY <1>2, <1>3, <1>4, <1>6, <1>7, <1>8 DEF TaskStep, InCall, Kernel

\* wakeall, and what interrupts it, works on the word of a task in the loop only.
LEMMA SystemStepKick ==
    ASSUME TypeOK, KickInv,
           RequestSystemLock \/ WakeAll \/ FinishSystemLock \/ Interrupt \/ ClearBreak
    PROVE  KickInv'
<1> USE DEF TypeOK, KickInv, InLoop, taskVars, futexVars, sysVars
<1>1. CASE RequestSystemLock
    BY <1>1 DEF RequestSystemLock
<1>2. CASE \E t \in Threads : WakeAnnounce(t)
    BY <1>2 DEF WakeAnnounce
<1>3. CASE WakeFetch
    BY <1>3 DEF WakeFetch
<1>4. CASE WakeForget
    BY <1>4 DEF WakeForget
<1>5. CASE WakeBump \/ WakeKick
    BY <1>5 DEF WakeBump, WakeKick
<1>6. CASE WakeRetract
    BY <1>6 DEF WakeRetract
<1>7. CASE AnotherPass
    BY <1>7 DEF AnotherPass
<1>8. CASE FinishSystemLock
    BY <1>8 DEF FinishSystemLock, WaitLoop
<1>9. CASE Interrupt \/ ClearBreak
    BY <1>9 DEF Interrupt, ClearBreak
<1>10. QED
    BY <1>1, <1>2, <1>3, <1>4, <1>5, <1>6, <1>7, <1>8, <1>9 DEF WakeAll

\* wakeall never works on the word of a wait that is over (ct.c:104-106, mt.h:83).
THEOREM WordOutlivesWake == Spec => []NoStaleWake
<1>1. Init => KickInv
    BY DEF Init, KickInv
<1>2. TypeOK /\ KickInv /\ [Next]_vars => KickInv'
  <2> SUFFICES ASSUME TypeOK, KickInv, [Next]_vars PROVE KickInv'
      OBVIOUS
  <2>1. CASE \E t \in Threads : TaskStep(t)
      BY <2>1, TaskStepKick
  <2>2. CASE RequestSystemLock \/ WakeAll \/ FinishSystemLock \/ Interrupt \/ ClearBreak
      BY <2>2, SystemStepKick
  <2>3. CASE UNCHANGED vars
      BY <2>3 DEF vars, taskVars, futexVars, sysVars, KickInv, InLoop
  <2>4. QED
      BY <2>1, <2>2, <2>3 DEF Next
<1>3. TypeOK /\ KickInv => NoStaleWake
    BY DEF KickInv, InLoop, NoStaleWake
<1>4. QED
    BY <1>1, <1>2, <1>3, TypeCorrect, PTL DEF Spec
-----------------------------------------------------------------------------
\* Wake-ups, among tasks that give no timeout.  wakeall leaves the word in a state
\* that no code tests for until somebody exchanges it.  Such a word is loaded only
\* under a system lock, which the task then accepts, so it sleeps only on a word that
\* is WAIT.

\* The states that lock and unlock leave the word in.
Proper(x) == StateHalf(x) \in {FREE, LOCK, WAIT}

\* The word a task has sampled, or is about to, has a proper state, or a system lock
\* will keep it from sleeping.
SampleProper(t) ==
    /\ pc[t] = "load" => syslock \/ Proper(v)
    /\ pc[t] = "event" => syslock \/ Proper(waitval[t])
    /\ pc[t] \in {"break", "wait"} => Proper(waitval[t])

WakeInv ==
    /\ \A t \in Threads : op[t] # "timedlock" /\ pc[t] # "retime" /\ resume[t] # "retime"
    /\ \A t \in asleep : pc[t] = "asleep"
    /\ kpc # "idle" => syslock
    /\ \A t \in Threads : SampleProper(t)

\* No wake-up is lost, but wakeall may be between its change of the word and its wake
\* of those who sleep on it.
NoLostWakeButKick == NoLostWake \/ kpc = "kick"

\* Storing a state half makes the word one that the code can act on.
LEMMA HalfStored ==
    ASSUME NEW x \in Nat, NEW s \in {FREE, LOCK, WAIT}
    PROVE  StateHalf(SetStateHalf(x, s)) = s /\ Proper(SetStateHalf(x, s))
BY SMT DEF Proper, StateHalf, SetStateHalf, FREE, LOCK, WAIT

\* Who sleeps on a word that he found in a proper state sleeps on WAIT.
LEMMA SleepsOnWait ==
    ASSUME NEW x \in Nat, Proper(x)
    PROVE  StateHalf(OrWAIT(x)) = WAIT
<1>1. \/ x % 65536 = 0 \/ x % 65536 = 1 \/ x % 65536 = 3
  BY DEF Proper, StateHalf, FREE, LOCK, WAIT
<1>2. x % 4 = (x % 65536) % 4
  BY SMT
<1> QED BY <1>1, <1>2, SMT DEF StateHalf, OrWAIT, WAIT

\* Somebody will look at the word, or will wake one who sleeps on it.
Coming == \E t \in Threads : pc[t] = "wake1" \/ WillLook(t)

\* The steps of a task, first what each task has sampled.
LEMMA TaskStepSample ==
    ASSUME "timedlock" \notin Ops, TypeOK, WakeInv, NEW t \in Threads, TaskStep(t)
    PROVE  WakeInv'
<1> USE DEF TypeOK, WakeInv, SampleProper, Goto, mutexVars, taskVars, futexVars, breakVars, sysVars
<1>sys. UNCHANGED <<kpc, syslock>>
  BY DEF TaskStep, InCall, Kernel, Call, Release, AcceptAtSentence, TryFree, FoundMine, FoundBusy,
         Enroll, InstallWait, LoadWord, AcceptInLoop, NoSystemLock, CheckBreak, FutexWait, Awake,
         Retime, Withdraw, WaitOutWake, TakeOwnership, Free, Wake1, FutexFails, Interrupted,
         TimedOut
<1>proper. ASSUME NEW s \in {FREE, LOCK, WAIT}, v' = SetStateHalf(v, s)
           PROVE  Proper(v)'
  BY <1>proper, HalfStored DEF Proper
<1>1. CASE Call(t)
  BY <1>1, <1>sys DEF Call
<1>2. CASE Release(t) \/ AcceptAtSentence(t) \/ FoundMine(t) \/ FoundBusy(t) \/ Enroll(t)
  BY <1>2, <1>sys DEF Release, AcceptAtSentence, FoundMine, FoundBusy, Enroll
<1>3. CASE TryFree(t)
  <2>1. v' = v \/ Proper(v)'
    BY <1>3, <1>proper DEF TryFree
  <2> QED BY <1>3, <1>sys, <2>1 DEF TryFree
<1>4. CASE InstallWait(t)
  <2>1. Proper(v)'
    BY <1>4, <1>proper DEF InstallWait
  <2> QED BY <1>4, <1>sys, <2>1 DEF InstallWait
<1>5. CASE Free(t)
  <2>1. Proper(v)'
    BY <1>5, <1>proper DEF Free
  <2> QED BY <1>5, <1>sys, <2>1 DEF Free
<1>6. CASE LoadWord(t)
  BY <1>6, <1>sys DEF LoadWord, Proper
<1>7. CASE AcceptInLoop(t) \/ NoSystemLock(t) \/ CheckBreak(t)
  BY <1>7, <1>sys DEF AcceptInLoop, NoSystemLock, CheckBreak, Again, Proper
<1>8. CASE FutexWait(t) \/ FutexFails(t) \/ Awake(t) \/ Interrupted(t) \/ TimedOut(t) \/ Retime(t)
  BY <1>8, <1>sys DEF FutexWait, FutexFails, Awake, Interrupted, TimedOut, Retime, Again, Proper
<1>9. CASE Withdraw(t) \/ WaitOutWake(t) \/ TakeOwnership(t) \/ Wake1(t)
  BY <1>9, <1>sys DEF Withdraw, WaitOutWake, TakeOwnership, Wake1
<1> QED BY <1>1, <1>2, <1>3, <1>4, <1>5, <1>6, <1>7, <1>8, <1>9 DEF TaskStep, InCall, Kernel

\* ... then those who sleep.
LEMMA TaskStepWake ==
    ASSUME "timedlock" \notin Ops, TypeOK, WakeInv, NoLostWake, NEW t \in Threads, TaskStep(t)
    PROVE  NoLostWake'
<1> USE DEF TypeOK, WakeInv, WillLook, Goto, mutexVars, taskVars, futexVars, breakVars, sysVars
<1>old. asleep = {} \/ StateHalf(v) = WAIT \/ Coming
  BY DEF NoLostWake, Coming
<1>new. asleep' = {} \/ StateHalf(v') = WAIT \/ Coming' => NoLostWake'
  BY DEF NoLostWake, Coming, StateHalf
<1>keep. ASSUME pc[t] # "wake1", ~WillLook(t), \A u \in Threads \ {t} : pc'[u] = pc[u],
                asleep' \subseteq asleep
         PROVE  Coming => Coming'
  BY <1>keep DEF Coming
<1>1. CASE Call(t) \/ Release(t) \/ AcceptAtSentence(t) \/ FoundMine(t) \/ FoundBusy(t) \/ Enroll(t)
           \/ LoadWord(t) \/ AcceptInLoop(t) \/ NoSystemLock(t) \/ CheckBreak(t) \/ FutexFails(t)
           \/ Withdraw(t) \/ WaitOutWake(t) \/ TakeOwnership(t)
  <2>1. /\ v' = v /\ asleep' = asleep /\ pc[t] \notin {"wake1", "xchg", "retime", "asleep"}
        /\ \A u \in Threads \ {t} : pc'[u] = pc[u]
    BY <1>1 DEF Call, Release, AcceptAtSentence, FoundMine, FoundBusy, Enroll, LoadWord,
                AcceptInLoop, NoSystemLock, CheckBreak, FutexFails, Withdraw, WaitOutWake,
                TakeOwnership
  <2> QED BY <2>1, <1>old, <1>new, <1>keep
<1>2. CASE TryFree(t)
  <2>1. /\ asleep' = asleep /\ pc[t] \notin {"wake1", "xchg", "retime", "asleep"}
        /\ \A u \in Threads \ {t} : pc'[u] = pc[u]
        /\ v' = v \/ StateHalf(v) = FREE
    BY <1>2 DEF TryFree
  <2> QED BY <2>1, <1>old, <1>new, <1>keep DEF FREE, WAIT
<1>3. CASE InstallWait(t)
  <2>1. StateHalf(v') = WAIT
    BY <1>3, HalfStored DEF InstallWait
  <2> QED BY <2>1, <1>new
<1>4. CASE FutexWait(t)
  <2>1. CASE v = OrWAIT(waitval[t])
    <3>1. v' = v /\ StateHalf(v) = WAIT
      BY <1>4, <2>1, SleepsOnWait DEF FutexWait, SampleProper
    <3> QED BY <3>1, <1>new
  <2>2. CASE v # OrWAIT(waitval[t])
    <3>1. /\ v' = v /\ asleep' = asleep /\ pc[t] \notin {"wake1", "xchg", "retime", "asleep"}
          /\ \A u \in Threads \ {t} : pc'[u] = pc[u]
      BY <1>4, <2>2 DEF FutexWait
    <3> QED BY <3>1, <1>old, <1>new, <1>keep
  <2> QED BY <2>1, <2>2
<1>5. CASE Awake(t)
  <2>1. pc'[t] = "xchg"
    BY <1>5 DEF Awake, Again
  <2> QED BY <2>1, <1>new DEF Coming
<1>6. CASE Interrupted(t)
  <2>1. pc'[t] = "asleep" /\ t \notin asleep'
    BY <1>6 DEF Interrupted
  <2> QED BY <2>1, <1>new DEF Coming
<1>7. CASE Free(t)
  <2>1. asleep' = asleep /\ \A u \in Threads \ {t} : pc'[u] = pc[u]
    BY <1>7 DEF Free
  <2>2. CASE StateHalf(v) = WAIT
    <3>1. pc'[t] = "wake1"
      BY <1>7, <2>2 DEF Free
    <3> QED BY <3>1, <1>new DEF Coming
  <2>3. CASE StateHalf(v) # WAIT
    BY <1>7, <2>1, <2>3, <1>old, <1>new, <1>keep DEF Free
  <2> QED BY <2>2, <2>3
<1>8. CASE Wake1(t)
  <2>1. CASE asleep = {}
    BY <1>8, <2>1, <1>new DEF Wake1
  <2>2. CASE asleep # {}
    <3>1. PICK u \in asleep : asleep' = asleep \ {u}
      BY <1>8, <2>2 DEF Wake1
    <3>2. u \in Threads /\ pc'[u] = "asleep" /\ u \notin asleep'
      BY <1>8, <3>1 DEF Wake1
    <3> QED BY <3>2, <1>new DEF Coming
  <2> QED BY <2>1, <2>2
<1>9. ~Retime(t) /\ ~TimedOut(t)
  BY DEF Retime, TimedOut
<1> QED BY <1>1, <1>2, <1>3, <1>4, <1>5, <1>6, <1>7, <1>8, <1>9 DEF TaskStep, InCall, Kernel

\* The steps of wakeall, of the system lock and of the user.
LEMMA SystemStepWake ==
    ASSUME TypeOK, WakeInv, NoLostWakeButKick,
           RequestSystemLock \/ WakeAll \/ FinishSystemLock \/ Interrupt \/ ClearBreak
    PROVE  WakeInv' /\ NoLostWakeButKick'
<1> USE DEF TypeOK, WakeInv, SampleProper, NoLostWakeButKick, taskVars, mutexVars, futexVars, sysVars
<1>same. ASSUME UNCHANGED <<v, pc, asleep>>, kpc # "kick"
         PROVE  NoLostWakeButKick'
  BY <1>same DEF NoLostWake, WillLook, StateHalf
<1>1. CASE RequestSystemLock
  BY <1>1, <1>same DEF RequestSystemLock, Proper
<1>2. CASE \E t \in Threads : WakeAnnounce(t)
  BY <1>2, <1>same DEF WakeAnnounce, Proper
<1>3. CASE WakeFetch \/ WakeForget \/ WakeRetract \/ AnotherPass
  BY <1>3, <1>same DEF WakeFetch, WakeForget, WakeRetract, AnotherPass, Proper
<1>4. CASE WakeBump
  BY <1>4 DEF WakeBump, Proper
<1>5. CASE WakeKick
  BY <1>5 DEF WakeKick, Proper, NoLostWake
<1>6. CASE FinishSystemLock
  <2>1. asleep = {} /\ asleep' = {}
    BY <1>6 DEF FinishSystemLock
  <2> QED BY <1>6, <2>1 DEF FinishSystemLock, NoLostWake
<1>7. CASE Interrupt \/ ClearBreak
  BY <1>7 DEF Interrupt, ClearBreak, Proper, NoLostWake, WillLook, StateHalf
<1> QED BY <1>1, <1>2, <1>3, <1>4, <1>5, <1>6, <1>7 DEF WakeAll

\* While wakeall is between its change of the word and its wake, no task loses a wake-up
\* that the kick does not make good.
LEMMA WakesKept ==
    ASSUME "timedlock" \notin Ops, TypeOK, WakeInv, NoLostWakeButKick, [Next]_vars
    PROVE  WakeInv' /\ NoLostWakeButKick'
<1>1. CASE \E t \in Threads : TaskStep(t)
  <2>1. PICK t \in Threads : TaskStep(t)
    BY <1>1
  <2>2. kpc' = kpc
    BY <2>1
    DEF TaskStep, InCall, Kernel, Call, Release, AcceptAtSentence, TryFree, FoundMine, FoundBusy,
        Enroll, InstallWait, LoadWord, AcceptInLoop, NoSystemLock, CheckBreak, FutexWait, Awake,
        Retime, Withdraw, WaitOutWake, TakeOwnership, Free, Wake1, FutexFails, Interrupted,
        TimedOut, sysVars
  <2> QED BY <2>1, <2>2, TaskStepSample, TaskStepWake DEF NoLostWakeButKick
<1>2. CASE RequestSystemLock \/ WakeAll \/ FinishSystemLock \/ Interrupt \/ ClearBreak
  BY <1>2, SystemStepWake
<1>3. CASE UNCHANGED vars
  BY <1>3 DEF vars, mutexVars, taskVars, futexVars, sysVars, WakeInv, SampleProper, Proper,
              NoLostWakeButKick, NoLostWake, WillLook, StateHalf
<1> QED BY <1>1, <1>2, <1>3 DEF Next

\* If no task gives a timeout, no wake-up is lost, whatever the system locks and the
\* interrupts, but for the moment between wakeall's change of the word and its wake
\* (mt.c:186, ct.c:104-118).
THEOREM WakesAreKicked ==
    ASSUME "timedlock" \notin Ops
    PROVE  Spec => []NoLostWakeButKick
<1>1. Init => WakeInv /\ NoLostWakeButKick
  BY DEF Init, WakeInv, SampleProper, NoLostWakeButKick, NoLostWake
<1>2. TypeOK /\ WakeInv /\ NoLostWakeButKick /\ [Next]_vars => WakeInv' /\ NoLostWakeButKick'
  BY WakesKept
<1> QED BY <1>1, <1>2, TypeCorrect, PTL DEF Spec

\* Without system locks nothing is excepted.
THEOREM WakesAreNotLost ==
    ASSUME "timedlock" \notin Ops, SysLocks = 0
    PROVE  Spec => []NoLostWake
<1> DEFINE Quiet == kpc = "idle" /\ syslocks \in Nat
<1>1. Init => Quiet
  BY DEF Init
<1>2. Quiet /\ [Next]_vars => Quiet'
  BY DEF Next, vars, TaskStep, InCall, Kernel, Call, Release, AcceptAtSentence, TryFree, FoundMine,
         FoundBusy, Enroll, InstallWait, LoadWord, AcceptInLoop, NoSystemLock, CheckBreak,
         FutexWait, Awake, Retime, Withdraw, WaitOutWake, TakeOwnership, Free, Wake1, FutexFails,
         Interrupted, TimedOut, sysVars, RequestSystemLock, WakeAll, WakeAnnounce, WakeFetch,
         WakeForget, WakeBump, WakeKick, WakeRetract, AnotherPass, FinishSystemLock, Interrupt,
         ClearBreak
<1>3. Quiet /\ NoLostWakeButKick => NoLostWake
  BY DEF NoLostWakeButKick
<1> QED BY <1>1, <1>2, <1>3, WakesAreKicked, PTL DEF Spec
=============================================================================
