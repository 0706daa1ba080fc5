-------------------------------- MODULE Pyx --------------------------------
(***************************************************************************)
(* A pyx: the box that stands for the result of a task, or one that the    *)
(* user makes and fills (ct.c: jtpyxgerval, jtsetpyxval, T. 4 to 7).       *)
(*                                                                         *)
(* A pyx is three words that are written one after the other, without a    *)
(* lock, and a state that is also a futex.  A reader sleeps on it; it is   *)
(* woken when the pyx is filled, or by a system lock (wakeall) that wants  *)
(* it to check in.  A system lock is here what it is to a reader: a flag   *)
(* that is set, wakeups that are repeated until every reader has accepted, *)
(* and the end of the lock.                                                *)
(***************************************************************************)
EXTENDS Integers, FiniteSets

CONSTANTS
    NReaders,       \* the number of threads that read the pyx
    Setters,        \* threads that may fill it
    Task,           \* the one of them that runs the task; none for a user's pyx
    Values, Errors, \* what can be put in; Errors is a set of numbers > 0
    LocaleMissing,  \* can the task's locale be missing (u t. with locales)?
    Excuses,        \* EVTIME or EVBREAK: numbers > 0, not in Errors
    MaxLocks        \* bound: system locks in a behaviour

ASSUME PyxAssumption ==
    /\ NReaders \in Nat \ {0}
    /\ 0 \notin Errors \union Excuses
    /\ "none" \notin Values

Readers == 1 .. NReaders

VARIABLES
    pyxorigthread,  \* NotStarted, Finished, or Running
    errcode,
    pyxvalue,       \* 0 is "none"
    state,          \* the low byte of seqstate
    fresh,          \* the reader goes to wait for a change of seqstate, and it has not changed
    rpc, sees, excuse, answer,  \* of a reader: where it is, the state it saw, why it gives up, what it gets
    lockactive,     \* TASKSTATELOCKACTIVE of the readers
    futexwt,        \* the reader's futexwt points to this pyx
    futexwake,      \* TASKSTATEFUTEXWAKE
    spc, brings,    \* of a setter: where it is, what it brings
    lpc, target, locks   \* of the thread that leads a system lock

block == <<pyxorigthread, errcode, pyxvalue, state>>
reader == <<fresh, rpc, sees, excuse, answer>>
wakeup == <<lockactive, futexwt, futexwake>>
locker == <<lpc, target, locks>>
setter == <<spc, brings>>
vars == <<block, reader, wakeup, locker, setter>>

NotStarted == -2
Finished == -1
Running == 0

Emsg == "emsg"      \* the text of an error
Outcomes == [val : Values, err : {0}] \union [val : {Emsg}, err : Errors]
Nothing == [val |-> "none", err |-> 0]
Excused(e) == [val |-> "none", err |-> e]

Init ==
    /\ pyxorigthread = IF Task \in Setters THEN NotStarted ELSE Running
    /\ errcode = 0 /\ pyxvalue = "none" /\ state = "EMPTY"
    /\ fresh = [t \in Readers |-> FALSE]
    /\ rpc = [t \in Readers |-> "idle"]
    /\ sees = [t \in Readers |-> "EMPTY"]
    /\ excuse = [t \in Readers |-> 0]
    /\ answer = [t \in Readers |-> Nothing]
    /\ lockactive = [t \in Readers |-> FALSE]
    /\ futexwt = [t \in Readers |-> FALSE]
    /\ futexwake = [t \in Readers |-> FALSE]
    /\ spc = [u \in Setters |-> IF u = Task THEN "start" ELSE "idle"]
    /\ brings = [u \in Setters |-> Nothing]
    /\ lpc = "idle" /\ target = 1 /\ locks = 0

-----------------------------------------------------------------------------
(* jtsetpyxval: claim the pyx, store the error code, store the value, fill *)
(* the state and wake the readers.                                         *)

SGoto(u, l) == spc' = [spc EXCEPT ![u] = l]

\* The worker that takes the job puts its number into the pyx.
Start(u) ==
    /\ spc[u] = "start"
    /\ pyxorigthread' = Running
    /\ SGoto(u, "idle")
    /\ UNCHANGED <<errcode, pyxvalue, state, brings, reader, wakeup, locker>>

\* The locale that the job names does not exist: the worker goes on to report
\* the error without having put its number into the pyx.
StartFails(u) ==
    /\ spc[u] = "start" /\ LocaleMissing
    /\ SGoto(u, "idle")
    /\ UNCHANGED <<block, brings, reader, wakeup, locker>>

\* Slip: anybody may write at any time.
Refused_Never == FALSE

\* A pyx that is written, or whose task has not started, is refused.
Refused == pyxorigthread < 0

Claim(u) ==
    /\ spc[u] = "idle"
    /\ pyxorigthread' = Finished
    /\ IF Refused
       THEN SGoto(u, "refused") /\ UNCHANGED brings
       ELSE \E o \in Outcomes :
              /\ brings' = [brings EXCEPT ![u] = o]
              /\ SGoto(u, IF o.err # 0 THEN "error" ELSE "value")
    /\ UNCHANGED <<errcode, pyxvalue, state, reader, wakeup, locker>>

StoreError(u) ==
    /\ spc[u] = "error"
    /\ errcode' = brings[u].err
    /\ SGoto(u, "value")
    /\ UNCHANGED <<pyxorigthread, pyxvalue, state, brings, reader, wakeup, locker>>

StoreValue(u) ==
    /\ spc[u] = "value"
    /\ pyxvalue' = brings[u].val
    /\ brings' = [brings EXCEPT ![u] = Nothing]
    /\ SGoto(u, "fill")
    /\ UNCHANGED <<pyxorigthread, errcode, state, reader, wakeup, locker>>

\* Slip: the readers are not woken.
Fill_NoWake(u) ==
    /\ spc[u] = "fill"
    /\ state' = "FULL"
    /\ fresh' = [t \in Readers |-> FALSE]
    /\ SGoto(u, "done")
    /\ UNCHANGED <<pyxorigthread, errcode, pyxvalue, rpc, sees, excuse, answer, brings, wakeup, locker>>

Fill(u) ==
    /\ spc[u] = "fill"
    /\ state' = "FULL"
    /\ fresh' = [t \in Readers |-> FALSE]
    /\ SGoto(u, IF state = "WAIT" THEN "wake" ELSE "done")
    /\ UNCHANGED <<pyxorigthread, errcode, pyxvalue, rpc, sees, excuse, answer, brings, wakeup, locker>>

\* jfutex_wakea
Woken == [t \in Readers |-> IF rpc[t] = "asleep" THEN "sample" ELSE rpc[t]]

WakeReaders(u) ==
    /\ spc[u] = "wake"
    /\ rpc' = Woken
    /\ SGoto(u, "done")
    /\ UNCHANGED <<block, fresh, sees, excuse, answer, brings, wakeup, locker>>

-----------------------------------------------------------------------------
(* jtpyxgerval                                                             *)

RGoto(t, l) == rpc' = [rpc EXCEPT ![t] = l]

Enter(t) ==
    /\ rpc[t] = "idle"
    /\ sees' = [sees EXCEPT ![t] = state]
    /\ RGoto(t, IF state = "FULL" THEN "take" ELSE "mark")
    /\ UNCHANGED <<block, fresh, excuse, answer, wakeup, locker, setter>>

\* EMPTY becomes WAIT; the exchange is not tried by those who saw WAIT.
Mark(t) ==
    /\ rpc[t] = "mark"
    /\ IF sees[t] = "EMPTY" /\ state = "EMPTY"
       THEN state' = "WAIT" /\ fresh' = [u \in Readers |-> FALSE]
       ELSE UNCHANGED <<state, fresh>>
    /\ sees' = [sees EXCEPT ![t] = "EMPTY"]
    /\ RGoto(t, "sample")
    /\ UNCHANGED <<pyxorigthread, errcode, pyxvalue, excuse, answer, wakeup, locker, setter>>

Sample(t) ==
    /\ rpc[t] = "sample"
    /\ fresh' = [fresh EXCEPT ![t] = state # "FULL"]
    /\ RGoto(t, IF state = "FULL" THEN "clear" ELSE "check")
    /\ UNCHANGED <<block, sees, excuse, answer, wakeup, locker, setter>>

\* A system lock is accepted at once (jtsystemlockaccept).
Check(t) ==
    /\ rpc[t] = "check"
    /\ RGoto(t, IF lockactive[t] THEN "accepting" ELSE "break")
    /\ UNCHANGED <<block, fresh, sees, excuse, answer, wakeup, locker, setter>>

\* The user has asked for a break, or the time of the pyx is over.
GiveUp(t) ==
    /\ rpc[t] = "break"
    /\ \E e \in Excuses : excuse' = [excuse EXCEPT ![t] = e]
    /\ fresh' = [fresh EXCEPT ![t] = FALSE]
    /\ RGoto(t, "clear")
    /\ UNCHANGED <<block, sees, answer, wakeup, locker, setter>>

Arm(t) ==
    /\ rpc[t] = "break"
    /\ futexwt' = [futexwt EXCEPT ![t] = TRUE]
    /\ RGoto(t, "wait")
    /\ UNCHANGED <<block, fresh, sees, excuse, answer, lockactive, futexwake, locker, setter>>

\* jfutex_waitn
Wait(t) ==
    /\ rpc[t] = "wait"
    /\ RGoto(t, IF fresh[t] THEN "asleep" ELSE "sample")
    /\ fresh' = [fresh EXCEPT ![t] = FALSE]
    /\ UNCHANGED <<block, sees, excuse, answer, wakeup, locker, setter>>

\* The wait returns by itself after at most a second.
NapOver(t) ==
    /\ rpc[t] = "asleep"
    /\ RGoto(t, "sample")
    /\ UNCHANGED <<block, fresh, sees, excuse, answer, wakeup, locker, setter>>

\* CLRFUTEXWT: no one will wake this thread, and no one is at it.
Clear(t) ==
    /\ rpc[t] = "clear"
    /\ futexwt' = [futexwt EXCEPT ![t] = FALSE]
    /\ RGoto(t, "settle")
    /\ UNCHANGED <<block, fresh, sees, excuse, answer, lockactive, futexwake, locker, setter>>

\* Slip: the bit is not waited for.
Settle_Now(t) ==
    /\ rpc[t] = "settle"
    /\ RGoto(t, "take")
    /\ UNCHANGED <<block, fresh, sees, excuse, answer, wakeup, locker, setter>>

Settle(t) ==
    /\ rpc[t] = "settle" /\ ~futexwake[t]
    /\ RGoto(t, "take")
    /\ UNCHANGED <<block, fresh, sees, excuse, answer, wakeup, locker, setter>>

Take(t) ==
    /\ rpc[t] = "take"
    /\ answer' = [answer EXCEPT ![t] = IF excuse[t] # 0 THEN Excused(excuse[t])
                                       ELSE [val |-> pyxvalue, err |-> errcode]]
    /\ excuse' = [excuse EXCEPT ![t] = 0]
    /\ RGoto(t, "done")
    /\ UNCHANGED <<block, fresh, sees, wakeup, locker, setter>>

-----------------------------------------------------------------------------
(* A system lock, as far as it concerns the readers: wakeall visits every  *)
(* thread, and goes round until all have accepted.                         *)

LGoto(l) == lpc' = l

LockBegin ==
    /\ lpc = "idle" /\ locks < MaxLocks
    /\ lockactive' = [t \in Readers |-> TRUE]
    /\ locks' = locks + 1
    /\ LGoto("visit") /\ target' = 1
    /\ UNCHANGED <<block, reader, futexwt, futexwake, setter>>

Visit ==
    /\ lpc = "visit"
    /\ futexwake' = [futexwake EXCEPT ![target] = TRUE]
    /\ LGoto("load")
    /\ UNCHANGED <<block, reader, lockactive, futexwt, target, locks, setter>>

LoadWt ==
    /\ lpc = "load"
    /\ LGoto(IF futexwt[target] THEN "unarm" ELSE "leave")
    /\ UNCHANGED <<block, reader, wakeup, target, locks, setter>>

Unarm ==
    /\ lpc = "unarm"
    /\ futexwt' = [futexwt EXCEPT ![target] = FALSE]
    /\ LGoto("bump")
    /\ UNCHANGED <<block, reader, lockactive, futexwake, target, locks, setter>>

Bump ==
    /\ lpc = "bump"
    /\ fresh' = [t \in Readers |-> FALSE]
    /\ LGoto("wakea")
    /\ UNCHANGED <<block, rpc, sees, excuse, answer, wakeup, target, locks, setter>>

WakeAll ==
    /\ lpc = "wakea"
    /\ rpc' = Woken
    /\ LGoto("leave")
    /\ UNCHANGED <<block, fresh, sees, excuse, answer, wakeup, target, locks, setter>>

\* A reader that is not in the pyx is taken to accept elsewhere.
Accepted == \A t \in Readers : rpc[t] \in {"idle", "accepting", "done"}

Leave ==
    /\ lpc = "leave"
    /\ futexwake' = [futexwake EXCEPT ![target] = FALSE]
    /\ target' = IF target = NReaders THEN 1 ELSE target + 1
    /\ LGoto(IF target = NReaders THEN "round" ELSE "visit")
    /\ UNCHANGED <<block, reader, lockactive, futexwt, locks, setter>>

\* Slip: the leader only waits, and visits nobody again.
Round_Idle ==
    /\ lpc = "round" /\ ~Accepted
    /\ UNCHANGED vars

Round ==
    /\ lpc = "round" /\ ~Accepted
    /\ LGoto("visit")
    /\ UNCHANGED <<block, reader, wakeup, target, locks, setter>>

\* The locked function has run; those who accepted go on.
LockOver ==
    /\ lpc = "round" /\ Accepted
    /\ lockactive' = [t \in Readers |-> FALSE]
    /\ rpc' = [t \in Readers |-> IF rpc[t] = "accepting" THEN "break" ELSE rpc[t]]
    /\ LGoto("idle")
    /\ UNCHANGED <<block, fresh, sees, excuse, answer, futexwt, futexwake, target, locks, setter>>

-----------------------------------------------------------------------------
Sets(u) == Start(u) \/ StartFails(u) \/ Claim(u) \/ StoreError(u) \/ StoreValue(u) \/ Fill(u) \/ WakeReaders(u)
Reads(t) == Mark(t) \/ Sample(t) \/ Check(t) \/ Arm(t) \/ Wait(t) \/ Clear(t) \/ Settle(t) \/ Take(t)
Locks == Visit \/ LoadWt \/ Unarm \/ Bump \/ WakeAll \/ Leave \/ Round \/ LockOver

Next ==
    \/ \E u \in Setters : Sets(u)
    \/ \E t \in Readers : Enter(t) \/ Reads(t) \/ GiveUp(t) \/ NapOver(t)
    \/ LockBegin \/ Locks

Spec == Init /\ [][Next]_vars

\* The machine runs every thread.  Nothing makes a task end, a reader come, or
\* a lock begin; and no reader is helped by the clock.  A reader that leaves
\* polls a bit that the leader of a lock keeps setting for a moment and
\* clearing before it yields: it sees it clear at some time.
Fairness ==
    /\ \A t \in Readers : WF_vars(Reads(t)) /\ SF_vars(Settle(t))
    /\ \A u \in Setters : WF_vars(StoreError(u) \/ StoreValue(u) \/ Fill(u) \/ WakeReaders(u))
    /\ WF_vars(Locks)

FairSpec == Spec /\ Fairness

-----------------------------------------------------------------------------
TypeOK ==
    /\ pyxorigthread \in {NotStarted, Finished, Running}
    /\ errcode \in {0} \union Errors
    /\ pyxvalue \in {"none", Emsg} \union Values
    /\ state \in {"EMPTY", "WAIT", "FULL"}
    /\ rpc \in [Readers -> {"idle", "mark", "sample", "check", "accepting", "break", "wait",
                            "asleep", "clear", "settle", "take", "done"}]
    /\ answer \in [Readers -> Outcomes \union {Nothing} \union {Excused(e) : e \in Excuses}]
    /\ spc \in [Setters -> {"start", "idle", "refused", "error", "value", "fill", "wake", "done"}]
    /\ target \in Readers

\* wakeall touches the pyx of a reader only while that reader is still in it:
\* afterwards the pyx may have been freed (ct.c:104-106, mt.h:83).
WakesInside == lpc \in {"bump", "wakea"} => rpc[target] \notin {"idle", "done"}

\* A pyx implements a box that is written once and read whole (ct.c:213-275).
Box == INSTANCE WriteOnce WITH
    Excuses <- {Excused(e) : e \in Excuses},
    content <- IF state = "FULL" THEN [val |-> pyxvalue, err |-> errcode] ELSE Nothing

WritesOnce == Box!Spec

\* Nobody is left asleep on a pyx that has been filled and whose readers have
\* been woken, and the one-second limit of the wait is not what saves it
\* (ct.c:216-238, 273).
WokenWhenFull ==
    (state = "FULL" /\ \A u \in Setters : spc[u] # "wake")
        => \A t \in Readers : rpc[t] # "asleep"

\* A system lock does not wait for a pyx to be filled: a reader that sleeps while
\* a lock waits for it can be found through its pointer, or the leader has taken
\* the pointer and has yet to wake it (ct.c:99-107, 229-237).  So the next round of
\* wakeall gets it, without help from the clock.
FoundByLock == \A t \in Readers :
    rpc[t] = "asleep" /\ lockactive[t] =>
        futexwt[t] \/ (target = t /\ lpc \in {"bump", "wakea"})

\* A reader sleeps only where both who may have to wake it will: the thread that
\* fills the pyx and the leader of a system lock.
NoSleeperLeft == TypeOK /\ WokenWhenFull /\ FoundByLock

\* No system lock is under way, and nobody is inside a pyx that has been filled.
Quiet ==
    /\ lpc = "idle"
    /\ state = "FULL" => \A t \in Readers : rpc[t] \in {"idle", "done"}

\* Every reader of a pyx that has been filled comes back, and a system lock gets
\* its readers to accept whether the pyx is filled or not, woken by nothing that
\* depends on the clock (ct.c:99-107, 228-242).
EverybodyReturns == ~Quiet ~> Quiet
=============================================================================
