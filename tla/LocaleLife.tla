----------------------------- MODULE LocaleLife -----------------------------
(***************************************************************************)
(* The life of a locale while several threads execute in it: the execution *)
(* counts that jtunquote (jsrc/sc.c), the sentences of the user (jsrc/io.c)*)
(* and the tasks (jsrc/ct.c) keep, deletion by 18!:55 (jtlocexmark), the   *)
(* half-deletion of jtlocdestroy, the usecount, which keeps a locale as a  *)
(* zombie while it is in a path, and its revival by jtstfindcre (sl.c).    *)
(*                                                                         *)
(* A step is one access to a word that other threads change, or a section  *)
(* under a lock.  The test of EXECCTPERM goes with the access after it: the *)
(* bit changes only when a zombie is revived.                              *)
(***************************************************************************)
EXTENDS Integers, Sequences, FiniteSets

CONSTANTS
    Console,    \* the thread of the user
    Worker,     \* a thread that runs its tasks
    Mortal,     \* numbered locales
    Z,          \* the locale z, permanent and the path of all others
    Null,       \* 0 as a path or a locale
    PathOf,     \* the other locales in the path of each: this does not change
    Depth       \* bound: how deep names are nested

Threads == {Console, Worker}
Locales == Mortal \union {Z}

ASSUME LocaleAssumption ==
    /\ Console # Worker /\ Z \notin Mortal /\ Null \notin Locales
    /\ PathOf \in [Mortal -> SUBSET Mortal] /\ \A l \in Mortal : l \notin PathOf[l]
    /\ Depth \in Nat

VARIABLES
    execct,     \* SYMLEXECCT: the count of executions
    notdeld,    \*     EXECCTNOTDELD: the user has not deleted the locale
    perm,       \*     EXECCTPERM: it is permanent
    path,       \* LOCPATH, Null when the locale has been destroyed
    AC,         \* the usecount
    freed,      \* the locales whose memory has been freed
    global,     \* jt->global
    bstkreqd,   \* jt->uflags.bstkreqd
    stack,      \* the calls of jtunquote each thread is in
    job,        \* kchain.global of the job that waits or runs, or Null
    pc, loc,
    toast,      \* history: locales that a thread used after they were destroyed
    raced       \* history: locales that were revived while another thread revived or was
                \*     about to destroy them

localeVars == <<execct, notdeld, perm, path, AC, freed>>
threadVars == <<global, bstkreqd, stack, job>>
historyVars == <<toast, raced>>
vars == <<localeVars, threadVars, pc, loc, historyVars>>

Users(l) == {k \in Mortal : l \in PathOf[k]}
NoLoc == [l |-> Z, then |-> "run", path |-> {}]

Init ==
    /\ execct = [l \in Locales |-> 0]
    /\ notdeld = [l \in Locales |-> TRUE]
    /\ perm = [l \in Locales |-> l = Z]
    /\ path = [l \in Locales |-> IF l = Z THEN {} ELSE PathOf[l]]
    /\ AC = [l \in Locales |-> 1 + Cardinality(Users(l))]
    /\ freed = {}
    /\ global = [t \in Threads |-> Z]
    /\ bstkreqd = [t \in Threads |-> FALSE]
    /\ stack = [t \in Threads |-> <<>>]
    /\ job = Null
    /\ pc = [t \in Threads |-> "idle"]
    /\ loc = [t \in Threads |-> NoLoc]
    /\ toast = {} /\ raced = {}

Goto(t, l) == pc' = [pc EXCEPT ![t] = l] /\ loc' = [loc EXCEPT ![t] = NoLoc]

At(t, l, what, then) ==
    /\ pc' = [pc EXCEPT ![t] = what]
    /\ loc' = [loc EXCEPT ![t] = [NoLoc EXCEPT !.l = l, !.then = then]]

-----------------------------------------------------------------------------
\* The word SYMLEXECCT: it is 0.
IsZero(l) == execct[l] = 0 /\ ~notdeld[l] /\ ~perm[l]

\* INCREXECCTIF.  The word is 0 when the locale has been, or is being, destroyed.
IncrIf(l) ==
    /\ execct' = [execct EXCEPT ![l] = IF perm[l] THEN @ ELSE @ + 1]
    /\ toast' = IF IsZero(l) THEN toast \union {l} ELSE toast

\* A slip: the word is tested as it was before it is decremented.
LastOut_Before(l) == execct[l] = 0 /\ ~notdeld[l] /\ ~perm[l]

LastOut(l) == execct[l] = 1 /\ ~notdeld[l] /\ ~perm[l]

\* DECREXECCT: who makes the word 0 destroys the locale, then goes on.
Decr(t, l, then) ==
    /\ execct' = [execct EXCEPT ![l] = @ - 1]
    /\ IF LastOut(l) THEN At(t, l, "destroy", then) ELSE Goto(t, then)

DecrIf(t, l, then) ==
    IF perm[l] THEN Goto(t, then) /\ UNCHANGED execct ELSE Decr(t, l, then)

\* A slip: the usecount is not raised.
Ra_Not(l) == UNCHANGED AC

Ra(l) == AC' = [AC EXCEPT ![l] = @ + 1]

\* fa of the locales of a set, of which those that no one uses are freed.
Fa(set) ==
    /\ AC' = [l \in Locales |-> IF l \in set THEN AC[l] - 1 ELSE AC[l]]
    /\ freed' = freed \union {l \in set \ {Z} : AC[l] = 1}

-----------------------------------------------------------------------------
\* A sentence of the user starts (jtimmexexecct), or a task (jtthreadmain).
Start(t) ==
    /\ pc[t] = IF t = Console THEN "idle" ELSE "starting"
    /\ IncrIf(global[t])
    /\ bstkreqd' = [bstkreqd EXCEPT ![t] = TRUE]
    /\ Goto(t, "run")
    /\ UNCHANGED <<notdeld, perm, path, AC, freed, global, stack, job, raced>>

\* It ends.  The locale in which a sentence ends is that of the next one.
End(t) ==
    /\ pc[t] = "run" /\ stack[t] = <<>>
    /\ bstkreqd' = [bstkreqd EXCEPT ![t] = FALSE]
    /\ DecrIf(t, global[t], IF t = Console THEN "idle" ELSE "ended")
    /\ UNCHANGED <<notdeld, perm, path, AC, freed, global, stack, job, historyVars>>

\* u t. '' : the locale of the caller is protected by its usecount and handed over.
Submit ==
    /\ pc[Console] = "run" /\ job = Null
    /\ job' = global[Console]
    /\ Ra(global[Console])
    /\ UNCHANGED <<execct, notdeld, perm, path, freed, global, bstkreqd, stack, pc, loc,
                   historyVars>>

TakeJob ==
    /\ pc[Worker] = "idle" /\ job # Null
    /\ global' = [global EXCEPT ![Worker] = job]
    /\ Goto(Worker, "starting")
    /\ UNCHANGED <<localeVars, bstkreqd, stack, job, historyVars>>

FreeJob ==
    /\ pc[Worker] = "ended"
    /\ Fa({job}) /\ job' = Null
    /\ Goto(Worker, "idle")
    /\ UNCHANGED <<execct, notdeld, perm, path, global, bstkreqd, stack, historyVars>>

-----------------------------------------------------------------------------
\* jtstfindcre: a locale is looked up, for a call, for 18!:4 or for 18!:55.  One that
\* is a zombie is first revived (18!:55 does not ask).
Find(t, l, what) ==
    /\ pc[t] = "run" /\ l \notin freed
    /\ what = "call" => Len(stack[t]) < Depth
    /\ At(t, l, IF path[l] = Null /\ what # "delete" THEN "revive" ELSE what, what)
    /\ UNCHANGED <<localeVars, threadVars, historyVars>>

Undergoing(l, places) == \E t \in Threads : pc[t] \in places /\ loc[t].l = l

\* ra and REINITZOMBLOC, as a permanent locale.
Revive(t) ==
    LET l == loc[t].l IN
    /\ pc[t] = "revive"
    /\ Ra(l)
    /\ path' = [path EXCEPT ![l] = {}]
    /\ execct' = [execct EXCEPT ![l] = 0]
    /\ notdeld' = [notdeld EXCEPT ![l] = TRUE]
    /\ perm' = [perm EXCEPT ![l] = TRUE]
    /\ toast' = IF l \in freed THEN toast \union {l} ELSE toast
    /\ raced' = IF path[l] # Null \/ Undergoing(l, {"destroy"}) THEN raced \union {l}
                 ELSE raced
    /\ At(t, l, loc[t].then, "run")
    /\ UNCHANGED <<freed, threadVars>>

\* A slip: the count is left to the caller where a cocurrent has set bstkreqd.
Counted_NotAfterChange(t, l) == l # global[t] /\ ~perm[l] /\ ~bstkreqd[t]

\* The count changes only if the locale does, and is not permanent.
Counted(t, l) == l # global[t] /\ ~perm[l]

\* jtunquote: a name is executed in the locale l.
Call(t) ==
    LET l == loc[t].l
        counted == Counted(t, l)
    IN  /\ pc[t] = "call"
        /\ IF counted THEN IncrIf(l) ELSE UNCHANGED <<execct, toast>>
        /\ stack' = [stack EXCEPT ![t] = Append(@,
                        [explocale |-> IF counted THEN l ELSE Null,
                         global |-> global[t], changed |-> bstkreqd[t]])]
        /\ global' = [global EXCEPT ![t] = l]
        /\ bstkreqd' = [bstkreqd EXCEPT ![t] = FALSE]
        /\ Goto(t, "run")
        /\ UNCHANGED <<notdeld, perm, path, AC, freed, job, raced>>

Top(t) == stack[t][Len(stack[t])]
Popped(t) == SubSeq(stack[t], 1, Len(stack[t]) - 1)

\* The name returns: the last locale that cocurrent went to is left ...
Return(t) ==
    /\ pc[t] = "run" /\ stack[t] # <<>>
    /\ IF bstkreqd[t] THEN DecrIf(t, global[t], "leave")
                      ELSE Goto(t, "leave") /\ UNCHANGED execct
    /\ bstkreqd' = [bstkreqd EXCEPT ![t] = FALSE]
    /\ UNCHANGED <<notdeld, perm, path, AC, freed, global, stack, job, historyVars>>

\* ... then the locale of the call ...
Leave(t) ==
    /\ pc[t] = "leave" /\ Top(t).explocale # Null
    /\ Decr(t, Top(t).explocale, "leave")
    /\ stack' = [stack EXCEPT ![t] = Append(Popped(t), [Top(t) EXCEPT !.explocale = Null])]
    /\ UNCHANGED <<notdeld, perm, path, AC, freed, global, bstkreqd, job, historyVars>>

\* ... and the caller goes on where it was.
Restore(t) ==
    /\ pc[t] = "leave" /\ Top(t).explocale = Null
    /\ stack' = [stack EXCEPT ![t] = Popped(t)]
    /\ global' = [global EXCEPT ![t] = Top(t).global]
    /\ bstkreqd' = [bstkreqd EXCEPT ![t] = Top(t).changed]
    /\ Goto(t, "run")
    /\ UNCHANGED <<localeVars, job, historyVars>>

\* cocurrent (18!:4) in the locale that calls it: the new locale is entered ...
Enter(t) ==
    /\ pc[t] = "enter"
    /\ IncrIf(loc[t].l)
    /\ At(t, loc[t].l, "switch", "run")
    /\ UNCHANGED <<notdeld, perm, path, AC, freed, threadVars, raced>>

\* A slip: the locale that was current is left in any case.
Moved_Always(t) == TRUE

Moved(t) == bstkreqd[t]

\* ... and the one before it is left if a cocurrent had moved to it.
Switch(t) ==
    /\ pc[t] = "switch"
    /\ IF Moved(t) THEN DecrIf(t, global[t], "run") ELSE Goto(t, "run") /\ UNCHANGED execct
    /\ global' = [global EXCEPT ![t] = loc[t].l]
    /\ bstkreqd' = [bstkreqd EXCEPT ![t] = TRUE]
    /\ UNCHANGED <<notdeld, perm, path, AC, freed, stack, job, historyVars>>

-----------------------------------------------------------------------------
\* locdellock: who deletes holds it until the locale is destroyed.
Deleting == \E t \in Threads : "deleted" \in {pc[t], loc[t].then}

\* DELEXECCTIF: the locale goes at once if nothing runs in it.
Delete(t) ==
    LET l == loc[t].l IN
    /\ pc[t] = "delete" /\ ~Deleting
    /\ notdeld' = [notdeld EXCEPT ![l] = @ /\ perm[l]]
    /\ IF execct[l] = 0 /\ ~perm[l] THEN At(t, l, "destroy", "deleted") ELSE Goto(t, "run")
    /\ toast' = IF l \in freed THEN toast \union {l} ELSE toast
    /\ UNCHANGED <<execct, perm, path, AC, freed, threadVars, raced>>

Deleted(t) ==
    /\ pc[t] = "deleted" /\ Goto(t, "run")
    /\ UNCHANGED <<localeVars, threadVars, historyVars>>

\* jtlocdestroy: the first who takes the path goes on.
Destroy(t) ==
    LET l == loc[t].l IN
    /\ pc[t] = "destroy"
    /\ path' = [path EXCEPT ![l] = Null]
    /\ IF path[l] = Null THEN Goto(t, loc[t].then)
       ELSE /\ pc' = [pc EXCEPT ![t] = "empty"]
            /\ loc' = [loc EXCEPT ![t].path = path[l]]
    /\ UNCHANGED <<execct, notdeld, perm, AC, freed, threadVars, historyVars>>

\* The names and the path go ...
Empty(t) ==
    /\ pc[t] = "empty"
    /\ Fa(loc[t].path)
    /\ At(t, loc[t].l, "release", loc[t].then)
    /\ UNCHANGED <<execct, notdeld, perm, path, threadVars, historyVars>>

\* ... then the usecount; the thread that ends its execution in the locale goes to z.
Release(t) ==
    LET l == loc[t].l IN
    /\ pc[t] = "release"
    /\ Fa({l})
    /\ global' = IF global[t] = l THEN [global EXCEPT ![t] = Z] ELSE global
    /\ Goto(t, loc[t].then)
    /\ UNCHANGED <<execct, notdeld, perm, path, bstkreqd, stack, job, historyVars>>

Next ==
    \/ Submit \/ TakeJob \/ FreeJob
    \/ \E t \in Threads :
         \/ Start(t) \/ End(t) \/ Revive(t) \/ Call(t) \/ Return(t) \/ Leave(t)
         \/ Restore(t) \/ Enter(t) \/ Switch(t) \/ Delete(t) \/ Deleted(t)
         \/ Destroy(t) \/ Empty(t) \/ Release(t)
         \/ \E l \in Locales, what \in {"call", "enter", "delete"} : Find(t, l, what)

Spec == Init /\ [][Next]_vars
-----------------------------------------------------------------------------
TypeOK ==
    /\ execct \in [Locales -> Int] /\ AC \in [Locales -> Nat]
    /\ {notdeld, perm} \subseteq [Locales -> BOOLEAN]
    /\ {freed, toast, raced} \subseteq SUBSET Mortal
    /\ global \in [Threads -> Locales] /\ job \in Locales \union {Null}

One(b) == IF b THEN 1 ELSE 0

\* Whether thread t has counted its execution in l: in the locale that cocurrent
\* went to, in those it will return to, in those that it called into.
Counts(t, l) ==
    LET Frames(P(_)) == Cardinality({i \in DOMAIN stack[t] : P(stack[t][i])})
    IN  One(bstkreqd[t] /\ global[t] = l) + One(pc[t] = "switch" /\ loc[t].l = l)
        + Frames(LAMBDA f : f.changed /\ f.global = l)
        + Frames(LAMBDA f : f.explocale = l)

\* The count of a locale is that of the executions in it, whatever calls, cocurrents,
\* returns and tasks all threads are in the middle of; only a locale that a thread has
\* entered after its destruction ("we are toast", sc.c:249) or that was made permanent
\* is excepted.  So 18!:55 and the last DECREXECCT find 0 neither early nor late.
CountExact ==
    TypeOK /\ \A l \in Mortal \ toast :
        ~perm[l] => execct[l] = Counts(Console, l) + Counts(Worker, l)

\* The locales that t executes in, or will return to.
Executing(t) ==
    (IF (stack[t] # <<>> \/ bstkreqd[t]) /\ "leave" \notin {pc[t], loc[t].then}
     THEN {global[t]} ELSE {})
    \union {stack[t][i].global : i \in DOMAIN stack[t]}

\* "To prevent half-deletion while the locale is running" (sc.c:311): no locale that a
\* thread executes in, or will return to, is emptied or freed, whoever deletes it.
AliveWhileRunning ==
    \A t \in Threads, l \in Mortal \ (toast \union raced) :
        l \in Executing(t) => path[l] # Null /\ l \notin freed

\* A locale that was deleted goes: it is destroyed, or its count is not 0 and whoever
\* makes it 0 will see it, or somebody is on the way to destroy it.
DeletedGoes ==
    \A l \in Mortal \ (toast \union raced) :
        ~notdeld[l] /\ path[l] # Null =>
            execct[l] > 0 \/ Undergoing(l, {"destroy"})

\* The usecount is that of a locale that lives, of the paths it is in and of the job
\* that starts in it; the memory is freed when, and only when, none of these is left:
\* a zombie outlives its paths in no order of deletions, revivals and ends of tasks,
\* unless two threads have revived it at once.
UseExact ==
    \A l \in Mortal \ (toast \union raced) :
        /\ AC[l] = One(path[l] # Null) + One(Undergoing(l, {"empty", "release"}))
                   + Cardinality({k \in Users(l) : path[k] # Null /\ l \in path[k]})
                   + Cardinality({t \in Threads : pc[t] = "empty" /\ l \in loc[t].path})
                   + One(job = l)
        /\ l \in freed <=> AC[l] = 0

\* "We change to z so that (1) we can be assured jt->global is always valid" (sl.c:738):
\* the locale of the user, between two sentences, has not been freed.
GlobalIsValid == pc[Console] = "idle" => global[Console] \notin freed
=============================================================================
