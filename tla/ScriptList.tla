----------------------------- MODULE ScriptList -----------------------------
(***************************************************************************)
(* The list of script names of jsrc/xs.c: jtaddscriptname, which a load    *)
(* (0!:) and 4!:6 call, with jtextendunderlock of jsrc/ct.c.  The index of *)
(* a name, its script number, is kept in every definition of the script.   *)
(*                                                                         *)
(* The list is used under startlock: a step is a whole section under that  *)
(* lock, which is let go while memory is allocated for a longer list.      *)
(***************************************************************************)
EXTENDS Integers, FiniteSets

CONSTANTS
    Threads,
    Names,          \* the names of the scripts
    Size,           \* the length of the first list
    Garbage         \* what is past the valid items of a new list

ASSUME ScriptAssumption == Size \in Nat \ {0} /\ Garbage \notin Names

VARIABLES
    slist,      \* AAV(slist): the names
    AM,         \* how many of them are valid
    pc,
    loc,        \* w, i and oldn of the threads that wait for memory
    given,      \* the numbers that were returned, with their names
    overtaken   \* history: the list changed while a thread was extending it

vars == <<slist, AM, pc, loc, given, overtaken>>

AN == Cardinality(DOMAIN slist)

Init ==
    /\ slist = [k \in 0 .. Size - 1 |-> Garbage]
    /\ AM = 0
    /\ pc = [t \in Threads |-> "idle"]
    /\ loc = [t \in Threads |-> <<>>]
    /\ given = {}
    /\ overtaken = FALSE

Return(t, w, i) ==
    /\ pc' = [pc EXCEPT ![t] = "idle"]
    /\ loc' = [loc EXCEPT ![t] = <<>>]
    /\ given' = given \union {<<w, i>>}

Valid == 0 .. AM - 1

\* A slip, used by no action: a search that looks over the first name.
IndexOf_NotFirst(w) ==
    IF \E k \in Valid \ {0} : slist[k] = w
    THEN CHOOSE k \in Valid : slist[k] = w
    ELSE AM

\* indexof: the place of the first valid name that is w, or AM.
IndexOf(w) ==
    IF \E k \in Valid : slist[k] = w
    THEN CHOOSE k \in Valid : slist[k] = w /\ \A j \in 0 .. k - 1 : slist[j] # w
    ELSE AM

\* The name goes to the place i that the search gave.
Write(list, t, w, i) ==
    /\ slist' = [list EXCEPT ![i] = w]
    /\ AM' = i + 1
    /\ Return(t, w, i)

WaitForMemory(list, t, w, i) ==
    /\ slist' = list
    /\ pc' = [pc EXCEPT ![t] = "extend"]
    /\ loc' = [loc EXCEPT ![t] = <<w, i, Cardinality(DOMAIN list)>>]
    /\ UNCHANGED <<AM, given>>

Store(list, t, w, i) ==
    IF AM = Cardinality(DOMAIN list) THEN WaitForMemory(list, t, w, i)
                                     ELSE Write(list, t, w, i)

Add(t) ==
    /\ pc[t] = "idle"
    /\ \E w \in Names :
         IF IndexOf(w) = AM THEN Store(slist, t, w, AM)
         ELSE Return(t, w, IndexOf(w)) /\ UNCHANGED <<slist, AM>>
    /\ UNCHANGED overtaken

Fail(t) ==
    /\ pc[t] = "extend"
    /\ pc' = [pc EXCEPT ![t] = "idle"]
    /\ loc' = [loc EXCEPT ![t] = <<>>]
    /\ UNCHANGED <<slist, AM, given, overtaken>>

\* jtextendunderlock: only the valid names are copied.
Longer == [k \in 0 .. 2 * AN - 1 |-> IF k \in Valid THEN slist[k] ELSE Garbage]

\* The lock is back: the list is replaced unless another thread did.
Resume(t) ==
    /\ pc[t] = "extend"
    /\ overtaken' = (overtaken \/ AM # loc[t][2])
    /\ Store(IF AN = loc[t][3] THEN Longer ELSE slist, t, loc[t][1], loc[t][2])

Next == \E t \in Threads : Add(t) \/ Fail(t) \/ Resume(t)
Spec == Init /\ [][Next]_vars

-----------------------------------------------------------------------------
TypeOK ==
    /\ AM \in 0 .. AN
    /\ \A k \in DOMAIN slist : slist[k] \in Names \union {Garbage}
    /\ pc \in [Threads -> {"idle", "extend"}]
    /\ given \subseteq Names \X (0 .. AN - 1)

\* A script number that was returned names its script ever after: 4!:4 and
\* the debugger find the name by it ("no problem if we lose lock since list only
\* grows", xs.c:166); and a script has one number, however often and by whomever
\* it is loaded (xs.c:112-116).  The place of a new name is found before the lock
\* is let go, so this ends when another name was added meanwhile.  And always every
\* valid place of the list holds a name, never what was past the end of a list that
\* was copied (ct.c:74).
NumberNamesScript ==
    /\ TypeOK
    /\ \A k \in Valid : slist[k] # Garbage
    /\ ~overtaken =>
        /\ \A g \in given : g[2] \in Valid /\ slist[g[2]] = g[1]
        /\ \A g, h \in given : g[1] = h[1] => g[2] = h[2]
=============================================================================
