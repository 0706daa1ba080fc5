------------------------------ MODULE CdTable -------------------------------
(***************************************************************************)
(* The cache of parsed calls of external functions (15!:0) of jsrc/x15.c:  *)
(* cdlookup, cdlookupl, cdload and cdinsert, with jtextendunderlock of     *)
(* jsrc/ct.c.  Three tables only grow: the strings that were parsed        *)
(* (cdstr), what they were parsed into (cdarg), and a hash table of cdarg  *)
(* (cdhash).  A fourth, of the libraries that are loaded (cdhashl), has a  *)
(* fixed size.                                                             *)
(*                                                                         *)
(* The tables change under cdlock, so a step is a whole section under that *)
(* lock.  cdload looks at cdhashl without the lock: here it sees the table *)
(* as it is at one moment.  Probing is left out: a hash table is the set   *)
(* of the places of cdarg that can be found through it.                    *)
(***************************************************************************)
EXTENDS Integers, Sequences, FiniteSets

CONSTANTS
    Threads,
    Strings,        \* left arguments of 15!:0
    LibraryOf,      \* the library that each names
    Nothing,        \* no string
    Sizes,          \* the first size of cdstr, cdarg and cdhash
    NLIBS,          \* max number of libraries
    LibSlots,       \* the size of cdhashl
    MemoryFails,    \* whether an allocation may fail
    MaxEntries      \* no call starts with this many strings: a bound

VARIABLES
    cdstr,      \* the strings, each one item; its length is AM(cdstr)
    cdarg,      \* the parsed calls: string, offset ai of it, handle known
    cdhash,
    cdhashl,
    AN,         \* the allocated sizes
    pc,
    loc         \* the call in progress

vars == <<cdstr, cdarg, cdhash, cdhashl, AN, pc, loc>>
tables == <<cdstr, cdarg, cdhash, cdhashl, AN>>

\* li: the library name is to be hashed.  ai: the offset of the string.
\* oldn: the size before memory is allocated.
NoCall == [a |-> Nothing, li |-> FALSE, ai |-> 0, oldn |-> 0]

Init ==
    /\ cdstr = <<>> /\ cdarg = <<>> /\ cdhash = {} /\ cdhashl = {}
    /\ AN = Sizes
    /\ pc = [t \in Threads |-> "idle"]
    /\ loc = [t \in Threads |-> NoCall]

Finish(t) ==
    /\ pc' = [pc EXCEPT ![t] = "idle"]
    /\ loc' = [loc EXCEPT ![t] = NoCall]

\* AM(cdhash): each place is hashed once.
AMhash == Cardinality(cdhash)

InHash(a) == \E k \in cdhash : cdarg[k].str = a
LibraryKnown(lib) == \E k \in cdhashl : LibraryOf[cdarg[k].str] = lib

-----------------------------------------------------------------------------
\* jtcdparse: a string that was seen before is not parsed again.
Call(t) ==
    /\ pc[t] = "idle"
    /\ Len(cdstr) < MaxEntries
    /\ \E a \in Strings :
         /\ ~InHash(a)
         /\ loc' = [loc EXCEPT ![t] = [NoCall EXCEPT !.a = a]]
         /\ pc' = [pc EXCEPT ![t] = "load"]
    /\ UNCHANGED tables

\* cdload: a library that is not known is loaded, up to NLIBS of them.
Load(t) ==
    /\ pc[t] = "load"
    /\ LibraryKnown(LibraryOf[loc[t].a]) \/ Cardinality(cdhashl) < NLIBS
    /\ loc' = [loc EXCEPT ![t].li = ~LibraryKnown(LibraryOf[loc[t].a])]
    /\ pc' = [pc EXCEPT ![t] = "insert"]
    /\ UNCHANGED tables

\* Too many libraries, no such library or no such procedure.
LoadFails(t) ==
    /\ pc[t] = "load"
    /\ Finish(t)
    /\ UNCHANGED tables

-----------------------------------------------------------------------------
\* cdinsert, in stages that pass on the tables as they are so far.  A table
\* that must grow lets the lock go.
Wait(t, table, call) ==
    /\ pc' = [pc EXCEPT ![t] = table]
    /\ loc' = [loc EXCEPT ![t] = [call EXCEPT !.oldn = AN'[table]]]

\* DQ(AM(cdarg)-k,...): the new place, which is the last.
HashSelf(k) == cdhash \union {k}

Crowded(size, n) == size <= 2 * n

\* A slip: a string whose library is known is not hashed.
HashStage_LibraryOnly(t, call) ==
    IF Crowded(AN'["cdhash"], Len(cdarg'))
    THEN Wait(t, "cdhash", call) /\ UNCHANGED cdhash
    ELSE cdhash' = (IF call.li THEN HashSelf(Len(cdarg')) ELSE cdhash) /\ Finish(t)

HashStage(t, call) ==
    IF Crowded(AN'["cdhash"], Len(cdarg'))
    THEN Wait(t, "cdhash", call) /\ UNCHANGED cdhash
    ELSE cdhash' = HashSelf(Len(cdarg')) /\ Finish(t)

\* A slip: the offset is taken after the lock came back.
Entry_LateOffset(call) == [str |-> call.a, ai |-> Len(cdstr')]

Entry(call) == [str |-> call.a, ai |-> call.ai]

Room(n, size) == n < size

\* The library goes to cdhashl while that has room; without room the call is
\* cached all the same, and fails.
ArgStage(t, call) ==
    IF Room(Len(cdarg), AN'["cdarg"])
    THEN /\ cdarg' = Append(cdarg, Entry(call))
         /\ cdhashl' = IF call.li /\ Cardinality(cdhashl) < LibSlots
                       THEN cdhashl \union {Len(cdarg) + 1} ELSE cdhashl
         /\ HashStage(t, call)
    ELSE Wait(t, "cdarg", call) /\ UNCHANGED <<cdarg, cdhashl, cdhash>>

StrStage(t, call) ==
    IF Room(Len(cdstr), AN'["cdstr"])
    THEN /\ cdstr' = Append(cdstr, call.a)
         /\ ArgStage(t, [call EXCEPT !.ai = Len(cdstr) + 1])
    ELSE Wait(t, "cdstr", call) /\ UNCHANGED <<cdstr, cdarg, cdhashl, cdhash>>

Insert(t) ==
    /\ pc[t] = "insert"
    /\ UNCHANGED AN
    /\ StrStage(t, loc[t])

Fail(t) ==
    /\ MemoryFails
    /\ pc[t] \in {"cdstr", "cdarg", "cdhash"}
    /\ Finish(t)
    /\ UNCHANGED tables

\* jtextendunderlock: the table is twice as large unless it changed meanwhile.
Extend(t, table) ==
    /\ pc[t] = table
    /\ AN' = IF AN[table] = loc[t].oldn THEN [AN EXCEPT ![table] = 2 * @] ELSE AN

ResumeStr(t) == Extend(t, "cdstr") /\ StrStage(t, loc[t])
ResumeArg(t) == Extend(t, "cdarg") /\ UNCHANGED cdstr /\ ArgStage(t, loc[t])

\* cdhash comes back empty.  k is set to AM(cdarg), so no place is hashed.
ResumeHash(t) ==
    /\ Extend(t, "cdhash")
    /\ cdhash' = IF AN[pc[t]] = loc[t].oldn THEN {} ELSE cdhash
    /\ Finish(t)
    /\ UNCHANGED <<cdstr, cdarg, cdhashl>>

Next == \E t \in Threads :
    \/ Call(t) \/ Load(t) \/ LoadFails(t) \/ Insert(t) \/ Fail(t)
    \/ ResumeStr(t) \/ ResumeArg(t) \/ ResumeHash(t)

Spec == Init /\ [][Next]_vars

-----------------------------------------------------------------------------
TypeOK ==
    /\ Len(cdstr) <= AN["cdstr"]
    /\ Len(cdarg) <= AN["cdarg"]
    /\ cdhash \subseteq 1 .. Len(cdarg)
    /\ cdhashl \subseteq 1 .. Len(cdarg)
    /\ pc \in [Threads -> {"idle", "load", "insert", "cdstr", "cdarg", "cdhash"}]

\* The hash table is the first one and the next string still fits in.
Unextended == AN["cdhash"] = Sizes["cdhash"] /\ ~Crowded(AN["cdhash"], Len(cdarg))

\* "It is known not to be present already" (x15.c:808), and "AM(cdhashl) is #
\* entries filled, max (NLIBS)" (x15.c:761): both are tested in a section before
\* that of the insertion.  So several threads may each add a string once, but none
\* adds it again, and each other thread may add one library beyond the limit.
OnceEach ==
    /\ Unextended => \A a \in Strings :
         Cardinality({k \in 1 .. Len(cdarg) : cdarg[k].str = a}) <= Cardinality(Threads)
    /\ Cardinality(cdhashl) < NLIBS + Cardinality(Threads)

\* The text of each parsed call stays its own, although the lock is let go
\* between the string and the call (x15.c:823-831): the look up compares it.
\* No table is longer than what was allocated for it, and none holds a string more
\* often than threads can race to add it.
TextInPlace == TypeOK /\ OnceEach /\ \A k \in 1 .. Len(cdarg) :
    /\ cdstr[cdarg[k].ai] = cdarg[k].str
    /\ \A j \in 1 .. Len(cdarg) \ {k} : cdarg[j].ai # cdarg[k].ai

\* "AM(cdhash) is # entries filled, always equal to AM(cdarg)" (x15.c:759):
\* whenever no thread is in cdinsert, all that was parsed can be found, until
\* the hash table is extended.  And a probe for a new string always ends: "when
\* 2*cdna exceeds # entries allocation is doubled" (x15.c:757).
HashComplete ==
    /\ 2 * AMhash < AN["cdhash"] \/ cdhash = {}
    /\ Unextended /\ (\A t \in Threads : pc[t] \in {"idle", "load", "insert"})
        => AMhash = Len(cdarg)
=============================================================================
