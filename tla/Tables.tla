------------------------------- MODULE Tables -------------------------------
(***************************************************************************)
(* The tables that grow by jtextendunderlock: the list of scripts, which   *)
(* this module extends, and those of locales, of external calls and of     *)
(* remembered results.  The tables have nothing in common, so a behaviour  *)
(* uses one of them.                                                       *)
(***************************************************************************)
EXTENDS ScriptList, Sequences

CONSTANTS
    LocaleSize, MaxNumber, Hashes,                              \* of LocaleNumbers
    Callers,                                                    \* of CdTable and MemoTable
    Strings, LibraryOf, NoString, CallSizes, NLIBS, LibSlots, MemoryFails, MaxCalls,
    Arguments, Rows, Slots, Range32, Functions32, MaxResults

\* A table that is not more than half full has room for one more and an empty slot.
ASSUME LocalesAssumption ==
    /\ LocaleSize \in Nat /\ LocaleSize >= 3
    /\ MaxNumber \in Nat
    /\ Hashes \subseteq [0 .. MaxNumber - 1 -> Nat]

\* Some thread calls; the first sizes are those of blocks.
ASSUME CallsAssumption ==
    /\ IsFiniteSet(Callers) /\ Callers # {}
    /\ CallSizes \in [{"cdstr", "cdarg", "cdhash"} -> Nat \ {0}]
    /\ NLIBS \in Nat

\* Hashes have 32 bits; of a hash table half of which is full one more place can be used.
ASSUME MemoAssumption ==
    /\ {Rows, Slots, Range32} \subseteq Nat \ {0} /\ Slots >= 3
    /\ Functions32 \subseteq [Arguments -> 0 .. Range32 - 1]

VARIABLES
    table,                                                      \* the one in use
    blocks, stnum, hashL, pcL, locL, live, issued, misuse, emptied,
    cdstr, cdarg, cdhash, cdhashl, AN_cd, pcC, locC,
    ht3, hashM, pcM, locM

localesVars == <<blocks, stnum, hashL, pcL, locL, live, issued, misuse, emptied>>
callsVars   == <<cdstr, cdarg, cdhash, cdhashl, AN_cd, pcC, locC>>
memoVars    == <<ht3, hashM, pcM, locM>>
allVars     == <<table, vars, localesVars, callsVars, memoVars>>

L == INSTANCE LocaleNumbers WITH hash <- hashL, pc <- pcL, loc <- locL, Size <- LocaleSize

C == INSTANCE CdTable WITH
        AN <- AN_cd, pc <- pcC, loc <- locC,
        Threads <- Callers, Nothing <- NoString, Sizes <- CallSizes, MaxEntries <- MaxCalls

M == INSTANCE MemoTable WITH
        hash <- hashM, pc <- pcM, loc <- locM,
        Threads <- Callers, MaxEntries <- MaxResults

\* A table that is not used has some hash function.
SomeHash(functions) == CHOOSE f \in functions : TRUE

TablesInit ==
    /\ table \in {"scripts", "locales", "calls", "memo"}
    /\ Init /\ L!Init /\ C!Init /\ M!Init
    /\ table # "locales" => hashL = SomeHash(Hashes)
    /\ table # "memo" => hashM = SomeHash(Functions32)

TablesNext ==
    \/ table = "scripts" /\ Next   /\ UNCHANGED <<table, localesVars, callsVars, memoVars>>
    \/ table = "locales" /\ L!Next /\ UNCHANGED <<table, vars, callsVars, memoVars>>
    \/ table = "calls"   /\ C!Next /\ UNCHANGED <<table, vars, localesVars, memoVars>>
    \/ table = "memo"    /\ M!Next /\ UNCHANGED <<table, vars, localesVars, callsVars>>

TablesSpec == TablesInit /\ [][TablesNext]_allVars

-----------------------------------------------------------------------------
\* The table of locales: sl.c, LocaleNumbers.  A locale is found exactly when it
\* lives, and nobody uses a table that was replaced, until one is found empty.
FoundIffLive == L!FoundIffLive

\* The cache of calls: x15.c, CdTable.  No entry is mixed from two strings.
TextInPlace == C!TextInPlace

\* What is stored is found, until the hash table grows, and every search ends.
HashComplete == C!HashComplete

\* The table of results: a.c, MemoTable.  What was stored is found again.
StoredIsFound == M!StoredIsFound

\* An argument has one answer.
OneAnswer == M!OneAnswer
=============================================================================
