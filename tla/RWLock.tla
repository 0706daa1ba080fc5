------------------------------- MODULE RWLock -------------------------------
(***************************************************************************)
(* The read/write locks that guard the symbol tables, the locale tables,   *)
(* the thread tables and the other shared structures of the engine:        *)
(* READLOCK, READUNLOCK, WRITELOCK and WRITEUNLOCK of jsrc/j.h and the     *)
(* slow paths readlock and writelock of jsrc/ct.c.                         *)
(*                                                                         *)
(* The lock is one 16-bit word: its low byte counts read requests, its     *)
(* high byte write requests.  Every access is one atomic instruction.      *)
(***************************************************************************)
EXTENDS Integers, FiniteSets

CONSTANTS
    Threads,    \* the threads that use the lock
    Nobody      \* no thread

\* MAXTHREADS is 63; the lock relies on its being less than 256.
ASSUME ThreadsAssumption ==
    /\ IsFiniteSet(Threads)
    /\ Cardinality(Threads) < 256
    /\ Nobody \notin Threads

VARIABLES
    lock,       \* the word
    pc          \* where each thread is

vars == <<lock, pc>>

WLOCKBIT == 256
WORD == 65536

Reads(x)  == x % WLOCKBIT               \* x&(WLOCKBIT-1)
Writes(x) == (x % WORD) \div WLOCKBIT   \* x&-WLOCKBIT, as a count

Init ==
    /\ lock = 0
    /\ pc = [t \in Threads |-> "idle"]

Goto(t, to) == pc' = [pc EXCEPT ![t] = to]
Add(n) == lock' = (lock + n) % WORD

-----------------------------------------------------------------------------
\* Slips: plausible bugs, used by no action.

\* readlock puts its request up again while the writer is still there.
WritersGone_Eager(t) ==
    /\ pc[t] = "readPoll"
    /\ Goto(t, "readAgain")
    /\ UNCHANGED lock

\* writelock does not wait for the readers.
Drained_NoReaders(t) ==
    /\ pc[t] = "drain"
    /\ Goto(t, "writing")
    /\ UNCHANGED lock

\* WRITEUNLOCK takes its own request back and leaves those of the others.
WriteUnlock_OwnOnly(t) ==
    /\ pc[t] = "writing"
    /\ Add(-WLOCKBIT)
    /\ Goto(t, "idle")

\* READLOCK goes on whatever it finds.
ReadLock_IgnoresWriter(t) ==
    /\ pc[t] \in {"idle", "readAgain"}
    /\ Add(1)
    /\ Goto(t, "reading")

-----------------------------------------------------------------------------
\* Readers

\* READLOCK, and the retry at the foot of readlock: announce a read; it is granted
\* if no write was requested.
ReadLock(t) ==
    /\ pc[t] \in {"idle", "readAgain"}
    /\ Add(1)
    /\ Goto(t, IF Writes(lock) = 0 THEN "reading" ELSE "rescind")

\* readlock: withdraw the request, so that the writer is not held up.
Rescind(t) ==
    /\ pc[t] = "rescind"
    /\ Add(-1)
    /\ Goto(t, "readPoll")

\* readlock: spin until no write is requested.
WritersGone(t) ==
    /\ pc[t] = "readPoll"
    /\ Writes(lock) = 0
    /\ Goto(t, "readAgain")
    /\ UNCHANGED lock

ReadUnlock(t) ==
    /\ pc[t] = "reading"
    /\ Add(-1)
    /\ Goto(t, "idle")

-----------------------------------------------------------------------------
\* Writers

\* WRITELOCK, and the retry inside writelock: request a write.  The first to do so
\* owns the request; a word of 0 grants it at once.
WriteLock(t) ==
    /\ pc[t] \in {"idle", "writeAgain"}
    /\ Add(WLOCKBIT)
    /\ Goto(t, CASE Writes(lock) # 0 -> "writePoll"
                 [] lock = 0         -> "writing"
                 [] OTHER            -> "drain")

\* writelock: another writer came first.  Its unlock erases our request.
FirstWriterGone(t) ==
    /\ pc[t] = "writePoll"
    /\ Writes(lock) = 0
    /\ Goto(t, "writeAgain")
    /\ UNCHANGED lock

\* writelock: the reads that were under way, and requests about to be rescinded,
\* are gone.
Drained(t) ==
    /\ pc[t] = "drain"
    /\ Reads(lock) = 0
    /\ Goto(t, "writing")
    /\ UNCHANGED lock

\* WRITEUNLOCK: clear every write request.
WriteUnlock(t) ==
    /\ pc[t] = "writing"
    /\ lock' = Reads(lock)
    /\ Goto(t, "idle")

-----------------------------------------------------------------------------
\* What a thread that has begun to lock does without being asked.
Pursue(t) ==
    \/ pc[t] = "readAgain" /\ ReadLock(t)
    \/ pc[t] = "writeAgain" /\ WriteLock(t)
    \/ Rescind(t) \/ WritersGone(t) \/ FirstWriterGone(t) \/ Drained(t)

Unlock(t) == ReadUnlock(t) \/ WriteUnlock(t)

Next == \E t \in Threads :
    \/ ReadLock(t) \/ Rescind(t) \/ WritersGone(t) \/ ReadUnlock(t)
    \/ WriteLock(t) \/ FirstWriterGone(t) \/ Drained(t) \/ WriteUnlock(t)

Spec == Init /\ [][Next]_vars

\* A thread that spins or holds the lock runs on; nobody has to come for a lock.
Fairness == \A t \in Threads : WF_vars(Pursue(t)) /\ WF_vars(Unlock(t))

FairSpec == Spec /\ Fairness

-----------------------------------------------------------------------------
\* Properties

ReaderSteps == {"reading", "rescind"}               \* counted in the low byte
OwnerSteps  == {"drain", "writing"}                 \* owns the write request
WriterSteps == {"writePoll"} \cup OwnerSteps        \* may be counted in the high byte
Steps == {"idle", "readPoll", "readAgain", "writeAgain"} \cup ReaderSteps \cup WriterSteps

Counted    == {t \in Threads : pc[t] \in ReaderSteps}
Requesting == {t \in Threads : pc[t] \in WriterSteps}
Owner(t)   == pc[t] \in OwnerSteps

\* Every variable has its type.
TypeOK ==
    /\ lock \in Nat /\ lock < WORD
    /\ pc \in [Threads -> Steps]

\* A writer is alone: no other writer and no reader is past its lock, whatever the
\* order in which requests are put up, rescinded and cleared.
WriterAlone ==
    \A t, u \in Threads :
        pc[t] = "writing" /\ t # u => pc[u] \notin {"reading", "writing"}

\* The two counts of the word never run into each other: the low byte is the number of
\* read requests that are up, the high byte at most the number of writers who may
\* have one up (j.h: "With <256 threads, we split the lock into 2 8-bit sections").
CountsExact ==
    /\ Reads(lock) = Cardinality(Counted)
    /\ Writes(lock) <= Cardinality(Requesting)

\* A write is requested in the word exactly while some thread owns the request, and
\* only one does: so a request is never left up by nobody, and the unlock that
\* clears the requests of all clears none that was granted.
RequestOwned ==
    /\ Writes(lock) # 0 <=> \E t \in Threads : Owner(t)
    /\ \A t, u \in Threads : Owner(t) /\ Owner(u) => t = u

\* What the word says is exact: its type, its two counts and who owns the write request
\* (j.h:830, ct.c:310-340).
WordExact == TypeOK /\ CountsExact /\ RequestOwned

\* The state of ReadersWriter that a state of the lock stands for.
Readers   == {t \in Threads : pc[t] = "reading"}
Claimant  == IF \E t \in Threads : Owner(t)
               THEN CHOOSE t \in Threads : Owner(t) ELSE Nobody
IsWriting == \E t \in Threads : pc[t] = "writing"

Abstract == INSTANCE ReadersWriter WITH
    readers <- Readers, claim <- Claimant, writing <- IsWriting

\* The lock implements ReadersWriter: in particular no reader gets in once a writer
\* owns the request, and the writer goes on when the readers it found are done.
ReadersAndWriter == Abstract!RWSpec

\* The writer that owns the request gets the lock although readers keep coming
\* (ct.c: "The writer may hitch slightly when he sees our request, but we won't put
\* it up more than once"), and when threads want the lock, somebody gets it: they do
\* not keep each other spinning on the two halves of the word.
SomebodyGetsIn ==
    /\ \A t \in Threads : pc[t] = "drain" ~> pc[t] = "writing"
    /\ (\E t \in Threads : pc[t] # "idle")
         ~> (\E t \in Threads : pc[t] \in {"reading", "writing"})
=============================================================================
