--------------------------- MODULE ReadersWriter ---------------------------
(***************************************************************************)
(* What READLOCK, READUNLOCK, WRITELOCK and WRITEUNLOCK promise: readers   *)
(* share, a writer is alone, and a writer that has claimed the lock lets   *)
(* the readers it found finish and no new ones in.                         *)
(***************************************************************************)
CONSTANTS Threads, Nobody   \* Nobody is no element of Threads

VARIABLES
    readers,    \* the threads between READLOCK and READUNLOCK
    claim,      \* the writer new readers have to wait for
    writing     \* that writer is between WRITELOCK and WRITEUNLOCK

rwVars == <<readers, claim, writing>>

RWInit == readers = {} /\ claim = Nobody /\ writing = FALSE

BeginRead(t) ==
    /\ t \notin readers /\ claim = Nobody
    /\ readers' = readers \cup {t}
    /\ UNCHANGED <<claim, writing>>

EndRead(t) ==
    /\ t \in readers
    /\ readers' = readers \ {t}
    /\ UNCHANGED <<claim, writing>>

Claim(t) ==
    /\ claim = Nobody /\ t \notin readers
    /\ claim' = t
    /\ UNCHANGED <<readers, writing>>

BeginWrite(t) ==
    /\ claim = t /\ readers = {} /\ ~writing
    /\ writing' = TRUE
    /\ UNCHANGED <<readers, claim>>

EndWrite(t) ==
    /\ claim = t /\ writing
    /\ claim' = Nobody
    /\ writing' = FALSE
    /\ UNCHANGED readers

\* WRITELOCK of a free lock claims it and begins at once.
ClaimAndWrite(t) ==
    /\ claim = Nobody /\ readers = {}
    /\ claim' = t
    /\ writing' = TRUE
    /\ UNCHANGED readers

RWNext == \E t \in Threads :
    \/ BeginRead(t) \/ EndRead(t)
    \/ Claim(t) \/ BeginWrite(t) \/ ClaimAndWrite(t) \/ EndWrite(t)

RWSpec == RWInit /\ [][RWNext]_rwVars
=============================================================================
