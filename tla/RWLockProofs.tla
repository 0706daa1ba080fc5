---------------------------- MODULE RWLockProofs ----------------------------
(***************************************************************************)
(* The read/write lock for any set of fewer than 256 threads: its counts   *)
(* are exact, a writer is alone, and it implements ReadersWriter.          *)
(***************************************************************************)
EXTENDS RWLock, FiniteSetTheorems, TLAPS

\* The properties that the runs check are inductive together: a reader may go on
\* because no write is requested, hence nobody owns one; the writer may begin
\* because no read is counted, hence nobody reads.
IndInv == TypeOK /\ CountsExact /\ RequestOwned /\ WriterAlone

-----------------------------------------------------------------------------
\* The word: what each instruction does to the two counts.

\* A word is unchanged by the cut to 16 bits.
LEMMA Fits == ASSUME NEW x \in Int, 0 <= x, x < 65536 PROVE x % WORD = x
BY DEF WORD

LEMMA WordParts ==
    ASSUME NEW x \in Nat, x < WORD
    PROVE  /\ Reads(x) \in Nat /\ Reads(x) <= 255
           /\ Writes(x) \in Nat /\ Writes(x) <= 255
<1>1. x < 65536
  BY DEF WORD
<1>2. Reads(x) = x % 256
  BY DEF Reads, WLOCKBIT
<1>3. Writes(x) = x \div 256
  BY <1>1, Fits DEF Writes, WLOCKBIT
<1>4. x % 256 \in Nat /\ x % 256 <= 255
  OBVIOUS
<1>5. x \div 256 \in Nat /\ x \div 256 <= 255
  BY <1>1
<1> QED BY <1>2, <1>3, <1>4, <1>5

LEMMA AddRead ==
    ASSUME NEW x \in Nat, x < WORD, Reads(x) < 255
    PROVE  /\ (x + 1) % WORD \in Nat /\ (x + 1) % WORD < WORD
           /\ Reads((x + 1) % WORD) = Reads(x) + 1
           /\ Writes((x + 1) % WORD) = Writes(x)
<1>1. x % 256 < 255
  BY DEF Reads, WLOCKBIT
<1>2. x + 1 \in Nat /\ x + 1 < 65536
  BY <1>1 DEF WORD
<1>3. (x + 1) % 256 = (x % 256) + 1
  BY <1>1
<1>4. (x + 1) \div 256 = x \div 256
  BY <1>1
<1>5. (x + 1) % WORD = x + 1 /\ x % WORD = x
  BY <1>2, Fits DEF WORD
<1> QED BY <1>2, <1>3, <1>4, <1>5 DEF Reads, Writes, WLOCKBIT, WORD

LEMMA SubtractRead ==
    ASSUME NEW x \in Nat, x < WORD, Reads(x) > 0
    PROVE  /\ (x + -1) % WORD \in Nat /\ (x + -1) % WORD < WORD
           /\ Reads((x + -1) % WORD) = Reads(x) - 1
           /\ Writes((x + -1) % WORD) = Writes(x)
<1>1. x % 256 > 0
  BY DEF Reads, WLOCKBIT
<1>2. x + -1 \in Nat /\ x + -1 < 65536
  BY <1>1 DEF WORD
<1>3. (x + -1) % 256 = (x % 256) - 1
  BY <1>1
<1>4. (x + -1) \div 256 = x \div 256
  BY <1>1
<1>5. (x + -1) % WORD = x + -1 /\ x % WORD = x
  BY <1>2, Fits DEF WORD
<1> QED BY <1>2, <1>3, <1>4, <1>5 DEF Reads, Writes, WLOCKBIT, WORD

LEMMA AddWrite ==
    ASSUME NEW x \in Nat, x < WORD, Writes(x) < 255
    PROVE  /\ (x + WLOCKBIT) % WORD \in Nat /\ (x + WLOCKBIT) % WORD < WORD
           /\ Reads((x + WLOCKBIT) % WORD) = Reads(x)
           /\ Writes((x + WLOCKBIT) % WORD) = Writes(x) + 1
<1>1. x < 65536 /\ x % WORD = x
  BY Fits DEF WORD
<1>2. x \div 256 < 255
  BY <1>1 DEF Writes, WLOCKBIT
<1>3. x + 256 \in Nat /\ x + 256 < 65536
  BY <1>1, <1>2
<1>4. (x + 256) % 256 = x % 256
  OBVIOUS
<1>5. (x + 256) \div 256 = (x \div 256) + 1
  OBVIOUS
<1>6. (x + 256) % WORD = x + 256
  BY <1>3, Fits
<1> QED BY <1>1, <1>3, <1>4, <1>5, <1>6 DEF Reads, Writes, WLOCKBIT, WORD

LEMMA ClearWrites ==
    ASSUME NEW x \in Nat, x < WORD
    PROVE  /\ Reads(x) \in Nat /\ Reads(x) < WORD
           /\ Reads(Reads(x)) = Reads(x)
           /\ Writes(Reads(x)) = 0
<1>1. x % 256 \in Nat /\ x % 256 < 256
  OBVIOUS
<1>2. (x % 256) % WORD = x % 256
  BY <1>1, Fits
<1>3. (x % 256) % 256 = x % 256
  BY <1>1
<1>4. (x % 256) \div 256 = 0
  BY <1>1
<1> QED BY <1>1, <1>2, <1>3, <1>4 DEF Reads, Writes, WLOCKBIT, WORD

-----------------------------------------------------------------------------
\* The sets of threads that the two counts count.

\* Both sets are finite and smaller than 256.
LEMMA SetsFinite ==
    /\ IsFiniteSet(Counted) /\ Cardinality(Counted) \in Nat /\ Cardinality(Counted) <= 255
    /\ IsFiniteSet(Requesting) /\ Cardinality(Requesting) \in Nat /\ Cardinality(Requesting) <= 255
<1>1. Cardinality(Threads) \in Nat
  BY ThreadsAssumption, FS_CardinalityType
<1>2. ASSUME NEW S \in SUBSET Threads
      PROVE  IsFiniteSet(S) /\ Cardinality(S) \in Nat /\ Cardinality(S) <= 255
  <2>1. IsFiniteSet(S) /\ Cardinality(S) <= Cardinality(Threads)
    BY ThreadsAssumption, FS_Subset
  <2>2. Cardinality(S) \in Nat
    BY <2>1, FS_CardinalityType
  <2> QED BY <1>1, <2>1, <2>2, ThreadsAssumption
<1>3. Counted \in SUBSET Threads /\ Requesting \in SUBSET Threads
  BY DEF Counted, Requesting
<1> QED BY <1>2, <1>3

\* A thread that is not counted leaves room for itself.
LEMMA RoomForOne ==
    ASSUME NEW t \in Threads
    PROVE  /\ t \notin Counted => Cardinality(Counted) < 255
           /\ t \notin Requesting => Cardinality(Requesting) < 255
<1>1. Cardinality(Threads) \in Nat
  BY ThreadsAssumption, FS_CardinalityType
<1>2. ASSUME NEW S \in SUBSET Threads, t \notin S
      PROVE  Cardinality(S) < 255
  <2>1. IsFiniteSet(S) /\ IsFiniteSet(S \cup {t})
    BY ThreadsAssumption, FS_Subset, FS_AddElement
  <2>2. Cardinality(S \cup {t}) = Cardinality(S) + 1
    BY <2>1, <1>2, FS_AddElement
  <2>3. S \cup {t} \in SUBSET Threads
    OBVIOUS
  <2>4. Cardinality(S \cup {t}) <= Cardinality(Threads)
    BY <2>3, ThreadsAssumption, FS_Subset
  <2>5. Cardinality(S) \in Nat
    BY <2>1, FS_CardinalityType
  <2> QED BY <1>1, <2>2, <2>4, <2>5, ThreadsAssumption
<1>3. Counted \in SUBSET Threads /\ Requesting \in SUBSET Threads
  BY DEF Counted, Requesting
<1> QED BY <1>2, <1>3

\* How a step of thread t to location "to" changes the two sets.
LEMMA SetsAfter ==
    ASSUME pc \in [Threads -> Steps], NEW t \in Threads, NEW to, Goto(t, to)
    PROVE  /\ to \in ReaderSteps => Counted' = Counted \cup {t}
           /\ to \notin ReaderSteps => Counted' = Counted \ {t}
           /\ to \in WriterSteps => Requesting' = Requesting \cup {t}
           /\ to \notin WriterSteps => Requesting' = Requesting \ {t}
BY DEF Goto, Counted, Requesting

-----------------------------------------------------------------------------
LEMMA InitInv == Init => IndInv
<1> SUFFICES ASSUME Init PROVE IndInv
  OBVIOUS
<1>1. TypeOK
  BY DEF Init, TypeOK, WORD, Steps
<1>2. Counted = {} /\ Requesting = {}
  BY DEF Init, Counted, Requesting, ReaderSteps, WriterSteps, OwnerSteps
<1>3. Reads(lock) = 0 /\ Writes(lock) = 0
  BY DEF Init, Reads, Writes, WLOCKBIT, WORD
<1>4. CountsExact
  BY <1>2, <1>3, FS_EmptySet DEF CountsExact
<1>5. RequestOwned /\ WriterAlone
  BY <1>3 DEF Init, RequestOwned, WriterAlone, Owner, OwnerSteps
<1> QED BY <1>1, <1>4, <1>5 DEF IndInv

\* Counts of the sets after a step, in numbers.
LEMMA CardinalityAfter ==
    ASSUME NEW S, IsFiniteSet(S), NEW x
    PROVE  /\ Cardinality(S \cup {x}) = IF x \in S THEN Cardinality(S) ELSE Cardinality(S) + 1
           /\ Cardinality(S \ {x}) = IF x \in S THEN Cardinality(S) - 1 ELSE Cardinality(S)
BY FS_AddElement, FS_RemoveElement

\* No write is requested when the count says so, and nobody reads.
LEMMA NobodyThere ==
    ASSUME IndInv
    PROVE  /\ Writes(lock) = 0 => \A t \in Threads : ~Owner(t)
           /\ Reads(lock) = 0 => \A t \in Threads : pc[t] \notin ReaderSteps
<1>1. Writes(lock) = 0 => \A t \in Threads : ~Owner(t)
  BY DEF IndInv, RequestOwned
<1>2. Reads(lock) = 0 => Counted = {}
  BY SetsFinite, FS_EmptySet DEF IndInv, CountsExact
<1> QED BY <1>1, <1>2 DEF Counted

LEMMA StepInv == IndInv /\ [Next]_vars => IndInv'
<1> SUFFICES ASSUME IndInv, [Next]_vars PROVE IndInv'
  OBVIOUS
<1> DEFINE C == Cardinality(Counted)
           R == Cardinality(Requesting)
<1>nums. /\ IsFiniteSet(Counted) /\ C \in Nat /\ C <= 255
         /\ IsFiniteSet(Requesting) /\ R \in Nat /\ R <= 255
  BY SetsFinite
<1>typ. lock \in Nat /\ lock < WORD /\ pc \in [Threads -> Steps]
  BY DEF IndInv, TypeOK
<1>word. Reads(lock) = C /\ Writes(lock) <= R /\ Writes(lock) \in Nat /\ Writes(lock) <= 255
  BY <1>typ, WordParts DEF IndInv, CountsExact
<1>own. /\ Writes(lock) # 0 <=> \E u \in Threads : Owner(u)
        /\ \A u, w \in Threads : Owner(u) /\ Owner(w) => u = w
        /\ WriterAlone
  BY DEF IndInv, RequestOwned
<1>1. ASSUME NEW t \in Threads, ReadLock(t) PROVE IndInv'
  <2> DEFINE to == IF Writes(lock) = 0 THEN "reading" ELSE "rescind"
  <2>1. Goto(t, to) /\ pc[t] \notin ReaderSteps \cup WriterSteps /\ to \in ReaderSteps
        /\ to \notin WriterSteps
    BY <1>1 DEF ReadLock, ReaderSteps, WriterSteps, OwnerSteps
  <2>2. Counted' = Counted \cup {t} /\ Requesting' = Requesting \ {t}
        /\ t \notin Counted /\ t \notin Requesting
    BY <1>typ, <2>1, SetsAfter DEF Counted, Requesting
  <2>3. Cardinality(Counted') = C + 1 /\ Cardinality(Requesting') = R /\ C < 255
    BY <1>nums, <2>2, CardinalityAfter, RoomForOne
  <2>4. lock' \in Nat /\ lock' < WORD /\ Reads(lock') = C + 1 /\ Writes(lock') = Writes(lock)
    BY <1>1, <1>typ, <1>word, <2>3, AddRead DEF ReadLock, Add
  <2>5. pc' \in [Threads -> Steps]
    BY <1>typ, <2>1 DEF Goto, Steps
  <2>6. \A u \in Threads : Owner(u)' <=> Owner(u)
    BY <1>typ, <2>1 DEF Goto, Owner, ReaderSteps, WriterSteps, OwnerSteps
  <2>7. WriterAlone'
    <3>1. CASE Writes(lock) = 0
      BY <1>own, <1>typ, <2>1, <3>1 DEF Goto, WriterAlone, Owner, OwnerSteps
    <3>2. CASE Writes(lock) # 0
      BY <1>own, <1>typ, <2>1, <3>2 DEF Goto, WriterAlone
    <3> QED BY <3>1, <3>2
  <2> QED BY <1>own, <1>word, <2>3, <2>4, <2>5, <2>6, <2>7
         DEF IndInv, TypeOK, CountsExact, RequestOwned
<1>2. ASSUME NEW t \in Threads, Rescind(t) \/ ReadUnlock(t) PROVE IndInv'
  <2> DEFINE to == IF Rescind(t) THEN "readPoll" ELSE "idle"
  <2>1. Goto(t, to) /\ pc[t] \in ReaderSteps /\ pc[t] \notin WriterSteps
        /\ to \notin ReaderSteps \cup WriterSteps
    BY <1>2 DEF Rescind, ReadUnlock, ReaderSteps, WriterSteps, OwnerSteps
  <2>2. Counted' = Counted \ {t} /\ Requesting' = Requesting \ {t}
        /\ t \in Counted /\ t \notin Requesting
    BY <1>typ, <2>1, SetsAfter DEF Counted, Requesting
  <2>3. Cardinality(Counted') = C - 1 /\ Cardinality(Requesting') = R /\ C > 0
    <3>1. C # 0
      BY <1>nums, <2>2, FS_EmptySet
    <3>2. C > 0
      BY <1>nums, <3>1
    <3>3. Cardinality(Counted \ {t}) = C - 1 /\ Cardinality(Requesting \ {t}) = R
      BY <1>nums, <2>2, CardinalityAfter
    <3> QED BY <2>2, <3>2, <3>3
  <2>4. lock' \in Nat /\ lock' < WORD /\ Reads(lock') = C - 1 /\ Writes(lock') = Writes(lock)
    BY <1>2, <1>typ, <1>word, <2>3, SubtractRead DEF Rescind, ReadUnlock, Add
  <2>5. pc' \in [Threads -> Steps]
    BY <1>typ, <2>1 DEF Goto, Steps
  <2>6. \A u \in Threads : Owner(u)' <=> Owner(u)
    BY <1>typ, <2>1 DEF Goto, Owner, ReaderSteps, WriterSteps, OwnerSteps
  <2>7. WriterAlone'
    BY <1>own, <1>typ, <2>1 DEF Goto, WriterAlone
  <2> QED BY <1>own, <1>word, <2>3, <2>4, <2>5, <2>6, <2>7
         DEF IndInv, TypeOK, CountsExact, RequestOwned
<1>3. ASSUME NEW t \in Threads, WritersGone(t) \/ FirstWriterGone(t) PROVE IndInv'
  <2> DEFINE to == IF WritersGone(t) THEN "readAgain" ELSE "writeAgain"
  <2>1. Goto(t, to) /\ Writes(lock) = 0 /\ lock' = lock
        /\ pc[t] \notin ReaderSteps \cup OwnerSteps /\ to \notin ReaderSteps \cup WriterSteps
    BY <1>3 DEF WritersGone, FirstWriterGone, ReaderSteps, WriterSteps, OwnerSteps
  <2>2. Counted' = Counted \ {t} /\ t \notin Counted
    BY <1>typ, <2>1, SetsAfter DEF Counted
  <2>3. Cardinality(Counted') = C /\ Cardinality(Requesting') \in Nat
    <3>1. Requesting' \in SUBSET Threads
      BY DEF Requesting
    <3>2. IsFiniteSet(Requesting')
      BY <3>1, ThreadsAssumption, FS_Subset
    <3> QED BY <1>nums, <2>2, <3>2, CardinalityAfter, FS_CardinalityType
  <2>5. pc' \in [Threads -> Steps]
    BY <1>typ, <2>1 DEF Goto, Steps
  <2>6. \A u \in Threads : Owner(u)' <=> Owner(u)
    BY <1>typ, <2>1 DEF Goto, Owner, WriterSteps, OwnerSteps
  <2>7. WriterAlone'
    BY <1>own, <1>typ, <2>1 DEF Goto, WriterAlone, ReaderSteps, WriterSteps, OwnerSteps
  <2> QED BY <1>own, <1>word, <1>typ, <2>1, <2>3, <2>5, <2>6, <2>7
         DEF IndInv, TypeOK, CountsExact, RequestOwned
<1>4. ASSUME NEW t \in Threads, WriteLock(t) PROVE IndInv'
  <2> DEFINE to == CASE Writes(lock) # 0 -> "writePoll"
                     [] lock = 0         -> "writing"
                     [] OTHER            -> "drain"
  <2>0. lock = 0 => Writes(lock) = 0 /\ Reads(lock) = 0
    BY DEF Reads, Writes, WLOCKBIT, WORD
  <2>1. Goto(t, to) /\ pc[t] \notin ReaderSteps \cup WriterSteps
        /\ to \notin ReaderSteps /\ to \in WriterSteps
    BY <1>4, <2>0 DEF WriteLock, ReaderSteps, WriterSteps, OwnerSteps
  <2>2. Counted' = Counted \ {t} /\ Requesting' = Requesting \cup {t}
        /\ t \notin Counted /\ t \notin Requesting
    BY <1>typ, <2>1, SetsAfter DEF Counted, Requesting
  <2>3. Cardinality(Counted') = C /\ Cardinality(Requesting') = R + 1 /\ R < 255
    BY <1>nums, <2>2, CardinalityAfter, RoomForOne
  <2>4. lock' \in Nat /\ lock' < WORD /\ Reads(lock') = C /\ Writes(lock') = Writes(lock) + 1
    BY <1>4, <1>typ, <1>word, <1>nums, <2>3, AddWrite DEF WriteLock, Add
  <2>5. pc' \in [Threads -> Steps]
    BY <1>typ, <2>1 DEF Goto, Steps, WriterSteps, OwnerSteps
  <2>6. CASE Writes(lock) # 0
    <3>0. to = "writePoll"
      BY <2>0, <2>6
    <3>1. \A u \in Threads : Owner(u)' <=> Owner(u)
      BY <1>typ, <2>1, <3>0 DEF Goto, Owner, ReaderSteps, WriterSteps, OwnerSteps
    <3>2. WriterAlone'
      BY <1>own, <1>typ, <2>1, <3>0 DEF Goto, WriterAlone
    <3>3. Cardinality(Requesting') = R + 1 /\ Writes(lock') <= R + 1
      BY <1>word, <1>nums, <2>3, <2>4
    <3>4. CountsExact'
      BY <2>3, <2>4, <3>3 DEF CountsExact
    <3>5. RequestOwned'
      BY <1>own, <1>word, <2>4, <2>6, <3>1 DEF RequestOwned
    <3> QED BY <2>4, <2>5, <3>2, <3>4, <3>5 DEF IndInv, TypeOK
  <2>7. CASE Writes(lock) = 0
    <3>1. \A u \in Threads : Owner(u)' <=> u = t
      BY <1>typ, <1>own, <2>1, <2>7 DEF Goto, Owner, WriterSteps, OwnerSteps
    <3>2. WriterAlone'
      <4>1. ASSUME NEW u \in Threads, NEW w \in Threads, pc'[u] = "writing", u # w
            PROVE  pc'[w] \notin {"reading", "writing"}
        <5>1. u = t
          BY <4>1, <3>1 DEF Owner, OwnerSteps
        <5>2. lock = 0
          BY <1>typ, <2>1, <2>7, <4>1, <5>1 DEF Goto
        <5>3. pc[w] \notin ReaderSteps /\ ~Owner(w)
          BY <5>2, <2>0, NobodyThere
        <5> QED BY <1>typ, <2>1, <4>1, <5>1, <5>3 DEF Goto, Owner, OwnerSteps, ReaderSteps
      <4> QED BY <4>1 DEF WriterAlone
    <3> QED BY <1>own, <1>word, <1>nums, <2>3, <2>4, <2>5, <3>1, <3>2
           DEF IndInv, TypeOK, CountsExact, RequestOwned
  <2> QED BY <2>6, <2>7
<1>5. ASSUME NEW t \in Threads, Drained(t) PROVE IndInv'
  <2>1. Goto(t, "writing") /\ pc[t] = "drain" /\ Reads(lock) = 0 /\ lock' = lock
    BY <1>5 DEF Drained
  <2>2. "writing" \in WriterSteps /\ "writing" \notin ReaderSteps
    BY DEF WriterSteps, OwnerSteps, ReaderSteps
  <2>2a. Counted' = Counted \ {t} /\ Requesting' = Requesting \cup {t}
    BY <1>typ, <2>1, <2>2, SetsAfter
  <2>2b. t \notin Counted /\ t \in Requesting
    BY <2>1 DEF Counted, Requesting, ReaderSteps, WriterSteps, OwnerSteps
  <2>3. Cardinality(Counted') = C /\ Cardinality(Requesting') = R
    BY <1>nums, <2>2a, <2>2b, CardinalityAfter
  <2>5. pc' \in [Threads -> Steps]
    BY <1>typ, <2>1 DEF Goto, Steps, WriterSteps, OwnerSteps
  <2>6. \A u \in Threads : Owner(u)' <=> Owner(u)
    BY <1>typ, <2>1 DEF Goto, Owner, OwnerSteps
  <2>7. WriterAlone'
    <3>1. ASSUME NEW u \in Threads, NEW w \in Threads, pc'[u] = "writing", u # w
          PROVE  pc'[w] \notin {"reading", "writing"}
      <4>1. Owner(t) /\ Owner(u)
        BY <1>typ, <2>1, <3>1 DEF Goto, Owner, OwnerSteps
      <4>2. u = t
        BY <1>own, <4>1
      <4>3. pc[w] # "writing"
        BY <1>own, <4>1, <4>2, <3>1 DEF Owner, OwnerSteps
      <4>4. pc[w] # "reading"
        BY <2>1, NobodyThere DEF ReaderSteps
      <4> QED BY <1>typ, <2>1, <3>1, <4>2, <4>3, <4>4 DEF Goto
    <3> QED BY <3>1 DEF WriterAlone
  <2> QED BY <1>own, <1>word, <1>typ, <2>1, <2>3, <2>5, <2>6, <2>7
         DEF IndInv, TypeOK, CountsExact, RequestOwned
<1>6. ASSUME NEW t \in Threads, WriteUnlock(t) PROVE IndInv'
  <2>1. Goto(t, "idle") /\ pc[t] = "writing" /\ lock' = Reads(lock)
    BY <1>6 DEF WriteUnlock
  <2>2. "idle" \notin WriterSteps \cup ReaderSteps
    BY DEF WriterSteps, OwnerSteps, ReaderSteps
  <2>2a. Counted' = Counted \ {t}
    BY <1>typ, <2>1, <2>2, SetsAfter
  <2>2b. t \notin Counted
    BY <2>1 DEF Counted, ReaderSteps
  <2>3. Cardinality(Counted') = C /\ Cardinality(Requesting') \in Nat
    <3>1. Requesting' \in SUBSET Threads
      BY DEF Requesting
    <3>2. IsFiniteSet(Requesting')
      BY <3>1, ThreadsAssumption, FS_Subset
    <3> QED BY <1>nums, <2>2a, <2>2b, <3>2, CardinalityAfter, FS_CardinalityType
  <2>4. lock' \in Nat /\ lock' < WORD /\ Reads(lock') = C /\ Writes(lock') = 0
    BY <1>typ, <1>word, <2>1, ClearWrites
  <2>5. pc' \in [Threads -> Steps]
    BY <1>typ, <2>1 DEF Goto, Steps
  <2>6. \A u \in Threads : ~Owner(u)'
    BY <1>typ, <1>own, <2>1 DEF Goto, Owner, OwnerSteps
  <2>7. WriterAlone'
    BY <1>own, <1>typ, <2>1 DEF Goto, WriterAlone
  <2> QED BY <2>3, <2>4, <2>5, <2>6, <2>7
         DEF IndInv, TypeOK, CountsExact, RequestOwned
<1>7. ASSUME UNCHANGED vars PROVE IndInv'
  BY <1>7 DEF vars, IndInv, TypeOK, CountsExact, RequestOwned, WriterAlone,
              Counted, Requesting, Owner
<1> QED BY <1>1, <1>2, <1>3, <1>4, <1>5, <1>6, <1>7 DEF Next

-----------------------------------------------------------------------------
\* Every reachable state of the lock satisfies the inductive invariant.
THEOREM Inductive == Spec => []IndInv
BY InitInv, StepInv, PTL DEF Spec

\* The word is exact: it stays in 16 bits, neither count ever carries into the
\* other (READLOCK, WRITELOCK: one XADD each), and a write request that is up is
\* owned by one thread.
THEOREM CountsNeverCarry == Spec => []WordExact
<1>1. IndInv => WordExact
  BY DEF IndInv, WordExact
<1> QED BY <1>1, Inductive, PTL

\* Between WRITELOCK and WRITEUNLOCK a thread is alone.
THEOREM Exclusion == Spec => []WriterAlone
<1>1. IndInv => WriterAlone
  BY DEF IndInv
<1> QED BY <1>1, Inductive, PTL

-----------------------------------------------------------------------------
\* The lock implements ReadersWriter.

\* The claimant is the thread that owns the request.
ClaimantExact ==
    /\ \A t \in Threads : Owner(t) => Claimant = t
    /\ (\A t \in Threads : ~Owner(t)) => Claimant = Nobody

LEMMA ClaimantIsOwner == RequestOwned => ClaimantExact
<1> SUFFICES ASSUME RequestOwned PROVE ClaimantExact
  OBVIOUS
<1>1. ASSUME NEW t \in Threads, Owner(t) PROVE Claimant = t
  <2>1. (CHOOSE u \in Threads : Owner(u)) \in Threads /\ Owner(CHOOSE u \in Threads : Owner(u))
    BY <1>1
  <2> QED BY <1>1, <2>1 DEF Claimant, RequestOwned
<1>2. (\A t \in Threads : ~Owner(t)) => Claimant = Nobody
  BY DEF Claimant
<1> QED BY <1>1, <1>2 DEF ClaimantExact

\* Every step is a step of ReadersWriter or leaves its state alone.
LEMMA StepImplements ==
    IndInv /\ IndInv' /\ [Next]_vars => [Abstract!RWNext]_(Abstract!rwVars)
<1> SUFFICES ASSUME IndInv, IndInv', [Next]_vars
             PROVE  [Abstract!RWNext]_(Abstract!rwVars)
  OBVIOUS
<1> USE DEF Abstract!rwVars, Abstract!RWNext
<1>typ. pc \in [Threads -> Steps]
  BY DEF IndInv, TypeOK
<1>own. /\ ClaimantExact
        /\ \A u, w \in Threads : Owner(u) /\ Owner(w) => u = w
        /\ Writes(lock) # 0 <=> \E u \in Threads : Owner(u)
  BY ClaimantIsOwner DEF IndInv, RequestOwned
<1>own2. ClaimantExact'
  <2>1. RequestOwned' => ClaimantExact'
    BY ClaimantIsOwner, PTL
  <2> QED BY <2>1 DEF IndInv
<1>same. (\A u \in Threads : Owner(u)' <=> Owner(u)) => Claimant' = Claimant
  BY <1>own, <1>own2 DEF ClaimantExact
<1>free. Writes(lock) = 0 => Claimant = Nobody /\ ~IsWriting
  BY <1>own DEF ClaimantExact, IsWriting, Owner, OwnerSteps
<1>1. ASSUME NEW t \in Threads, ReadLock(t) PROVE [Abstract!RWNext]_(Abstract!rwVars)
  <2>1. pc[t] \in {"idle", "readAgain"}
    BY <1>1 DEF ReadLock
  <2>2. CASE Writes(lock) = 0
    <3>1. pc' = [pc EXCEPT ![t] = "reading"]
      BY <1>1, <2>2 DEF ReadLock, Goto
    <3>2. Readers' = Readers \cup {t} /\ t \notin Readers /\ IsWriting' = IsWriting
      BY <1>typ, <2>1, <3>1 DEF Readers, IsWriting
    <3>3. Claimant' = Claimant
      BY <1>typ, <1>same, <2>1, <3>1 DEF Owner, OwnerSteps
    <3>4. Abstract!BeginRead(t)
      BY <1>free, <2>2, <3>2, <3>3 DEF Abstract!BeginRead
    <3> QED BY <3>4
  <2>3. CASE Writes(lock) # 0
    <3>1. pc' = [pc EXCEPT ![t] = "rescind"]
      BY <1>1, <2>3 DEF ReadLock, Goto
    <3>2. Readers' = Readers /\ IsWriting' = IsWriting
      BY <1>typ, <2>1, <3>1 DEF Readers, IsWriting
    <3>3. Claimant' = Claimant
      BY <1>typ, <1>same, <2>1, <3>1 DEF Owner, OwnerSteps
    <3> QED BY <3>2, <3>3
  <2> QED BY <2>2, <2>3
<1>2. ASSUME NEW t \in Threads, Rescind(t) \/ WritersGone(t) \/ FirstWriterGone(t)
      PROVE  [Abstract!RWNext]_(Abstract!rwVars)
  <2>1. PICK to \in {"readPoll", "readAgain", "writeAgain"} :
            pc' = [pc EXCEPT ![t] = to] /\ pc[t] \in {"rescind", "readPoll", "writePoll"}
    BY <1>2 DEF Rescind, WritersGone, FirstWriterGone, Goto
  <2>2. Readers' = Readers /\ IsWriting' = IsWriting
    BY <1>typ, <2>1 DEF Readers, IsWriting
  <2>3. Claimant' = Claimant
    BY <1>typ, <1>same, <2>1 DEF Owner, OwnerSteps
  <2> QED BY <2>2, <2>3
<1>3. ASSUME NEW t \in Threads, ReadUnlock(t) PROVE [Abstract!RWNext]_(Abstract!rwVars)
  <2>1. pc' = [pc EXCEPT ![t] = "idle"] /\ pc[t] = "reading"
    BY <1>3 DEF ReadUnlock, Goto
  <2>2. Readers' = Readers \ {t} /\ t \in Readers /\ IsWriting' = IsWriting
    BY <1>typ, <2>1 DEF Readers, IsWriting
  <2>3. Claimant' = Claimant
    BY <1>typ, <1>same, <2>1 DEF Owner, OwnerSteps
  <2>4. Abstract!EndRead(t)
    BY <2>2, <2>3 DEF Abstract!EndRead
  <2> QED BY <2>4
<1>4. ASSUME NEW t \in Threads, WriteLock(t) PROVE [Abstract!RWNext]_(Abstract!rwVars)
  <2>0. lock = 0 => Writes(lock) = 0 /\ Reads(lock) = 0
    BY DEF Reads, Writes, WLOCKBIT, WORD
  <2>1. pc[t] \in {"idle", "writeAgain"}
    BY <1>4 DEF WriteLock
  <2>2. CASE Writes(lock) # 0
    <3>1. pc' = [pc EXCEPT ![t] = "writePoll"]
      BY <1>4, <2>0, <2>2 DEF WriteLock, Goto
    <3>2. Readers' = Readers /\ IsWriting' = IsWriting
      BY <1>typ, <2>1, <3>1 DEF Readers, IsWriting
    <3>3. Claimant' = Claimant
      BY <1>typ, <1>same, <2>1, <3>1 DEF Owner, OwnerSteps
    <3> QED BY <3>2, <3>3
  <2>3. CASE lock = 0
    <3>1. pc' = [pc EXCEPT ![t] = "writing"]
      BY <1>4, <2>0, <2>3 DEF WriteLock, Goto
    <3>2. \A u \in Threads : pc[u] \notin ReaderSteps
      BY <2>0, <2>3, NobodyThere
    <3>3. Readers = {} /\ Readers' = {} /\ IsWriting' = TRUE
      BY <1>typ, <3>1, <3>2 DEF Readers, IsWriting, ReaderSteps
    <3>4. Claimant' = t
      BY <1>typ, <1>own2, <3>1 DEF ClaimantExact, Owner, OwnerSteps
    <3>5. Claimant = Nobody
      BY <1>free, <2>0, <2>3
    <3>6. Abstract!ClaimAndWrite(t)
      BY <3>3, <3>4, <3>5 DEF Abstract!ClaimAndWrite
    <3> QED BY <3>6
  <2>4. CASE Writes(lock) = 0 /\ lock # 0
    <3>1. pc' = [pc EXCEPT ![t] = "drain"]
      BY <1>4, <2>4 DEF WriteLock, Goto
    <3>2. Readers' = Readers /\ IsWriting' = IsWriting /\ t \notin Readers
      BY <1>typ, <2>1, <3>1 DEF Readers, IsWriting
    <3>3. Claimant' = t
      BY <1>typ, <1>own2, <3>1 DEF ClaimantExact, Owner, OwnerSteps
    <3>4. Abstract!Claim(t)
      BY <1>free, <2>4, <3>2, <3>3 DEF Abstract!Claim
    <3> QED BY <3>4
  <2> QED BY <2>2, <2>3, <2>4
<1>5. ASSUME NEW t \in Threads, Drained(t) PROVE [Abstract!RWNext]_(Abstract!rwVars)
  <2>1. pc' = [pc EXCEPT ![t] = "writing"] /\ pc[t] = "drain" /\ Reads(lock) = 0
    BY <1>5 DEF Drained, Goto
  <2>2. \A u \in Threads : pc[u] \notin ReaderSteps
    BY <2>1, NobodyThere
  <2>3. Readers = {} /\ Readers' = {} /\ IsWriting' = TRUE
    BY <1>typ, <2>1, <2>2 DEF Readers, IsWriting, ReaderSteps
  <2>4. Claimant = t
    BY <1>own, <2>1 DEF ClaimantExact, Owner, OwnerSteps
  <2>5. Claimant' = t
    BY <1>typ, <1>own2, <2>1 DEF ClaimantExact, Owner, OwnerSteps
  <2>6. ~IsWriting
    <3>1. \A u \in Threads : pc[u] = "writing" => u = t
      BY <1>own, <2>1 DEF Owner, OwnerSteps
    <3> QED BY <2>1, <3>1 DEF IsWriting
  <2>7. Abstract!BeginWrite(t)
    BY <2>3, <2>4, <2>5, <2>6 DEF Abstract!BeginWrite
  <2> QED BY <2>7
<1>6. ASSUME NEW t \in Threads, WriteUnlock(t) PROVE [Abstract!RWNext]_(Abstract!rwVars)
  <2>1. pc' = [pc EXCEPT ![t] = "idle"] /\ pc[t] = "writing"
    BY <1>6 DEF WriteUnlock, Goto
  <2>2. Readers' = Readers /\ IsWriting
    BY <1>typ, <2>1 DEF Readers, IsWriting
  <2>3. \A u \in Threads : ~Owner(u)'
    BY <1>typ, <1>own, <2>1 DEF Owner, OwnerSteps
  <2>4. Claimant = t
    BY <1>own, <2>1 DEF ClaimantExact, Owner, OwnerSteps
  <2>5. Claimant' = Nobody /\ IsWriting' = FALSE
    BY <1>own2, <2>3 DEF ClaimantExact, Owner, OwnerSteps, IsWriting
  <2>6. Abstract!EndWrite(t)
    BY <2>2, <2>4, <2>5 DEF Abstract!EndWrite
  <2> QED BY <2>6
<1>7. ASSUME UNCHANGED vars PROVE [Abstract!RWNext]_(Abstract!rwVars)
  <2>1. Readers' = Readers /\ IsWriting' = IsWriting
    BY <1>7 DEF vars, Readers, IsWriting
  <2>2. Claimant' = Claimant
    BY <1>7, <1>same DEF vars, Owner
  <2> QED BY <2>1, <2>2
<1> QED BY <1>1, <1>2, <1>3, <1>4, <1>5, <1>6, <1>7 DEF Next

LEMMA InitImplements == Init => Abstract!RWInit
BY DEF Init, Abstract!RWInit, Readers, Claimant, IsWriting, Owner, OwnerSteps

\* READLOCK and WRITELOCK, instruction by instruction, implement ReadersWriter: a
\* thread that reads or writes does so under its rules, and the writer that has
\* claimed the lock is not overtaken by new readers.
THEOREM Refinement == Spec => ReadersAndWriter
<1>1. IndInv /\ IndInv' /\ [Next]_vars => [Abstract!RWNext]_(Abstract!rwVars)
  BY StepImplements
<1> QED BY <1>1, InitImplements, Inductive, PTL DEF Spec, ReadersAndWriter, Abstract!RWSpec
=============================================================================
