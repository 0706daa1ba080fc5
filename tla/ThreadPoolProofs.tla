-------------------------- MODULE ThreadPoolProofs --------------------------
(***************************************************************************)
(* The threads and the thread pools, for any number of slots and pools and *)
(* any limits: the loop of a slot has one thread at a time, what 1 T. and  *)
(* the pools count is the number of threads, the indices of a pool are 1   *)
(* to n, and a job that waits has a thread to run it.                      *)
(*                                                                         *)
(* The argument: SlotsInv says which of ACTIVE, TERMINATE, the high-water  *)
(* mark and a thread in its loop a slot can combine, and holds whatever    *)
(* the operating system refuses; a thread that has acknowledged its end is *)
(* out of the loop, and nothing is claimed of it.  QueuesInv types the     *)
(* queues and lets only an idle thread sleep.  As long as no thread was    *)
(* refused a slot that is ACTIVE has its thread (PoolsInv), and then the   *)
(* count of a pool changes exactly when a thread begins to last or stops   *)
(* lasting.                                                                *)
(***************************************************************************)
EXTENDS ThreadPool, FiniteSetTheorems, WellFoundedInduction, TLAPS

\* The calls a thread can be in.
Calls ==
    {None} \union [op : {"create"}, pool : Pools]
           \union [op : {"destroy"}, pool : Pools \union {AnyPool}]

\* The lasting threads of a pool.
Mine(p) == {s \in Workers : Lasting(s) /\ threadpoolno[s] = p}

SlotsInv ==
    /\ active \in [Workers -> BOOLEAN]
    /\ terminate \in [Workers -> BOOLEAN]
    /\ threadpoolno \in [Workers -> Pools \union {AnyPool}]
    /\ ndxinthreadpool \in [Workers -> 0 .. MaxInPool]
    /\ wthreadhwmk \in 0 .. MaxWorkers
    /\ nthreads \in [Pools -> 0 .. US - 1]
    /\ osthreads \in [Workers -> {0, 1}]
    /\ busy \in [Workers -> BOOLEAN]
    /\ call \in [Threads -> Calls]
    /\ refused \in BOOLEAN /\ ascending \in BOOLEAN
    /\ \A s \in Workers :
         /\ osthreads[s] = 1 => active[s] /\ s <= wthreadhwmk /\ threadpoolno[s] \in Pools
         /\ terminate[s] => active[s] /\ s <= wthreadhwmk
         /\ busy[s] => osthreads[s] = 1

\* The queues, who sleeps beside them, and who leaves.
QueuesInv ==
    /\ jobs \in [Pools -> Seq(SUBSET (1 .. MaxInPool))]
    /\ \A p \in Pools : Len(jobs[p]) <= MaxJobs
    /\ wanted \in [Pools -> BOOLEAN]
    /\ leaving \in [Workers -> 0 .. MaxLeaving]
    /\ owes \in [Workers -> BOOLEAN]
    /\ asleep \in [Workers -> BOOLEAN]
    /\ \A s \in Workers :
         /\ owes[s] => busy[s]
         /\ asleep[s] => osthreads[s] = 1 /\ ~busy[s]

\* The pools, while the operating system has refused no thread.
PoolsInv == ~refused =>
    /\ \A s \in Workers : active[s] => osthreads[s] = 1
    /\ \A p \in Pools :
         /\ nthreads[p] = Cardinality(Mine(p)) /\ nthreads[p] <= MaxInPool
         /\ jobs[p] # <<>> => nthreads[p] > 0

Inv == SlotsInv /\ QueuesInv /\ PoolsInv /\ IndicesFill

-----------------------------------------------------------------------------
\* Finite sets of numbers

\* A finite set of numbers has a largest one.
LEMMA Largest ==
    ASSUME NEW S, S \subseteq Nat, S # {}, IsFiniteSet(S)
    PROVE  \E n \in S : \A m \in S : m <= n
<1> DEFINE Bad == {T \in FiniteSubsetsOf(S) : T # {} /\ ~\E n \in T : \A m \in T : m <= n}
<1>1. SUFFICES Bad = {}
  BY DEF FiniteSubsetsOf
<1>2. SUFFICES ASSUME Bad # {} PROVE FALSE
  OBVIOUS
<1>3. PICK T \in Bad : \A U \in Bad : <<U, T>> \notin StrictSubsetOrdering(S)
  BY <1>2, FS_StrictSubsetOrderingWellFounded, WFMin
<1>4. PICK x \in T : TRUE
  OBVIOUS
<1>5. T \subseteq S /\ IsFiniteSet(T)
  BY DEF FiniteSubsetsOf
<1>6. T \ {x} \in FiniteSubsetsOf(S)
  BY <1>5, FS_RemoveElement DEF FiniteSubsetsOf
<1>7. <<T \ {x}, T>> \in StrictSubsetOrdering(S)
  BY <1>4, <1>5 DEF StrictSubsetOrdering
<1>8. T \ {x} \notin Bad
  BY <1>3, <1>7
<1>9. CASE T \ {x} = {}
  BY <1>4, <1>5, <1>9
<1>10. CASE T \ {x} # {}
  <2>1. PICK n \in T \ {x} : \A m \in T \ {x} : m <= n
    BY <1>6, <1>8, <1>10
  <2>2. CASE x <= n
    BY <2>1, <2>2
  <2>3. CASE ~(x <= n)
    BY <1>4, <1>5, <2>1, <2>3
  <2> QED BY <2>2, <2>3
<1> QED BY <1>9, <1>10

\* ... and a smallest one: seen from the largest, it is the farthest.
LEMMA Smallest ==
    ASSUME NEW S, S \subseteq Nat, S # {}, IsFiniteSet(S)
    PROVE  \E n \in S : \A m \in S : n <= m
<1>1. PICK b \in S : \A m \in S : m <= b
  BY Largest
<1> DEFINE T == {b - m : m \in S}
<1>2. T \subseteq Nat /\ T # {}
  BY <1>1
<1>3. IsFiniteSet(T)
  <2>1. T \subseteq 0 .. b
    BY <1>1
  <2> HIDE DEF T
  <2>2. IsFiniteSet(0 .. b)
    BY <1>1, FS_Interval
  <2> QED BY <2>1, <2>2, FS_Subset
<1>4. PICK d \in T : \A e \in T : e <= d
  <2> HIDE DEF T
  <2> QED BY <1>2, <1>3, Largest
<1>5. PICK n \in S : d = b - n
  BY <1>4
<1>6. \A m \in S : b - m <= b - n
  BY <1>4, <1>5
<1> QED BY <1>1, <1>5, <1>6

\* What Max and Min are, for a set of numbers that is finite.
LEMMA MaxIs ==
    ASSUME NEW S, S \subseteq Nat, S # {}, IsFiniteSet(S)
    PROVE  Max(S) \in S /\ \A m \in S : m <= Max(S)
<1>1. \E n \in S : \A m \in S : n >= m
  BY Largest
<1> QED BY <1>1 DEF Max

\* The least of a finite set of numbers.
LEMMA MinIs ==
    ASSUME NEW S, S \subseteq Nat, S # {}, IsFiniteSet(S)
    PROVE  Min(S) \in S /\ \A m \in S : Min(S) <= m
<1>1. \E n \in S : \A m \in S : n <= m
  BY Smallest
<1> QED BY <1>1 DEF Min

\* The slots and the pools' threads are finite sets of numbers.
LEMMA Slots ==
    /\ MaxWorkers \in Nat /\ IsFiniteSet(Workers) /\ Workers \subseteq Nat
    /\ \A S : S \subseteq Workers => IsFiniteSet(S) /\ Cardinality(S) \in Nat
<1>1. IsFiniteSet(Workers)
  BY ThreadPoolAssumption, FS_Interval DEF Workers
<1>2. ASSUME NEW S, S \subseteq Workers PROVE IsFiniteSet(S) /\ Cardinality(S) \in Nat
  BY <1>1, <1>2, FS_Subset, FS_CardinalityType
<1> QED BY <1>1, <1>2, ThreadPoolAssumption DEF Workers

\* The count of a pool stays in an unsigned short.
LEMMA Counted ==
    /\ \A n \in Nat : n < MaxInPool => n + 1 \in 0 .. MaxInPool /\ n + 1 \in 0 .. US - 1
    /\ \A n \in Int : n % US \in 0 .. US - 1
    /\ \A n \in Nat \ {0} : n <= MaxInPool => (n - 1) % US = n - 1
<1>1. MaxInPool \in Nat /\ MaxInPool < US
  BY ThreadPoolAssumption
<1>2. US \in Nat \ {0}
  BY DEF US
<1>3. \A n \in Nat : n < MaxInPool => n + 1 \in 0 .. MaxInPool /\ n + 1 \in 0 .. US - 1
  BY <1>1, <1>2
<1>4. ASSUME NEW n \in Int PROVE n % US \in 0 .. US - 1
  BY <1>2
<1>5. ASSUME NEW n \in Nat \ {0}, n <= MaxInPool PROVE (n - 1) % US = n - 1
  <2>1. PICK k \in Nat : k = n - 1
    OBVIOUS
  <2>2. k < US
    BY <1>1, <1>2, <1>5, <2>1
  <2>3. k % US = k
    BY <2>2 DEF US
  <2> QED BY <2>1, <2>3
<1> QED BY <1>3, <1>4, <1>5

-----------------------------------------------------------------------------
\* Who is chosen

\* The slot that a new thread is to have.
LEMMA FreeSlotIs ==
    ASSUME SlotsInv
    PROVE  /\ FreeSlot \in Nat \ {0}
           /\ FreeSlot <= wthreadhwmk => FreeSlot \in Workers /\ ~Lasting(FreeSlot)
           /\ FreeSlot > wthreadhwmk => FreeSlot = wthreadhwmk + 1
<1> DEFINE S == {s \in 1 .. wthreadhwmk : ~Lasting(s)} \union {wthreadhwmk + 1}
<1>1. wthreadhwmk \in Nat /\ wthreadhwmk <= MaxWorkers
  BY Slots DEF SlotsInv
<1>2. S \subseteq 1 .. wthreadhwmk + 1 /\ S # {} /\ S \subseteq Nat
  BY <1>1
<1>3. IsFiniteSet(S)
  <2> HIDE DEF S
  <2>1. IsFiniteSet(1 .. wthreadhwmk + 1)
    BY <1>1, FS_Interval
  <2> QED BY <1>2, <2>1, FS_Subset
<1>4. FreeSlot \in S
  <2> HIDE DEF S
  <2>1. Min(S) \in S
    BY <1>2, <1>3, MinIs
  <2> QED BY <2>1 DEF FreeSlot, S
<1> QED BY <1>1, <1>4, Slots DEF Workers

\* ... nobody runs on it, and it is not even marked ACTIVE if no thread was refused.
LEMMA FreeSlotVacant ==
    ASSUME SlotsInv, PoolsInv, NEW t \in Threads, CreateReady(t)
    PROVE  /\ FreeSlot \in Workers /\ osthreads[FreeSlot] = 0
           /\ ~refused => ~active[FreeSlot]
           /\ ~terminate[FreeSlot] /\ ~busy[FreeSlot]
           /\ call[t].pool \in Pools
           /\ nthreads[call[t].pool] \in Nat /\ nthreads[call[t].pool] < MaxInPool
           /\ FreeSlot <= wthreadhwmk \/ FreeSlot = wthreadhwmk + 1
<1>1. PICK s : s = FreeSlot
  OBVIOUS
<1>2. s \in Workers
  BY <1>1, FreeSlotIs, Slots DEF CreateReady, Workers
<1>3. s \in Nat /\ wthreadhwmk \in Nat
  BY <1>1, FreeSlotIs DEF SlotsInv
<1>4. ~terminate[s] /\ nthreads[call[t].pool] < MaxInPool /\ call[t].op = "create"
  BY <1>1 DEF CreateReady
<1>5. call[t].pool \in Pools
  BY <1>4 DEF SlotsInv, Calls, None
<1>6. osthreads[s] = 0 /\ (~refused => ~active[s]) /\ (s <= wthreadhwmk \/ s = wthreadhwmk + 1)
  <2>1. CASE s <= wthreadhwmk
    BY <1>1, <1>2, <1>4, <2>1, FreeSlotIs DEF SlotsInv, Lasting
  <2>2. CASE s > wthreadhwmk
    <3>1. s = wthreadhwmk + 1 /\ ~(s <= wthreadhwmk)
      BY <1>1, <1>3, <2>2, FreeSlotIs
    <3> QED BY <1>2, <3>1 DEF SlotsInv, PoolsInv
  <2> QED BY <1>3, <2>1, <2>2
<1> QED BY <1>1, <1>2, <1>4, <1>5, <1>6 DEF SlotsInv

\* The thread that 55 T. ends lasts, and is the last of its pool.
LEMMA ChosenIs ==
    ASSUME SlotsInv, NEW t \in Threads, Candidates(t) # {}
    PROVE  LET s == Max(Candidates(t)) IN
           /\ s \in Workers /\ s <= wthreadhwmk /\ Lasting(s)
           /\ \A u \in Mine(threadpoolno[s]) : u <= wthreadhwmk => u <= s
<1> DEFINE S == Candidates(t)
<1>1. S # {} /\ S \subseteq Workers /\ S \subseteq Nat /\ IsFiniteSet(S)
  BY Slots DEF Candidates, SlotsInv, Workers
<1>2. PICK s : s = Max(S)
  OBVIOUS
<1>3. s \in S /\ \A u \in S : u <= s
  <2> HIDE DEF S
  <2> QED BY <1>1, <1>2, MaxIs
<1>4. \A u \in Mine(threadpoolno[s]) : u <= wthreadhwmk => u \in S
  BY <1>3, Slots DEF Candidates, Mine, Workers
<1>5. s \in Workers /\ s <= wthreadhwmk /\ Lasting(s)
  BY <1>1, <1>3 DEF Candidates, SlotsInv
<1>6. \A u \in Mine(threadpoolno[s]) : u <= wthreadhwmk => u <= s
  BY <1>3, <1>4
<1> QED BY <1>2, <1>5, <1>6

-----------------------------------------------------------------------------
\* The invariant: initially, and the slots in every step

\* At first no slot has a thread.
LEMMA InitInv == Init => Inv
<1> SUFFICES ASSUME Init PROVE Inv
  OBVIOUS
<1>1. SlotsInv
  <2>1. /\ active \in [Workers -> BOOLEAN] /\ terminate \in [Workers -> BOOLEAN]
        /\ busy \in [Workers -> BOOLEAN] /\ refused \in BOOLEAN /\ ascending \in BOOLEAN
    BY Zenon DEF Init
  <2>2. /\ threadpoolno \in [Workers -> Pools \union {AnyPool}]
        /\ ndxinthreadpool \in [Workers -> 0 .. MaxInPool] /\ wthreadhwmk \in 0 .. MaxWorkers
        /\ nthreads \in [Pools -> 0 .. US - 1]
        /\ osthreads \in [Workers -> {0, 1}]
    BY ThreadPoolAssumption DEF Init, US
  <2>3. call \in [Threads -> Calls]
    BY DEF Init, Calls
  <2> QED BY <2>1, <2>2, <2>3 DEF Init, SlotsInv
<1>2. \A p \in Pools : Mine(p) = {}
  BY DEF Init, Mine, Lasting
<1>5. QueuesInv
  <2>1. /\ wanted \in [Pools -> BOOLEAN] /\ owes \in [Workers -> BOOLEAN]
        /\ asleep \in [Workers -> BOOLEAN]
    BY Zenon DEF Init
  <2>2. /\ jobs \in [Pools -> Seq(SUBSET (1 .. MaxInPool))] /\ leaving \in [Workers -> 0 .. MaxLeaving]
        /\ \A p \in Pools : Len(jobs[p]) <= MaxJobs
    BY ThreadPoolAssumption DEF Init
  <2> QED BY <2>1, <2>2 DEF Init, QueuesInv
<1>3. PoolsInv
  <2>1. \A s \in Workers : ~active[s]
    BY DEF Init
  <2>2. \A p \in Pools : nthreads[p] = 0 /\ jobs[p] = <<>>
    BY DEF Init
  <2>3. Cardinality({}) = 0 /\ MaxInPool \in Nat
    BY FS_EmptySet, ThreadPoolAssumption
  <2>4. \A p \in Pools : nthreads[p] = Cardinality(Mine(p)) /\ nthreads[p] <= MaxInPool
    BY <1>2, <2>2, <2>3
  <2>5. \A p \in Pools : jobs[p] # <<>> => nthreads[p] > 0
    BY <2>2
  <2> QED BY <2>1, <2>4, <2>5 DEF PoolsInv
<1>4. IndicesFill
  BY DEF Init, IndicesFill, Lasting
<1> QED BY <1>1, <1>3, <1>4, <1>5 DEF Inv

\* A thread ends in its slot.
LEMMA TerminateSlots ==
    ASSUME SlotsInv, NEW s \in Workers, osthreads[s] > 0, terminate[s], Terminate(s),
           busy' \in [Workers -> BOOLEAN], ~busy'[s],
           \A u \in Workers \ {s} : busy'[u] = busy[u],
           UNCHANGED <<threadpoolno, ndxinthreadpool, wthreadhwmk, nthreads, call, refused, ascending>>
    PROVE  SlotsInv'
<1>0. osthreads[s] = 1
  BY DEF SlotsInv
<1>1. osthreads[s] = 1 /\ osthreads' = [osthreads EXCEPT ![s] = 0]
  BY <1>0 DEF SlotsInv, Terminate
<1>2. osthreads' \in [Workers -> {0, 1}] /\ active' \in [Workers -> BOOLEAN]
      /\ terminate' \in [Workers -> BOOLEAN]
  BY <1>1 DEF SlotsInv, Terminate
<1>3. \A u \in Workers :
        /\ osthreads'[u] = 1 => active'[u] /\ u <= wthreadhwmk' /\ threadpoolno'[u] \in Pools
        /\ terminate'[u] => active'[u] /\ u <= wthreadhwmk'
        /\ busy'[u] => osthreads'[u] = 1
  BY <1>1 DEF SlotsInv, Terminate
<1> QED BY <1>2, <1>3 DEF SlotsInv

\* Every step keeps the slots.
LEMMA SlotsStep ==
    ASSUME SlotsInv, PoolsInv, [Next]_vars
    PROVE  SlotsInv'
<1>call. ASSUME NEW t \in Threads, NEW c \in Calls, Call(t, c) PROVE call' \in [Threads -> Calls]
  BY <1>call DEF SlotsInv, Call
<1>none. None \in Calls
  BY DEF Calls
<1>same. ASSUME call' \in [Threads -> Calls],
                UNCHANGED <<slots, nthreads, osthreads, busy, history>>
         PROVE  SlotsInv'
  BY <1>same DEF SlotsInv, slots, history
<1>1. ASSUME NEW t \in Threads, CallCreate(t) PROVE SlotsInv'
  BY <1>1, <1>call, <1>same DEF CallCreate, Calls, threads
<1>2. ASSUME NEW t \in Threads, CallDestroy(t) PROVE SlotsInv'
  BY <1>2, <1>call, <1>same DEF CallDestroy, Calls, threads
<1>3. ASSUME NEW t \in Threads, CreateLimit(t) \/ DestroyNone(t) PROVE SlotsInv'
  BY <1>3, <1>call, <1>none, <1>same DEF CreateLimit, DestroyNone, Refuse, threads
<1>4. ASSUME UNCHANGED vars PROVE SlotsInv'
  BY <1>4, <1>same DEF vars, slots, history, SlotsInv
<1>5. ASSUME NEW t \in Threads, Create(t) \/ CreateFail(t) PROVE SlotsInv'
  <2> DEFINE p == call[t].pool
  <2>0. CreateReady(t)
    BY <1>5 DEF Create, CreateFail
  <2>1. PICK s : s = FreeSlot
    OBVIOUS
  <2>2. /\ s \in Workers /\ osthreads[s] = 0 /\ ~terminate[s] /\ ~busy[s] /\ p \in Pools
        /\ nthreads[p] \in Nat /\ nthreads[p] < MaxInPool
        /\ s <= wthreadhwmk \/ s = wthreadhwmk + 1
    BY <2>0, <2>1, FreeSlotVacant
  <2>3. /\ active' = [active EXCEPT ![s] = TRUE] /\ terminate' = terminate
        /\ threadpoolno' = [threadpoolno EXCEPT ![s] = p]
        /\ ndxinthreadpool' = [ndxinthreadpool EXCEPT ![s] = nthreads[p] + 1]
        /\ busy' = busy /\ Call(t, None)
    BY <1>5, <2>1 DEF Create, CreateFail, NewIndex, threads
  <2>4. s \in Nat /\ wthreadhwmk \in Nat /\ s <= MaxWorkers /\ wthreadhwmk <= MaxWorkers /\ MaxInPool \in Nat
    BY <2>2, Slots, ThreadPoolAssumption DEF SlotsInv, Workers
  <2>5. nthreads[p] + 1 \in 0 .. MaxInPool /\ nthreads[p] + 1 \in 0 .. US - 1
    BY <2>2, Counted
  <2>6. /\ active' \in [Workers -> BOOLEAN] /\ terminate' \in [Workers -> BOOLEAN]
        /\ threadpoolno' \in [Workers -> Pools \union {AnyPool}]
        /\ ndxinthreadpool' \in [Workers -> 0 .. MaxInPool]
        /\ busy' \in [Workers -> BOOLEAN]
    BY <2>2, <2>3, <2>5 DEF SlotsInv
  <2>7. call' \in [Threads -> Calls] /\ refused' \in BOOLEAN /\ ascending' \in BOOLEAN
    <3>1. ascending' \in BOOLEAN
      BY <1>5, Zenon DEF Create, CreateFail, SlotsInv
    <3>2. refused' \in BOOLEAN
      BY <1>5, Zenon DEF Create, CreateFail, SlotsInv
    <3> QED BY <2>3, <3>1, <3>2, <1>call, <1>none
  <2>8. CASE Create(t)
    <3>1. osthreads' = [osthreads EXCEPT ![s] = osthreads[s] + 1]
          /\ nthreads' = [nthreads EXCEPT ![p] = nthreads[p] + 1] /\ wthreadhwmk' = NewHighest(s)
      BY <2>1, <2>8 DEF Create
    <3>2. wthreadhwmk' \in 0 .. MaxWorkers /\ wthreadhwmk <= wthreadhwmk' /\ s <= wthreadhwmk'
      <4>1. {wthreadhwmk, s} \subseteq Nat /\ IsFiniteSet({wthreadhwmk, s})
        <5>1. {wthreadhwmk, s} \subseteq 0 .. MaxWorkers /\ IsFiniteSet(0 .. MaxWorkers)
          BY <2>4, Slots, FS_Interval
        <5> QED BY <2>4, <5>1, FS_Subset
      <4>2. PICK h : h = Max({wthreadhwmk, s})
        OBVIOUS
      <4>3. h \in {wthreadhwmk, s} /\ wthreadhwmk <= h /\ s <= h
        BY <4>1, <4>2, MaxIs
      <4> QED BY <2>4, <3>1, <4>2, <4>3 DEF NewHighest
    <3>3. osthreads' \in [Workers -> {0, 1}] /\ nthreads' \in [Pools -> 0 .. US - 1]
      BY <2>2, <2>5, <3>1 DEF SlotsInv
    <3>4. ASSUME NEW u \in Workers
          PROVE  /\ osthreads'[u] = 1 => active'[u] /\ u <= wthreadhwmk' /\ threadpoolno'[u] \in Pools
                 /\ terminate'[u] => active'[u] /\ u <= wthreadhwmk'
                 /\ busy'[u] => osthreads'[u] = 1
      <4>0. u \in Nat /\ wthreadhwmk' \in Nat
        BY <3>2, Slots
      <4>1. CASE u = s
        BY <2>2, <2>3, <3>1, <3>2, <4>1 DEF SlotsInv
      <4>2. CASE u # s
        <5>1. /\ osthreads'[u] = osthreads[u] /\ active'[u] = active[u]
              /\ threadpoolno'[u] = threadpoolno[u]
          BY <2>2, <2>3, <3>1, <4>2 DEF SlotsInv
        <5>2. u <= wthreadhwmk => u <= wthreadhwmk'
          BY <2>4, <3>2, <4>0
        <5> QED BY <2>3, <5>1, <5>2 DEF SlotsInv
      <4> QED BY <4>1, <4>2
    <3> QED BY <2>6, <2>7, <3>2, <3>3, <3>4 DEF SlotsInv
  <2>9. CASE CreateFail(t)
    <3>1. UNCHANGED <<osthreads, nthreads, wthreadhwmk>>
      BY <2>9 DEF CreateFail, threads
    <3>2. ASSUME NEW u \in Workers
          PROVE  /\ osthreads'[u] = 1 => active'[u] /\ u <= wthreadhwmk' /\ threadpoolno'[u] \in Pools
                 /\ terminate'[u] => active'[u] /\ u <= wthreadhwmk'
                 /\ busy'[u] => osthreads'[u] = 1
      BY <2>2, <2>3, <3>1 DEF SlotsInv
    <3> QED BY <2>6, <2>7, <3>1, <3>2 DEF SlotsInv
  <2> QED BY <1>5, <2>8, <2>9
<1>6. ASSUME NEW t \in Threads, Destroy(t) PROVE SlotsInv'
  <2>1. PICK s : s = Max(Candidates(t))
    OBVIOUS
  <2>2. s \in Workers /\ s <= wthreadhwmk /\ Lasting(s)
    BY <1>6, <2>1, ChosenIs DEF Destroy
  <2>3. /\ terminate' = [terminate EXCEPT ![s] = TRUE]
        /\ nthreads' = [nthreads EXCEPT ![threadpoolno[s]] = (nthreads[threadpoolno[s]] - 1) % US]
        /\ UNCHANGED <<active, threadpoolno, ndxinthreadpool, wthreadhwmk, osthreads, busy, history>>
        /\ Call(t, None)
    BY <1>6, <2>1 DEF Destroy
  <2>4. nthreads' \in [Pools -> 0 .. US - 1]
    <3>1. ASSUME NEW q \in Pools PROVE (nthreads[q] - 1) % US \in 0 .. US - 1
      <4>1. nthreads[q] - 1 \in Int
        BY DEF SlotsInv
      <4> QED BY <4>1, Counted
    <3> QED BY <2>3, <3>1 DEF SlotsInv
  <2>5. terminate' \in [Workers -> BOOLEAN] /\ call' \in [Threads -> Calls]
    BY <2>2, <2>3, <1>call, <1>none DEF SlotsInv
  <2>6. \A u \in Workers : terminate'[u] => active[u] /\ u <= wthreadhwmk
    BY <2>2, <2>3 DEF SlotsInv, Lasting
  <2> QED BY <2>3, <2>4, <2>5, <2>6 DEF SlotsInv, history
<1>7. ASSUME NEW t \in Threads, Enqueue(t) \/ Kick(t) PROVE SlotsInv'
  BY <1>7, <1>same DEF Enqueue, Kick, SlotsInv
<1>8. ASSUME NEW s \in Workers, Take(s) PROVE SlotsInv'
  <2>1. osthreads[s] = 1
    BY <1>8 DEF Take, Looks, SlotsInv
  <2>2. busy' = [busy EXCEPT ![s] = TRUE]
    BY <1>8 DEF Take
  <2>3. busy' \in [Workers -> BOOLEAN] /\ \A u \in Workers : busy'[u] => osthreads[u] = 1
    BY <2>1, <2>2 DEF SlotsInv
  <2> QED BY <1>8, <2>3 DEF Take, SlotsInv, slots, history
<1>12. ASSUME NEW s \in Workers, Sleep(s) \/ WaitForKick(s) \/ GiveKick(s) \/ Leave(s) PROVE SlotsInv'
  BY <1>12, <1>same DEF Sleep, WaitForKick, GiveKick, Leave, SlotsInv
<1>9. ASSUME NEW s \in Workers, Finish(s) PROVE SlotsInv'
  <2>1. busy' = [busy EXCEPT ![s] = FALSE] /\ osthreads[s] > 0
        /\ UNCHANGED <<threadpoolno, ndxinthreadpool, wthreadhwmk, nthreads, call, history>>
    BY <1>9 DEF Finish
  <2>2. busy' \in [Workers -> BOOLEAN] /\ ~busy'[s] /\ \A u \in Workers \ {s} : busy'[u] = busy[u]
    BY <2>1 DEF SlotsInv
  <2>3. CASE terminate[s]
    BY <1>9, <2>1, <2>2, <2>3, TerminateSlots DEF Finish, SlotsInv, history
  <2>4. CASE ~terminate[s]
    BY <1>9, <2>1, <2>2, <2>4 DEF Finish, SlotsInv, history
  <2> QED BY <2>3, <2>4
<1>10. ASSUME NEW s \in Workers, Quit(s) PROVE SlotsInv'
  BY <1>10, TerminateSlots DEF Quit, Looks, SlotsInv, history
<1>11. ASSUME NEW t \in Threads, CreateWait(t) \/ DestroyWait(t) PROVE SlotsInv'
  BY <1>4, <1>11 DEF CreateWait, DestroyWait
<1> QED
  BY <1>1, <1>2, <1>3, <1>4, <1>5, <1>6, <1>7, <1>8, <1>9, <1>10, <1>11, <1>12
  DEF Next, Returns, Works

-----------------------------------------------------------------------------
\* The queues in every step

\* Waking lets sleepers out.
LEMMA WakesOut ==
    ASSUME QueuesInv, NEW p, WakeAll(p) \/ WakeOne(p)
    PROVE  asleep' \in [Workers -> BOOLEAN] /\ \A u \in Workers : asleep'[u] => asleep[u]
<1>1. CASE WakeAll(p)
  <2>1. \A u \in Workers : asleep'[u] = (asleep[u] /\ threadpoolno[u] # p)
    BY <1>1 DEF WakeAll
  <2>2. asleep' \in [Workers -> BOOLEAN]
    BY <1>1 DEF WakeAll
  <2> QED BY <2>1, <2>2
<1>2. CASE WakeOne(p)
  BY <1>2 DEF WakeOne, QueuesInv
<1> QED BY <1>1, <1>2

\* Every step keeps the queues.
LEMMA QueuesStep ==
    ASSUME SlotsInv, PoolsInv, QueuesInv, [Next]_vars
    PROVE  QueuesInv'
<1> USE DEF slots, history, threads
<1>same. ASSUME UNCHANGED <<jobs, wanted, leaving, busy, owes>>, asleep' \in [Workers -> BOOLEAN],
                \A u \in Workers : asleep'[u] => asleep[u] /\ osthreads'[u] = osthreads[u]
         PROVE  QueuesInv'
  BY <1>same DEF QueuesInv
<1>1. ASSUME NEW t \in Threads,
             \/ CallCreate(t) \/ CallDestroy(t) \/ CreateLimit(t) \/ DestroyNone(t)
             \/ CreateWait(t) \/ DestroyWait(t) \/ CreateFail(t)
      PROVE  QueuesInv'
  BY <1>1, <1>same DEF CallCreate, CallDestroy, CreateLimit, DestroyNone, Refuse, CreateWait,
                       DestroyWait, CreateFail, vars, QueuesInv
<1>2. ASSUME NEW t \in Threads, Create(t) PROVE QueuesInv'
  <2>1. PICK s : s = FreeSlot
    OBVIOUS
  <2>2. s \in Workers /\ osthreads[s] = 0
    BY <1>2, <2>1, FreeSlotVacant DEF Create
  <2>3. osthreads' = [osthreads EXCEPT ![s] = osthreads[s] + 1]
        /\ UNCHANGED <<jobs, wanted, leaving, busy, owes, asleep>>
    BY <1>2, <2>1 DEF Create
  <2>4. \A u \in Workers : asleep[u] => u # s /\ osthreads'[u] = osthreads[u]
    BY <2>2, <2>3 DEF QueuesInv, SlotsInv
  <2> QED BY <2>3, <2>4, <1>same DEF QueuesInv
<1>3. ASSUME NEW t \in Threads, Destroy(t) PROVE QueuesInv'
  <2>1. WakeAll(threadpoolno[Max(Candidates(t))])
        /\ UNCHANGED <<jobs, wanted, osthreads, leaving, busy, owes>>
    BY <1>3 DEF Destroy
  <2> QED BY <2>1, WakesOut, <1>same
<1>4. ASSUME NEW t \in Threads, Kick(t) PROVE QueuesInv'
  <2>1. PICK p \in Pools : WakeAll(p)
    BY <1>4 DEF Kick
  <2>2. UNCHANGED <<jobs, wanted, osthreads, leaving, busy, owes>>
    BY <1>4 DEF Kick
  <2> QED BY <2>1, <2>2, WakesOut, <1>same
<1>5. ASSUME NEW t \in Threads, Enqueue(t) PROVE QueuesInv'
  <2>1. PICK p \in Pools, j \in Masks \union {Plain} :
          /\ Len(jobs[p]) < MaxJobs /\ jobs' = [jobs EXCEPT ![p] = Append(jobs[p], j)]
          /\ WakeAll(p) \/ WakeOne(p)
    BY <1>5 DEF Enqueue
  <2>2. UNCHANGED <<wanted, osthreads, leaving, busy, owes>>
    BY <1>5 DEF Enqueue
  <2>3. j \in SUBSET (1 .. MaxInPool) /\ jobs[p] \in Seq(SUBSET (1 .. MaxInPool)) /\ MaxJobs \in Nat
    BY <2>1, ThreadPoolAssumption DEF Plain, QueuesInv
  <2>4. Append(jobs[p], j) \in Seq(SUBSET (1 .. MaxInPool)) /\ Len(Append(jobs[p], j)) <= MaxJobs
    BY <2>1, <2>3
  <2>5. jobs' \in [Pools -> Seq(SUBSET (1 .. MaxInPool))] /\ \A q \in Pools : Len(jobs'[q]) <= MaxJobs
    BY <2>1, <2>4 DEF QueuesInv
  <2>6. asleep' \in [Workers -> BOOLEAN] /\ \A u \in Workers : asleep'[u] => asleep[u]
    BY <2>1, WakesOut
  <2> QED BY <2>2, <2>5, <2>6 DEF QueuesInv
<1>6. ASSUME NEW s \in Workers, Sleep(s) \/ WaitForKick(s) PROVE QueuesInv'
  <2>1. Looks(s) /\ asleep' = [asleep EXCEPT ![s] = TRUE]
        /\ UNCHANGED <<jobs, osthreads, leaving, busy, owes>>
    BY <1>6 DEF Sleep, WaitForKick
  <2>2. wanted' \in [Pools -> BOOLEAN]
    <3>1. CASE Sleep(s)
      BY <3>1 DEF Sleep, QueuesInv
    <3>2. CASE WaitForKick(s)
      <4>1. wanted' = [wanted EXCEPT ![threadpoolno[s]] = wanted[threadpoolno[s]] \/ Len(Queue(s)) > 1]
        BY <3>2 DEF WaitForKick
      <4>2. threadpoolno[s] \in Pools
        BY <2>1 DEF Looks, SlotsInv
      <4>3. PICK b \in BOOLEAN : b = (wanted[threadpoolno[s]] \/ Len(Queue(s)) > 1)
        OBVIOUS
      <4> QED BY <4>1, <4>2, <4>3 DEF QueuesInv
    <3> QED BY <1>6, <3>1, <3>2
  <2>3. osthreads[s] = 1 /\ ~busy[s]
    BY <2>1 DEF Looks, SlotsInv
  <2> QED BY <2>1, <2>2, <2>3 DEF QueuesInv
<1>7. ASSUME NEW s \in Workers, Take(s) PROVE QueuesInv'
  <2>1. PICK p : p = threadpoolno[s]
    OBVIOUS
  <2>2. PICK left : left = Head(jobs[p]) \ {ndxinthreadpool[s]}
    OBVIOUS
  <2>3. /\ Looks(s) /\ jobs[p] # <<>> /\ busy' = [busy EXCEPT ![s] = TRUE]
        /\ UNCHANGED <<osthreads, leaving, asleep>>
    BY <1>7, <2>1 DEF Take
  <2>4. p \in Pools /\ osthreads[s] = 1 /\ ~asleep[s]
    BY <2>1, <2>3 DEF Looks, SlotsInv
  <2>5. PICK q \in Seq(SUBSET (1 .. MaxInPool)) : q = jobs[p] /\ q # <<>> /\ Len(q) <= MaxJobs
    BY <2>3, <2>4 DEF QueuesInv
  <2>6. Tail(q) \in Seq(SUBSET (1 .. MaxInPool)) /\ Len(Tail(q)) = Len(q) - 1 /\ Len(q) \in Nat \ {0}
        /\ Head(q) \in SUBSET (1 .. MaxInPool)
    BY <2>5
  <2>7. left \in SUBSET (1 .. MaxInPool)
    BY <2>2, <2>5, <2>6
  <2>8. <<left>> \o Tail(q) \in Seq(SUBSET (1 .. MaxInPool)) /\ Len(<<left>> \o Tail(q)) = Len(q)
    BY <2>6, <2>7
  <2>9. PICK n \in Seq(SUBSET (1 .. MaxInPool)) : Len(n) <= MaxJobs /\ jobs' = [jobs EXCEPT ![p] = n]
    <3>1. jobs' = [jobs EXCEPT ![p] = <<left>> \o Tail(q)] \/ jobs' = [jobs EXCEPT ![p] = Tail(q)]
      BY <1>7, <2>1, <2>2, <2>5 DEF Take
    <3>2. Len(Tail(q)) <= MaxJobs
      BY <2>5, <2>6, ThreadPoolAssumption
    <3> QED BY <2>5, <2>6, <2>8, <3>1, <3>2
  <2>10. wanted' \in [Pools -> BOOLEAN] /\ owes' \in [Workers -> BOOLEAN]
         /\ \A u \in Workers : owes'[u] => owes[u] \/ u = s
    BY <1>7, <2>1, <2>4 DEF Take, QueuesInv
  <2>11. jobs' \in [Pools -> Seq(SUBSET (1 .. MaxInPool))] /\ \A r \in Pools : Len(jobs'[r]) <= MaxJobs
    BY <2>4, <2>9 DEF QueuesInv
  <2>12. \A u \in Workers : /\ owes'[u] => busy'[u]
                            /\ asleep'[u] => osthreads'[u] = 1 /\ ~busy'[u]
    BY <2>3, <2>4, <2>10 DEF QueuesInv, SlotsInv
  <2>13. leaving' \in [Workers -> 0 .. MaxLeaving] /\ asleep' \in [Workers -> BOOLEAN]
    BY <2>3 DEF QueuesInv
  <2> QED BY <2>10, <2>11, <2>12, <2>13 DEF QueuesInv
<1>8. ASSUME NEW s \in Workers, GiveKick(s) PROVE QueuesInv'
  <2>1. owes' = [owes EXCEPT ![s] = FALSE] /\ WakeAll(threadpoolno[s])
        /\ UNCHANGED <<jobs, wanted, osthreads, leaving, busy>>
    BY <1>8 DEF GiveKick
  <2>2. owes' \in [Workers -> BOOLEAN] /\ \A u \in Workers : owes'[u] => owes[u]
    BY <2>1 DEF QueuesInv
  <2>3. asleep' \in [Workers -> BOOLEAN] /\ \A u \in Workers : asleep'[u] => asleep[u]
    BY <2>1, WakesOut
  <2> QED BY <2>1, <2>2, <2>3 DEF QueuesInv
<1>9. ASSUME NEW s \in Workers, Finish(s) \/ Quit(s) PROVE QueuesInv'
  <2>1. ~asleep[s] /\ ~owes[s] /\ ~busy'[s] /\ UNCHANGED <<jobs, wanted, owes, asleep>>
        /\ \A u \in Workers \ {s} : busy'[u] = busy[u]
    BY <1>9 DEF Finish, Quit, Looks, QueuesInv, SlotsInv
  <2>2. leaving' \in [Workers -> 0 .. MaxLeaving] /\ \A u \in Workers \ {s} : osthreads'[u] = osthreads[u]
    <3>1. CASE Terminate(s)
      <4>1. leaving[s] + 1 \in 0 .. MaxLeaving
        BY <3>1, ThreadPoolAssumption DEF Terminate, QueuesInv
      <4> QED BY <3>1, <4>1 DEF Terminate, QueuesInv, SlotsInv
    <3>2. CASE UNCHANGED <<osthreads, leaving>>
      BY <3>2 DEF QueuesInv
    <3> QED BY <1>9, <3>1, <3>2 DEF Finish, Quit
  <2> QED BY <2>1, <2>2 DEF QueuesInv
<1>10. ASSUME NEW s \in Workers, Leave(s) PROVE QueuesInv'
  <2>1. leaving' = [leaving EXCEPT ![s] = leaving[s] - 1] /\ leaving[s] > 0
        /\ UNCHANGED <<jobs, wanted, osthreads, busy, owes, asleep>>
    BY <1>10 DEF Leave
  <2>2. leaving[s] - 1 \in 0 .. MaxLeaving
    BY <2>1, ThreadPoolAssumption DEF QueuesInv
  <2> QED BY <2>1, <2>2 DEF QueuesInv
<1>11. ASSUME UNCHANGED vars PROVE QueuesInv'
  BY <1>11, <1>same DEF vars, QueuesInv
<1> QED
  BY <1>1, <1>2, <1>3, <1>4, <1>5, <1>6, <1>7, <1>8, <1>9, <1>10, <1>11 DEF Next, Returns, Works

-----------------------------------------------------------------------------
\* The pools in every step

\* The indices of the lasting threads of a pool count them.
Filled(p) == \A s \in Mine(p) : ndxinthreadpool[s] = Cardinality({u \in Mine(p) : u <= s})

\* IndicesFill pool by pool.
LEMMA FillIs == IndicesFill <=> (~refused /\ ascending => \A p \in Pools : Filled(p))
BY DEF IndicesFill, Filled, Mine

\* The steps that change no slot and no count.
LEMMA QuietPools ==
    ASSUME SlotsInv, PoolsInv, IndicesFill,
           UNCHANGED <<active, terminate, threadpoolno, ndxinthreadpool, nthreads, osthreads,
                       refused, ascending>>,
           \A p \in Pools : jobs'[p] # <<>> => jobs[p] # <<>> \/ nthreads[p] > 0
    PROVE  PoolsInv' /\ IndicesFill'
<1>1. \A p : Mine(p)' = Mine(p)
  BY DEF Mine, Lasting
<1>2. PoolsInv'
  BY <1>1 DEF PoolsInv
<1>3. IndicesFill'
  BY DEF IndicesFill, Lasting
<1> QED BY <1>2, <1>3

\* A thread that was told to end has not been counted since.
LEMMA TerminatePools ==
    ASSUME SlotsInv, PoolsInv, IndicesFill, NEW s \in Workers, terminate[s], Terminate(s),
           UNCHANGED <<threadpoolno, ndxinthreadpool, nthreads, jobs, refused, ascending>>
    PROVE  PoolsInv' /\ IndicesFill'
<1>1. \A u \in Workers : Lasting(u)' <=> Lasting(u)
  BY DEF Terminate, Lasting, SlotsInv
<1>2. \A p : Mine(p)' = Mine(p)
  BY <1>1 DEF Mine
<1>3. \A u \in Workers : active'[u] => u # s /\ active[u] /\ osthreads'[u] = osthreads[u]
  BY DEF Terminate, SlotsInv
<1>4. PoolsInv'
  BY <1>2, <1>3 DEF PoolsInv
<1>5. IndicesFill'
  <2>1. IndicesFill' <=> (~refused' /\ ascending' => \A p \in Pools : Filled(p)')
    BY DEF IndicesFill, Filled, Mine
  <2>2. \A p : Filled(p)' <=> Filled(p)
    BY <1>2 DEF Filled
  <2> QED BY <2>1, <2>2, FillIs
<1> QED BY <1>4, <1>5

\* A new thread is one more of its pool, and the last of it if threads come in order.
LEMMA CreatePools ==
    ASSUME SlotsInv, PoolsInv, IndicesFill, NEW t \in Threads, Create(t)
    PROVE  PoolsInv' /\ IndicesFill'
<1> SUFFICES ASSUME ~refused PROVE PoolsInv' /\ IndicesFill'
  BY DEF Create, PoolsInv, IndicesFill
<1>0. PICK p : p = call[t].pool
  OBVIOUS
<1>1. PICK s : s = FreeSlot
  OBVIOUS
<1>2. /\ s \in Workers /\ osthreads[s] = 0 /\ ~active[s] /\ ~terminate[s] /\ p \in Pools
      /\ nthreads[p] \in Nat /\ nthreads[p] < MaxInPool
  BY <1>0, <1>1, FreeSlotVacant DEF Create
<1>3. /\ active' = [active EXCEPT ![s] = TRUE] /\ terminate' = terminate
      /\ threadpoolno' = [threadpoolno EXCEPT ![s] = p]
      /\ ndxinthreadpool' = [ndxinthreadpool EXCEPT ![s] = nthreads[p] + 1]
      /\ osthreads' = [osthreads EXCEPT ![s] = osthreads[s] + 1]
      /\ nthreads' = [nthreads EXCEPT ![p] = nthreads[p] + 1]
      /\ jobs' = jobs /\ refused' = refused
      /\ ascending' = (ascending /\ \A u \in Workers : Lasting(u) /\ threadpoolno[u] = p => u < s)
  BY <1>0, <1>1 DEF Create, NewIndex
<1>4. \A u \in Workers : Lasting(u)' <=> Lasting(u) \/ u = s
  BY <1>2, <1>3 DEF Lasting, SlotsInv
<1>5. \A q : s \notin Mine(q)
  BY <1>2 DEF Mine, Lasting
<1>6. Mine(p)' = Mine(p) \union {s} /\ \A q : q # p => Mine(q)' = Mine(q)
  <2>1. \A u \in Workers : threadpoolno'[u] = IF u = s THEN p ELSE threadpoolno[u]
    BY <1>2, <1>3 DEF SlotsInv
  <2>2. \A q : Mine(q)' = {u \in Workers : (Lasting(u) \/ u = s)
                                           /\ (IF u = s THEN p ELSE threadpoolno[u]) = q}
    BY <1>4, <2>1 DEF Mine
  <2> QED BY <1>2, <1>5, <2>2 DEF Mine
<1>7. IsFiniteSet(Mine(p)) /\ Mine(p) \subseteq Workers
  BY Slots DEF Mine
<1>8. Cardinality(Mine(p)') = nthreads[p] + 1
  <2>1. Cardinality(Mine(p)) = nthreads[p]
    BY <1>2 DEF PoolsInv
  <2>2. Cardinality(Mine(p) \union {s}) = Cardinality(Mine(p)) + 1
    BY <1>5, <1>7, FS_AddElement
  <2> QED BY <1>6, <2>1, <2>2
<1>9. PoolsInv'
  <2>1. \A u \in Workers : active'[u] => osthreads'[u] = 1
    BY <1>2, <1>3 DEF PoolsInv, SlotsInv
  <2>2. nthreads'[p] = Cardinality(Mine(p)') /\ nthreads'[p] <= MaxInPool /\ nthreads'[p] > 0
    <3>1. nthreads'[p] = nthreads[p] + 1
      BY <1>2, <1>3 DEF SlotsInv
    <3>2. PICK n \in Nat : n = nthreads[p]
      BY <1>2
    <3>3. n + 1 <= MaxInPool /\ n + 1 > 0
      BY <1>2, <3>2, ThreadPoolAssumption
    <3> QED BY <1>8, <3>1, <3>2, <3>3
  <2>3. \A q \in Pools : q # p => nthreads'[q] = nthreads[q]
    BY <1>2, <1>3 DEF SlotsInv
  <2>4. ASSUME NEW q \in Pools
        PROVE  /\ nthreads'[q] = Cardinality(Mine(q)') /\ nthreads'[q] <= MaxInPool
               /\ jobs'[q] # <<>> => nthreads'[q] > 0
    <3>1. CASE q = p
      BY <2>2, <3>1
    <3>2. CASE q # p
      <4>1. /\ nthreads[q] = Cardinality(Mine(q)) /\ nthreads[q] <= MaxInPool
            /\ jobs[q] # <<>> => nthreads[q] > 0
        BY DEF PoolsInv
      <4>2. Mine(q)' = Mine(q) /\ nthreads'[q] = nthreads[q] /\ jobs'[q] = jobs[q]
        BY <1>3, <1>6, <2>3, <3>2
      <4> QED BY <4>1, <4>2
    <3> QED BY <3>1, <3>2
  <2> QED BY <2>1, <2>4 DEF PoolsInv
<1>10. IndicesFill'
  <2> SUFFICES ASSUME ascending', NEW q \in Pools PROVE Filled(q)'
    BY DEF IndicesFill, Filled, Mine
  <2>1. Filled(q)
    BY <1>3, FillIs
  <2>2. \A u \in Mine(q) : u # s /\ ndxinthreadpool'[u] = ndxinthreadpool[u]
    BY <1>2, <1>3, <1>5 DEF Mine, SlotsInv
  <2>3. CASE q # p
    BY <1>6, <2>1, <2>2, <2>3 DEF Filled
  <2>4. CASE q = p
    <3>1. \A u \in Mine(p) : u < s
      BY <1>3 DEF Mine
    <3>2. s \in Nat /\ \A u \in Mine(p) : u \in Nat
      BY <1>2, <1>7, Slots
    <3>3. \A u \in Mine(p) : {x \in Mine(p)' : x <= u} = {x \in Mine(p) : x <= u}
      BY <1>6, <3>1, <3>2
    <3>4. {x \in Mine(p)' : x <= s} = Mine(p)'
      BY <1>6, <3>1, <3>2
    <3>5. ndxinthreadpool'[s] = nthreads[p] + 1
      BY <1>2, <1>3 DEF SlotsInv
    <3>6. \A u \in Mine(p) : ndxinthreadpool'[u] = Cardinality({x \in Mine(p)' : x <= u})
      BY <2>1, <2>2, <2>4, <3>3 DEF Filled
    <3>7. ndxinthreadpool'[s] = Cardinality({x \in Mine(p)' : x <= s})
      BY <1>8, <3>4, <3>5
    <3> QED BY <1>6, <2>4, <3>6, <3>7 DEF Filled
  <2> QED BY <2>3, <2>4
<1> QED BY <1>9, <1>10

\* The last thread of a pool is told to end: it is one fewer.
LEMMA DestroyPools ==
    ASSUME SlotsInv, PoolsInv, IndicesFill, NEW t \in Threads, Destroy(t)
    PROVE  PoolsInv' /\ IndicesFill'
<1>0. PICK s : s = Max(Candidates(t))
  OBVIOUS
<1>1. PICK p : p = threadpoolno[s]
  OBVIOUS
<1>2. /\ s \in Workers /\ s <= wthreadhwmk /\ Lasting(s)
      /\ \A u \in Mine(p) : u <= wthreadhwmk => u <= s
  BY <1>0, <1>1, ChosenIs DEF Destroy
<1>3. /\ terminate' = [terminate EXCEPT ![s] = TRUE]
      /\ nthreads' = [nthreads EXCEPT ![p] = (nthreads[p] - 1) % US]
      /\ UNCHANGED <<active, threadpoolno, ndxinthreadpool, wthreadhwmk, jobs, osthreads, busy,
                     refused, ascending>>
      /\ ~(jobs[p] # <<>> /\ nthreads[p] <= 1)
  BY <1>0, <1>1 DEF Destroy, LastOfBusyPool, history
<1> SUFFICES ASSUME ~refused PROVE PoolsInv' /\ IndicesFill'
  BY <1>3 DEF PoolsInv, IndicesFill
<1>4. \A u \in Workers : Lasting(u)' <=> Lasting(u) /\ u # s
  BY <1>2, <1>3 DEF Lasting, SlotsInv
<1>5. s \in Mine(p) /\ p \in Pools
  BY <1>1, <1>2 DEF Mine, PoolsInv, SlotsInv, Lasting
<1>6. Mine(p)' = Mine(p) \ {s} /\ \A q : q # p => Mine(q)' = Mine(q)
  BY <1>1, <1>3, <1>4 DEF Mine
<1>7. IsFiniteSet(Mine(p)) /\ Mine(p) \subseteq Workers
  BY Slots DEF Mine
<1>8. PICK n : n = nthreads[p]
  OBVIOUS
<1>9. n = Cardinality(Mine(p)) /\ n \in Nat \ {0} /\ n <= MaxInPool
  <2>1. n = Cardinality(Mine(p)) /\ n <= MaxInPool
    BY <1>5, <1>8 DEF PoolsInv
  <2>2. Cardinality(Mine(p)) \in Nat /\ Cardinality(Mine(p)) # 0
    BY <1>5, <1>7, FS_EmptySet, FS_CardinalityType
  <2> QED BY <2>1, <2>2
<1>10. nthreads'[p] = n - 1 /\ \A q \in Pools : q # p => nthreads'[q] = nthreads[q]
  <2>1. (n - 1) % US = n - 1
    BY <1>9, Counted
  <2> QED BY <1>3, <1>5, <1>8, <2>1 DEF SlotsInv
<1>11. PoolsInv'
  <2>1. Cardinality(Mine(p)') = n - 1
    BY <1>5, <1>6, <1>7, <1>9, FS_RemoveElement
  <2>2. jobs[p] # <<>> => n - 1 > 0
    BY <1>3, <1>8, <1>9
  <2>3. n - 1 <= MaxInPool
    BY <1>9, ThreadPoolAssumption
  <2> QED BY <1>3, <1>6, <1>10, <2>1, <2>2, <2>3 DEF PoolsInv
<1>12. IndicesFill'
  <2> SUFFICES ASSUME ascending', NEW q \in Pools PROVE Filled(q)'
    BY DEF IndicesFill, Filled, Mine
  <2>1. Filled(q)
    BY <1>3, FillIs
  <2>2. CASE q # p
    BY <1>3, <1>6, <2>1, <2>2 DEF Filled
  <2>3. CASE q = p
    <3>1. \A u \in Mine(p) : u <= wthreadhwmk
      BY DEF Mine, Lasting, PoolsInv, SlotsInv
    <3>2. \A u \in Mine(p) : u <= s
      BY <1>2, <3>1
    <3>3. s \in Nat /\ \A u \in Mine(p) : u \in Nat
      BY <1>2, <1>7, Slots
    <3>4. \A u \in Mine(p) \ {s} : {x \in Mine(p)' : x <= u} = {x \in Mine(p) : x <= u}
      BY <1>6, <3>2, <3>3
    <3> QED BY <1>3, <1>6, <2>1, <2>3, <3>4 DEF Filled
  <2> QED BY <2>2, <2>3
<1> QED BY <1>11, <1>12

\* Every step keeps what the pools count.
LEMMA PoolsStep ==
    ASSUME SlotsInv, QueuesInv, PoolsInv, IndicesFill, [Next]_vars
    PROVE  PoolsInv' /\ IndicesFill'
<1> USE DEF slots, history, threads
<1>1. ASSUME NEW t \in Threads,
             \/ CallCreate(t) \/ CallDestroy(t) \/ CreateLimit(t) \/ DestroyNone(t)
             \/ CreateWait(t) \/ DestroyWait(t)
      PROVE  PoolsInv' /\ IndicesFill'
  <2>1. UNCHANGED <<slots, nthreads, jobs, osthreads, history>>
    BY <1>1 DEF CallCreate, CallDestroy, CreateLimit, DestroyNone, Refuse, CreateWait,
                DestroyWait, vars
  <2> QED BY <2>1, QuietPools
<1>2. ASSUME NEW t \in Threads, Enqueue(t) \/ Kick(t) PROVE PoolsInv' /\ IndicesFill'
  <2>1. \A p \in Pools : jobs'[p] # <<>> => jobs[p] # <<>> \/ nthreads[p] > 0
    BY <1>2 DEF Enqueue, Kick, QueuesInv
  <2> QED BY <1>2, <2>1, QuietPools DEF Enqueue, Kick
<1>3. ASSUME NEW t \in Threads, Create(t) PROVE PoolsInv' /\ IndicesFill'
  BY <1>3, CreatePools
<1>4. ASSUME NEW t \in Threads, CreateFail(t) PROVE PoolsInv' /\ IndicesFill'
  BY <1>4 DEF CreateFail, PoolsInv, IndicesFill
<1>5. ASSUME NEW t \in Threads, Destroy(t) PROVE PoolsInv' /\ IndicesFill'
  BY <1>5, DestroyPools
<1>6. ASSUME NEW s \in Workers, Take(s) PROVE PoolsInv' /\ IndicesFill'
  <2>1. PICK p : p = threadpoolno[s]
    OBVIOUS
  <2>2. p \in Pools /\ jobs[p] # <<>>
    BY <1>6, <2>1 DEF Take, Looks, SlotsInv
  <2>3. \A q \in Pools : q # p => jobs'[q] = jobs[q]
    BY <1>6, <2>1, <2>2 DEF Take, QueuesInv
  <2> QED BY <1>6, <2>2, <2>3, QuietPools DEF Take
<1>9. ASSUME NEW s \in Workers, Sleep(s) \/ WaitForKick(s) \/ GiveKick(s) \/ Leave(s)
      PROVE  PoolsInv' /\ IndicesFill'
  BY <1>9, QuietPools DEF Sleep, WaitForKick, GiveKick, Leave
<1>7. ASSUME NEW s \in Workers, Finish(s) \/ Quit(s) PROVE PoolsInv' /\ IndicesFill'
  <2>1. CASE terminate[s]
    BY <1>7, <2>1, TerminatePools DEF Finish, Quit
  <2>2. CASE ~terminate[s]
    BY <1>7, <2>2, QuietPools DEF Finish, Quit
  <2> QED BY <2>1, <2>2
<1>8. ASSUME UNCHANGED vars PROVE PoolsInv' /\ IndicesFill'
  BY <1>8, QuietPools DEF vars
<1> QED BY <1>1, <1>2, <1>3, <1>4, <1>5, <1>6, <1>7, <1>8, <1>9 DEF Next, Returns, Works

-----------------------------------------------------------------------------
\* The invariant holds in every reachable state.
THEOREM Inductive == Spec => []Inv
<1>1. Init => Inv
  BY InitInv
<1>2. Inv /\ [Next]_vars => Inv'
  BY SlotsStep, QueuesStep, PoolsStep DEF Inv
<1> QED BY <1>1, <1>2, PTL DEF Spec

\* "1 T. y: net number of threads created, not counting terminated & inactive"
\* (ct.c:1000), and the counts and the indices of the pools.
THEOREM CountsAreTrue == Spec => []CountIsTrue
<1>1. Inv => CountIsTrue
  <2> SUFFICES ASSUME Inv PROVE CountIsTrue
    OBVIOUS
  <2>1. TypeOK
    <3>1. \A p \in Pools : ~refused => nthreads[p] \in 0 .. MaxInPool
      BY DEF Inv, SlotsInv, PoolsInv
    <3>2. \A p \in Pools : nthreads[p] \in 0 .. (IF refused THEN US - 1 ELSE MaxInPool)
      BY <3>1 DEF Inv, SlotsInv
    <3>3. \A t \in Threads : call[t].op \in {"none", "create", "destroy"}
      BY DEF Inv, SlotsInv, Calls, None
    <3>4. osthreads \in [Workers -> Nat]
      BY DEF Inv, SlotsInv
    <3> QED BY <3>2, <3>3, <3>4 DEF TypeOK, Inv, SlotsInv, QueuesInv
  <2>2. ASSUME ~refused, NEW s \in Workers
        PROVE  (s <= wthreadhwmk /\ Lasting(s)) <=> (osthreads[s] > 0 /\ ~terminate[s])
    BY <2>2 DEF Inv, SlotsInv, PoolsInv, Lasting
  <2>3. ASSUME ~refused, NEW p \in Pools
        PROVE  nthreads[p] = Cardinality({s \in Workers :
                   osthreads[s] > 0 /\ ~terminate[s] /\ threadpoolno[s] = p})
    <3>1. \A s \in Workers : Lasting(s) <=> osthreads[s] > 0 /\ ~terminate[s]
      BY <2>3 DEF Inv, SlotsInv, PoolsInv, Lasting
    <3>2. Mine(p) = {s \in Workers : osthreads[s] > 0 /\ ~terminate[s] /\ threadpoolno[s] = p}
      BY <3>1 DEF Mine
    <3> QED BY <2>3, <3>2 DEF Inv, PoolsInv
  <2> QED BY <2>1, <2>2, <2>3 DEF CountIsTrue, Inv
<1> QED BY <1>1, Inductive, PTL

\* A job that waits has a thread to run it (ct.c:1216).
THEOREM JobsHaveThreads == Spec => []JobsAreServed
<1>1. Inv => JobsAreServed
  <2> SUFFICES ASSUME Inv, ~refused, NEW p \in Pools, jobs[p] # <<>>
               PROVE  \E s \in Workers : Lasting(s) /\ osthreads[s] > 0 /\ threadpoolno[s] = p
    BY DEF JobsAreServed
  <2>1. Cardinality(Mine(p)) > 0
    BY DEF Inv, PoolsInv
  <2>2. PICK s : s \in Mine(p)
    BY <2>1, FS_EmptySet
  <2> QED BY <2>2 DEF Inv, PoolsInv, Mine, Lasting
<1> QED BY <1>1, Inductive, PTL

\* While a thread is in the loop of a slot, the slot keeps its pool and its index and no
\* other thread comes to its loop, whatever the operating system refuses (ct.c:429).
\* Of the threads that leave the slot this says nothing.
THEOREM SlotsAreOwned == Spec => SlotIsOwned
<1>1. Inv /\ [Next]_vars =>
        [\A s \in Workers : osthreads[s] > 0 =>
            /\ osthreads'[s] <= osthreads[s]
            /\ UNCHANGED <<threadpoolno[s], ndxinthreadpool[s]>>]_vars
  <2> SUFFICES ASSUME Inv, Next, NEW s \in Workers, osthreads[s] > 0
               PROVE  /\ osthreads'[s] <= osthreads[s]
                      /\ UNCHANGED <<threadpoolno[s], ndxinthreadpool[s]>>
    OBVIOUS
  <2>0. SlotsInv /\ PoolsInv /\ osthreads[s] = 1
    BY DEF Inv, SlotsInv
  <2> USE DEF slots, history, threads
  <2>1. ASSUME NEW t \in Threads, Create(t) \/ CreateFail(t)
        PROVE  osthreads'[s] = osthreads[s] /\ UNCHANGED <<threadpoolno[s], ndxinthreadpool[s]>>
    <3>1. PICK f : f = FreeSlot
      OBVIOUS
    <3>2. f \in Workers /\ osthreads[f] = 0
      BY <2>0, <2>1, <3>1, FreeSlotVacant DEF Create, CreateFail
    <3>3. f # s
      BY <2>0, <3>2
    <3> QED BY <2>0, <2>1, <3>1, <3>2, <3>3 DEF Create, CreateFail, SlotsInv
  <2>2. ASSUME NEW t \in Threads,
               \/ CallCreate(t) \/ CallDestroy(t) \/ CreateLimit(t) \/ DestroyNone(t)
               \/ CreateWait(t) \/ DestroyWait(t) \/ Enqueue(t) \/ Kick(t) \/ Destroy(t)
        PROVE  UNCHANGED <<osthreads, threadpoolno, ndxinthreadpool>>
    BY <2>2 DEF CallCreate, CallDestroy, CreateLimit, DestroyNone, Refuse, CreateWait,
                DestroyWait, Enqueue, Kick, Destroy, vars
  <2>3. ASSUME NEW u \in Workers, Works(u) \/ Leave(u)
        PROVE  /\ osthreads'[s] <= osthreads[s]
               /\ UNCHANGED <<threadpoolno, ndxinthreadpool>>
    BY <2>0, <2>3 DEF Works, Sleep, WaitForKick, Take, GiveKick, Finish, Quit, Leave, Terminate, SlotsInv
  <2>4. UNCHANGED <<osthreads, threadpoolno, ndxinthreadpool>> =>
          /\ osthreads'[s] <= osthreads[s]
          /\ UNCHANGED <<threadpoolno[s], ndxinthreadpool[s]>>
    BY <2>0
  <2> QED BY <2>0, <2>1, <2>2, <2>3, <2>4 DEF Next, Returns
<1> QED BY <1>1, Inductive, PTL DEF Spec, SlotIsOwned
=============================================================================
