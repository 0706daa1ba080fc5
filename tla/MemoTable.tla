----------------------------- MODULE MemoTable ------------------------------
(***************************************************************************)
(* The table of results of a verb u M.: jtmemoget, jtmemoput and jtmemo12  *)
(* of jsrc/a.c, with jtextendunderlock of jsrc/ct.c.                       *)
(*                                                                         *)
(* Three blocks are used under one read/write lock: the arguments, their   *)
(* results and a hash table of indices into them.  A step is a whole       *)
(* section under that lock, which is let go while one of the three grows.  *)
(***************************************************************************)
EXTENDS Integers, Sequences, FiniteSets

CONSTANTS
    Threads,
    Arguments,      \* the arguments <<x, y>> that may be remembered
    Rows, Slots,    \* the first sizes: of the arguments and results, of the hash table
    Range32,        \* 2^32 in INITHASH: hashes are less than this
    Functions32,    \* hash functions to try
    MaxEntries      \* bound: how many results are stored

Empty == -1         \* of the hash table
Miss  == -2         \* the search found nothing

VARIABLES
    ht3,        \* the table: its blocks and, for the hash table, AM
    hash,       \* the 32 bits of INITHASH
    pc,
    loc         \* the argument, and table and size of the threads that wait for memory

vars == <<ht3, hash, pc, loc>>

Tables == {"keys", "results", "hasht"}
NoCall == [x |-> {}, table |-> "keys", oldn |-> 0]
NewHash(n) == [i \in 0 .. n - 1 |-> Empty]

Init ==
    /\ ht3 = [keys |-> <<>>, results |-> <<>>, hasht |-> NewHash(Slots), AM |-> 0,
              size |-> [keys |-> Rows, results |-> Rows, hasht |-> Slots]]
    /\ hash \in Functions32
    /\ pc = [t \in Threads |-> "idle"]
    /\ loc = [t \in Threads |-> NoCall]

-----------------------------------------------------------------------------
\* INITHASH: the hash is scaled to the size of the table.
Start(x, n) == (hash[x] * n) \div Range32

\* The first slot from Start(x) downwards, around the table, that is wanted.
Probe(h, x, Wanted) ==
    LET n == Cardinality(DOMAIN h)
        Back(k) == (Start(x, n) - k) % n
        d == CHOOSE k \in 0 .. n - 1 :
               Back(k) \in Wanted /\ \A j \in 0 .. k - 1 : Back(j) \notin Wanted
    IN  Back(d)

Free(h) == {i \in DOMAIN h : h[i] = Empty}
Put(h, x, index) == [h EXCEPT ![Probe(h, x, Free(h))] = index]

\* jtmemoget: the index of x, or Miss.
Get(m, x) ==
    LET h == m.hasht
        i == Probe(h, x, Free(h) \union {j \in DOMAIN h \ Free(h) : m.keys[h[j] + 1] = x})
    IN  IF h[i] = Empty THEN Miss ELSE h[i]

\* A slip: the last results are entered first.
Rehashed_Backwards(m) ==
    LET n == Len(m.keys)
        put[i \in 0 .. n] ==
            IF i = 0 THEN m.hasht ELSE Put(put[i - 1], m.keys[n - i + 1], n - i)
    IN  [m EXCEPT !.hasht = put[n], !.AM = n]

\* A hash table without entries, new or just extended, is filled from the arguments.
Rehashed(m) ==
    LET put[i \in 0 .. Len(m.keys)] ==
            IF i = 0 THEN m.hasht ELSE Put(put[i - 1], m.keys[i], i - 1)
    IN  [m EXCEPT !.hasht = put[Len(m.keys)], !.AM = Len(m.results)]

\* A slip: only a table that had no results is new.
Complete_First(m) == IF m.keys = <<>> THEN Rehashed(m) ELSE m

Complete(m) == IF m.AM = 0 THEN Rehashed(m) ELSE m

Stored(m, x) ==
    [m EXCEPT !.results = Append(@, x), !.keys = Append(@, x),
              !.hasht = Put(@, x, Len(m.results)), !.AM = @ + 1]

\* The table, in the order of the loop, that has no room for one more.
Full(m) ==
    IF Len(m.keys) = m.size.keys THEN {"keys"}
    ELSE IF Len(m.results) = m.size.results THEN {"results"}
    ELSE IF 2 * m.AM > m.size.hasht THEN {"hasht"}
    ELSE {}

Finish(t) ==
    /\ pc' = [pc EXCEPT ![t] = "idle"]
    /\ loc' = [loc EXCEPT ![t] = NoCall]

\* The loop of jtmemoput: until all tables are long enough, then the result is stored.
Proceed(m, t, x) ==
    IF Full(m) = {}
    THEN /\ Len(m.keys) < MaxEntries                        \* the bound
         /\ ht3' = Stored(Complete(m), x)
         /\ Finish(t)
    ELSE \E table \in Full(m) :
         /\ ht3' = m
         /\ pc' = [pc EXCEPT ![t] = "extend"]
         /\ loc' = [loc EXCEPT ![t] = [x |-> x, table |-> table, oldn |-> m.size[table]]]

\* jtmemo12: the argument is not found, so u runs, without the lock; or it is found.
Call(t) ==
    /\ pc[t] = "idle"
    /\ \E x \in Arguments :
         /\ Get(ht3, x) = Miss
         /\ loc' = [loc EXCEPT ![t].x = x]
    /\ pc' = [pc EXCEPT ![t] = "run"]
    /\ UNCHANGED <<ht3, hash>>

Answer(t) ==
    /\ pc[t] = "idle"
    /\ \E x \in Arguments : Get(ht3, x) # Miss
    /\ UNCHANGED vars

Store(t) ==
    /\ pc[t] = "run"
    /\ Proceed(ht3, t, loc[t].x)
    /\ UNCHANGED hash

\* u has failed, or there is no memory: the lock is free.
Fail(t) ==
    /\ pc[t] \in {"run", "extend"}
    /\ Finish(t)
    /\ UNCHANGED <<ht3, hash>>

\* jtextendunderlock: twice the size; the hash table starts again.
Longer(m, table) ==
    LET n == 2 * m.size[table]
        z == [m EXCEPT !.size[table] = n]
    IN  IF table = "hasht" THEN [z EXCEPT !.hasht = NewHash(n), !.AM = 0] ELSE z

\* The lock is back: the table is replaced unless another thread did.
Resume(t) ==
    /\ pc[t] = "extend"
    /\ LET table == loc[t].table IN
       Proceed(IF ht3.size[table] = loc[t].oldn THEN Longer(ht3, table) ELSE ht3, t, loc[t].x)
    /\ UNCHANGED hash

Next == \E t \in Threads : Call(t) \/ Answer(t) \/ Store(t) \/ Fail(t) \/ Resume(t)
Spec == Init /\ [][Next]_vars

-----------------------------------------------------------------------------
TypeOK ==
    /\ ht3.keys \in Seq(Arguments) /\ Len(ht3.keys) <= ht3.size.keys
    /\ Len(ht3.results) <= ht3.size.results
    /\ DOMAIN ht3.hasht = 0 .. ht3.size.hasht - 1
    /\ pc \in [Threads -> {"idle", "run", "extend"}]

\* A result that was stored is found, with its own argument, by whomever and in
\* whatever order the three tables were extended meanwhile, except that a thread
\* that has extended the hash table and must wait for another leaves it empty
\* (a.c:114-118: the arguments may be full again); and every search ends.
StoredIsFound ==
    /\ TypeOK
    /\ ht3.results = ht3.keys
    /\ Free(ht3.hasht) # {}
    /\ ht3.AM # 0 => \A i \in DOMAIN ht3.keys : Get(ht3, ht3.keys[i]) # Miss
    /\ ht3.AM \in {0, Len(ht3.keys)}

\* "It is possible that two threads might store the same value; that's OK"
\* (a.c:128): a verb whose results differ from call to call still has one answer
\* for an argument, the first that was stored, after every rehash too.
OneAnswer ==
    [][\A x \in Arguments :
         Get(ht3, x) # Miss /\ Get(ht3', x) # Miss => Get(ht3', x) = Get(ht3, x)]_vars
=============================================================================
