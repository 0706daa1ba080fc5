--------------------------- MODULE LocaleNumbers ----------------------------
(***************************************************************************)
(* The table of numbered locales of jsrc/sl.c: jtinstallnl, jtfindnl and   *)
(* jterasenl, and jtextendunderlock of jsrc/ct.c that makes it grow.       *)
(*                                                                         *)
(* The table is a hash table with backward linear probing.  It is always   *)
(* used under stlock, so a step here is a whole section under that lock.   *)
(* Where the table must grow the lock is let go while memory is allocated, *)
(* and the table may be another one when the lock comes back.              *)
(***************************************************************************)
EXTENDS Integers, Sequences, FiniteSets

CONSTANTS
    Threads,
    Size,           \* the number of slots of the first table
    MaxNumber,      \* numbers of locales are less than this: a bound
    Hashes          \* hash functions to try

Numbers == 0 .. MaxNumber - 1
Empty == -1

VARIABLES
    blocks,     \* all the tables there ever were
    stnum,      \* which of them is in use
    hash,       \* the hash of a number, before it is reduced to a slot
    pc,
    loc,        \* obuf and oldn of the threads that wait for memory
    live,       \* the locales that were installed and not erased
    issued,     \* the numbers ever given out
    misuse,     \* a block that was freed is used again
    emptied     \* history: a thread got its lock back when another one had extended
                \*     the table, and all locales in it had been erased

vars == <<blocks, stnum, hash, pc, loc, live, issued, misuse, emptied>>

\* slots: IAV1.  inuse: AM.  next: AS[0], the next number to give out.
NewBlock(n, next) ==
    [slots |-> [i \in 0 .. n - 1 |-> Empty], inuse |-> 0, next |-> next, freed |-> FALSE]

AN(b) == Cardinality(DOMAIN b.slots)
Nothing == [obuf |-> 0, oldn |-> 0]

Init ==
    /\ blocks = <<NewBlock(Size, 0)>>
    /\ stnum = 1
    /\ hash \in Hashes
    /\ pc = [t \in Threads |-> "idle"]
    /\ loc = [t \in Threads |-> Nothing]
    /\ live = {} /\ issued = {}
    /\ misuse = FALSE /\ emptied = FALSE

-----------------------------------------------------------------------------
\* HASHSLOT: the place where the search for n starts.
Slot(n, size) == hash[n] % size

\* The slot d places back from that of n, and the first of these that is
\* empty, or that holds n.
Back(n, d, size) == (Slot(n, size) - d) % size

FirstPlace(slots, n, wanted) ==
    LET size == Cardinality(DOMAIN slots)
        d == CHOOSE k \in 0 .. size - 1 :
               /\ slots[Back(n, k, size)] \in wanted
               /\ \A j \in 0 .. k - 1 : slots[Back(n, j, size)] \notin wanted
    IN Back(n, d, size)

\* jtfindnl's and jterasenl's search, and jtinstallnl's.
Place(slots, n) == FirstPlace(slots, n, {Empty, n})
Hole(slots, n)  == FirstPlace(slots, n, {Empty})

Found(b, n) == b.slots[Place(b.slots, n)] = n
Put(slots, n) == [slots EXCEPT ![Hole(slots, n)] = n]

\* A slip, used by no action: the test without its second half, for a probe
\* that has wrapped around.
Stays_NoWrap(home, probe, hole) == probe <= home /\ home < hole

\* An item in place probe, whose first place is home, must not go to the hole.
Stays(home, probe, hole) ==
    \/ probe <= home /\ home < hole
    \/ probe > hole /\ (probe <= home \/ home < hole)

\* jterasenl empties a place and moves later items back over the hole, until it comes
\* to another hole.  seen[k]: the slots and the hole after k more places.
Closed(slots, place) ==
    LET size == Cardinality(DOMAIN slots)
        seen[k \in 0 .. size - 1] ==
          IF k = 0 THEN [slots |-> [slots EXCEPT ![place] = Empty], hole |-> place, end |-> FALSE]
          ELSE LET z == seen[k - 1]
                   p == (place - k) % size
                   n == z.slots[p]
               IN IF z.end \/ n = Empty THEN [z EXCEPT !.end = TRUE]
                  ELSE IF Stays(Slot(n, size), p, z.hole) THEN z
                  ELSE [z EXCEPT !.slots = [@ EXCEPT ![z.hole] = n, ![p] = Empty], !.hole = p]
    IN seen[size - 1].slots

Erased(b, n) ==
    [b EXCEPT !.slots = Closed(@, Place(@, n)),
              !.inuse = IF Found(b, n) THEN @ - 1 ELSE @]

\* jtextendunderlock: a table of twice the size, with no items.
Grown(b) == NewBlock(2 * AN(b) + 1, b.next)

\* The old table's items, put in the new one in the order of their slots.
Rehashed(old, new) ==
    LET put[i \in -1 .. AN(old) - 1] ==
          IF i = -1 THEN new.slots
          ELSE IF old.slots[i] = Empty THEN put[i - 1]
          ELSE Put(put[i - 1], old.slots[i])
    IN [new EXCEPT !.slots = put[AN(old) - 1], !.inuse = old.inuse]

-----------------------------------------------------------------------------
Full(b) == 2 * b.inuse > AN(b)

\* The end of jtinstallnl: the locale gets the next number.
Installed(bs, s, t) ==
    LET z == bs[s].next IN
    /\ z < MaxNumber                                        \* the bound
    /\ blocks' = [bs EXCEPT ![s].next = z + 1,
                            ![s].slots = Put(@, z),
                            ![s].inuse = @ + 1]
    /\ stnum' = s
    /\ live' = live \union {z}
    /\ issued' = issued \union {z}
    /\ pc' = [pc EXCEPT ![t] = "idle"]
    /\ loc' = [loc EXCEPT ![t] = Nothing]

\* The table is too full: stlock is let go for the allocation.
WaitForMemory(bs, s, t) ==
    /\ blocks' = bs /\ stnum' = s
    /\ pc' = [pc EXCEPT ![t] = "extend"]
    /\ loc' = [loc EXCEPT ![t] = [obuf |-> s, oldn |-> AN(bs[s])]]
    /\ UNCHANGED <<live, issued>>

Proceed(bs, s, t) == IF Full(bs[s]) THEN WaitForMemory(bs, s, t) ELSE Installed(bs, s, t)

Install(t) ==
    /\ pc[t] = "idle"
    /\ Proceed(blocks, stnum, t)
    /\ UNCHANGED <<hash, misuse, emptied>>

\* No memory: the caller returns with the lock free.
Fail(t) ==
    /\ pc[t] = "extend"
    /\ pc' = [pc EXCEPT ![t] = "idle"]
    /\ loc' = [loc EXCEPT ![t] = Nothing]
    /\ UNCHANGED <<blocks, stnum, hash, live, issued, misuse, emptied>>

\* The lock is back.  The table is replaced unless its size has changed
\* meanwhile; then, if the table in use has no items, the thread takes it for
\* its own and moves the items of the old table into it.
Resume(t) ==
    LET mine == AN(blocks[stnum]) = loc[t].oldn
        bs == IF mine THEN Append(blocks, Grown(blocks[stnum])) ELSE blocks
        s == IF mine THEN Len(bs) ELSE stnum
        o == loc[t].obuf
    IN /\ pc[t] = "extend"
       /\ IF bs[s].inuse = 0
          THEN /\ misuse' = (misuse \/ blocks[o].freed)
               /\ emptied' = (emptied \/ ~mine)
               /\ Proceed([bs EXCEPT ![s] = Rehashed(bs[o], @), ![o].freed = TRUE], s, t)
          ELSE /\ UNCHANGED <<misuse, emptied>>
               /\ Proceed(bs, s, t)
       /\ UNCHANGED hash

\* jterasenl, called for any number.
Erase(n) ==
    /\ blocks' = [blocks EXCEPT ![stnum] = Erased(@, n)]
    /\ live' = live \ {n}
    /\ UNCHANGED <<stnum, hash, pc, loc, issued, misuse, emptied>>

Next ==
    \/ \E t \in Threads : Install(t) \/ Fail(t) \/ Resume(t)
    \/ \E n \in Numbers : Erase(n)

Spec == Init /\ [][Next]_vars

-----------------------------------------------------------------------------
TypeOK ==
    /\ stnum \in 1 .. Len(blocks)
    /\ \A i \in 1 .. Len(blocks) :
         /\ \A k \in DOMAIN blocks[i].slots : blocks[i].slots[k] \in Numbers \union {Empty}
         /\ blocks[i].inuse \in 0 .. AN(blocks[i]) - 1
         /\ blocks[i].next \in 0 .. MaxNumber
    /\ pc \in [Threads -> {"idle", "extend"}]
    /\ live \subseteq issued

Table == blocks[stnum]

\* Whatever was installed and erased, and in whatever order, a locale is
\* found exactly when it lives: an erasure never hides another locale
\* (jtfindnl, sl.c:131-138, against the moves of jterasenl, sl.c:141-165).
Findable == \A n \in Numbers : Found(Table, n) <=> n \in live

\* A locale sits in one slot, and the count, which decides when the table
\* grows and so that every probe comes to an empty slot, is exact.
OneSlotEach ==
    /\ Table.inuse = Cardinality(live)
    /\ \A n \in live : Cardinality({k \in DOMAIN Table.slots : Table.slots[k] = n}) = 1
    /\ \E k \in DOMAIN Table.slots : Table.slots[k] = Empty

\* "if AM(nbuf) is 0, we were the ones who extended the buffer. ... In this
\* case we know that obuf has not been altered" (sl.c:105-106): no thread
\* reads, or frees, a table that was freed.  It is not so: see emptied.
OwnsOldTable == ~misuse

\* The table holds each living locale once, where the search finds it, and nothing
\* else, every search ends and no freed table is used (sl.c:82-165), whoever extends
\* the table meanwhile; until a thread takes a table for its own that has become empty.
FoundIffLive == ~emptied => TypeOK /\ Findable /\ OneSlotEach /\ OwnsOldTable
=============================================================================
