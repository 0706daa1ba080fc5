---------------------------- MODULE TablesProofs ----------------------------
(***************************************************************************)
(* The four tables that grow by jtextendunderlock, for any threads, items, *)
(* hash functions and first sizes.  The lists of scripts: a number names   *)
(* its script as long as no thread was overtaken.  The cache of calls: no  *)
(* entry is mixed from two strings, and every search ends.  The memo       *)
(* tables: what was stored is found, and an argument has one answer.  The  *)
(* locales: a number is found exactly when it lives.                       *)
(*                                                                         *)
(* A hash table is a ring, and a search goes backward in it.  All that is  *)
(* shown of it says where a thing is by the number of places that it is    *)
(* behind its start (Behind, Reach).                                       *)
(***************************************************************************)
EXTENDS Tables, FiniteSetTheorems, WellFoundedInduction, TLAPS

\* A set of natural numbers has a least member.
LEMMA Least ==
    ASSUME NEW S \in SUBSET Nat, S # {}
    PROVE  \E k \in S : \A j \in S : k <= j
<1>1. PICK k \in S : \A j \in S : ~ (<<j, k>> \in OpToRel(<, Nat))
  BY NatLessThanWellFounded, WFMin, Zenon
<1>2. ASSUME NEW j \in S PROVE k <= j
  <2>1. ~ (<<j, k>> \in OpToRel(<, Nat))
    BY <1>1, Zenon
  <2>2. ~ (j < k)
    BY <2>1, Zenon DEF OpToRel
  <2> QED BY <2>2
<1> QED BY <1>2

\* A table of n places has n places.
LEMMA Length == ASSUME NEW n \in Nat PROVE Cardinality(0 .. n - 1) = n /\ IsFiniteSet(0 .. n - 1)
BY FS_Interval

\* One item of a sequence is replaced.
LEMMA Replaced ==
    ASSUME NEW S, NEW s \in Seq(S), NEW i \in 1 .. Len(s), NEW x \in S, NEW r, r = [s EXCEPT ![i] = x]
    PROVE  r \in Seq(S) /\ Len(r) = Len(s) /\ r[i] = x /\ \A k \in 1 .. Len(s) \ {i} : r[k] = s[k]
OBVIOUS

-----------------------------------------------------------------------------
\* jtaddscriptname, the list of script names (ScriptList).

Waiting(t) == pc[t] = "extend"

\* The list is an array with a length, and what a waiting thread kept is not past it.
ShapeOK ==
    /\ AN \in Nat \ {0}
    /\ slist \in [0 .. AN - 1 -> Names \union {Garbage}]
    /\ AM \in 0 .. AN
    /\ pc \in [Threads -> {"idle", "extend"}]
    /\ DOMAIN loc = Threads
    /\ given \subseteq Names \X (0 .. AN - 1)
    /\ overtaken \in BOOLEAN

\* A thread waits with the place i for its name and the length the list had.  While the
\* list has that length it is full: nobody writes to a full list.  So the copy loses nothing.
WaitersOK == \A t \in Threads : Waiting(t) =>
    /\ loc[t] = <<loc[t][1], loc[t][2], loc[t][3]>>
    /\ loc[t][1] \in Names
    /\ loc[t][2] \in 0 .. loc[t][3]
    /\ loc[t][3] \in 0 .. AN
    /\ loc[t][3] = AN => AM = AN

\* Names fill the list up to any place that may become the last valid one.
Filled ==
    /\ \A k \in Valid : slist[k] # Garbage
    /\ \A t \in Threads : Waiting(t) => \A k \in 0 .. loc[t][2] - 1 : slist[k] # Garbage

\* Unless a thread was overtaken, each name is valid at one place, numbers are those
\* places, and a thread that waits with the next place has a name that is not yet in.
Numbered == ~overtaken =>
    /\ \A j, k \in Valid : slist[j] = slist[k] => j = k
    /\ \A g \in given : g[2] \in Valid /\ slist[g[2]] = g[1]
    /\ \A t \in Threads : Waiting(t) =>
          /\ loc[t][2] <= AM
          /\ loc[t][2] = AM => \A k \in Valid : slist[k] # loc[t][1]

ScriptsInv == ShapeOK /\ WaitersOK /\ Filled /\ Numbered

-----------------------------------------------------------------------------
\* The search returns a valid place of the name, or AM when the name has none.
LEMMA Search ==
    ASSUME ScriptsInv, NEW w
    PROVE  \/ IndexOf(w) = AM /\ \A k \in Valid : slist[k] # w
           \/ IndexOf(w) \in Valid /\ slist[IndexOf(w)] = w
<1> DEFINE S == {k \in Valid : slist[k] = w}
<1>0. Valid \subseteq Nat
  BY DEF ScriptsInv, ShapeOK, Valid
<1>1. CASE S = {}
  BY <1>1 DEF IndexOf
<1>2. CASE S # {}
  <2>1. PICK k \in S : \A j \in S : k <= j
    BY <1>0, <1>2, Least
  <2>2. k \in Valid /\ slist[k] = w /\ \A j \in 0 .. k - 1 : slist[j] # w
    <3>1. ASSUME NEW j \in 0 .. k - 1, slist[j] = w PROVE FALSE
      <4>1. j \in Valid /\ ~ (k <= j)
        BY <2>1, <3>1 DEF ScriptsInv, ShapeOK, Valid
      <4> QED BY <2>1, <3>1, <4>1
    <3> QED BY <2>1, <3>1
  <2>3. IndexOf(w) = CHOOSE m \in Valid : slist[m] = w /\ \A j \in 0 .. m - 1 : slist[j] # w
    BY <2>2 DEF IndexOf
  <2> QED BY <2>2, <2>3
<1> QED BY <1>1, <1>2

\* The longer list of jtextendunderlock is twice as long and has all the names.
LEMMA Copied ==
    ASSUME ScriptsInv, AM = AN
    PROVE  /\ Cardinality(DOMAIN Longer) = 2 * AN
           /\ Longer \in [0 .. 2 * AN - 1 -> Names \union {Garbage}]
           /\ \A k \in 0 .. AN - 1 : Longer[k] = slist[k]
<1>1. AN \in Nat /\ 2 * AN \in Nat
  BY DEF ScriptsInv, ShapeOK
<1>2. DOMAIN Longer = 0 .. 2 * AN - 1
  BY DEF Longer
<1>3. Cardinality(DOMAIN Longer) = 2 * AN
  BY <1>1, <1>2, Length
<1>4. \A k \in 0 .. AN - 1 : Longer[k] = slist[k]
  BY <1>1 DEF Longer, Valid
<1>5. Longer \in [0 .. 2 * AN - 1 -> Names \union {Garbage}]
  BY <1>1 DEF Longer, Valid, ScriptsInv, ShapeOK
<1> QED BY <1>3, <1>4, <1>5

-----------------------------------------------------------------------------
\* What the caller of Store knows: the list, new or old, has the old names, and its place i
\* is next to names; unless a thread is overtaken, it is the next place and the name is new.
Knows(list, n, t, w, i) ==
    /\ n \in Nat /\ AN <= n
    /\ Cardinality(DOMAIN list) = n
    /\ list \in [0 .. n - 1 -> Names \union {Garbage}]
    /\ \A k \in 0 .. AN - 1 : list[k] = slist[k]
    /\ \A u \in Threads \ {t} : Waiting(u) /\ loc[u][3] = n => AM = n
    /\ w \in Names
    /\ i \in 0 .. n
    /\ i <= AN
    /\ AM # n => i < n
    /\ \A k \in 0 .. i - 1 : slist[k] # Garbage
    /\ overtaken' \in BOOLEAN
    /\ ~overtaken' => ~overtaken /\ i = AM /\ \A k \in Valid : slist[k] # w

\* A name is written at its place.
LEMMA WriteKeeps ==
    ASSUME ScriptsInv, NEW t \in Threads, NEW list, NEW n, NEW w, NEW i,
           Knows(list, n, t, w, i), AM # n, Write(list, t, w, i)
    PROVE  ScriptsInv'
<1>1. /\ slist' = [list EXCEPT ![i] = w] /\ AM' = i + 1
      /\ pc' = [pc EXCEPT ![t] = "idle"] /\ loc' = [loc EXCEPT ![t] = <<>>]
      /\ given' = given \union {<<w, i>>}
  BY DEF Write, Return
<1>2. AN' = n
  <2>1. DOMAIN slist' = DOMAIN list
    BY <1>1
  <2> QED BY <2>1 DEF AN, Knows
<1>3. /\ AN \in Nat \ {0} /\ AM \in Nat /\ AM <= AN /\ n \in Nat /\ AN <= n
      /\ i \in Nat /\ i < n /\ i <= AN /\ DOMAIN list = 0 .. n - 1
  BY DEF ScriptsInv, ShapeOK, Knows
<1>4. \A k \in 0 .. n - 1 : slist'[k] = IF k = i THEN w ELSE list[k]
  BY <1>1, <1>3
<1>5. \A k \in 0 .. AN - 1 : k # i => slist'[k] = slist[k]
  BY <1>3, <1>4 DEF Knows
<1>6. \A u \in Threads : Waiting(u)' => u # t /\ Waiting(u) /\ loc'[u] = loc[u]
  BY <1>1 DEF Waiting, ScriptsInv, ShapeOK
<1>7. ShapeOK'
  <2>1. slist' \in [0 .. n - 1 -> Names \union {Garbage}]
    BY <1>1, <1>3 DEF Knows
  <2>2. given' \subseteq Names \X (0 .. n - 1)
    <3>1. <<w, i>> \in Names \X (0 .. n - 1)
      BY <1>3 DEF Knows
    <3>2. 0 .. AN - 1 \subseteq 0 .. n - 1
      BY <1>3
    <3> QED BY <1>1, <3>1, <3>2 DEF ScriptsInv, ShapeOK
  <2>3. /\ n \in Nat \ {0} /\ AM' \in 0 .. n
    BY <1>1, <1>3
  <2>4. pc' \in [Threads -> {"idle", "extend"}] /\ DOMAIN loc' = Threads
    BY <1>1 DEF ScriptsInv, ShapeOK
  <2>5. overtaken' \in BOOLEAN
    BY DEF Knows
  <2> QED BY <1>2, <2>1, <2>2, <2>3, <2>4, <2>5 DEF ShapeOK
<1>8. WaitersOK'
  <2> SUFFICES ASSUME NEW u \in Threads, Waiting(u)'
               PROVE  /\ loc'[u] = <<loc'[u][1], loc'[u][2], loc'[u][3]>>
                      /\ loc'[u][1] \in Names
                      /\ loc'[u][2] \in 0 .. loc'[u][3]
                      /\ loc'[u][3] \in 0 .. n
                      /\ loc'[u][3] = n => AM' = n
    BY <1>2 DEF WaitersOK
  <2>1. u # t /\ Waiting(u) /\ loc'[u] = loc[u]
    BY <1>6
  <2>2. loc[u][3] # n
    BY <2>1 DEF Knows
  <2>3. loc[u][3] \in 0 .. AN /\ loc[u][1] \in Names /\ loc[u][2] \in 0 .. loc[u][3]
        /\ loc[u] = <<loc[u][1], loc[u][2], loc[u][3]>>
    BY <2>1 DEF ScriptsInv, WaitersOK
  <2>4. loc[u][3] \in 0 .. n
    BY <1>3, <2>3
  <2> QED BY <2>1, <2>2, <2>3, <2>4
<1>9. Filled'
  <2>0. w # Garbage
    BY ScriptAssumption DEF Knows
  <2>1. ASSUME NEW k \in 0 .. n - 1, k < AN, slist[k] # Garbage PROVE slist'[k] # Garbage
    BY <1>3, <1>4, <1>5, <2>0, <2>1
  <2>2. ASSUME NEW k \in 0 .. i PROVE slist'[k] # Garbage
    <3>1. CASE k = i
      BY <1>3, <1>4, <2>0, <3>1
    <3>2. CASE k # i
      BY <1>3, <2>1, <3>2 DEF Knows
    <3> QED BY <3>1, <3>2
  <2>3. ASSUME NEW u \in Threads, Waiting(u)', NEW k \in 0 .. loc'[u][2] - 1
        PROVE  slist'[k] # Garbage
    <3>1. Waiting(u) /\ loc'[u] = loc[u]
      BY <1>6, <2>3
    <3>2. slist[k] # Garbage
      BY <2>3, <3>1 DEF ScriptsInv, Filled
    <3>3. loc[u][2] \in 0 .. loc[u][3] /\ loc[u][3] \in 0 .. AN
      BY <3>1 DEF ScriptsInv, WaitersOK
    <3>4. k \in 0 .. n - 1 /\ k < AN
      BY <1>3, <2>3, <3>1, <3>3
    <3> QED BY <2>1, <3>2, <3>4
  <2>4. Valid' = 0 .. i
    BY <1>1, <1>3 DEF Valid
  <2> QED BY <2>2, <2>3, <2>4 DEF Filled
<1>10. Numbered'
  <2> SUFFICES ASSUME ~overtaken'
               PROVE  /\ \A j, k \in Valid' : slist'[j] = slist'[k] => j = k
                      /\ \A g \in given' : g[2] \in Valid' /\ slist'[g[2]] = g[1]
                      /\ \A u \in Threads : Waiting(u)' =>
                            /\ loc'[u][2] <= AM'
                            /\ loc'[u][2] = AM' => \A k \in Valid' : slist'[k] # loc'[u][1]
    BY DEF Numbered
  <2>1. i = AM /\ ~overtaken /\ \A k \in Valid : slist[k] # w
    BY DEF Knows
  <2>2. Valid = 0 .. i - 1 /\ Valid' = 0 .. i /\ i < n
    BY <1>1, <1>3, <2>1 DEF Valid
  <2>3. slist'[i] = w /\ \A k \in 0 .. i - 1 : slist'[k] = slist[k]
    BY <1>3, <1>4, <1>5, <2>2
  <2>4. ASSUME NEW j \in Valid', NEW k \in Valid', slist'[j] = slist'[k] PROVE j = k
    <3>1. \A m \in 0 .. i - 1 : slist[m] # w
      BY <2>1, <2>2
    <3>2. \A m, q \in 0 .. i - 1 : slist[m] = slist[q] => m = q
      BY <2>1, <2>2 DEF ScriptsInv, Numbered
    <3>3. j \in 0 .. i /\ k \in 0 .. i
      BY <2>2
    <3> QED BY <1>3, <2>3, <2>4, <3>1, <3>2, <3>3
  <2>5. ASSUME NEW g \in given' PROVE g[2] \in Valid' /\ slist'[g[2]] = g[1]
    <3>1. CASE g = <<w, i>>
      BY <1>3, <2>2, <2>3, <3>1
    <3>2. CASE g \in given
      <4>1. g[2] \in 0 .. i - 1 /\ slist[g[2]] = g[1]
        BY <2>1, <2>2, <3>2 DEF ScriptsInv, Numbered
      <4> QED BY <1>3, <2>2, <2>3, <4>1
    <3> QED BY <1>1, <3>1, <3>2
  <2>6. ASSUME NEW u \in Threads, Waiting(u)'
        PROVE  /\ loc'[u][2] <= AM'
               /\ loc'[u][2] # AM'
    <3>1. Waiting(u) /\ loc'[u] = loc[u]
      BY <1>6, <2>6
    <3>2. loc[u][2] <= AM
      BY <2>1, <3>1 DEF ScriptsInv, Numbered
    <3>3. loc[u][2] \in Nat
      BY <3>1, <1>3 DEF ScriptsInv, WaitersOK
    <3> QED BY <1>1, <1>3, <2>1, <3>1, <3>2, <3>3
  <2> QED BY <2>4, <2>5, <2>6
<1> QED BY <1>7, <1>8, <1>9, <1>10 DEF ScriptsInv

\* The list is full, old or new: nothing but the thread that waits has changed.
LEMMA WaitKeeps ==
    ASSUME ScriptsInv, NEW t \in Threads, NEW list, NEW n, NEW w, NEW i,
           Knows(list, n, t, w, i), AM = n, WaitForMemory(list, t, w, i)
    PROVE  ScriptsInv'
<1>1. /\ slist' = list /\ AM' = AM /\ given' = given
      /\ pc' = [pc EXCEPT ![t] = "extend"] /\ loc' = [loc EXCEPT ![t] = <<w, i, n>>]
  BY DEF WaitForMemory, Knows
<1>2. AN \in Nat \ {0} /\ AM \in Nat /\ AN = n /\ AM = n /\ i \in 0 .. n
  BY DEF ScriptsInv, ShapeOK, Knows
<1>3. AN' = AN
  BY <1>1, <1>2 DEF AN, Knows
<1>4. \A k \in 0 .. AN - 1 : slist'[k] = slist[k]
  BY <1>1 DEF Knows
<1>5. \A u \in Threads \ {t} : loc'[u] = loc[u] /\ (Waiting(u)' <=> Waiting(u))
  BY <1>1 DEF Waiting, ScriptsInv, ShapeOK
<1>6. loc'[t] = <<w, i, n>>
  BY <1>1 DEF ScriptsInv, ShapeOK
<1>7. ShapeOK'
  <2>1. slist' \in [0 .. AN - 1 -> Names \union {Garbage}]
    BY <1>1, <1>2 DEF Knows
  <2>2. pc' \in [Threads -> {"idle", "extend"}] /\ DOMAIN loc' = Threads
    BY <1>1 DEF ScriptsInv, ShapeOK
  <2>3. overtaken' \in BOOLEAN
    BY DEF Knows
  <2>4. AM' \in 0 .. AN /\ given' \subseteq Names \X (0 .. AN - 1)
    BY <1>1 DEF ScriptsInv, ShapeOK
  <2> QED BY <1>2, <1>3, <2>1, <2>2, <2>3, <2>4 DEF ShapeOK
<1>8. WaitersOK'
  <2> SUFFICES ASSUME NEW u \in Threads, Waiting(u)'
               PROVE  /\ loc'[u] = <<loc'[u][1], loc'[u][2], loc'[u][3]>>
                      /\ loc'[u][1] \in Names
                      /\ loc'[u][2] \in 0 .. loc'[u][3]
                      /\ loc'[u][3] \in 0 .. AN
    BY <1>1, <1>2, <1>3 DEF WaitersOK
  <2>1. CASE u = t
    BY <1>2, <1>6, <2>1 DEF Knows
  <2>2. CASE u # t
    BY <1>5, <2>2 DEF ScriptsInv, WaitersOK
  <2> QED BY <2>1, <2>2
<1>9. Filled'
  <2>1. Valid' = Valid /\ Valid = 0 .. AN - 1
    BY <1>1, <1>2 DEF Valid
  <2>2. \A k \in 0 .. AN - 1 : slist'[k] # Garbage
    BY <1>4, <2>1 DEF ScriptsInv, Filled
  <2>3. ASSUME NEW u \in Threads, Waiting(u)' PROVE loc'[u][2] \in 0 .. AN
    <3>1. CASE u = t
      BY <1>2, <1>6, <3>1
    <3>2. CASE u # t
      <4>1. loc[u][2] \in 0 .. loc[u][3] /\ loc[u][3] \in 0 .. AN
        BY <1>5, <2>3, <3>2 DEF ScriptsInv, WaitersOK
      <4> QED BY <1>2, <1>5, <3>2, <4>1
    <3> QED BY <3>1, <3>2
  <2>4. ASSUME NEW u \in Threads, Waiting(u)', NEW k \in 0 .. loc'[u][2] - 1
        PROVE  slist'[k] # Garbage
    <3>1. loc'[u][2] \in 0 .. AN
      BY <2>3, <2>4
    <3>2. k \in 0 .. AN - 1
      BY <1>2, <3>1
    <3> QED BY <2>2, <3>2
  <2> QED BY <2>1, <2>2, <2>4 DEF Filled
<1>10. Numbered'
  <2> SUFFICES ASSUME ~overtaken'
               PROVE  /\ \A j, k \in Valid : slist'[j] = slist'[k] => j = k
                      /\ \A g \in given : g[2] \in Valid /\ slist'[g[2]] = g[1]
                      /\ \A u \in Threads : Waiting(u)' =>
                            /\ loc'[u][2] <= AM
                            /\ loc'[u][2] = AM => \A k \in Valid : slist'[k] # loc'[u][1]
    BY <1>1 DEF Numbered, Valid
  <2>1. i = AM /\ ~overtaken /\ \A k \in Valid : slist[k] # w
    BY DEF Knows
  <2>2. \A k \in Valid : slist'[k] = slist[k]
    BY <1>2, <1>4 DEF Valid
  <2>3. \A j, k \in Valid : slist'[j] = slist'[k] => j = k
    BY <2>1, <2>2 DEF ScriptsInv, Numbered
  <2>4. \A g \in given : g[2] \in Valid /\ slist'[g[2]] = g[1]
    BY <2>1, <2>2 DEF ScriptsInv, Numbered
  <2>5. ASSUME NEW u \in Threads, Waiting(u)'
        PROVE  /\ loc'[u][2] <= AM
               /\ loc'[u][2] = AM => \A k \in Valid : slist'[k] # loc'[u][1]
    <3>1. CASE u = t
      BY <1>2, <1>6, <2>1, <2>2, <3>1
    <3>2. CASE u # t
      BY <1>5, <2>1, <2>2, <2>5, <3>2 DEF ScriptsInv, Numbered
    <3> QED BY <3>1, <3>2
  <2> QED BY <2>3, <2>4, <2>5
<1> QED BY <1>7, <1>8, <1>9, <1>10 DEF ScriptsInv

\* A section that stores: it writes, or waits for memory.
LEMMA StoreKeeps ==
    ASSUME ScriptsInv, NEW t \in Threads, NEW list, NEW n, NEW w, NEW i,
           Knows(list, n, t, w, i), Store(list, t, w, i)
    PROVE  ScriptsInv'
<1>1. n = Cardinality(DOMAIN list)
  BY DEF Knows
<1>2. CASE AM = n
  BY <1>1, <1>2, WaitKeeps DEF Store
<1>3. CASE AM # n
  BY <1>1, <1>3, WriteKeeps DEF Store
<1> QED BY <1>2, <1>3

-----------------------------------------------------------------------------
\* The first list is empty.
LEMMA ScriptsStart == ASSUME Init PROVE ScriptsInv
<1>1. Size \in Nat \ {0} /\ DOMAIN slist = 0 .. Size - 1
  BY ScriptAssumption DEF Init
<1>2. AN = Size
  BY <1>1, Length DEF AN
<1>3. Valid = {} /\ ~overtaken /\ AM = 0
  BY DEF Init, Valid
<1>4. \A t \in Threads : ~Waiting(t)
  BY DEF Init, Waiting
<1>5. ShapeOK
  BY <1>1, <1>2 DEF ShapeOK, Init
<1>6. WaitersOK /\ Filled
  BY <1>3, <1>4 DEF WaitersOK, Filled
<1>7. Numbered
  BY <1>3, <1>4 DEF Numbered, Init
<1> QED BY <1>5, <1>6, <1>7 DEF ScriptsInv

\* A thread returns the place of a name it found, or fails: the list stays as it was.
LEMMA LeaveKeeps ==
    ASSUME ScriptsInv, NEW t \in Threads, UNCHANGED <<slist, AM, overtaken>>,
           pc' = [pc EXCEPT ![t] = "idle"], loc' = [loc EXCEPT ![t] = <<>>],
           \A g \in given' \ given :
               g \in Names \X Valid /\ slist[g[2]] = g[1]
    PROVE  ScriptsInv'
<1>1. AN' = AN /\ Valid' = Valid /\ AN \in Nat /\ AM \in 0 .. AN
  BY DEF AN, Valid, ScriptsInv, ShapeOK
<1>2. \A u \in Threads : Waiting(u)' => Waiting(u) /\ loc'[u] = loc[u]
  BY DEF Waiting, ScriptsInv, ShapeOK
<1>3. ShapeOK'
  <2>1. given' \subseteq Names \X (0 .. AN - 1)
    <3>1. Valid \subseteq 0 .. AN - 1
      BY <1>1 DEF Valid
    <3>2. ASSUME NEW g \in given' PROVE g \in Names \X (0 .. AN - 1)
      <4>1. CASE g \in given
        BY <4>1 DEF ScriptsInv, ShapeOK
      <4>2. CASE g \notin given
        <5>1. g \in Names \X Valid
          BY <3>2, <4>2
        <5> QED BY <3>1, <5>1
      <4> QED BY <4>1, <4>2
    <3> QED BY <3>2
  <2>2. pc' \in [Threads -> {"idle", "extend"}] /\ DOMAIN loc' = Threads
    BY DEF ScriptsInv, ShapeOK
  <2> QED BY <1>1, <2>1, <2>2 DEF ScriptsInv, ShapeOK
<1>4. WaitersOK'
  BY <1>1, <1>2 DEF ScriptsInv, WaitersOK
<1>5. Filled'
  BY <1>1, <1>2 DEF ScriptsInv, Filled
<1>6. Numbered'
  BY <1>1, <1>2 DEF ScriptsInv, Numbered
<1> QED BY <1>3, <1>4, <1>5, <1>6 DEF ScriptsInv

\* A script is looked for, and added if it is not there.
LEMMA AddKeeps ==
    ASSUME ScriptsInv, NEW t \in Threads, Add(t)
    PROVE  ScriptsInv'
<1>1. PICK w \in Names :
         IF IndexOf(w) = AM THEN Store(slist, t, w, AM)
         ELSE Return(t, w, IndexOf(w)) /\ UNCHANGED <<slist, AM>>
  BY DEF Add
<1>2. overtaken' = overtaken
  BY DEF Add
<1>3. AM \in Nat /\ AN \in Nat \ {0} /\ AM <= AN
  BY DEF ScriptsInv, ShapeOK
<1>4. IndexOf(w) = AM \/ IndexOf(w) \in Valid
  BY Search
<1>5. CASE IndexOf(w) = AM
  <2>1. \A k \in Valid : slist[k] # w
    <3>1. AM \notin Valid
      BY <1>3 DEF Valid
    <3> QED BY <1>5, <3>1, Search
  <2>2. Knows(slist, AN, t, w, AM)
    <3>1. \A u \in Threads : Waiting(u) /\ loc[u][3] = AN => AM = AN
      BY DEF ScriptsInv, WaitersOK
    <3>2. \A k \in 0 .. AM - 1 : slist[k] # Garbage
      BY DEF ScriptsInv, Filled, Valid
    <3>3. slist \in [0 .. AN - 1 -> Names \union {Garbage}] /\ overtaken' \in BOOLEAN
      BY <1>2 DEF ScriptsInv, ShapeOK
    <3>4. Cardinality(DOMAIN slist) = AN
      BY DEF AN
    <3> QED BY <1>2, <1>3, <2>1, <3>1, <3>2, <3>3, <3>4 DEF Knows
  <2> QED BY <1>1, <1>5, <2>2, StoreKeeps
<1>6. CASE IndexOf(w) \in Valid
  <2>1. IndexOf(w) # AM
    BY <1>3, <1>6 DEF Valid
  <2>2. slist[IndexOf(w)] = w
    BY <2>1, Search
  <2> QED BY <1>1, <1>2, <1>6, <2>1, <2>2, LeaveKeeps DEF Return
<1> QED BY <1>4, <1>5, <1>6

\* The lock is back after the allocation.
LEMMA ResumeKeeps ==
    ASSUME ScriptsInv, NEW t \in Threads, Resume(t)
    PROVE  ScriptsInv'
<1> DEFINE w == loc[t][1]
           i == loc[t][2]
           o == loc[t][3]
<1>1. /\ Waiting(t)
      /\ overtaken' = (overtaken \/ AM # i)
      /\ Store(IF AN = o THEN Longer ELSE slist, t, w, i)
  BY DEF Resume, Waiting
<1>2. w \in Names /\ i \in 0 .. o /\ o \in 0 .. AN /\ (o = AN => AM = AN)
  BY <1>1 DEF ScriptsInv, WaitersOK
<1>3. AM \in Nat /\ AN \in Nat \ {0} /\ AM <= AN /\ overtaken \in BOOLEAN
  BY DEF ScriptsInv, ShapeOK
<1>4. \A k \in 0 .. i - 1 : slist[k] # Garbage
  BY <1>1 DEF ScriptsInv, Filled
<1>5. \A u \in Threads : Waiting(u) => loc[u][3] \in 0 .. AN /\ (loc[u][3] = AN => AM = AN)
  BY DEF ScriptsInv, WaitersOK
<1>6. ~overtaken' => ~overtaken /\ i = AM /\ \A k \in Valid : slist[k] # w
  BY <1>1, <1>3 DEF ScriptsInv, Numbered
<1>7. CASE AN = o
  <2>1. AM = AN
    BY <1>2, <1>7
  <2>2. /\ Cardinality(DOMAIN Longer) = 2 * AN
        /\ Longer \in [0 .. 2 * AN - 1 -> Names \union {Garbage}]
        /\ \A k \in 0 .. AN - 1 : Longer[k] = slist[k]
    BY <2>1, Copied
  <2>3. 2 * AN \in Nat /\ AN <= 2 * AN /\ i \in 0 .. 2 * AN /\ i <= AN /\ i < 2 * AN
    BY <1>2, <1>3
  <2>4. \A u \in Threads \ {t} : Waiting(u) /\ loc[u][3] = 2 * AN => AM = 2 * AN
    BY <1>3, <1>5
  <2>5. Knows(Longer, 2 * AN, t, w, i)
    BY <1>1, <1>2, <1>3, <1>4, <1>6, <2>2, <2>3, <2>4 DEF Knows
  <2> QED BY <1>1, <1>7, <2>5, StoreKeeps
<1>8. CASE AN # o
  <2>1. i \in 0 .. AN /\ i <= AN /\ i < AN
    BY <1>2, <1>3, <1>8
  <2>2. slist \in [0 .. AN - 1 -> Names \union {Garbage}] /\ Cardinality(DOMAIN slist) = AN
    BY DEF ScriptsInv, ShapeOK, AN
  <2>3. Knows(slist, AN, t, w, i)
    BY <1>1, <1>2, <1>3, <1>4, <1>5, <1>6, <2>1, <2>2 DEF Knows
  <2> QED BY <1>1, <1>8, <2>3, StoreKeeps
<1> QED BY <1>7, <1>8

\* Every step of the list keeps its invariant.
LEMMA ScriptsNextKeeps == ASSUME ScriptsInv, [Next]_vars PROVE ScriptsInv'
<1>1. ASSUME NEW t \in Threads, Add(t) PROVE ScriptsInv'
  BY <1>1, AddKeeps
<1>2. ASSUME NEW t \in Threads, Fail(t) PROVE ScriptsInv'
  BY <1>2, LeaveKeeps DEF Fail
<1>3. ASSUME NEW t \in Threads, Resume(t) PROVE ScriptsInv'
  BY <1>3, ResumeKeeps
<1>4. CASE UNCHANGED vars
  BY <1>4 DEF vars, ScriptsInv, ShapeOK, WaitersOK, Filled, Numbered, Waiting, Valid, AN
<1> QED BY <1>1, <1>2, <1>3, <1>4 DEF Next

-----------------------------------------------------------------------------
\* The inductive invariant of jtaddscriptname (xs.c:106): the list and what waits for it.
THEOREM ScriptsInductive == Spec => []ScriptsInv
<1>1. Init => ScriptsInv
  BY ScriptsStart
<1>2. ScriptsInv /\ [Next]_vars => ScriptsInv'
  BY ScriptsNextKeeps
<1> QED BY <1>1, <1>2, PTL DEF Spec

\* A script number names its script ever after, and a script has one number, until a thread is
\* overtaken while it extends the list (xs.c:112-121); no garbage is ever taken for a name.
THEOREM NumbersName == Spec => []NumberNamesScript
<1>1. ScriptsInv => NumberNamesScript
  <2> SUFFICES ASSUME ScriptsInv PROVE NumberNamesScript
    OBVIOUS
  <2>1. DOMAIN slist = 0 .. AN - 1
    BY DEF ScriptsInv, ShapeOK
  <2>2. TypeOK
    BY <2>1 DEF TypeOK, ScriptsInv, ShapeOK
  <2>3. \A k \in Valid : slist[k] # Garbage
    BY DEF ScriptsInv, Filled
  <2>4. ASSUME ~overtaken
        PROVE  /\ \A g \in given : g[2] \in Valid /\ slist[g[2]] = g[1]
               /\ \A g, h \in given : g[1] = h[1] => g[2] = h[2]
    BY <2>4 DEF ScriptsInv, Numbered
  <2> QED BY <2>2, <2>3, <2>4 DEF NumberNamesScript
<1> QED BY <1>1, ScriptsInductive, PTL

\* What the run of the four tables does with the list is what the list alone does.
THEOREM ScriptsAlone == TablesSpec => Spec
<1>1. TablesInit => Init
  BY DEF TablesInit
<1>2. ASSUME [TablesNext]_allVars PROVE [Next]_vars
  BY <1>2, Zenon DEF TablesNext, allVars
<1> QED BY <1>1, <1>2, PTL DEF TablesSpec, Spec

-----------------------------------------------------------------------------
\* jtcdlookup and jtcdinsert, the cache of external calls (CdTable).

\* The tables of calls and what a thread has in its call.
CallsShape ==
    /\ cdstr \in Seq(Strings)
    /\ cdarg \in Seq([str : Strings, ai : Nat])
    /\ cdhash \subseteq 1 .. Len(cdarg) /\ cdhashl \subseteq 1 .. Len(cdarg)
    /\ AN_cd \in [{"cdstr", "cdarg", "cdhash"} -> Nat \ {0}]
    /\ Len(cdstr) <= AN_cd["cdstr"] /\ Len(cdarg) <= AN_cd["cdarg"]
    /\ CallSizes["cdhash"] <= AN_cd["cdhash"]
    /\ pcC \in [Callers -> {"idle", "load", "insert", "cdstr", "cdarg", "cdhash"}]
    /\ locC \in [Callers -> [a : Strings \union {NoString}, li : BOOLEAN, ai : Nat, oldn : Nat]]
    /\ \A t \in Callers : pcC[t] # "idle" => locC[t].a \in Strings

\* A thread that waits for a longer cdarg has put its string where ai says, and nobody else
\* names that place.
CallsText ==
    /\ \A k \in 1 .. Len(cdarg) :
         cdarg[k].ai \in 1 .. Len(cdstr) /\ cdstr[cdarg[k].ai] = cdarg[k].str
    /\ \A j, k \in 1 .. Len(cdarg) : cdarg[j].ai = cdarg[k].ai => j = k
    /\ \A t \in Callers : pcC[t] = "cdarg" =>
         /\ locC[t].ai \in 1 .. Len(cdstr) /\ cdstr[locC[t].ai] = locC[t].a
         /\ \A k \in 1 .. Len(cdarg) : cdarg[k].ai # locC[t].ai
    /\ \A t, u \in Callers :
         pcC[t] = "cdarg" /\ pcC[u] = "cdarg" /\ locC[t].ai = locC[u].ai => t = u

\* A call that was not hashed makes the table crowded until it is extended.
CallsHashed ==
    /\ C!Unextended => cdhash = 1 .. Len(cdarg)
    /\ cdhash # {} => 2 * Cardinality(cdhash) < AN_cd["cdhash"]

\* The entries of a string, the threads that are about to add one, and those about to
\* add a library.
Entries(a) == {k \in 1 .. Len(cdarg) : cdarg[k].str = a}
Adding(a) == {t \in Callers : pcC[t] \in {"load", "insert", "cdstr", "cdarg"} /\ locC[t].a = a}
AddingLibrary == {t \in Callers : pcC[t] \in {"insert", "cdstr", "cdarg"} /\ locC[t].li}

CallsOnce == C!Unextended => \A a \in Strings :
    Cardinality(Entries(a)) + Cardinality(Adding(a)) <= Cardinality(Callers)

CallsLibraries ==
    Cardinality(cdhashl) + Cardinality(AddingLibrary) < NLIBS + Cardinality(Callers)

CallsInv == CallsShape /\ CallsText /\ CallsHashed /\ CallsOnce /\ CallsLibraries
-----------------------------------------------------------------------------
CallPlaces == {"idle", "load", "insert", "cdstr", "cdarg", "cdhash"}
CallRecords == [a : Strings \union {NoString}, li : BOOLEAN, ai : Nat, oldn : Nat]
CallTables == {"cdstr", "cdarg", "cdhash"}

\* Only thread t moves: to p, with r.
Moved(t, p, r) ==
    /\ pcC' = [pcC EXCEPT ![t] = p] /\ locC' = [locC EXCEPT ![t] = r]
    /\ p \in CallPlaces /\ r \in CallRecords
    /\ p # "idle" => r.a \in Strings

\* A call that moves leaves the others where they are.
LEMMA MovedOthers ==
    ASSUME CallsShape, NEW t \in Callers, NEW p, NEW r, Moved(t, p, r)
    PROVE  /\ pcC' \in [Callers -> CallPlaces] /\ locC' \in [Callers -> CallRecords]
           /\ \A u \in Callers : pcC'[u] # "idle" => locC'[u].a \in Strings
           /\ pcC'[t] = p /\ locC'[t] = r
           /\ \A u \in Callers \ {t} : pcC'[u] = pcC[u] /\ locC'[u] = locC[u]
BY Zenon DEF CallsShape, Moved, CallPlaces, CallRecords

\* The sizes only grow.
Sizes_Grow ==
    /\ AN_cd' \in [CallTables -> Nat \ {0}]
    /\ \A x \in CallTables : AN_cd[x] <= AN_cd'[x]

\* The place i of the strings is that of a, and known to nobody but t.
Owns(t, i, a) ==
    /\ a \in Strings
    /\ i \in 1 .. Len(cdstr') /\ cdstr'[i] = a
    /\ \A k \in 1 .. Len(cdarg) : cdarg[k].ai # i
    /\ \A u \in Callers \ {t} : pcC[u] = "cdarg" => locC[u].ai # i

\* Strings are only added.
Strings_Grow ==
    /\ cdstr' \in Seq(Strings) /\ Len(cdstr) <= Len(cdstr') /\ Len(cdstr') <= AN_cd'["cdstr"]
    /\ \A i \in 1 .. Len(cdstr) : cdstr'[i] = cdstr[i]

\* Every entry has the text of one string while no entry is added,
LEMMA TextKeeps ==
    ASSUME CallsShape, CallsText, NEW t \in Callers, NEW p, NEW r, Moved(t, p, r), Strings_Grow,
           cdarg' = cdarg, p = "cdarg" => Owns(t, r.ai, r.a)
    PROVE  CallsText'
<1>1. Len(cdstr) \in Nat /\ Len(cdstr') \in Nat /\ Len(cdstr) <= Len(cdstr')
  BY DEF CallsShape, Strings_Grow
<1>2. 1 .. Len(cdstr) \subseteq 1 .. Len(cdstr')
  BY <1>1
<1>3. \A k \in 1 .. Len(cdarg) :
         cdarg[k].ai \in 1 .. Len(cdstr') /\ cdstr'[cdarg[k].ai] = cdarg[k].str
  BY <1>2 DEF CallsText, Strings_Grow
<1>4. ASSUME NEW u \in Callers, pcC'[u] = "cdarg"
      PROVE  /\ locC'[u].ai \in 1 .. Len(cdstr') /\ cdstr'[locC'[u].ai] = locC'[u].a
             /\ \A k \in 1 .. Len(cdarg) : cdarg[k].ai # locC'[u].ai
  <2>1. CASE u = t
    <3>1. p = "cdarg" /\ locC'[u] = r
      BY <1>4, <2>1, MovedOthers
    <3> QED BY <3>1 DEF Owns
  <2>2. CASE u # t
    <3>1. pcC[u] = "cdarg" /\ locC'[u] = locC[u]
      BY <1>4, <2>2, MovedOthers
    <3> QED BY <1>2, <3>1 DEF CallsText, Strings_Grow
  <2> QED BY <2>1, <2>2
<1>5. ASSUME NEW u \in Callers, NEW w \in Callers, pcC'[u] = "cdarg", pcC'[w] = "cdarg",
             locC'[u].ai = locC'[w].ai, u # w
      PROVE  FALSE
  <2>1. CASE u # t /\ w # t
    BY <1>5, <2>1, MovedOthers DEF CallsText
  <2>2. CASE u = t
    <3>1. p = "cdarg" /\ locC'[u] = r /\ pcC[w] = "cdarg" /\ locC'[w] = locC[w]
      BY <1>5, <2>2, MovedOthers
    <3> QED BY <1>5, <2>2, <3>1 DEF Owns
  <2>3. CASE w = t
    <3>1. p = "cdarg" /\ locC'[w] = r /\ pcC[u] = "cdarg" /\ locC'[u] = locC[u]
      BY <1>5, <2>3, MovedOthers
    <3> QED BY <1>5, <2>3, <3>1 DEF Owns
  <2> QED BY <2>1, <2>2, <2>3
<1> QED BY <1>3, <1>4, <1>5, Zenon DEF CallsText

\* and when one is added that has the text its string has.
LEMMA TextAdds ==
    ASSUME CallsShape, CallsText, NEW t \in Callers, NEW p, NEW r, Moved(t, p, r), Strings_Grow,
           p # "cdarg", NEW i, NEW a, Owns(t, i, a),
           cdarg' = Append(cdarg, [str |-> a, ai |-> i])
    PROVE  CallsText'
<1> DEFINE n == Len(cdarg)
<1>1. Len(cdstr) \in Nat /\ Len(cdstr') \in Nat /\ Len(cdstr) <= Len(cdstr') /\ n \in Nat
  BY DEF CallsShape, Strings_Grow
<1>2. 1 .. Len(cdstr) \subseteq 1 .. Len(cdstr')
  BY <1>1
<1>3. /\ Len(cdarg') = n + 1 /\ cdarg'[n + 1] = [str |-> a, ai |-> i]
      /\ \A k \in 1 .. n : cdarg'[k] = cdarg[k]
  <2>1. cdarg \in Seq([str : Strings, ai : Nat])
    BY DEF CallsShape
  <2> QED BY <2>1
<1>4. \A k \in 1 .. Len(cdarg') : k \in 1 .. n \/ k = n + 1
  BY <1>1, <1>3
<1>5. \A k \in 1 .. Len(cdarg') :
         cdarg'[k].ai \in 1 .. Len(cdstr') /\ cdstr'[cdarg'[k].ai] = cdarg'[k].str
  <2> TAKE k \in 1 .. Len(cdarg')
  <2>1. CASE k \in 1 .. n
    <3>1. cdarg'[k] = cdarg[k] /\ cdarg[k].ai \in 1 .. Len(cdstr)
      BY <1>3, <2>1 DEF CallsText
    <3> QED BY <1>2, <2>1, <3>1 DEF CallsText, Strings_Grow
  <2>2. CASE k = n + 1
    BY <1>3, <2>2 DEF Owns
  <2> QED BY <1>4, <2>1, <2>2
<1>6. \A j, k \in 1 .. Len(cdarg') : cdarg'[j].ai = cdarg'[k].ai => j = k
  <2> SUFFICES ASSUME NEW j \in 1 .. Len(cdarg'), NEW k \in 1 .. Len(cdarg'),
                      cdarg'[j].ai = cdarg'[k].ai
               PROVE  j = k
    OBVIOUS
  <2>1. \A m \in 1 .. n : cdarg'[m].ai = cdarg[m].ai /\ cdarg[m].ai # i
    BY <1>3 DEF Owns
  <2>2. cdarg'[n + 1].ai = i
    BY <1>3
  <2>3. CASE j \in 1 .. n /\ k \in 1 .. n
    BY <2>1, <2>3 DEF CallsText
  <2> QED BY <1>4, <2>1, <2>2, <2>3
<1>7. ASSUME NEW u \in Callers, pcC'[u] = "cdarg"
      PROVE  u # t /\ pcC[u] = "cdarg" /\ locC'[u] = locC[u]
  BY <1>7, MovedOthers
<1>8. ASSUME NEW u \in Callers, pcC'[u] = "cdarg"
      PROVE  /\ locC'[u].ai \in 1 .. Len(cdstr') /\ cdstr'[locC'[u].ai] = locC'[u].a
             /\ \A k \in 1 .. Len(cdarg') : cdarg'[k].ai # locC'[u].ai
  <2>1. u # t /\ pcC[u] = "cdarg" /\ locC'[u] = locC[u]
    BY <1>7, <1>8
  <2>2. locC[u].ai \in 1 .. Len(cdstr) /\ cdstr[locC[u].ai] = locC[u].a
    BY <2>1 DEF CallsText
  <2>3. \A k \in 1 .. n : cdarg'[k].ai # locC[u].ai
    BY <1>3, <2>1 DEF CallsText
  <2>4. cdarg'[n + 1].ai # locC[u].ai
    BY <1>3, <2>1 DEF Owns
  <2> QED BY <1>2, <1>4, <2>1, <2>2, <2>3, <2>4 DEF Strings_Grow
<1>9. \A u, w \in Callers :
         pcC'[u] = "cdarg" /\ pcC'[w] = "cdarg" /\ locC'[u].ai = locC'[w].ai => u = w
  BY <1>7 DEF CallsText
<1> QED BY <1>5, <1>6, <1>8, <1>9, Zenon DEF CallsText

-----------------------------------------------------------------------------
\* The hash table stays unextended only if it was: sizes and entries only grow.
LEMMA StaysExtended ==
    ASSUME CallsShape, Sizes_Grow, cdarg' \in Seq([str : Strings, ai : Nat]),
           Len(cdarg) <= Len(cdarg'), C!Unextended'
    PROVE  C!Unextended /\ AN_cd'["cdhash"] = AN_cd["cdhash"]
           /\ ~ (AN_cd["cdhash"] <= 2 * Len(cdarg'))
<1>1. /\ AN_cd["cdhash"] \in Nat /\ AN_cd'["cdhash"] \in Nat /\ CallSizes["cdhash"] \in Nat
      /\ AN_cd["cdhash"] <= AN_cd'["cdhash"] /\ CallSizes["cdhash"] <= AN_cd["cdhash"]
  BY CallsAssumption DEF CallsShape, Sizes_Grow, CallTables
<1>2. Len(cdarg) \in Nat /\ Len(cdarg') \in Nat
  BY DEF CallsShape
<1>3. AN_cd'["cdhash"] = CallSizes["cdhash"] /\ ~ (AN_cd'["cdhash"] <= 2 * Len(cdarg'))
  BY DEF C!Unextended, C!Crowded
<1>4. AN_cd["cdhash"] = CallSizes["cdhash"] /\ ~ (AN_cd["cdhash"] <= 2 * Len(cdarg'))
  BY <1>1, <1>3
<1>5. ~ (AN_cd["cdhash"] <= 2 * Len(cdarg))
  BY <1>1, <1>2, <1>4
<1> QED BY <1>3, <1>4, <1>5 DEF C!Unextended, C!Crowded

\* The set sizes of CdTable.
LEMMA SameSize == ASSUME NEW S PROVE C!Cardinality(S) = Cardinality(S)
BY Zenon DEF C!Cardinality, Cardinality, C!IsFiniteSet, IsFiniteSet

\* A finite set grows by one member at most.
LEMMA AddOne ==
    ASSUME NEW S, IsFiniteSet(S), NEW x
    PROVE  /\ IsFiniteSet(S \union {x}) /\ Cardinality(S \union {x}) \in Nat
           /\ Cardinality(S \union {x}) <= Cardinality(S) + 1
<1>1. /\ IsFiniteSet(S \union {x})
      /\ Cardinality(S \union {x}) = IF x \in S THEN Cardinality(S) ELSE Cardinality(S) + 1
  BY FS_AddElement
<1>2. Cardinality(S) \in Nat /\ Cardinality(S \union {x}) \in Nat
  BY <1>1, FS_CardinalityType
<1> QED BY <1>1, <1>2

Pending(p) == p \in {"load", "insert", "cdstr", "cdarg"}

\* No more threads add a string than there are threads.
LEMMA AddingFinite ==
    ASSUME NEW a
    PROVE  /\ IsFiniteSet(Adding(a)) /\ Cardinality(Adding(a)) \in Nat
           /\ Cardinality(Adding(a)) <= Cardinality(Callers) /\ Cardinality(Callers) \in Nat
<1>1. Adding(a) \subseteq Callers
  BY DEF Adding
<1> QED BY <1>1, CallsAssumption, FS_Subset, FS_CardinalityType

\* A string has finitely many entries.
LEMMA EntriesFinite ==
    ASSUME CallsShape, NEW a
    PROVE  IsFiniteSet(Entries(a)) /\ Cardinality(Entries(a)) \in Nat
<1>1. Entries(a) \subseteq 1 .. Len(cdarg) /\ Len(cdarg) \in Nat
  BY DEF Entries, CallsShape
<1>2. IsFiniteSet(1 .. Len(cdarg))
  BY <1>1, FS_Interval
<1> QED BY <1>1, <1>2, FS_Subset, FS_CardinalityType

\* No entry is added, and nobody but t, of whose string there is no entry, starts to add one.
LEMMA OnceKeeps ==
    ASSUME CallsShape, CallsOnce, Sizes_Grow, NEW t \in Callers, NEW p, NEW r, Moved(t, p, r),
           cdarg' = cdarg,
           C!Unextended => \/ ~ Pending(p)
                           \/ Pending(pcC[t]) /\ r.a = locC[t].a
                           \/ Entries(r.a) = {}
    PROVE  CallsOnce'
<1> SUFFICES ASSUME C!Unextended', NEW a \in Strings
             PROVE  Cardinality(Entries(a)') + Cardinality(Adding(a)') <= Cardinality(Callers)
  BY Zenon DEF CallsOnce
<1>1. C!Unextended
  BY StaysExtended DEF CallsShape
<1>2. Entries(a)' = Entries(a)
  BY DEF Entries
<1>3. Cardinality(Entries(a)) \in Nat /\ Cardinality(Callers) \in Nat
      /\ Cardinality(Adding(a)) \in Nat /\ IsFiniteSet(Adding(a))
  BY EntriesFinite, AddingFinite
<1>4. Cardinality(Entries(a)) + Cardinality(Adding(a)) <= Cardinality(Callers)
  BY <1>1 DEF CallsOnce
<1>5. Adding(a)' \subseteq Callers
  BY DEF Adding
<1>6. CASE Adding(a)' \subseteq Adding(a)
  <2>1. Cardinality(Adding(a)') <= Cardinality(Adding(a)) /\ Cardinality(Adding(a)') \in Nat
    BY <1>3, <1>6, FS_Subset, FS_CardinalityType
  <2> QED BY <1>2, <1>3, <1>4, <2>1
<1>7. CASE ~ (Adding(a)' \subseteq Adding(a))
  <2>1. PICK u \in Adding(a)' : u \notin Adding(a)
    BY <1>7
  <2>2. u = t
    BY <2>1, MovedOthers, Zenon DEF Adding
  <2>3. Pending(p) /\ r.a = a
    BY <2>1, <2>2, MovedOthers DEF Adding, Pending
  <2>4. ~ (Pending(pcC[t]) /\ locC[t].a = a)
    BY <2>1, <2>2 DEF Adding, Pending
  <2>5. Entries(a) = {}
    BY <1>1, <2>3, <2>4
  <2>6. Cardinality(Entries(a)) = 0
    BY <2>5, FS_EmptySet
  <2>7. Cardinality(Adding(a)') <= Cardinality(Callers) /\ Cardinality(Adding(a)') \in Nat
    BY <1>5, CallsAssumption, FS_Subset, FS_CardinalityType
  <2> QED BY <1>2, <1>3, <2>6, <2>7
<1> QED BY <1>6, <1>7

\* An entry of the string of t is added, and t has done so.
LEMMA OnceAdds ==
    ASSUME CallsShape, CallsOnce, Sizes_Grow, NEW t \in Callers, NEW p, NEW r, Moved(t, p, r),
           NEW e \in [str : Strings, ai : Nat], cdarg' = Append(cdarg, e), e.str = locC[t].a,
           Pending(pcC[t]), ~ Pending(p)
    PROVE  CallsOnce'
<1> SUFFICES ASSUME C!Unextended', NEW a \in Strings
             PROVE  Cardinality(Entries(a)') + Cardinality(Adding(a)') <= Cardinality(Callers)
  BY Zenon DEF CallsOnce
<1>0. /\ cdarg' \in Seq([str : Strings, ai : Nat]) /\ Len(cdarg') = Len(cdarg) + 1
      /\ \A k \in 1 .. Len(cdarg) : cdarg'[k] = cdarg[k]
      /\ cdarg'[Len(cdarg) + 1] = e /\ Len(cdarg) \in Nat
  <2>1. cdarg \in Seq([str : Strings, ai : Nat])
    BY DEF CallsShape
  <2> QED BY <2>1
<1>1. C!Unextended
  BY <1>0, StaysExtended
<1>3. Cardinality(Entries(a)) \in Nat /\ Cardinality(Callers) \in Nat /\ IsFiniteSet(Entries(a))
      /\ Cardinality(Adding(a)) \in Nat /\ IsFiniteSet(Adding(a))
  BY EntriesFinite, AddingFinite
<1>4. Cardinality(Entries(a)) + Cardinality(Adding(a)) <= Cardinality(Callers)
  BY <1>1 DEF CallsOnce
<1>5. Adding(a)' \subseteq Adding(a) \ {t}
  BY MovedOthers DEF Adding, Pending
<1>6. CASE e.str = a
  <2>1. Entries(a)' \subseteq Entries(a) \union {Len(cdarg) + 1}
    BY <1>0 DEF Entries
  <2>2. t \in Adding(a)
    BY <1>6 DEF Adding, Pending
  <2>3. Cardinality(Adding(a) \ {t}) = Cardinality(Adding(a)) - 1 /\ IsFiniteSet(Adding(a) \ {t})
    BY <1>3, <2>2, FS_RemoveElement
  <2>4. Cardinality(Adding(a)') <= Cardinality(Adding(a)) - 1 /\ Cardinality(Adding(a)') \in Nat
    BY <1>5, <2>3, FS_Subset, FS_CardinalityType
  <2>5. /\ Cardinality(Entries(a) \union {Len(cdarg) + 1}) <= Cardinality(Entries(a)) + 1
        /\ IsFiniteSet(Entries(a) \union {Len(cdarg) + 1})
        /\ Cardinality(Entries(a) \union {Len(cdarg) + 1}) \in Nat
    BY <1>3, AddOne
  <2>6. /\ Cardinality(Entries(a)') <= Cardinality(Entries(a) \union {Len(cdarg) + 1})
        /\ Cardinality(Entries(a)') \in Nat
    BY <2>1, <2>5, FS_Subset, FS_CardinalityType
  <2> QED BY <1>3, <1>4, <2>4, <2>5, <2>6
<1>7. CASE e.str # a
  <2>1. Entries(a)' = Entries(a)
    BY <1>0, <1>7 DEF Entries
  <2>2. Cardinality(Adding(a)') <= Cardinality(Adding(a)) /\ Cardinality(Adding(a)') \in Nat
    BY <1>3, <1>5, FS_Subset, FS_CardinalityType
  <2> QED BY <1>3, <1>4, <2>1, <2>2
<1> QED BY <1>6, <1>7

\* Of the libraries a thread only adds one if it saw fewer than NLIBS.
LEMMA LibrariesKeep ==
    ASSUME CallsShape, CallsLibraries, NEW t \in Callers, NEW p, NEW r, Moved(t, p, r),
           \/ /\ cdhashl' = cdhashl
              /\ \/ t \in AddingLibrary
                 \/ ~ (p \in {"insert", "cdstr", "cdarg"} /\ r.li)
                 \/ Cardinality(cdhashl) < NLIBS
           \/ /\ \E k : cdhashl' = cdhashl \union {k}
              /\ t \in AddingLibrary /\ p \notin {"insert", "cdstr", "cdarg"}
    PROVE  CallsLibraries'
<1>1. IsFiniteSet(AddingLibrary) /\ Cardinality(AddingLibrary) \in Nat
      /\ Cardinality(Callers) \in Nat /\ AddingLibrary' \subseteq Callers
  <2>1. AddingLibrary \subseteq Callers /\ AddingLibrary' \subseteq Callers
    BY DEF AddingLibrary
  <2> QED BY <2>1, CallsAssumption, FS_Subset, FS_CardinalityType
<1>2. IsFiniteSet(cdhashl) /\ Cardinality(cdhashl) \in Nat
  <2>1. cdhashl \subseteq 1 .. Len(cdarg) /\ IsFiniteSet(1 .. Len(cdarg))
    BY FS_Interval DEF CallsShape
  <2> QED BY <2>1, FS_Subset, FS_CardinalityType
<1>3. Cardinality(cdhashl) + Cardinality(AddingLibrary) < NLIBS + Cardinality(Callers)
      /\ NLIBS \in Nat
  BY CallsAssumption DEF CallsLibraries
<1>4. \A u \in Callers \ {t} : u \in AddingLibrary' <=> u \in AddingLibrary
  BY MovedOthers DEF AddingLibrary
<1>5. t \in AddingLibrary' <=> p \in {"insert", "cdstr", "cdarg"} /\ r.li
  BY MovedOthers DEF AddingLibrary
<1>6. CASE cdhashl' = cdhashl /\ AddingLibrary' \subseteq AddingLibrary
  <2>1. Cardinality(AddingLibrary') <= Cardinality(AddingLibrary)
        /\ Cardinality(AddingLibrary') \in Nat
    BY <1>1, <1>6, FS_Subset, FS_CardinalityType
  <2> QED BY <1>1, <1>2, <1>3, <1>6, <2>1 DEF CallsLibraries
<1>7. CASE cdhashl' = cdhashl /\ Cardinality(cdhashl) < NLIBS
  <2>1. Cardinality(AddingLibrary') <= Cardinality(Callers)
        /\ Cardinality(AddingLibrary') \in Nat
    BY <1>1, CallsAssumption, FS_Subset, FS_CardinalityType
  <2> QED BY <1>1, <1>2, <1>3, <1>7, <2>1 DEF CallsLibraries
<1>8. CASE /\ \E k : cdhashl' = cdhashl \union {k}
           /\ t \in AddingLibrary /\ p \notin {"insert", "cdstr", "cdarg"}
  <2>1. AddingLibrary' \subseteq AddingLibrary \ {t}
    BY <1>1, <1>4, <1>5, <1>8
  <2>2. Cardinality(AddingLibrary \ {t}) = Cardinality(AddingLibrary) - 1
        /\ IsFiniteSet(AddingLibrary \ {t})
    BY <1>1, <1>8, FS_RemoveElement
  <2>3. Cardinality(AddingLibrary') <= Cardinality(AddingLibrary) - 1
        /\ Cardinality(AddingLibrary') \in Nat
    BY <2>1, <2>2, FS_Subset, FS_CardinalityType
  <2>4. PICK k : cdhashl' = cdhashl \union {k}
    BY <1>8
  <2>5. Cardinality(cdhashl') <= Cardinality(cdhashl) + 1 /\ Cardinality(cdhashl') \in Nat
    BY <1>2, <2>4, AddOne
  <2> QED BY <1>1, <1>2, <1>3, <2>3, <2>5 DEF CallsLibraries
<1>9. ~ (p \in {"insert", "cdstr", "cdarg"} /\ r.li) \/ t \in AddingLibrary
        => AddingLibrary' \subseteq AddingLibrary
  BY <1>1, <1>4, <1>5
<1> QED BY <1>6, <1>7, <1>8, <1>9

\* There are n numbers from 1 to n.
LEMMA UpToSize == ASSUME NEW n \in Nat PROVE IsFiniteSet(1 .. n) /\ Cardinality(1 .. n) = n
<1>1. IsFiniteSet(1 .. n) /\ Cardinality(1 .. n) = IF 1 > n THEN 0 ELSE n - 1 + 1
  BY FS_Interval
<1> QED BY <1>1

\* The hash table: nothing is hashed, or the new entry is and then the table is not crowded,
\* or the table is extended.
LEMMA HashedKeeps ==
    ASSUME CallsShape, CallsHashed, Sizes_Grow, cdarg' \in Seq([str : Strings, ai : Nat]),
           \/ cdarg' = cdarg /\ cdhash' = cdhash
           \/ /\ Len(cdarg') = Len(cdarg) + 1 /\ cdhash' = cdhash
              /\ AN_cd'["cdhash"] <= 2 * Len(cdarg')
           \/ /\ Len(cdarg') = Len(cdarg) + 1 /\ cdhash' = cdhash \union {Len(cdarg')}
              /\ ~ (AN_cd'["cdhash"] <= 2 * Len(cdarg'))
           \/ /\ cdarg' = cdarg /\ cdhash' = {}
              /\ AN_cd'["cdhash"] = 2 * AN_cd["cdhash"]
    PROVE  CallsHashed'
<1>1. /\ AN_cd["cdhash"] \in Nat \ {0} /\ AN_cd'["cdhash"] \in Nat
      /\ AN_cd["cdhash"] <= AN_cd'["cdhash"]
  BY DEF CallsShape, Sizes_Grow, CallTables
<1>2. Len(cdarg) \in Nat /\ Len(cdarg') \in Nat /\ Len(cdarg) <= Len(cdarg')
  BY DEF CallsShape
<1>3. C!Unextended' => /\ C!Unextended /\ AN_cd'["cdhash"] = AN_cd["cdhash"]
                       /\ ~ (AN_cd["cdhash"] <= 2 * Len(cdarg'))
  BY <1>2, StaysExtended
<1>4. IsFiniteSet(cdhash) /\ Cardinality(cdhash) \in Nat
  <2>1. cdhash \subseteq 1 .. Len(cdarg) /\ IsFiniteSet(1 .. Len(cdarg))
    BY <1>2, FS_Interval DEF CallsShape
  <2> QED BY <2>1, FS_Subset, FS_CardinalityType
<1>5. C!Unextended' => cdhash' = 1 .. Len(cdarg')
  <2> SUFFICES ASSUME C!Unextended' PROVE cdhash' = 1 .. Len(cdarg')
    OBVIOUS
  <2>1. cdhash = 1 .. Len(cdarg)
    BY <1>3 DEF CallsHashed
  <2>2. CASE cdarg' = cdarg /\ cdhash' = cdhash
    BY <2>1, <2>2
  <2>3. CASE Len(cdarg') = Len(cdarg) + 1 /\ cdhash' = cdhash \union {Len(cdarg')}
    <3>1. 1 .. Len(cdarg) + 1 = (1 .. Len(cdarg)) \union {Len(cdarg) + 1}
      BY <1>2
    <3> QED BY <2>1, <2>3, <3>1
  <2>4. AN_cd'["cdhash"] # 2 * AN_cd["cdhash"] /\ ~ (AN_cd'["cdhash"] <= 2 * Len(cdarg'))
    BY <1>1, <1>2, <1>3
  <2> QED BY <2>2, <2>3, <2>4
<1>6. cdhash' # {} => 2 * Cardinality(cdhash') < AN_cd'["cdhash"]
  <2>1. CASE cdhash' = cdhash
    BY <1>1, <1>4, <2>1 DEF CallsHashed
  <2>2. CASE /\ Len(cdarg') = Len(cdarg) + 1 /\ cdhash' = cdhash \union {Len(cdarg')}
             /\ ~ (AN_cd'["cdhash"] <= 2 * Len(cdarg'))
    <3>1. cdhash' \subseteq 1 .. Len(cdarg')
      <4>1. cdhash \subseteq 1 .. Len(cdarg)
        BY DEF CallsShape
      <4>2. 1 .. Len(cdarg) \subseteq 1 .. Len(cdarg') /\ Len(cdarg') \in 1 .. Len(cdarg')
        BY <1>2, <2>2
      <4> QED BY <2>2, <4>1, <4>2
    <3>2. IsFiniteSet(1 .. Len(cdarg')) /\ Cardinality(1 .. Len(cdarg')) = Len(cdarg')
      BY <1>2, UpToSize
    <3>3. Cardinality(cdhash') <= Len(cdarg') /\ Cardinality(cdhash') \in Nat
      <4>1. PICK up : up = 1 .. Len(cdarg')
        OBVIOUS
      <4>2. IsFiniteSet(cdhash') /\ Cardinality(cdhash') <= Cardinality(up)
        BY <3>1, <3>2, <4>1, FS_Subset, Zenon
      <4>3. Cardinality(cdhash') \in Nat
        BY <4>2, FS_CardinalityType, Zenon
      <4> QED BY <3>2, <4>1, <4>2, <4>3
    <3> QED BY <1>1, <1>2, <2>2, <3>3
  <2> QED BY <2>1, <2>2
<1> QED BY <1>5, <1>6, Zenon DEF CallsHashed

\* The shape of the tables lasts while they grow.
LEMMA ShapeKeeps ==
    ASSUME CallsShape, NEW t \in Callers, NEW p, NEW r, Moved(t, p, r), Sizes_Grow, Strings_Grow,
           cdarg' \in Seq([str : Strings, ai : Nat]),
           Len(cdarg) <= Len(cdarg'), Len(cdarg') <= AN_cd'["cdarg"],
           cdhash' \subseteq 1 .. Len(cdarg'), cdhashl' \subseteq 1 .. Len(cdarg')
    PROVE  CallsShape'
<1>1. CallSizes["cdhash"] <= AN_cd'["cdhash"]
  <2>1. CallSizes["cdhash"] \in Nat /\ AN_cd["cdhash"] \in Nat /\ AN_cd'["cdhash"] \in Nat
        /\ CallSizes["cdhash"] <= AN_cd["cdhash"] /\ AN_cd["cdhash"] <= AN_cd'["cdhash"]
    BY CallsAssumption DEF CallsShape, Sizes_Grow, CallTables
  <2> QED BY <2>1
<1>2. /\ pcC' \in [Callers -> CallPlaces] /\ locC' \in [Callers -> CallRecords]
      /\ \A u \in Callers : pcC'[u] # "idle" => locC'[u].a \in Strings
  BY MovedOthers
<1> QED BY <1>1, <1>2, Zenon
  DEF CallsShape, Sizes_Grow, Strings_Grow, CallTables, CallPlaces, CallRecords

\* Tables that are not extended keep their sizes, and
LEMMA SizesSame == ASSUME CallsShape, AN_cd' = AN_cd PROVE Sizes_Grow
<1>1. \A x \in CallTables : AN_cd[x] \in Nat
  BY DEF CallsShape, CallTables
<1>2. \A x \in CallTables : AN_cd[x] <= AN_cd[x]
  BY <1>1
<1> QED BY <1>2, Zenon DEF CallsShape, CallTables, Sizes_Grow

\* The sizes after an allocation, and whose table has changed meanwhile.
LEMMA ExtendGrows ==
    ASSUME CallsShape, NEW t \in Callers, NEW x \in CallTables, C!Extend(t, x)
    PROVE  /\ Sizes_Grow
           /\ AN_cd[x] = locC[t].oldn => AN_cd'[x] = 2 * AN_cd[x]
           /\ AN_cd[x] # locC[t].oldn => AN_cd' = AN_cd
<1>1. CASE AN_cd[x] # locC[t].oldn
  BY <1>1, SizesSame DEF C!Extend
<1>2. CASE AN_cd[x] = locC[t].oldn
  <2>1. AN_cd' = [AN_cd EXCEPT ![x] = 2 * @]
    BY <1>2 DEF C!Extend
  <2>2. AN_cd \in [CallTables -> Nat \ {0}]
    BY DEF CallsShape, CallTables
  <2>3. 2 * AN_cd[x] \in Nat \ {0} /\ AN_cd[x] <= 2 * AN_cd[x]
    BY <2>2
  <2>4. AN_cd' \in [CallTables -> Nat \ {0}] /\ AN_cd'[x] = 2 * AN_cd[x]
    BY <2>1, <2>2, <2>3
  <2>5. ASSUME NEW y \in CallTables PROVE AN_cd[y] <= AN_cd'[y]
    <3>1. AN_cd[y] \in Nat
      BY <2>2
    <3> QED BY <2>1, <2>2, <2>3, <2>4, <3>1
  <2> QED BY <1>2, <2>4, <2>5 DEF Sizes_Grow
<1> QED BY <1>1, <1>2

\* strings that are not touched are kept.
LEMMA StringsSame == ASSUME CallsShape, Sizes_Grow, cdstr' = cdstr PROVE Strings_Grow
<1>1. Len(cdstr) \in Nat /\ Len(cdstr) <= AN_cd["cdstr"]
  BY DEF CallsShape
<1>2. AN_cd["cdstr"] \in Nat /\ AN_cd'["cdstr"] \in Nat /\ AN_cd["cdstr"] <= AN_cd'["cdstr"]
  BY DEF CallsShape, Sizes_Grow, CallTables
<1>3. Len(cdstr) <= AN_cd'["cdstr"] /\ Len(cdstr) <= Len(cdstr)
  BY <1>1, <1>2
<1> QED BY <1>3, Zenon DEF CallsShape, Strings_Grow

\* So are the entries.
LEMMA CallsSame ==
    ASSUME CallsShape, Sizes_Grow, cdarg' = cdarg
    PROVE  /\ cdarg' \in Seq([str : Strings, ai : Nat])
           /\ Len(cdarg) <= Len(cdarg') /\ Len(cdarg') <= AN_cd'["cdarg"]
<1>1. Len(cdarg) \in Nat /\ Len(cdarg) <= AN_cd["cdarg"]
  BY DEF CallsShape
<1>2. AN_cd["cdarg"] \in Nat /\ AN_cd'["cdarg"] \in Nat /\ AN_cd["cdarg"] <= AN_cd'["cdarg"]
  BY DEF CallsShape, Sizes_Grow, CallTables
<1>3. Len(cdarg) <= AN_cd'["cdarg"] /\ Len(cdarg) <= Len(cdarg)
  BY <1>1, <1>2
<1> QED BY <1>3, Zenon DEF CallsShape

-----------------------------------------------------------------------------
\* What a thread has while it is in cdinsert, after its string was stored.
Ready(t, call) ==
    /\ call \in CallRecords /\ call.a = locC[t].a /\ call.li = locC[t].li
    /\ pcC[t] \in {"insert", "cdstr", "cdarg"}
    /\ Owns(t, call.ai, call.a)
    /\ Sizes_Grow /\ Strings_Grow

\* A call that waits for memory keeps its string, and knows the size of the table.
LEMMA WaitMoves ==
    ASSUME CallsShape, Sizes_Grow, NEW t \in Callers, NEW x \in CallTables,
           NEW call \in CallRecords, call.a \in Strings, C!Wait(t, x, call)
    PROVE  \E r \in CallRecords : /\ Moved(t, x, r) /\ r.a = call.a /\ r.li = call.li
                                  /\ r.ai = call.ai /\ r.oldn = AN_cd'[x]
<1>1. AN_cd'[x] \in Nat
  BY DEF Sizes_Grow
<1>2. PICK r : r = [call EXCEPT !.oldn = AN_cd'[x]]
  OBVIOUS
<1>3. /\ r \in CallRecords /\ r.a = call.a /\ r.li = call.li /\ r.ai = call.ai
      /\ r.oldn = AN_cd'[x]
  BY <1>1, <1>2 DEF CallRecords
<1>4. pcC' = [pcC EXCEPT ![t] = x] /\ locC' = [locC EXCEPT ![t] = r]
  BY <1>2 DEF C!Wait
<1>5. x \in CallPlaces
  BY DEF CallTables, CallPlaces
<1> QED BY <1>3, <1>4, <1>5 DEF Moved

\* A call that ends forgets all.
LEMMA FinishMoves ==
    ASSUME NEW t \in Callers, C!Finish(t) PROVE Moved(t, "idle", C!NoCall)
<1>1. C!NoCall \in CallRecords
  BY DEF C!NoCall, CallRecords
<1> QED BY <1>1 DEF C!Finish, Moved, CallPlaces

\* The thread waits for a longer cdarg.
LEMMA ArgWaits ==
    ASSUME CallsInv, NEW t \in Callers, NEW call, Ready(t, call),
           C!Wait(t, "cdarg", call), UNCHANGED <<cdarg, cdhashl, cdhash>>
    PROVE  CallsInv'
<1>1. CallsShape /\ CallsText /\ CallsHashed /\ CallsOnce /\ CallsLibraries
  BY DEF CallsInv
<1>2. /\ Sizes_Grow /\ Strings_Grow /\ call.a = locC[t].a /\ call.li = locC[t].li
      /\ pcC[t] \in {"insert", "cdstr", "cdarg"} /\ Owns(t, call.ai, call.a)
      /\ call \in CallRecords
  BY DEF Ready
<1>3. PICK r \in CallRecords : /\ Moved(t, "cdarg", r) /\ r.a = call.a /\ r.li = call.li
                               /\ r.ai = call.ai
  BY <1>1, <1>2, WaitMoves DEF CallTables, Owns
<1>4. /\ cdarg' \in Seq([str : Strings, ai : Nat])
      /\ Len(cdarg) <= Len(cdarg') /\ Len(cdarg') <= AN_cd'["cdarg"]
  BY <1>1, <1>2, CallsSame
<1>5. CallsShape'
  BY <1>1, <1>2, <1>3, <1>4, ShapeKeeps, Zenon DEF CallsShape
<1>6. CallsText'
  BY <1>1, <1>2, <1>3, TextKeeps
<1>7. CallsHashed'
  BY <1>1, <1>2, <1>4, HashedKeeps
<1>8. CallsOnce'
  BY <1>1, <1>2, <1>3, OnceKeeps DEF Pending
<1>9. CallsLibraries'
  <2>1. \/ t \in AddingLibrary
        \/ ~ r.li
    BY <1>2, <1>3 DEF AddingLibrary
  <2> QED BY <1>1, <1>3, <2>1, LibrariesKeep
<1> QED BY <1>5, <1>6, <1>7, <1>8, <1>9 DEF CallsInv

\* The call is appended: whether it is hashed or the thread waits for a longer hash table.
LEMMA ArgAppends ==
    ASSUME CallsInv, NEW t \in Callers, NEW call, Ready(t, call),
           C!Room(Len(cdarg), AN_cd'["cdarg"]),
           cdarg' = Append(cdarg, C!Entry(call)),
           cdhashl' = IF call.li /\ Cardinality(cdhashl) < LibSlots
                      THEN cdhashl \union {Len(cdarg) + 1} ELSE cdhashl,
           C!HashStage(t, call)
    PROVE  CallsInv'
<1>1. CallsShape /\ CallsText /\ CallsHashed /\ CallsOnce /\ CallsLibraries
  BY DEF CallsInv
<1>2. /\ Sizes_Grow /\ Strings_Grow /\ call.a = locC[t].a /\ call.li = locC[t].li
      /\ pcC[t] \in {"insert", "cdstr", "cdarg"} /\ Owns(t, call.ai, call.a)
      /\ call \in CallRecords
  BY DEF Ready
<1>3. PICK e \in [str : Strings, ai : Nat] :
         e = [str |-> call.a, ai |-> call.ai] /\ cdarg' = Append(cdarg, e)
  <2>1. call.a \in Strings /\ call.ai \in Nat
    BY <1>2 DEF Owns, CallRecords
  <2> QED BY <2>1 DEF C!Entry
<1>4. /\ cdarg' \in Seq([str : Strings, ai : Nat]) /\ Len(cdarg') = Len(cdarg) + 1
      /\ Len(cdarg) \in Nat
  <2>1. cdarg \in Seq([str : Strings, ai : Nat])
    BY <1>1 DEF CallsShape
  <2> QED BY <1>3, <2>1
<1>5. Len(cdarg) <= Len(cdarg') /\ Len(cdarg') <= AN_cd'["cdarg"]
  <2>1. AN_cd'["cdarg"] \in Nat /\ Len(cdarg) < AN_cd'["cdarg"]
    BY <1>2 DEF Sizes_Grow, CallTables, C!Room
  <2> QED BY <1>4, <2>1
<1>6. PICK p, r : /\ Moved(t, p, r) /\ p \in {"idle", "cdhash"}
                  /\ \/ cdhash' = cdhash /\ AN_cd'["cdhash"] <= 2 * Len(cdarg')
                     \/ /\ cdhash' = cdhash \union {Len(cdarg')}
                        /\ ~ (AN_cd'["cdhash"] <= 2 * Len(cdarg'))
  <2>1. CASE C!Crowded(AN_cd'["cdhash"], Len(cdarg'))
    <3>1. C!Wait(t, "cdhash", call) /\ cdhash' = cdhash
      BY <2>1 DEF C!HashStage
    <3>2. \E r \in CallRecords : Moved(t, "cdhash", r)
      BY <1>1, <1>2, <3>1, WaitMoves DEF CallTables, Owns
    <3> QED BY <2>1, <3>1, <3>2 DEF C!Crowded
  <2>2. CASE ~ C!Crowded(AN_cd'["cdhash"], Len(cdarg'))
    <3>1. C!Finish(t) /\ cdhash' = cdhash \union {Len(cdarg')}
      BY <2>2 DEF C!HashStage, C!HashSelf
    <3> QED BY <2>2, <3>1, FinishMoves DEF C!Crowded
  <2> QED BY <2>1, <2>2
<1>7. CallsShape'
  <2>1. cdhash \subseteq 1 .. Len(cdarg) /\ cdhashl \subseteq 1 .. Len(cdarg)
    BY <1>1 DEF CallsShape
  <2>2. 1 .. Len(cdarg) \subseteq 1 .. Len(cdarg') /\ Len(cdarg') \in 1 .. Len(cdarg')
    BY <1>4
  <2>3. cdhash' \subseteq 1 .. Len(cdarg') /\ cdhashl' \subseteq 1 .. Len(cdarg')
    BY <1>4, <1>6, <2>1, <2>2
  <2> QED BY <1>1, <1>2, <1>4, <1>5, <1>6, <2>3, ShapeKeeps
<1>8. CallsText'
  BY <1>1, <1>2, <1>3, <1>6, TextAdds
<1>9. CallsHashed'
  BY <1>1, <1>2, <1>4, <1>6, HashedKeeps
<1>10. CallsOnce'
  <2>1. e.str = locC[t].a
    BY <1>2, <1>3
  <2> QED BY <1>1, <1>2, <1>3, <1>6, <2>1, OnceAdds DEF Pending
<1>11. CallsLibraries'
  <2>1. p \notin {"insert", "cdstr", "cdarg"}
    BY <1>6
  <2>2. CASE cdhashl' = cdhashl
    BY <1>1, <1>6, <2>1, <2>2, LibrariesKeep
  <2>3. CASE cdhashl' # cdhashl
    <3>1. call.li /\ cdhashl' = cdhashl \union {Len(cdarg) + 1}
      BY <2>3
    <3>2. t \in AddingLibrary
      BY <1>2, <3>1 DEF AddingLibrary
    <3> QED BY <1>1, <1>6, <2>1, <3>1, <3>2, LibrariesKeep
  <2> QED BY <2>2, <2>3
<1> QED BY <1>7, <1>8, <1>9, <1>10, <1>11 DEF CallsInv

\* jtcdinsert with the string in cdstr: the entry is added, or waits for room.
LEMMA ArgStageKeeps ==
    ASSUME CallsInv, NEW t \in Callers, NEW call, Ready(t, call), C!ArgStage(t, call)
    PROVE  CallsInv'
<1>1. CASE C!Room(Len(cdarg), AN_cd'["cdarg"])
  <2>1. /\ cdarg' = Append(cdarg, C!Entry(call))
        /\ cdhashl' = IF call.li /\ Cardinality(cdhashl) < LibSlots
                      THEN cdhashl \union {Len(cdarg) + 1} ELSE cdhashl
        /\ C!HashStage(t, call)
    BY <1>1, SameSize, Zenon DEF C!ArgStage
  <2> QED BY <1>1, <2>1, ArgAppends
<1>2. CASE ~ C!Room(Len(cdarg), AN_cd'["cdarg"])
  <2>1. C!Wait(t, "cdarg", call) /\ UNCHANGED <<cdarg, cdhashl, cdhash>>
    BY <1>2, Zenon DEF C!ArgStage
  <2> QED BY <2>1, ArgWaits
<1> QED BY <1>1, <1>2

\* The string is appended, then the call; or the thread waits for a longer cdstr.
LEMMA StrStageKeeps ==
    ASSUME CallsInv, NEW t \in Callers, pcC[t] \in {"insert", "cdstr"}, Sizes_Grow,
           C!StrStage(t, locC[t])
    PROVE  CallsInv'
<1>1. CallsShape /\ CallsText /\ CallsHashed /\ CallsOnce /\ CallsLibraries
  BY DEF CallsInv
<1>2. locC[t] \in CallRecords /\ locC[t].a \in Strings
  BY <1>1 DEF CallsShape, CallRecords
<1>3. cdstr \in Seq(Strings) /\ Len(cdstr) \in Nat
  BY <1>1 DEF CallsShape
<1>4. CASE C!Room(Len(cdstr), AN_cd'["cdstr"])
  <2>1. PICK call : call = [locC[t] EXCEPT !.ai = Len(cdstr) + 1]
    OBVIOUS
  <2>2. cdstr' = Append(cdstr, locC[t].a) /\ C!ArgStage(t, call)
    BY <1>4, <2>1, Zenon DEF C!StrStage
  <2>3. /\ call \in CallRecords /\ call.a = locC[t].a /\ call.li = locC[t].li
        /\ call.ai = Len(cdstr) + 1
    BY <1>2, <1>3, <2>1 DEF CallRecords
  <2>4. /\ cdstr' \in Seq(Strings) /\ Len(cdstr') = Len(cdstr) + 1
        /\ cdstr'[Len(cdstr) + 1] = locC[t].a
        /\ \A i \in 1 .. Len(cdstr) : cdstr'[i] = cdstr[i]
    BY <1>2, <1>3, <2>2
  <2>5. Strings_Grow
    <3>1. AN_cd'["cdstr"] \in Nat /\ Len(cdstr) < AN_cd'["cdstr"]
      BY <1>4 DEF Sizes_Grow, CallTables, C!Room
    <3>2. Len(cdstr) <= Len(cdstr') /\ Len(cdstr') <= AN_cd'["cdstr"]
      BY <1>3, <2>4, <3>1
    <3> QED BY <2>4, <3>2 DEF Strings_Grow
  <2>6. Owns(t, call.ai, call.a)
    <3>1. \A k \in 1 .. Len(cdarg) : cdarg[k].ai # Len(cdstr) + 1
      BY <1>1, <1>3 DEF CallsText
    <3>2. \A u \in Callers : pcC[u] = "cdarg" => locC[u].ai # Len(cdstr) + 1
      BY <1>1, <1>3 DEF CallsText
    <3>3. Len(cdstr) + 1 \in 1 .. Len(cdstr')
      BY <1>3, <2>4
    <3> QED BY <1>2, <2>3, <2>4, <3>1, <3>2, <3>3 DEF Owns
  <2>7. Ready(t, call)
    BY <2>3, <2>5, <2>6 DEF Ready
  <2> QED BY <2>2, <2>7, ArgStageKeeps
<1>5. CASE ~ C!Room(Len(cdstr), AN_cd'["cdstr"])
  <2>1. C!Wait(t, "cdstr", locC[t]) /\ UNCHANGED <<cdstr, cdarg, cdhashl, cdhash>>
    BY <1>5, Zenon DEF C!StrStage
  <2>2. PICK r \in CallRecords : /\ Moved(t, "cdstr", r) /\ r.a = locC[t].a /\ r.li = locC[t].li
    BY <1>1, <1>2, <2>1, WaitMoves DEF CallTables
  <2>3. Strings_Grow
    BY <1>1, <2>1, StringsSame
  <2>4. /\ cdarg' \in Seq([str : Strings, ai : Nat])
        /\ Len(cdarg) <= Len(cdarg') /\ Len(cdarg') <= AN_cd'["cdarg"]
    BY <1>1, <2>1, CallsSame
  <2>5. cdhash' \subseteq 1 .. Len(cdarg') /\ cdhashl' \subseteq 1 .. Len(cdarg')
    BY <1>1, <2>1 DEF CallsShape
  <2>6. CallsShape'
    BY <1>1, <2>2, <2>3, <2>4, <2>5, ShapeKeeps
  <2>7. CallsText'
    BY <1>1, <2>1, <2>2, <2>3, TextKeeps
  <2>8. CallsHashed'
    BY <1>1, <2>1, <2>4, HashedKeeps
  <2>9. CallsOnce'
    BY <1>1, <2>1, <2>2, OnceKeeps DEF Pending
  <2>10. CallsLibraries'
    <3>1. t \in AddingLibrary \/ ~ r.li
      BY <2>2 DEF AddingLibrary
    <3> QED BY <1>1, <2>1, <2>2, <3>1, LibrariesKeep
  <2> QED BY <2>6, <2>7, <2>8, <2>9, <2>10 DEF CallsInv
<1> QED BY <1>4, <1>5

-----------------------------------------------------------------------------
\* The tables stay as they are, or the hash table starts again and is twice as long.
LEMMA QuietKeeps ==
    ASSUME CallsInv, NEW t \in Callers, NEW p, NEW r, Moved(t, p, r), Sizes_Grow,
           cdstr' = cdstr, cdarg' = cdarg, cdhashl' = cdhashl,
           \/ cdhash' = cdhash
           \/ cdhash' = {} /\ AN_cd'["cdhash"] = 2 * AN_cd["cdhash"],
           p \notin {"cdarg", "cdstr", "cdhash"},
           C!Unextended => \/ ~ Pending(p)
                           \/ Pending(pcC[t]) /\ r.a = locC[t].a
                           \/ Entries(r.a) = {},
           p = "insert" /\ r.li => Cardinality(cdhashl) < NLIBS
    PROVE  CallsInv'
<1>1. CallsShape /\ CallsText /\ CallsHashed /\ CallsOnce /\ CallsLibraries
  BY DEF CallsInv
<1>2. Strings_Grow
  BY <1>1, StringsSame
<1>3. /\ cdarg' \in Seq([str : Strings, ai : Nat])
      /\ Len(cdarg) <= Len(cdarg') /\ Len(cdarg') <= AN_cd'["cdarg"]
  BY <1>1, CallsSame
<1>4. cdhash' \subseteq 1 .. Len(cdarg') /\ cdhashl' \subseteq 1 .. Len(cdarg')
  BY <1>1 DEF CallsShape
<1>5. CallsShape'
  BY <1>1, <1>2, <1>3, <1>4, ShapeKeeps
<1>6. CallsText'
  BY <1>1, <1>2, TextKeeps
<1>7. CallsHashed'
  BY <1>1, <1>3, HashedKeeps
<1>8. CallsOnce'
  BY <1>1, OnceKeeps
<1>9. CallsLibraries'
  BY <1>1, LibrariesKeep
<1> QED BY <1>5, <1>6, <1>7, <1>8, <1>9 DEF CallsInv

\* jtcdlookup, and where nothing is found the beginning of jtcdinsert.
LEMMA CallKeeps == ASSUME CallsInv, NEW t \in Callers, C!Call(t) PROVE CallsInv'
<1>1. PICK a \in Strings : /\ ~ C!InHash(a)
                           /\ locC' = [locC EXCEPT ![t] = [C!NoCall EXCEPT !.a = a]]
  BY Zenon DEF C!Call
<1>2. PICK r : r = [C!NoCall EXCEPT !.a = a]
  OBVIOUS
<1>3. r \in CallRecords /\ r.a = a
  BY <1>2 DEF C!NoCall, CallRecords
<1>4. pcC' = [pcC EXCEPT ![t] = "load"]
  BY DEF C!Call
<1>5. Moved(t, "load", r)
  BY <1>1, <1>2, <1>3, <1>4 DEF Moved, CallPlaces
<1>6. UNCHANGED <<cdstr, cdarg, cdhash, cdhashl, AN_cd>>
  BY Zenon DEF C!Call, C!tables
<1>7. CallsShape /\ CallsHashed
  BY DEF CallsInv
<1>8. Sizes_Grow
  BY <1>6, <1>7, SizesSame
<1>9. C!Unextended => Entries(r.a) = {}
  BY <1>1, <1>3, <1>7 DEF CallsHashed, C!InHash, Entries
<1> QED BY <1>5, <1>6, <1>8, <1>9, QuietKeeps

\* The library is loaded before the entry is inserted.
LEMMA LoadKeeps == ASSUME CallsInv, NEW t \in Callers, C!Load(t) PROVE CallsInv'
<1>1. CallsShape
  BY DEF CallsInv
<1>2. PICK k \in BOOLEAN : k = ~ C!LibraryKnown(LibraryOf[locC[t].a])
  BY Zenon DEF C!LibraryKnown
<1>3. PICK r : r = [locC[t] EXCEPT !.li = k]
  OBVIOUS
<1>4. pcC[t] = "load" /\ locC[t] \in CallRecords /\ locC[t].a \in Strings
  BY <1>1 DEF CallsShape, CallRecords, C!Load
<1>5. r \in CallRecords /\ r.a = locC[t].a /\ r.li = k
  BY <1>3, <1>4 DEF CallRecords
<1>6. locC' = [locC EXCEPT ![t].li = k] /\ pcC' = [pcC EXCEPT ![t] = "insert"]
  BY <1>2, Zenon DEF C!Load
<1>7. locC' = [locC EXCEPT ![t] = r]
  BY <1>3, <1>6
<1>8. Moved(t, "insert", r)
  BY <1>4, <1>5, <1>6, <1>7 DEF Moved, CallPlaces
<1>9. UNCHANGED <<cdstr, cdarg, cdhash, cdhashl, AN_cd>>
  BY Zenon DEF C!Load, C!tables
<1>10. Sizes_Grow
  BY <1>1, <1>9, SizesSame
<1>11. r.li => Cardinality(cdhashl) < NLIBS
  <2>1. C!LibraryKnown(LibraryOf[locC[t].a]) \/ C!Cardinality(cdhashl) < NLIBS
    BY Zenon DEF C!Load
  <2>2. C!Cardinality(cdhashl) = Cardinality(cdhashl)
    BY SameSize
  <2> QED BY <1>2, <1>5, <2>1, <2>2
<1> QED BY <1>4, <1>5, <1>8, <1>9, <1>10, <1>11, QuietKeeps DEF Pending

\* A thread gives up, or has extended the hash table.
LEMMA DropKeeps ==
    ASSUME CallsInv, NEW t \in Callers, C!Finish(t), UNCHANGED <<cdstr, cdarg, cdhashl>>,
           Sizes_Grow,
           \/ cdhash' = cdhash
           \/ cdhash' = {} /\ AN_cd'["cdhash"] = 2 * AN_cd["cdhash"]
    PROVE  CallsInv'
<1>1. Moved(t, "idle", C!NoCall)
  BY FinishMoves
<1> QED BY <1>1, QuietKeeps DEF Pending

\* cdhash was extended, or another thread did it;
LEMMA ResumeHashKeeps == ASSUME CallsInv, NEW t \in Callers, C!ResumeHash(t) PROVE CallsInv'
<1>1. CallsShape /\ pcC[t] = "cdhash"
  BY DEF CallsInv, C!ResumeHash, C!Extend
<1>2. /\ C!Extend(t, "cdhash") /\ C!Finish(t) /\ UNCHANGED <<cdstr, cdarg, cdhashl>>
      /\ cdhash' = IF AN_cd["cdhash"] = locC[t].oldn THEN {} ELSE cdhash
  BY <1>1, Zenon DEF C!ResumeHash
<1>3. /\ Sizes_Grow
      /\ AN_cd["cdhash"] = locC[t].oldn => AN_cd'["cdhash"] = 2 * AN_cd["cdhash"]
  BY <1>1, <1>2, ExtendGrows DEF CallTables
<1> QED BY <1>2, <1>3, DropKeeps

\* so was cdarg.
LEMMA ResumeArgKeeps == ASSUME CallsInv, NEW t \in Callers, C!ResumeArg(t) PROVE CallsInv'
<1>1. CallsShape /\ CallsText /\ pcC[t] = "cdarg"
  BY DEF CallsInv, C!ResumeArg, C!Extend
<1>2. C!Extend(t, "cdarg") /\ cdstr' = cdstr /\ C!ArgStage(t, locC[t])
  BY Zenon DEF C!ResumeArg
<1>3. Sizes_Grow
  BY <1>1, <1>2, ExtendGrows DEF CallTables
<1>4. Strings_Grow
  BY <1>1, <1>2, <1>3, StringsSame
<1>5. locC[t] \in CallRecords /\ locC[t].a \in Strings
  BY <1>1 DEF CallsShape, CallRecords
<1>6. Owns(t, locC[t].ai, locC[t].a)
  BY <1>1, <1>2, <1>5 DEF Owns, CallsText
<1>7. Ready(t, locC[t])
  BY <1>1, <1>3, <1>4, <1>5, <1>6 DEF Ready
<1> QED BY <1>2, <1>7, ArgStageKeeps

\* Every step of the cache keeps its invariant,
LEMMA CallsNextKeeps == ASSUME CallsInv, C!Next PROVE CallsInv'
<1>1. PICK t \in Callers :
         \/ C!Call(t) \/ C!Load(t) \/ C!LoadFails(t) \/ C!Insert(t) \/ C!Fail(t)
         \/ C!ResumeStr(t) \/ C!ResumeArg(t) \/ C!ResumeHash(t)
  BY Zenon DEF C!Next
<1>2. CallsShape
  BY DEF CallsInv
<1>3. CASE C!LoadFails(t) \/ C!Fail(t)
  <2>1. C!Finish(t) /\ UNCHANGED <<cdstr, cdarg, cdhash, cdhashl, AN_cd>>
    BY <1>3, Zenon DEF C!LoadFails, C!Fail, C!tables
  <2> QED BY <1>2, <2>1, SizesSame, DropKeeps
<1>4. CASE C!Insert(t)
  <2>1. pcC[t] = "insert" /\ AN_cd' = AN_cd /\ C!StrStage(t, locC[t])
    BY <1>4, Zenon DEF C!Insert
  <2> QED BY <1>2, <2>1, SizesSame, StrStageKeeps
<1>5. CASE C!ResumeStr(t)
  <2>1. C!Extend(t, "cdstr") /\ C!StrStage(t, locC[t])
    BY <1>5, Zenon DEF C!ResumeStr
  <2>2. pcC[t] = "cdstr"
    BY <2>1 DEF C!Extend
  <2>3. Sizes_Grow
    BY <1>2, <2>1, ExtendGrows DEF CallTables
  <2> QED BY <2>1, <2>2, <2>3, StrStageKeeps
<1> QED BY <1>1, <1>3, <1>4, <1>5, CallKeeps, LoadKeeps, ResumeArgKeeps, ResumeHashKeeps

\* which holds in the empty cache
LEMMA CallsStart == C!Init => CallsInv
<1> SUFFICES ASSUME C!Init PROVE CallsInv
  OBVIOUS
<1>1. /\ cdstr = <<>> /\ cdarg = <<>> /\ cdhash = {} /\ cdhashl = {} /\ AN_cd = CallSizes
      /\ pcC = [t \in Callers |-> "idle"] /\ locC = [t \in Callers |-> C!NoCall]
  BY Zenon DEF C!Init
<1>2. C!NoCall \in [a : Strings \union {NoString}, li : BOOLEAN, ai : Nat, oldn : Nat]
  BY DEF C!NoCall
<1>3. CallsShape
  BY <1>1, <1>2, CallsAssumption DEF CallsShape
<1>4. CallsText
  BY <1>1 DEF CallsText
<1>5. CallsHashed
  BY <1>1 DEF CallsHashed
<1>6. Cardinality(Callers) \in Nat \ {0}
  <2>1. Cardinality(Callers) \in Nat /\ Cardinality(Callers) # 0
    BY CallsAssumption, FS_CardinalityType, FS_EmptySet
  <2> QED BY <2>1
<1>7. CallsOnce
  <2> SUFFICES ASSUME NEW a \in Strings
               PROVE  Cardinality(Entries(a)) + Cardinality(Adding(a)) <= Cardinality(Callers)
    BY DEF CallsOnce
  <2>1. Entries(a) = {} /\ Adding(a) = {}
    BY <1>1 DEF Entries, Adding
  <2> QED BY <1>6, <2>1, FS_EmptySet
<1>8. CallsLibraries
  <2>1. AddingLibrary = {}
    BY <1>1 DEF AddingLibrary
  <2>2. Cardinality(AddingLibrary) = 0 /\ Cardinality(cdhashl) = 0
    BY <1>1, <2>1, FS_EmptySet
  <2> QED BY <1>6, <2>2, CallsAssumption DEF CallsLibraries
<1> QED BY <1>3, <1>4, <1>5, <1>7, <1>8 DEF CallsInv

\* and is not disturbed by the other tables.
LEMMA CallsSteps == ASSUME CallsInv, [TablesNext]_allVars PROVE CallsInv'
<1>1. CASE C!Next
  BY <1>1, CallsNextKeeps
<1>2. CASE UNCHANGED callsVars
  <2>1. UNCHANGED <<cdstr, cdarg, cdhash, cdhashl, AN_cd, pcC, locC>>
    BY <1>2 DEF callsVars
  <2>2. CallsShape' /\ CallsText'
    BY <2>1 DEF CallsInv, CallsShape, CallsText
  <2>3. (C!Unextended)' <=> C!Unextended
    BY <2>1 DEF C!Unextended, C!Crowded
  <2>4. \A a : Entries(a)' = Entries(a) /\ Adding(a)' = Adding(a)
    BY <2>1 DEF Entries, Adding
  <2>5. CallsHashed'
    BY <2>1, <2>3 DEF CallsInv, CallsHashed
  <2>6. CallsOnce'
    BY <2>3, <2>4, Zenon DEF CallsInv, CallsOnce
  <2>7. AddingLibrary' = AddingLibrary
    BY <2>1 DEF AddingLibrary
  <2>8. CallsLibraries'
    BY <2>1, <2>7 DEF CallsInv, CallsLibraries
  <2> QED BY <2>2, <2>5, <2>6, <2>8 DEF CallsInv
<1> QED BY <1>1, <1>2, Zenon DEF TablesNext, allVars

\* The inductive invariant of cdinsert (x15.c:806): whose string is where, what is not
\* yet hashed, and how many threads may add a string or a library once more.
THEOREM CallsInductive == TablesSpec => []CallsInv
<1>1. TablesInit => CallsInv
  BY CallsStart DEF TablesInit
<1> QED BY <1>1, CallsSteps, PTL DEF TablesSpec

\* Each parsed call keeps its own text, no table is overrun, and no thread adds what it
\* has added before (x15.c:761-831), for any callers, strings, libraries and first sizes,
\* whichever allocations fail.
THEOREM TextsInPlace == TablesSpec => []TextInPlace
<1>1. CallsInv => TextInPlace
  <2> SUFFICES ASSUME CallsInv PROVE TextInPlace
    OBVIOUS
  <2>1. C!TypeOK
    BY DEF CallsInv, CallsShape, C!TypeOK
  <2>2. C!OnceEach
    <3>1. ASSUME C!Unextended, NEW a \in Strings
          PROVE  Cardinality(Entries(a)) <= Cardinality(Callers)
      <4>1. Cardinality(Entries(a)) \in Nat /\ Cardinality(Adding(a)) \in Nat
            /\ Cardinality(Callers) \in Nat
        BY EntriesFinite, AddingFinite DEF CallsInv
      <4>2. Cardinality(Entries(a)) + Cardinality(Adding(a)) <= Cardinality(Callers)
        BY <3>1 DEF CallsInv, CallsOnce
      <4> QED BY <4>1, <4>2
    <3>2. Cardinality(cdhashl) < NLIBS + Cardinality(Callers)
      <4>1. AddingLibrary \subseteq Callers
        BY DEF AddingLibrary
      <4>2. Cardinality(AddingLibrary) \in Nat /\ Cardinality(Callers) \in Nat
        BY <4>1, CallsAssumption, FS_Subset, FS_CardinalityType
      <4>3. cdhashl \subseteq 1 .. Len(cdarg) /\ Len(cdarg) \in Nat
        BY DEF CallsInv, CallsShape
      <4>4. Cardinality(cdhashl) \in Nat
        BY <4>3, UpToSize, FS_Subset, FS_CardinalityType
      <4> QED BY <4>2, <4>4, CallsAssumption DEF CallsInv, CallsLibraries
    <3> QED BY <3>1, <3>2, SameSize, Zenon DEF C!OnceEach, Entries
  <2>3. \A k \in 1 .. Len(cdarg) :
           /\ cdstr[cdarg[k].ai] = cdarg[k].str
           /\ \A j \in 1 .. Len(cdarg) \ {k} : cdarg[j].ai # cdarg[k].ai
    BY DEF CallsInv, CallsText
  <2> QED BY <2>1, <2>2, <2>3, Zenon DEF TextInPlace, C!TextInPlace
<1> QED BY <1>1, CallsInductive, PTL

\* Until the hash table is extended every parsed call can be found, and every probe for a
\* new one ends (x15.c:757-759).
THEOREM HashIsComplete == TablesSpec => []HashComplete
<1>1. CallsInv => HashComplete
  <2> SUFFICES ASSUME CallsInv PROVE HashComplete
    OBVIOUS
  <2>1. 2 * C!AMhash < AN_cd["cdhash"] \/ cdhash = {}
    BY SameSize DEF CallsInv, CallsHashed, C!AMhash
  <2>2. C!Unextended => C!AMhash = Len(cdarg)
    <3>1. Len(cdarg) \in Nat
      BY DEF CallsInv, CallsShape
    <3>2. C!Unextended => cdhash = 1 .. Len(cdarg)
      BY DEF CallsInv, CallsHashed
    <3> QED BY <3>1, <3>2, UpToSize, SameSize DEF C!AMhash
  <2> QED BY <2>1, <2>2, Zenon DEF HashComplete, C!HashComplete
<1> QED BY <1>1, CallsInductive, PTL

-----------------------------------------------------------------------------
\* jtmemoget and jtmemoput, the memo tables (MemoTable).

-----------------------------------------------------------------------------
\* Searches in a table of n places go backwards from a start, around the table.
Behind(s, d, n) == (s - d) % n

\* d places behind s, the table being a ring,
LEMMA BehindIs ==
    ASSUME NEW n \in Nat \ {0}, NEW s \in 0 .. n - 1, NEW d \in 0 .. n - 1
    PROVE  Behind(s, d, n) = IF d <= s THEN s - d ELSE s - d + n
<1>1. CASE d <= s
  <2>1. PICK a \in 0 .. n - 1 : a = s - d
    BY <1>1
  <2>2. a % n = a
    OBVIOUS
  <2> QED BY <1>1, <2>1, <2>2 DEF Behind
<1>2. CASE ~ (d <= s)
  <2>1. PICK a \in Int : a = s - d /\ -n <= a /\ a < 0
    BY <1>2
  <2>2. a % n = a + n
    BY <2>1
  <2> QED BY <1>2, <2>1, <2>2 DEF Behind
<1> QED BY <1>1, <1>2

\* is a place of the table,
LEMMA BehindIn ==
    ASSUME NEW n \in Nat \ {0}, NEW s \in 0 .. n - 1, NEW d \in 0 .. n - 1
    PROVE  Behind(s, d, n) \in 0 .. n - 1
<1>1. Behind(s, d, n) = IF d <= s THEN s - d ELSE s - d + n
  BY BehindIs
<1> QED BY <1>1

\* A search comes to each place once.
LEMMA BehindOnce ==
    ASSUME NEW n \in Nat \ {0}, NEW s \in 0 .. n - 1, NEW d \in 0 .. n - 1, NEW e \in 0 .. n - 1,
           Behind(s, d, n) = Behind(s, e, n)
    PROVE  d = e
<1>1. PICK a \in Int : a = Behind(s, d, n)
  BY BehindIn
<1>2. a = IF d <= s THEN s - d ELSE s - d + n
  BY <1>1, BehindIs
<1>3. a = IF e <= s THEN s - e ELSE s - e + n
  BY <1>1, BehindIs
<1> QED BY <1>2, <1>3

\* and every place is somewhere behind s.
LEMMA BehindAll ==
    ASSUME NEW n \in Nat \ {0}, NEW s \in 0 .. n - 1, NEW i \in 0 .. n - 1
    PROVE  \E d \in 0 .. n - 1 : Behind(s, d, n) = i
<1>1. CASE i <= s
  <2>1. PICK d \in 0 .. n - 1 : d = s - i
    BY <1>1
  <2>2. Behind(s, d, n) = IF d <= s THEN s - d ELSE s - d + n
    BY BehindIs
  <2> QED BY <2>1, <2>2
<1>2. CASE ~ (i <= s)
  <2>1. PICK d \in 0 .. n - 1 : d = s - i + n
    BY <1>2
  <2>2. Behind(s, d, n) = IF d <= s THEN s - d ELSE s - d + n
    BY BehindIs
  <2> QED BY <1>2, <2>1, <2>2
<1> QED BY <1>1, <1>2

\* How far the first wanted place is.
Reach(s, n, W) ==
    CHOOSE k \in 0 .. n - 1 :
        Behind(s, k, n) \in W /\ \A j \in 0 .. k - 1 : Behind(s, j, n) \notin W

\* A search that can end, ends, at the first of the places it looks for.
LEMMA ReachFirst ==
    ASSUME NEW n \in Nat \ {0}, NEW s \in 0 .. n - 1, NEW W, NEW i \in 0 .. n - 1, i \in W
    PROVE  /\ Reach(s, n, W) \in 0 .. n - 1
           /\ Behind(s, Reach(s, n, W), n) \in W
           /\ \A j \in 0 .. Reach(s, n, W) - 1 : Behind(s, j, n) \notin W
<1> DEFINE S == {k \in 0 .. n - 1 : Behind(s, k, n) \in W}
<1>1. S # {} /\ S \subseteq Nat
  <2>1. \E d \in 0 .. n - 1 : Behind(s, d, n) = i
    BY BehindAll
  <2> QED BY <2>1
<1>2. PICK k \in S : \A j \in S : k <= j
  BY <1>1, Least
<1>3. \A j \in 0 .. k - 1 : Behind(s, j, n) \notin W
  <2> SUFFICES ASSUME NEW j \in 0 .. k - 1, Behind(s, j, n) \in W PROVE FALSE
    OBVIOUS
  <2>1. j \in S /\ k \in Nat /\ j < k /\ j \in Nat
    BY <1>2
  <2> QED BY <1>2, <2>1
<1>4. k \in 0 .. n - 1 /\ Behind(s, k, n) \in W /\ \A j \in 0 .. k - 1 : Behind(s, j, n) \notin W
  BY <1>2, <1>3
<1> QED BY <1>4, Zenon DEF Reach

\* A wanted place that is seen before any other.
LEMMA ReachIs ==
    ASSUME NEW n \in Nat \ {0}, NEW s \in 0 .. n - 1, NEW W, NEW d \in 0 .. n - 1,
           Behind(s, d, n) \in W, \A j \in 0 .. d - 1 : Behind(s, j, n) \notin W
    PROVE  Reach(s, n, W) = d
<1>1. Behind(s, d, n) \in 0 .. n - 1
  BY BehindIn
<1>2. PICK k : k = Reach(s, n, W)
  OBVIOUS
<1>3. /\ k \in 0 .. n - 1 /\ Behind(s, k, n) \in W
      /\ \A j \in 0 .. k - 1 : Behind(s, j, n) \notin W
  BY <1>1, <1>2, ReachFirst
<1>4. ~ (k < d) /\ ~ (d < k)
  BY <1>3
<1> QED BY <1>2, <1>3, <1>4

-----------------------------------------------------------------------------
\* Cardinality is the same operator in the instance of MemoTable.
LEMMA SameSizeM == ASSUME NEW S PROVE M!Cardinality(S) = Cardinality(S)
BY Zenon DEF M!Cardinality, Cardinality, M!IsFiniteSet, IsFiniteSet

\* The hash function is one of those tried, and the start of a search is in the table.
HashFits == hashM \in [Arguments -> 0 .. Range32 - 1]

\* A hash of R values, scaled to n places, is one of them.
LEMMA DivBound ==
    ASSUME NEW n \in Nat \ {0}, NEW R \in Nat \ {0}, NEW h \in 0 .. R - 1
    PROVE  (h * n) \div R \in 0 .. n - 1
<1>1. h * n \in Nat /\ R * n \in Nat
  OBVIOUS
<1>2. h * n <= (R - 1) * n
  OBVIOUS
<1>3. (R - 1) * n = R * n - n
  OBVIOUS
<1>4. h * n < R * n
  BY <1>1, <1>2, <1>3
<1>5. PICK q \in Int : q = (h * n) \div R
  OBVIOUS
<1>6. R * q <= h * n /\ h * n < R * (q + 1) /\ q \in Int
  BY <1>5
<1>7. q < n
  <2>1. R * q < R * n
    BY <1>1, <1>4, <1>6
  <2> QED BY <1>6, <2>1
<1>8. 0 <= q
  <2>1. 0 < R * (q + 1)
    BY <1>1, <1>6
  <2> QED BY <1>6, <2>1
<1> QED BY <1>5, <1>6, <1>7, <1>8

\* So a search starts in the table.
LEMMA StartIn ==
    ASSUME HashFits, NEW x \in Arguments, NEW n \in Nat \ {0}
    PROVE  M!Start(x, n) \in 0 .. n - 1
<1>1. Range32 \in Nat \ {0} /\ hashM[x] \in 0 .. Range32 - 1
  BY MemoAssumption DEF HashFits
<1> QED BY <1>1, DivBound DEF M!Start

\* The search of MemoTable is that of Reach.
LEMMA ProbeIs ==
    ASSUME NEW n \in Nat \ {0}, NEW h, DOMAIN h = 0 .. n - 1, NEW x, NEW W
    PROVE  M!Probe(h, x, W) = Behind(M!Start(x, n), Reach(M!Start(x, n), n, W), n)
<1>1. M!Cardinality(DOMAIN h) = n
  BY SameSizeM, Length
<1> QED BY <1>1, Zenon DEF M!Probe, Reach, Behind

\* A hash table of n places with the first c of the arguments: each is in one place, and
\* the places that a search for it sees before have arguments that were put there earlier.
Chained(h, n, keys, c) ==
    /\ h \in [0 .. n - 1 -> -1 .. c - 1]
    /\ \A j \in 0 .. c - 1 : \E i \in 0 .. n - 1 : h[i] = j
    /\ \A i, k \in 0 .. n - 1 : h[i] = h[k] /\ h[i] # -1 => i = k
    /\ \A i \in 0 .. n - 1 : h[i] # -1 =>
         \E d \in 0 .. n - 1 :
            /\ Behind(M!Start(keys[h[i] + 1], n), d, n) = i
            /\ \A e \in 0 .. d - 1 :
                 h[Behind(M!Start(keys[h[i] + 1], n), e, n)] \in 0 .. h[i] - 1

\* A table that is not full has a free place.
LEMMA HasFree ==
    ASSUME NEW n \in Nat \ {0}, NEW c \in Nat, c < n, NEW keys, NEW h, Chained(h, n, keys, c)
    PROVE  \E i \in 0 .. n - 1 : h[i] = -1
<1> SUFFICES ASSUME \A i \in 0 .. n - 1 : h[i] # -1 PROVE FALSE
  OBVIOUS
<1>1. h \in [0 .. n - 1 -> 0 .. c - 1]
  <2>1. h \in [0 .. n - 1 -> -1 .. c - 1]
    BY DEF Chained
  <2>2. \A i \in 0 .. n - 1 : h[i] \in 0 .. c - 1
    BY <2>1
  <2> QED BY <2>1, <2>2
<1>2. /\ Cardinality(0 .. n - 1) = n /\ IsFiniteSet(0 .. n - 1)
      /\ Cardinality(0 .. c - 1) = c /\ IsFiniteSet(0 .. c - 1)
  BY Length
<1>3. h \in Injection(0 .. n - 1, 0 .. c - 1)
  <2>1. \A i, k \in 0 .. n - 1 : h[i] = h[k] => i = k
    BY DEF Chained
  <2> QED BY <1>1, <2>1 DEF Injection, IsInjective
<1>4. Cardinality(0 .. n - 1) <= Cardinality(0 .. c - 1)
  BY <1>2, <1>3, FS_Injection
<1> QED BY <1>2, <1>4

\* The next argument goes to the first free place of its search.
LEMMA PutChained ==
    ASSUME HashFits, NEW n \in Nat \ {0}, NEW c \in Nat, c < n,
           NEW keys \in Seq(Arguments), c < Len(keys), NEW h, Chained(h, n, keys, c)
    PROVE  Chained(M!Put(h, keys[c + 1], c), n, keys, c + 1)
<1>0. h \in [0 .. n - 1 -> -1 .. c - 1]
  BY DEF Chained
<1>1. PICK x \in Arguments : x = keys[c + 1]
  OBVIOUS
<1>2. PICK s \in 0 .. n - 1 : s = M!Start(x, n)
  BY StartIn
<1>3. PICK F : F = M!Free(h)
  OBVIOUS
<1>4. \A i : i \in F <=> i \in 0 .. n - 1 /\ h[i] = -1
  BY <1>0, <1>3 DEF M!Free, M!Empty
<1>5. PICK d : d = Reach(s, n, F)
  OBVIOUS
<1>6. /\ d \in 0 .. n - 1 /\ Behind(s, d, n) \in F
      /\ \A j \in 0 .. d - 1 : Behind(s, j, n) \notin F
  <2>1. PICK i \in 0 .. n - 1 : i \in F
    BY <1>4, HasFree
  <2> QED BY <1>5, <2>1, ReachFirst
<1>7. PICK p : p = Behind(s, d, n)
  OBVIOUS
<1>8. p \in 0 .. n - 1 /\ h[p] = -1
  BY <1>4, <1>6, <1>7
<1>9. PICK g : g = M!Put(h, x, c)
  OBVIOUS
<1>10. g = [h EXCEPT ![p] = c]
  BY <1>0, <1>2, <1>3, <1>5, <1>7, <1>9, ProbeIs DEF M!Put
<1>11. g[p] = c /\ \A i \in 0 .. n - 1 : i # p => g[i] = h[i]
  BY <1>0, <1>8, <1>10
<1>12. g \in [0 .. n - 1 -> -1 .. c + 1 - 1]
  BY <1>0, <1>8, <1>10
<1>13. \A i \in 0 .. n - 1 : h[i] # c
  BY <1>0
<1>14. \A j \in 0 .. c + 1 - 1 : \E i \in 0 .. n - 1 : g[i] = j
  <2> SUFFICES ASSUME NEW j \in 0 .. c PROVE \E i \in 0 .. n - 1 : g[i] = j
    OBVIOUS
  <2>1. CASE j = c
    BY <1>8, <1>11, <2>1
  <2>2. CASE j # c
    <3>1. PICK i \in 0 .. n - 1 : h[i] = j
      BY <2>2 DEF Chained
    <3>2. i # p
      BY <1>8, <3>1
    <3> QED BY <1>11, <3>1, <3>2
  <2> QED BY <2>1, <2>2
<1>15. \A i, k \in 0 .. n - 1 : g[i] = g[k] /\ g[i] # -1 => i = k
  BY <1>11, <1>13 DEF Chained
<1>16. ASSUME NEW i \in 0 .. n - 1, g[i] # -1
       PROVE  \E b \in 0 .. n - 1 :
                 /\ Behind(M!Start(keys[g[i] + 1], n), b, n) = i
                 /\ \A e \in 0 .. b - 1 :
                      g[Behind(M!Start(keys[g[i] + 1], n), e, n)] \in 0 .. g[i] - 1
  <2>1. CASE i = p
    <3>1. g[i] = c /\ M!Start(keys[g[i] + 1], n) = s
      BY <1>1, <1>2, <1>11, <2>1
    <3>2. ASSUME NEW e \in 0 .. d - 1 PROVE g[Behind(s, e, n)] \in 0 .. c - 1
      <4>1. e \in 0 .. n - 1 /\ e # d
        BY <1>6
      <4>2. PICK q \in 0 .. n - 1 : q = Behind(s, e, n)
        BY <4>1, BehindIn
      <4>3. q # p
        BY <1>6, <1>7, <4>1, <4>2, BehindOnce
      <4>4. h[q] # -1
        BY <1>4, <1>6, <4>2
      <4>5. g[q] = h[q]
        BY <1>11, <4>2, <4>3
      <4>6. h[q] \in 0 .. c - 1
        BY <1>0, <4>2, <4>4
      <4> QED BY <4>2, <4>5, <4>6
    <3> QED BY <1>6, <1>7, <2>1, <3>1, <3>2
  <2>2. CASE i # p
    <3>1. g[i] = h[i] /\ h[i] # -1
      BY <1>11, <1>16, <2>2
    <3>2. PICK b \in 0 .. n - 1 :
             /\ Behind(M!Start(keys[h[i] + 1], n), b, n) = i
             /\ \A e \in 0 .. b - 1 :
                  h[Behind(M!Start(keys[h[i] + 1], n), e, n)] \in 0 .. h[i] - 1
      BY <3>1 DEF Chained
    <3>3. keys[h[i] + 1] \in Arguments
      <4>1. h[i] \in 0 .. c - 1
        BY <1>0, <3>1
      <4>2. h[i] + 1 \in 1 .. Len(keys)
        BY <4>1
      <4> QED BY <4>2
    <3>4. PICK z \in 0 .. n - 1 : z = M!Start(keys[h[i] + 1], n)
      BY <3>3, StartIn
    <3>5. ASSUME NEW e \in 0 .. b - 1 PROVE g[Behind(z, e, n)] \in 0 .. h[i] - 1
      <4>0. e \in 0 .. n - 1
        BY <3>2
      <4>1. PICK q \in 0 .. n - 1 : q = Behind(z, e, n)
        BY <4>0, BehindIn
      <4>2. h[q] \in 0 .. h[i] - 1
        BY <3>2, <3>4, <4>1
      <4>3. q # p
        BY <1>8, <4>2
      <4> QED BY <1>11, <4>1, <4>2, <4>3
    <3> QED BY <3>1, <3>2, <3>4, <3>5
  <2> QED BY <2>1, <2>2
<1>17. Chained(g, n, keys, c + 1)
  <2>1. PICK cc \in Nat : cc = c + 1
    OBVIOUS
  <2>2. g \in [0 .. n - 1 -> -1 .. cc - 1] /\ \A j \in 0 .. cc - 1 : \E i \in 0 .. n - 1 : g[i] = j
    BY <1>12, <1>14, <2>1
  <2>3. Chained(g, n, keys, cc)
    BY <1>15, <1>16, <2>2, Zenon DEF Chained
  <2> QED BY <2>1, <2>3
<1> QED BY <1>1, <1>9, <1>17

-----------------------------------------------------------------------------
\* The recursive function of Rehashed: the arguments are put in one after the other.
IsFilling(f, h, keys, l) ==
    f = [i \in 0 .. l |-> IF i = 0 THEN h ELSE M!Put(f[i - 1], keys[i], i - 1)]

Filling(h, keys) == CHOOSE f : IsFilling(f, h, keys, Len(keys))

\* The recursive function of Rehashed exists,
LEMMA FillingExists == ASSUME NEW h, NEW keys, NEW l \in Nat PROVE \E f : IsFilling(f, h, keys, l)
<1> DEFINE S == {k \in Nat : ~ \E f : IsFilling(f, h, keys, k)}
<1> SUFFICES ASSUME S # {} PROVE FALSE
  OBVIOUS
<1>1. PICK k \in S : \A j \in S : k <= j
  BY Least
<1>2. CASE k = 0
  <2>1. PICK f : f = [i \in 0 .. 0 |-> h]
    OBVIOUS
  <2>2. f = [i \in 0 .. 0 |-> IF i = 0 THEN h ELSE M!Put(f[i - 1], keys[i], i - 1)]
    BY <2>1
  <2>3. IsFilling(f, h, keys, k)
    BY <1>2, <2>2, Zenon DEF IsFilling
  <2> QED BY <1>1, <2>3
<1>3. CASE k # 0
  <2>1. k - 1 \in Nat /\ k - 1 \notin S
    BY <1>1, <1>3
  <2>2. PICK f : IsFilling(f, h, keys, k - 1)
    BY <2>1
  <2>3. PICK g : g = [i \in 0 .. k |-> IF i = k THEN M!Put(f[k - 1], keys[k], k - 1) ELSE f[i]]
    OBVIOUS
  <2>4. \A i \in 0 .. k - 1 : f[i] = IF i = 0 THEN h ELSE M!Put(f[i - 1], keys[i], i - 1)
    BY <2>1, <2>2 DEF IsFilling
  <2>5. \A i \in 0 .. k - 1 : g[i] = f[i]
    BY <1>1, <1>3, <2>3
  <2>6. ASSUME NEW i \in 0 .. k
        PROVE  g[i] = IF i = 0 THEN h ELSE M!Put(g[i - 1], keys[i], i - 1)
    <3>1. CASE i = k
      <4>1. g[i - 1] = f[k - 1] /\ g[i] = M!Put(f[k - 1], keys[k], k - 1)
        BY <1>1, <1>3, <2>3, <2>5, <3>1
      <4> QED BY <1>3, <3>1, <4>1
    <3>2. CASE i # k /\ i # 0
      <4>1. i \in 0 .. k - 1 /\ i - 1 \in 0 .. k - 1
        BY <1>1, <3>2
      <4>2. g[i - 1] = f[i - 1] /\ g[i] = f[i]
        BY <2>5, <4>1
      <4> QED BY <2>4, <3>2, <4>1, <4>2
    <3>3. CASE i # k /\ i = 0
      BY <1>1, <2>4, <2>5, <3>3
    <3> QED BY <3>1, <3>2, <3>3
  <2>7. g = [i \in 0 .. k |-> IF i = 0 THEN h ELSE M!Put(g[i - 1], keys[i], i - 1)]
    BY <2>3, <2>6
  <2>8. IsFilling(g, h, keys, k)
    BY <2>7, Zenon DEF IsFilling
  <2> QED BY <1>1, <2>8
<1> QED BY <1>2, <1>3

\* satisfies its definition,
LEMMA FillingIs ==
    ASSUME NEW h, NEW keys \in Seq(Arguments)
    PROVE  /\ Filling(h, keys)[0] = h
           /\ \A i \in 1 .. Len(keys) :
                Filling(h, keys)[i] = M!Put(Filling(h, keys)[i - 1], keys[i], i - 1)
<1>1. Len(keys) \in Nat
  OBVIOUS
<1>2. PICK f : f = Filling(h, keys)
  OBVIOUS
<1>3. IsFilling(f, h, keys, Len(keys))
  BY <1>1, <1>2, FillingExists, Zenon DEF Filling
<1>4. f[0] = h /\ \A i \in 1 .. Len(keys) : f[i] = M!Put(f[i - 1], keys[i], i - 1)
  BY <1>1, <1>3 DEF IsFilling
<1> QED BY <1>2, <1>4

\* All arguments are in the table that Rehashed makes of an empty one.
LEMMA FillingChained ==
    ASSUME HashFits, NEW n \in Nat \ {0}, NEW keys \in Seq(Arguments), Len(keys) < n,
           NEW h, Chained(h, n, keys, 0)
    PROVE  Chained(Filling(h, keys)[Len(keys)], n, keys, Len(keys))
<1> DEFINE S == {k \in 0 .. Len(keys) : ~ Chained(Filling(h, keys)[k], n, keys, k)}
<1>1. Len(keys) \in Nat
  OBVIOUS
<1>2. CASE S = {}
  BY <1>1, <1>2
<1>3. CASE S # {}
  <2>1. S \subseteq Nat
    BY <1>1
  <2>2. PICK k \in S : \A j \in S : k <= j
    BY <1>3, <2>1, Least
  <2>3. k # 0
    BY <2>2, FillingIs
  <2>4. PICK c \in Nat : k = c + 1 /\ c < Len(keys) /\ c \notin S
    <3>1. k - 1 \in Nat /\ k = (k - 1) + 1 /\ k - 1 < Len(keys) /\ ~ (k <= k - 1)
      BY <1>1, <2>2, <2>3
    <3> QED BY <2>2, <3>1
  <2>5. Chained(Filling(h, keys)[c], n, keys, c)
    BY <1>1, <2>4
  <2>6. Chained(M!Put(Filling(h, keys)[c], keys[c + 1], c), n, keys, c + 1)
    BY <1>1, <2>4, <2>5, PutChained
  <2>7. Filling(h, keys)[k] = M!Put(Filling(h, keys)[c], keys[c + 1], c)
    <3>1. k \in 1 .. Len(keys) /\ k - 1 = c
      BY <1>1, <2>4
    <3>2. Filling(h, keys)[k] = M!Put(Filling(h, keys)[k - 1], keys[k], k - 1)
      BY <3>1, FillingIs
    <3> QED BY <2>4, <3>1, <3>2
  <2> QED BY <2>2, <2>4, <2>6, <2>7
<1> QED BY <1>2, <1>3

\* and is what Rehashed uses.
LEMMA RehashedIs ==
    ASSUME NEW m
    PROVE  M!Rehashed(m) = [m EXCEPT !.hasht = Filling(m.hasht, m.keys)[Len(m.keys)],
                                     !.AM = Len(m.results)]
BY Zenon DEF M!Rehashed, Filling, IsFilling

-----------------------------------------------------------------------------
\* The table of results: the hash table has all arguments, or none of them and then
\* room for them.
MemoOK(m) ==
    /\ m = [keys |-> m.keys, results |-> m.results, hasht |-> m.hasht, AM |-> m.AM,
            size |-> m.size]
    /\ m.keys \in Seq(Arguments) /\ m.results = m.keys
    /\ m.size \in [M!Tables -> Nat \ {0}] /\ m.size.hasht >= 3
    /\ Len(m.keys) <= m.size.keys /\ Len(m.keys) <= m.size.results
    /\ 2 * Len(m.keys) <= m.size.hasht + 2
    /\ m.AM \in {0, Len(m.keys)}
    /\ m.AM = 0 => 2 * Len(m.keys) <= m.size.hasht
    /\ Chained(m.hasht, m.size.hasht, m.keys, m.AM)

\* The numbers of a table of results, and that one place is free.
LEMMA MemoNumbers ==
    ASSUME NEW m, MemoOK(m)
    PROVE  /\ Len(m.keys) \in Nat /\ m.AM \in Nat /\ m.AM <= Len(m.keys)
           /\ m.size.hasht \in Nat \ {0} /\ m.size.keys \in Nat /\ m.size.results \in Nat
           /\ Len(m.keys) < m.size.hasht /\ m.AM < m.size.hasht
<1>1. Len(m.keys) \in Nat
  BY DEF MemoOK
<1>2. m.size.hasht \in Nat \ {0} /\ m.size.keys \in Nat /\ m.size.results \in Nat
  BY DEF MemoOK, M!Tables
<1>3. m.AM = 0 \/ m.AM = Len(m.keys)
  BY DEF MemoOK
<1>4. 2 * Len(m.keys) <= m.size.hasht + 2 /\ m.size.hasht >= 3
  BY DEF MemoOK
<1> QED BY <1>1, <1>2, <1>3, <1>4

\* A table in which the loop of jtmemoput finds room for one more.
LEMMA NotFull ==
    ASSUME NEW m, MemoOK(m), M!Full(m) = {}
    PROVE  /\ Len(m.keys) < m.size.keys /\ Len(m.keys) < m.size.results
           /\ 2 * Len(m.keys) <= m.size.hasht
<1>1. /\ Len(m.keys) # m.size.keys /\ Len(m.results) # m.size.results
      /\ ~ (2 * m.AM > m.size.hasht)
  BY Zenon DEF M!Full
<1>2. /\ Len(m.keys) <= m.size.keys /\ Len(m.keys) <= m.size.results /\ m.results = m.keys
      /\ m.AM = 0 \/ m.AM = Len(m.keys)
      /\ m.AM = 0 => 2 * Len(m.keys) <= m.size.hasht
  BY DEF MemoOK
<1> QED BY <1>1, <1>2, MemoNumbers

\* The hash table is complete after the loop.
LEMMA CompleteOK ==
    ASSUME HashFits, NEW m, MemoOK(m)
    PROVE  /\ M!Complete(m) = [keys |-> m.keys, results |-> m.keys, size |-> m.size,
                               hasht |-> M!Complete(m).hasht, AM |-> Len(m.keys)]
           /\ Chained(M!Complete(m).hasht, m.size.hasht, m.keys, Len(m.keys))
<1>1. /\ m = [keys |-> m.keys, results |-> m.results, hasht |-> m.hasht, AM |-> m.AM,
              size |-> m.size]
      /\ m.results = m.keys /\ m.keys \in Seq(Arguments)
      /\ Chained(m.hasht, m.size.hasht, m.keys, m.AM)
      /\ m.AM \in {0, Len(m.keys)}
  BY DEF MemoOK
<1>2. CASE m.AM = 0
  <2>1. PICK g : g = Filling(m.hasht, m.keys)[Len(m.keys)]
    OBVIOUS
  <2>2. M!Complete(m) = [m EXCEPT !.hasht = g, !.AM = Len(m.results)]
    BY <1>2, <2>1, RehashedIs, Zenon DEF M!Complete
  <2>3. Chained(g, m.size.hasht, m.keys, Len(m.keys))
    BY <1>1, <1>2, <2>1, FillingChained, MemoNumbers
  <2>4. M!Complete(m) = [keys |-> m.keys, results |-> m.keys, size |-> m.size,
                         hasht |-> g, AM |-> Len(m.keys)]
    BY <1>1, <2>2
  <2> QED BY <2>3, <2>4
<1>3. CASE m.AM # 0
  <2>1. M!Complete(m) = m
    BY <1>3 DEF M!Complete
  <2> QED BY <1>1, <1>3, <2>1
<1> QED BY <1>2, <1>3

\* More arguments leave the places of the first ones alone.
LEMMA ChainedMore ==
    ASSUME HashFits, NEW n \in Nat \ {0}, NEW keys \in Seq(Arguments), NEW x \in Arguments,
           NEW h, Chained(h, n, keys, Len(keys))
    PROVE  Chained(h, n, Append(keys, x), Len(keys))
<1>1. PICK more : more = Append(keys, x)
  OBVIOUS
<1>2. h \in [0 .. n - 1 -> -1 .. Len(keys) - 1] /\ Len(keys) \in Nat
  BY DEF Chained
<1>3. \A j \in 0 .. Len(keys) - 1 : more[j + 1] = keys[j + 1]
  BY <1>1
<1>4. \A i \in 0 .. n - 1 : h[i] # -1 => more[h[i] + 1] = keys[h[i] + 1]
  BY <1>2, <1>3
<1>5. ASSUME NEW i \in 0 .. n - 1, h[i] # -1
      PROVE  \E d \in 0 .. n - 1 :
                /\ Behind(M!Start(more[h[i] + 1], n), d, n) = i
                /\ \A e \in 0 .. d - 1 :
                     h[Behind(M!Start(more[h[i] + 1], n), e, n)] \in 0 .. h[i] - 1
  <2>1. more[h[i] + 1] = keys[h[i] + 1]
    BY <1>4, <1>5
  <2> QED BY <1>5, <2>1, Zenon DEF Chained
<1>6. Chained(h, n, more, Len(keys))
  BY <1>5, Zenon DEF Chained
<1> QED BY <1>1, <1>6

\* A result is stored, after what is left to extend: it is added at the end.
LEMMA StoredOK ==
    ASSUME HashFits, NEW m, MemoOK(m), M!Full(m) = {}, NEW x \in Arguments
    PROVE  /\ MemoOK(M!Stored(M!Complete(m), x))
           /\ M!Stored(M!Complete(m), x).keys = Append(m.keys, x)
<1>1. PICK g : g = M!Complete(m).hasht
  OBVIOUS
<1>2. PICK l \in Nat : l = Len(m.keys)
  BY MemoNumbers
<1>3. PICK more \in Seq(Arguments) : more = Append(m.keys, x) /\ Len(more) = l + 1 /\ more[l + 1] = x
  <2>1. PICK keys \in Seq(Arguments) : keys = m.keys /\ l = Len(keys)
    BY <1>2 DEF MemoOK
  <2>2. /\ Append(keys, x) \in Seq(Arguments) /\ Len(Append(keys, x)) = l + 1
        /\ Append(keys, x)[l + 1] = x
    BY <2>1
  <2> QED BY <2>1, <2>2
<1>4. PICK f : f = M!Put(g, x, l)
  OBVIOUS
<1>5. PICK z : z = M!Stored(M!Complete(m), x)
  OBVIOUS
<1>6. z = [keys |-> more, results |-> more, size |-> m.size, hasht |-> f, AM |-> l + 1]
  <2>1. PICK c : c = M!Complete(m)
    OBVIOUS
  <2>2. c = [keys |-> m.keys, results |-> m.keys, size |-> m.size, hasht |-> g, AM |-> l]
    BY <1>1, <1>2, <2>1, CompleteOK
  <2>3. z = [c EXCEPT !.results = Append(@, x), !.keys = Append(@, x),
                      !.hasht = M!Put(@, x, Len(c.results)), !.AM = @ + 1]
    BY <1>5, <2>1, Zenon DEF M!Stored
  <2> HIDE DEF M!Put
  <2> QED BY <1>2, <1>3, <1>4, <2>2, <2>3
<1>7. Chained(f, m.size.hasht, more, l + 1)
  <2>1. Chained(g, m.size.hasht, m.keys, l)
    BY <1>1, <1>2, CompleteOK
  <2>2. Chained(g, m.size.hasht, more, l)
    BY <1>2, <1>3, <2>1, ChainedMore, MemoNumbers DEF MemoOK
  <2>3. l < Len(more) /\ m.size.hasht \in Nat \ {0} /\ l < m.size.hasht
    BY <1>2, <1>3, MemoNumbers
  <2>4. Chained(M!Put(g, more[l + 1], l), m.size.hasht, more, l + 1)
    BY <2>2, <2>3, PutChained
  <2> QED BY <1>3, <1>4, <2>4
<1>8. /\ l + 1 <= m.size.keys /\ l + 1 <= m.size.results
      /\ 2 * (l + 1) <= m.size.hasht + 2
  BY <1>2, NotFull, MemoNumbers
<1>9. m.size \in [M!Tables -> Nat \ {0}] /\ m.size.hasht >= 3
  BY DEF MemoOK
<1>10. /\ z.keys = more /\ z.results = more /\ z.size = m.size /\ z.hasht = f /\ z.AM = l + 1
       /\ z = [keys |-> z.keys, results |-> z.results, hasht |-> z.hasht, AM |-> z.AM,
               size |-> z.size]
  BY <1>6
<1>11. l + 1 # 0
  OBVIOUS
<1>12. MemoOK(z)
  BY <1>3, <1>7, <1>8, <1>9, <1>10, <1>11 DEF MemoOK
<1> QED BY <1>3, <1>5, <1>10, <1>12

\* A table that grows keeps its arguments; the hash table forgets its own.
LEMMA LongerOK ==
    ASSUME NEW m, MemoOK(m), NEW b \in M!Tables
    PROVE  MemoOK(M!Longer(m, b)) /\ M!Longer(m, b).keys = m.keys
<1>1. /\ m = [keys |-> m.keys, results |-> m.results, hasht |-> m.hasht, AM |-> m.AM,
              size |-> m.size]
      /\ m.results = m.keys /\ m.keys \in Seq(Arguments)
      /\ m.size \in [M!Tables -> Nat \ {0}]
  BY DEF MemoOK
<1>2. PICK n : n = 2 * m.size[b]
  OBVIOUS
<1>3. n \in Nat \ {0} /\ m.size[b] <= n
  BY <1>1, <1>2
<1>4. PICK s : s = [m.size EXCEPT ![b] = n]
  OBVIOUS
<1>5. PICK z : z = [m EXCEPT !.size[b] = n]
  OBVIOUS
<1>6. z = [keys |-> m.keys, results |-> m.keys, hasht |-> m.hasht, AM |-> m.AM, size |-> s]
  BY <1>1, <1>4, <1>5
<1>7. /\ s \in [M!Tables -> Nat \ {0}] /\ s[b] = n
      /\ \A a \in M!Tables \ {b} : s[a] = m.size[a]
  BY <1>1, <1>3, <1>4
<1>8. /\ m.size.keys \in Nat /\ m.size.results \in Nat /\ m.size.hasht \in Nat
      /\ m.size.keys <= s.keys /\ m.size.results <= s.results /\ m.size.hasht <= s.hasht
      /\ s.keys \in Nat /\ s.results \in Nat /\ s.hasht \in Nat
  BY <1>1, <1>3, <1>7 DEF M!Tables
<1>9. /\ Len(m.keys) \in Nat /\ Len(m.keys) <= m.size.keys /\ Len(m.keys) <= m.size.results
      /\ 2 * Len(m.keys) <= m.size.hasht + 2 /\ m.size.hasht >= 3
      /\ m.AM \in {0, Len(m.keys)}
      /\ m.AM = 0 => 2 * Len(m.keys) <= m.size.hasht
  BY DEF MemoOK
<1>10. /\ Len(m.keys) <= s.keys /\ Len(m.keys) <= s.results /\ s.hasht >= 3
       /\ 2 * Len(m.keys) <= s.hasht + 2
       /\ m.AM = 0 => 2 * Len(m.keys) <= s.hasht
  <2>1. PICK l \in Nat : l = Len(m.keys)
    BY <1>9
  <2>2. PICK a, c, e, a1, c1, e1 \in Nat :
           /\ a = m.size.keys /\ c = m.size.results /\ e = m.size.hasht
           /\ a1 = s.keys /\ c1 = s.results /\ e1 = s.hasht
    BY <1>8
  <2>3. a <= a1 /\ c <= c1 /\ e <= e1
    BY <1>8, <2>2
  <2>4. /\ l <= a /\ l <= c /\ 2 * l <= e + 2 /\ e >= 3
        /\ m.AM = 0 => 2 * l <= e
    BY <1>9, <2>1, <2>2
  <2>5. /\ l <= a1 /\ l <= c1 /\ e1 >= 3 /\ 2 * l <= e1 + 2
        /\ m.AM = 0 => 2 * l <= e1
    BY <2>3, <2>4
  <2> QED BY <2>1, <2>2, <2>5
<1>11. CASE b # "hasht"
  <2>1. M!Longer(m, b) = z
    BY <1>2, <1>5, <1>11, Zenon DEF M!Longer
  <2>2. s.hasht = m.size.hasht
    BY <1>7, <1>11 DEF M!Tables
  <2>3. Chained(m.hasht, s.hasht, m.keys, m.AM)
    BY <2>2 DEF MemoOK
  <2>4. /\ z.keys = m.keys /\ z.results = m.keys /\ z.hasht = m.hasht /\ z.AM = m.AM /\ z.size = s
        /\ z = [keys |-> z.keys, results |-> z.results, hasht |-> z.hasht, AM |-> z.AM,
                size |-> z.size]
    BY <1>6
  <2>5. MemoOK(z)
    BY <1>1, <1>7, <1>9, <1>10, <2>3, <2>4, Zenon DEF MemoOK
  <2> QED BY <2>1, <2>4, <2>5
<1>12. CASE b = "hasht"
  <2>1. PICK y : y = M!Longer(m, b)
    OBVIOUS
  <2>2. y = [z EXCEPT !.hasht = M!NewHash(n), !.AM = 0]
    BY <1>2, <1>5, <1>12, <2>1, Zenon DEF M!Longer
  <2>3. y = [keys |-> m.keys, results |-> m.keys, hasht |-> M!NewHash(n), AM |-> 0, size |-> s]
    BY <1>6, <2>2
  <2>4. s.hasht = n
    BY <1>7, <1>12 DEF M!Tables
  <2>5. 2 * Len(m.keys) <= n
    BY <1>2, <1>8, <1>9, <1>12
  <2>6. Chained(M!NewHash(n), n, m.keys, 0)
    BY <1>3 DEF Chained, M!NewHash, M!Empty
  <2>7. MemoOK(y)
    BY <1>1, <1>7, <1>9, <1>10, <2>3, <2>4, <2>5, <2>6 DEF MemoOK
  <2> QED BY <2>1, <2>3, <2>7
<1> QED BY <1>11, <1>12

\* The search for an argument gives the first of its results, if the table has one.
LEMMA GetIs ==
    ASSUME HashFits, NEW m, MemoOK(m), NEW x \in Arguments
    PROVE  /\ M!Get(m, x) # -2 =>
                /\ M!Get(m, x) \in 0 .. Len(m.keys) - 1 /\ m.keys[M!Get(m, x) + 1] = x
                /\ \A i \in 0 .. M!Get(m, x) - 1 : m.keys[i + 1] # x
           /\ \A k \in 1 .. Len(m.keys) : m.keys[k] = x /\ m.AM # 0 => M!Get(m, x) # -2
<1>1. PICK n \in Nat \ {0} : n = m.size.hasht
  BY MemoNumbers
<1>2. PICK h, keys : h = m.hasht /\ keys = m.keys
  OBVIOUS
<1>3. Chained(h, n, keys, m.AM) /\ h \in [0 .. n - 1 -> -1 .. m.AM - 1]
  BY <1>1, <1>2 DEF MemoOK, Chained
<1>4. PICK s \in 0 .. n - 1 : s = M!Start(x, n)
  BY StartIn
<1>5. PICK W : W = M!Free(h) \union {j \in DOMAIN h \ M!Free(h) : keys[h[j] + 1] = x}
  OBVIOUS
<1>6. \A i \in 0 .. n - 1 : i \in W <=> h[i] = -1 \/ keys[h[i] + 1] = x
  BY <1>3, <1>5 DEF M!Free, M!Empty
<1>7. PICK d : d = Reach(s, n, W)
  OBVIOUS
<1>8. /\ d \in 0 .. n - 1 /\ Behind(s, d, n) \in W
      /\ \A j \in 0 .. d - 1 : Behind(s, j, n) \notin W
  <2>1. PICK i \in 0 .. n - 1 : h[i] = -1
    BY <1>1, <1>3, HasFree, MemoNumbers
  <2> QED BY <1>6, <1>7, <2>1, ReachFirst
<1>9. PICK p \in 0 .. n - 1 : p = Behind(s, d, n)
  BY <1>8, BehindIn
<1>10. M!Get(m, x) = IF h[p] = -1 THEN -2 ELSE h[p]
  <2>1. M!Probe(h, x, W) = p
    BY <1>3, <1>4, <1>7, <1>9, ProbeIs
  <2> QED BY <1>2, <1>5, <2>1, Zenon DEF M!Get, M!Empty, M!Miss
<1>11. Len(keys) \in Nat /\ m.AM \in Nat /\ m.AM <= Len(keys)
  BY <1>2, MemoNumbers
\* Where the argument of index j is, and what a search for it sees before.
<1>12. ASSUME NEW j \in 0 .. m.AM - 1, keys[j + 1] = x
       PROVE  /\ h[p] # -1 /\ h[p] <= j
  <2>1. PICK q \in 0 .. n - 1 : h[q] = j
    BY <1>3 DEF Chained
  <2>2. PICK e \in 0 .. n - 1 :
           Behind(s, e, n) = q /\ \A i \in 0 .. e - 1 : h[Behind(s, i, n)] \in 0 .. j - 1
    <3>1. h[q] # -1
      BY <2>1
    <3>2. \E e \in 0 .. n - 1 :
             /\ Behind(M!Start(keys[h[q] + 1], n), e, n) = q
             /\ \A i \in 0 .. e - 1 :
                  h[Behind(M!Start(keys[h[q] + 1], n), i, n)] \in 0 .. h[q] - 1
      BY <1>3, <3>1, Zenon DEF Chained
    <3>3. h[q] + 1 = j + 1
      BY <2>1
    <3>4. M!Start(keys[h[q] + 1], n) = s
      BY <1>4, <1>12, <3>3, Zenon
    <3> QED BY <2>1, <3>2, <3>4, Zenon
  <2>3. q \in W
    BY <1>6, <1>12, <2>1
  <2>4. ~ (e < d)
    BY <1>8, <2>2, <2>3
  <2>5. CASE e = d
    BY <1>9, <2>1, <2>2, <2>5
  <2>6. CASE d < e
    <3>1. d \in 0 .. e - 1
      BY <1>8, <2>6
    <3>2. h[p] \in 0 .. j - 1
      BY <1>9, <2>2, <3>1
    <3> QED BY <3>2
  <2> QED BY <1>8, <2>4, <2>5, <2>6
<1>13. ASSUME h[p] # -1
       PROVE  /\ h[p] \in 0 .. Len(keys) - 1 /\ keys[h[p] + 1] = x /\ h[p] # -2
              /\ \A i \in 0 .. h[p] - 1 : keys[i + 1] # x
  <2>1. h[p] \in 0 .. m.AM - 1
    BY <1>3, <1>13
  <2>2. p \in W
    BY <1>8, <1>9
  <2>3. keys[h[p] + 1] = x
    BY <1>6, <1>13, <2>2
  <2>4. ASSUME NEW i \in 0 .. h[p] - 1, keys[i + 1] = x PROVE FALSE
    <3>1. PICK j \in Nat : j = h[p] /\ j <= m.AM - 1
      BY <1>11, <2>1
    <3>2. i \in 0 .. m.AM - 1 /\ ~ (j <= i)
      BY <1>11, <3>1
    <3> QED BY <1>12, <2>4, <3>1, <3>2
  <2> QED BY <1>11, <2>1, <2>3, <2>4
<1>14. ASSUME NEW k \in 1 .. Len(m.keys), m.keys[k] = x, m.AM # 0
       PROVE  h[p] # -1 /\ h[p] # -2
  <2>1. m.AM = Len(keys)
    BY <1>2, <1>14 DEF MemoOK
  <2>2. k - 1 \in 0 .. m.AM - 1 /\ keys[(k - 1) + 1] = x
    BY <1>2, <1>11, <1>14, <2>1
  <2> QED BY <1>12, <1>13, <2>2
<1> QED BY <1>2, <1>10, <1>13, <1>14

-----------------------------------------------------------------------------
\* The threads: what each of them keeps while it runs u or waits for memory.
CallOf(l) == l = [x |-> l.x, table |-> l.table, oldn |-> l.oldn]

MemoThreads ==
    /\ pcM \in [Callers -> {"idle", "run", "extend"}]
    /\ DOMAIN locM = Callers
    /\ \A t \in Callers :
         /\ CallOf(locM[t])
         /\ pcM[t] # "idle" => locM[t].x \in Arguments
         /\ pcM[t] = "extend" => locM[t].table \in M!Tables

MemoInv == HashFits /\ MemoOK(ht3) /\ MemoThreads

\* Thread t goes to p with r.
MemoMoved(t, p, r) ==
    /\ pcM' = [pcM EXCEPT ![t] = p] /\ locM' = [locM EXCEPT ![t] = r]
    /\ p \in {"idle", "run", "extend"}
    /\ CallOf(r)
    /\ p # "idle" => r.x \in Arguments
    /\ p = "extend" => r.table \in M!Tables

\* A call that moves leaves the others where they are.
LEMMA ThreadsKeep ==
    ASSUME MemoThreads, NEW t \in Callers, NEW p, NEW r, MemoMoved(t, p, r)
    PROVE  MemoThreads'
<1>1. pcM' \in [Callers -> {"idle", "run", "extend"}] /\ DOMAIN locM' = Callers
  BY DEF MemoThreads, MemoMoved
<1>2. ASSUME NEW u \in Callers
      PROVE  /\ CallOf(locM'[u])
             /\ pcM'[u] # "idle" => locM'[u].x \in Arguments
             /\ pcM'[u] = "extend" => locM'[u].table \in M!Tables
  <2>1. CASE u = t
    <3>1. pcM'[u] = p /\ locM'[u] = r
      BY <2>1 DEF MemoThreads, MemoMoved
    <3> QED BY <3>1 DEF MemoMoved
  <2>2. CASE u # t
    <3>1. pcM'[u] = pcM[u] /\ locM'[u] = locM[u]
      BY <2>2 DEF MemoThreads, MemoMoved
    <3> QED BY <3>1 DEF MemoThreads
  <2> QED BY <2>1, <2>2
<1> QED BY <1>1, <1>2, Zenon DEF MemoThreads, CallOf

\* A call that ends forgets all.
LEMMA LeaveMoves == ASSUME NEW t \in Callers, M!Finish(t) PROVE MemoMoved(t, "idle", M!NoCall)
<1>1. CallOf(M!NoCall)
  BY DEF CallOf, M!NoCall
<1>2. pcM' = [pcM EXCEPT ![t] = "idle"] /\ locM' = [locM EXCEPT ![t] = M!NoCall]
  BY Zenon DEF M!Finish
<1> QED BY <1>1, <1>2 DEF MemoMoved

\* The hash function stays.
LEMMA SameOK == ASSUME MemoOK(ht3'), hashM' = hashM PROVE MemoOK(ht3)'
<1>1. \A x, n : M!Start(x, n)' = M!Start(x, n)
  BY DEF M!Start
<1>2. ASSUME NEW h, NEW n, NEW keys, NEW c PROVE Chained(h, n, keys, c) => Chained(h, n, keys, c)'
  <2> SUFFICES ASSUME Chained(h, n, keys, c) PROVE Chained(h, n, keys, c)'
    OBVIOUS
  <2>1. ASSUME NEW i \in 0 .. n - 1, h[i] # -1
        PROVE  \E d \in 0 .. n - 1 :
                  /\ Behind(M!Start(keys[h[i] + 1], n), d, n)' = i
                  /\ \A e \in 0 .. d - 1 :
                       h[Behind(M!Start(keys[h[i] + 1], n), e, n)'] \in 0 .. h[i] - 1
    <3>1. M!Start(keys[h[i] + 1], n)' = M!Start(keys[h[i] + 1], n)
      BY <1>1, Zenon
    <3>2. \A d : Behind(M!Start(keys[h[i] + 1], n), d, n)' = Behind(M!Start(keys[h[i] + 1], n), d, n)
      BY <3>1, Zenon DEF Behind
    <3>3. \E d \in 0 .. n - 1 :
             /\ Behind(M!Start(keys[h[i] + 1], n), d, n) = i
             /\ \A e \in 0 .. d - 1 :
                  h[Behind(M!Start(keys[h[i] + 1], n), e, n)] \in 0 .. h[i] - 1
      BY <2>1, Zenon DEF Chained
    <3> QED BY <3>2, <3>3, Zenon
  <2> QED BY <2>1, Zenon DEF Chained
<1> QED BY <1>2, Zenon DEF MemoOK

\* The loop of jtmemoput, with the table m that the thread sees.
LEMMA ProceedKeeps ==
    ASSUME MemoInv, NEW t \in Callers, NEW x \in Arguments, NEW m, MemoOK(m),
           M!Proceed(m, t, x), hashM' = hashM
    PROVE  /\ MemoInv' /\ MemoOK(ht3')
           /\ ht3' = m \/ ht3'.keys = Append(m.keys, x)
<1>1. HashFits /\ MemoThreads
  BY DEF MemoInv
<1>2. HashFits'
  BY <1>1 DEF HashFits
<1>3. CASE M!Full(m) = {}
  <2>1. ht3' = M!Stored(M!Complete(m), x) /\ M!Finish(t)
    BY <1>3, Zenon DEF M!Proceed
  <2>2. MemoOK(M!Stored(M!Complete(m), x)) /\ M!Stored(M!Complete(m), x).keys = Append(m.keys, x)
    BY <1>1, <1>3, StoredOK
  <2>3. PICK z : z = M!Stored(M!Complete(m), x)
    OBVIOUS
  <2>4. MemoOK(ht3') /\ ht3'.keys = Append(m.keys, x)
    BY <2>1, <2>2
  <2>5. MemoThreads'
    BY <1>1, <2>1, LeaveMoves, ThreadsKeep
  <2> QED BY <1>2, <2>4, <2>5, SameOK DEF MemoInv
<1>4. CASE M!Full(m) # {}
  <2>1. PICK b \in M!Full(m) :
           /\ ht3' = m
           /\ pcM' = [pcM EXCEPT ![t] = "extend"]
           /\ locM' = [locM EXCEPT ![t] = [x |-> x, table |-> b, oldn |-> m.size[b]]]
    BY <1>4, Zenon DEF M!Proceed
  <2>2. b \in M!Tables
    BY DEF M!Full, M!Tables
  <2>3. PICK r : r = [x |-> x, table |-> b, oldn |-> m.size[b]]
    OBVIOUS
  <2>4. CallOf(r) /\ r.x = x /\ r.table = b
    BY <2>3 DEF CallOf
  <2>5. MemoMoved(t, "extend", r)
    BY <2>1, <2>2, <2>3, <2>4 DEF MemoMoved
  <2>6. MemoThreads'
    BY <1>1, <2>5, ThreadsKeep
  <2>7. MemoOK(ht3')
    BY <2>1
  <2> QED BY <1>2, <2>1, <2>6, <2>7, SameOK DEF MemoInv
<1> QED BY <1>3, <1>4

\* What a step does to the arguments: nothing, or it appends one.
KeysGrow ==
    /\ MemoOK(ht3')
    /\ ht3'.keys = ht3.keys \/ \E x \in Arguments : ht3'.keys = Append(ht3.keys, x)

\* What does not touch the table loses no result.
LEMMA SameTable ==
    ASSUME MemoInv, UNCHANGED <<ht3, hashM>>, MemoThreads' PROVE MemoInv' /\ KeysGrow
<1>1. MemoOK(ht3')
  BY DEF MemoInv
<1>2. HashFits'
  BY DEF MemoInv, HashFits
<1> QED BY <1>1, <1>2, SameOK DEF MemoInv, KeysGrow

\* Every step of the memo table keeps its invariant, and the arguments in it,
LEMMA MemoNextKeeps == ASSUME MemoInv, M!Next PROVE MemoInv' /\ KeysGrow
<1>1. PICK t \in Callers : M!Call(t) \/ M!Answer(t) \/ M!Store(t) \/ M!Fail(t) \/ M!Resume(t)
  BY Zenon DEF M!Next
<1>2. MemoThreads /\ MemoOK(ht3)
  BY DEF MemoInv
<1>3. CASE M!Call(t)
  <2>1. PICK x \in Arguments : locM' = [locM EXCEPT ![t].x = x]
    BY <1>3, Zenon DEF M!Call
  <2>2. pcM' = [pcM EXCEPT ![t] = "run"] /\ UNCHANGED <<ht3, hashM>>
    BY <1>3, Zenon DEF M!Call
  <2>3. PICK r : r = [locM[t] EXCEPT !.x = x]
    OBVIOUS
  <2>4. PICK l : l = locM[t] /\ l = [x |-> l.x, table |-> l.table, oldn |-> l.oldn]
    BY <1>2 DEF MemoThreads, CallOf
  <2>5. r = [x |-> x, table |-> l.table, oldn |-> l.oldn]
    BY <2>3, <2>4
  <2>6. CallOf(r) /\ r.x = x
    BY <2>5 DEF CallOf
  <2>7. locM' = [locM EXCEPT ![t] = r]
    BY <2>1, <2>3
  <2>8. MemoMoved(t, "run", r)
    BY <2>2, <2>6, <2>7 DEF MemoMoved
  <2> QED BY <1>2, <2>2, <2>8, ThreadsKeep, SameTable
<1>4. CASE M!Answer(t)
  <2>1. UNCHANGED <<ht3, hashM, pcM, locM>>
    BY <1>4, Zenon DEF M!Answer, M!vars
  <2>2. MemoThreads'
    BY <1>2, <2>1 DEF MemoThreads, CallOf
  <2> QED BY <2>1, <2>2, SameTable
<1>5. CASE M!Store(t)
  <2>1. pcM[t] = "run" /\ M!Proceed(ht3, t, locM[t].x) /\ hashM' = hashM
    BY <1>5, Zenon DEF M!Store
  <2>2. locM[t].x \in Arguments
    BY <1>2, <2>1 DEF MemoThreads
  <2>3. MemoInv' /\ MemoOK(ht3') /\ (ht3' = ht3 \/ ht3'.keys = Append(ht3.keys, locM[t].x))
    BY <1>2, <2>1, <2>2, ProceedKeeps
  <2> QED BY <2>2, <2>3 DEF KeysGrow
<1>6. CASE M!Fail(t)
  <2>1. M!Finish(t) /\ UNCHANGED <<ht3, hashM>>
    BY <1>6, Zenon DEF M!Fail
  <2> QED BY <1>2, <2>1, LeaveMoves, ThreadsKeep, SameTable
<1>7. CASE M!Resume(t)
  <2>1. PICK m : m = IF ht3.size[locM[t].table] = locM[t].oldn
                     THEN M!Longer(ht3, locM[t].table) ELSE ht3
    OBVIOUS
  <2>2. pcM[t] = "extend" /\ M!Proceed(m, t, locM[t].x) /\ hashM' = hashM
    BY <1>7, <2>1, Zenon DEF M!Resume
  <2>3. locM[t].x \in Arguments /\ locM[t].table \in M!Tables
    BY <1>2, <2>2 DEF MemoThreads
  <2>4. MemoOK(m) /\ m.keys = ht3.keys
    BY <1>2, <2>1, <2>3, LongerOK
  <2>5. MemoInv' /\ MemoOK(ht3') /\ (ht3' = m \/ ht3'.keys = Append(m.keys, locM[t].x))
    BY <2>2, <2>3, <2>4, ProceedKeeps
  <2> QED BY <2>3, <2>4, <2>5 DEF KeysGrow
<1> QED BY <1>1, <1>3, <1>4, <1>5, <1>6, <1>7

\* which holds in the empty table
LEMMA MemoStart == ASSUME M!Init PROVE MemoInv
<1>1. /\ ht3 = [keys |-> <<>>, results |-> <<>>, hasht |-> M!NewHash(Slots), AM |-> 0,
                size |-> [keys |-> Rows, results |-> Rows, hasht |-> Slots]]
      /\ hashM \in Functions32
      /\ pcM = [t \in Callers |-> "idle"] /\ locM = [t \in Callers |-> M!NoCall]
  BY Zenon DEF M!Init
<1>2. HashFits
  BY <1>1, MemoAssumption DEF HashFits
<1>3. Rows \in Nat \ {0} /\ Slots \in Nat \ {0} /\ Slots >= 3
  BY MemoAssumption
<1>4. PICK s : s = [keys |-> Rows, results |-> Rows, hasht |-> Slots]
  OBVIOUS
<1>5. s \in [M!Tables -> Nat \ {0}] /\ s.hasht = Slots /\ s.keys = Rows /\ s.results = Rows
  BY <1>3, <1>4 DEF M!Tables
<1>6. PICK h : h = M!NewHash(Slots)
  OBVIOUS
<1>7. Chained(h, Slots, <<>>, 0)
  BY <1>3, <1>6 DEF Chained, M!NewHash, M!Empty
<1>8. ht3 = [keys |-> <<>>, results |-> <<>>, hasht |-> h, AM |-> 0, size |-> s]
  BY <1>1, <1>4, <1>6
<1>9. /\ ht3.keys = <<>> /\ ht3.results = <<>> /\ ht3.hasht = h /\ ht3.AM = 0 /\ ht3.size = s
      /\ ht3 = [keys |-> ht3.keys, results |-> ht3.results, hasht |-> ht3.hasht,
                AM |-> ht3.AM, size |-> ht3.size]
  BY <1>8
<1>10. <<>> \in Seq(Arguments) /\ Len(<<>>) = 0
  OBVIOUS
<1>11. MemoOK(ht3)
  BY <1>3, <1>5, <1>7, <1>9, <1>10 DEF MemoOK
<1>12. CallOf(M!NoCall)
  BY DEF CallOf, M!NoCall
<1>13. MemoThreads
  BY <1>1, <1>12 DEF MemoThreads
<1> QED BY <1>2, <1>11, <1>13 DEF MemoInv

\* and is not disturbed by the other tables.
LEMMA MemoSteps == ASSUME MemoInv, [TablesNext]_allVars PROVE MemoInv' /\ KeysGrow
<1>1. CASE M!Next
  BY <1>1, MemoNextKeeps
<1>2. CASE UNCHANGED memoVars
  <2>1. UNCHANGED <<ht3, hashM, pcM, locM>>
    BY <1>2 DEF memoVars
  <2>2. MemoThreads'
    BY <2>1 DEF MemoInv, MemoThreads, CallOf
  <2> QED BY <2>1, <2>2, SameTable
<1> QED BY <1>1, <1>2, Zenon DEF TablesNext, allVars

\* The inductive invariant of jtmemoput (a.c:106): where the arguments are in the hash
\* table, in the order in which they were stored, and that one place is always free.
THEOREM MemoInductive == TablesSpec => []MemoInv
<1>1. TablesInit => MemoInv
  BY MemoStart DEF TablesInit
<1> QED BY <1>1, MemoSteps, PTL DEF TablesSpec

\* A result that was stored is found, in whatever order the three tables are extended
\* (a.c:106-131), for any callers, arguments, hash function and first sizes.
THEOREM ResultsAreFound == TablesSpec => []StoredIsFound
<1>1. ASSUME MemoInv PROVE StoredIsFound
  <2>1. MemoOK(ht3) /\ HashFits /\ MemoThreads
    BY <1>1 DEF MemoInv
  <2>2. /\ ht3.keys \in Seq(Arguments) /\ ht3.results = ht3.keys
        /\ Len(ht3.keys) <= ht3.size.keys /\ Len(ht3.keys) <= ht3.size.results
        /\ ht3.AM \in {0, Len(ht3.keys)}
        /\ Chained(ht3.hasht, ht3.size.hasht, ht3.keys, ht3.AM)
    BY <2>1 DEF MemoOK
  <2>3. DOMAIN ht3.hasht = 0 .. ht3.size.hasht - 1
    BY <2>2 DEF Chained
  <2>4. M!TypeOK
    BY <2>1, <2>2, <2>3 DEF M!TypeOK, MemoThreads
  <2>5. M!Free(ht3.hasht) # {}
    <3>1. PICK i \in 0 .. ht3.size.hasht - 1 : ht3.hasht[i] = -1
      BY <2>1, <2>2, HasFree, MemoNumbers
    <3> QED BY <2>3, <3>1 DEF M!Free, M!Empty
  <2>6. ASSUME ht3.AM # 0, NEW i \in DOMAIN ht3.keys PROVE M!Get(ht3, ht3.keys[i]) # M!Miss
    <3>1. i \in 1 .. Len(ht3.keys) /\ ht3.keys[i] \in Arguments
      BY <2>2, <2>6
    <3> QED BY <2>1, <2>6, <3>1, GetIs DEF M!Miss
  <2> QED BY <2>2, <2>4, <2>5, <2>6, Zenon DEF StoredIsFound, M!StoredIsFound
<1> QED BY <1>1, MemoInductive, PTL

\* More arguments do not change what the search for an argument finds.
LEMMA AnswerStays ==
    ASSUME HashFits, NEW m, MemoOK(m), NEW z, MemoOK(z),
           z.keys = m.keys \/ \E y \in Arguments : z.keys = Append(m.keys, y),
           NEW x \in Arguments, M!Get(m, x) # -2, M!Get(z, x) # -2
    PROVE  M!Get(z, x) = M!Get(m, x)
<1>1. PICK a, b : a = M!Get(m, x) /\ b = M!Get(z, x)
  OBVIOUS
<1>2. /\ a \in 0 .. Len(m.keys) - 1 /\ m.keys[a + 1] = x
      /\ \A i \in 0 .. a - 1 : m.keys[i + 1] # x
  BY <1>1, GetIs
<1>3. /\ b \in 0 .. Len(z.keys) - 1 /\ z.keys[b + 1] = x
      /\ \A i \in 0 .. b - 1 : z.keys[i + 1] # x
  BY <1>1, GetIs
<1>4. m.keys \in Seq(Arguments) /\ z.keys \in Seq(Arguments)
  BY DEF MemoOK
<1>5. \A k \in 1 .. Len(m.keys) : z.keys[k] = m.keys[k]
  BY <1>4
<1>6. Len(m.keys) \in Nat /\ Len(z.keys) \in Nat
  BY <1>4
<1>7. ~ (a < b)
  <2> SUFFICES ASSUME a < b PROVE FALSE
    OBVIOUS
  <2>1. a + 1 \in 1 .. Len(m.keys) /\ a \in 0 .. b - 1
    BY <1>2, <1>3, <1>6
  <2> QED BY <1>2, <1>3, <1>5, <2>1
<1>8. ~ (b < a)
  <2> SUFFICES ASSUME b < a PROVE FALSE
    OBVIOUS
  <2>1. b + 1 \in 1 .. Len(m.keys) /\ b \in 0 .. a - 1
    BY <1>2, <1>3, <1>6
  <2> QED BY <1>2, <1>3, <1>5, <2>1
<1>9. a \in Int /\ b \in Int
  BY <1>2, <1>3, <1>6
<1> QED BY <1>1, <1>7, <1>8, <1>9

\* An argument has one answer, the first that was stored, however often it is computed
\* and the table rehashed (a.c:128).
THEOREM AnswersStay == TablesSpec => OneAnswer
<1>1. ASSUME MemoInv, [TablesNext]_allVars,
             NEW x \in Arguments, M!Get(ht3, x) # M!Miss, M!Get(ht3', x) # M!Miss
      PROVE  M!Get(ht3', x) = M!Get(ht3, x)
  <2>1. KeysGrow
    BY <1>1, MemoSteps
  <2>2. MemoOK(ht3')
    BY <2>1 DEF KeysGrow
  <2>3. HashFits /\ MemoOK(ht3)
    BY <1>1 DEF MemoInv
  <2>4. PICK z : z = ht3'
    OBVIOUS
  <2>5. MemoOK(z) /\ M!Get(z, x) # -2 /\ M!Get(ht3, x) # -2
    BY <1>1, <2>2, <2>4 DEF M!Miss
  <2>6. z.keys = ht3.keys \/ \E y \in Arguments : z.keys = Append(ht3.keys, y)
    BY <2>1, <2>4 DEF KeysGrow
  <2>7. M!Get(z, x) = M!Get(ht3, x)
    BY <1>1, <2>3, <2>5, <2>6, AnswerStays
  <2> QED BY <2>4, <2>7
<1>2. ASSUME MemoInv, [TablesNext]_allVars
      PROVE  \A x \in Arguments :
                M!Get(ht3, x) # M!Miss /\ M!Get(ht3', x) # M!Miss
                  => M!Get(ht3', x) = M!Get(ht3, x)
  BY <1>1, <1>2
<1> QED BY <1>2, MemoInductive, PTL DEF TablesSpec, OneAnswer, M!OneAnswer

-----------------------------------------------------------------------------
\* jtinstallnl, jtfindnl and jterasenl, the numbered locales (LocaleNumbers).

\* e places behind what is d places behind s.
LEMMA BehindTwice ==
    ASSUME NEW n \in Nat \ {0}, NEW s \in 0 .. n - 1, NEW d \in 0 .. n - 1, NEW e \in 0 .. n - 1
    PROVE  Behind(Behind(s, d, n), e, n) = IF d + e < n THEN Behind(s, d + e, n)
                                           ELSE Behind(s, d + e - n, n)
<1>1. PICK a \in 0 .. n - 1 : a = Behind(s, d, n)
  BY BehindIn
<1>2. a = IF d <= s THEN s - d ELSE s - d + n
  BY <1>1, BehindIs
<1>3. Behind(a, e, n) = IF e <= a THEN a - e ELSE a - e + n
  BY BehindIs
<1>4. CASE d + e < n
  <2>1. Behind(s, d + e, n) = IF d + e <= s THEN s - (d + e) ELSE s - (d + e) + n
    BY <1>4, BehindIs
  <2> QED BY <1>1, <1>2, <1>3, <1>4, <2>1
<1>5. CASE ~ (d + e < n)
  <2>1. Behind(s, d + e - n, n)
          = IF d + e - n <= s THEN s - (d + e - n) ELSE s - (d + e - n) + n
    BY <1>5, BehindIs
  <2> QED BY <1>1, <1>2, <1>3, <1>5, <2>1
<1> QED BY <1>4, <1>5

\* A thing that is b places behind E belongs c places behind E, where it is now.  It stays
\* when the hole, at q, is not on its way.
LEMMA StaysIs ==
    ASSUME NEW n \in Nat \ {0}, NEW E \in 0 .. n - 1,
           NEW b \in 0 .. n - 1, NEW c \in 0 .. n - 1, NEW q \in 0 .. n - 1, b <= c, q < c
    PROVE  L!Stays(Behind(E, b, n), Behind(E, c, n), Behind(E, q, n)) <=> q < b
<1>1. PICK home, probe, hole \in 0 .. n - 1 :
         home = Behind(E, b, n) /\ probe = Behind(E, c, n) /\ hole = Behind(E, q, n)
  BY BehindIn
<1>2. /\ home = IF b <= E THEN E - b ELSE E - b + n
      /\ probe = IF c <= E THEN E - c ELSE E - c + n
      /\ hole = IF q <= E THEN E - q ELSE E - q + n
  BY <1>1, BehindIs
<1>3. L!Stays(home, probe, hole) <=> q < b
  BY <1>2 DEF L!Stays
<1> QED BY <1>1, <1>3

\* Cardinality is the same operator in the instance of LocaleNumbers.
LEMMA SameSizeL == ASSUME NEW S PROVE L!Cardinality(S) = Cardinality(S)
BY Zenon DEF L!Cardinality, Cardinality, L!IsFiniteSet, IsFiniteSet

LocaleNumbers == 0 .. MaxNumber - 1

\* The hash function is one of those tried.
HashSlots == hashL \in [LocaleNumbers -> Nat]

\* A search starts in the table.
LEMMA SlotIn ==
    ASSUME HashSlots, NEW z \in LocaleNumbers, NEW n \in Nat \ {0}
    PROVE  L!Slot(z, n) \in 0 .. n - 1
<1>1. PICK k \in Nat : k = hashL[z]
  BY DEF HashSlots
<1>2. k % n \in 0 .. n - 1
  OBVIOUS
<1> QED BY <1>1, <1>2 DEF L!Slot

\* A table of n places has each of the numbers S once,
Keeps(h, n, S) ==
    /\ h \in [0 .. n - 1 -> LocaleNumbers \union {-1}]
    /\ \A i, k \in 0 .. n - 1 : h[i] = h[k] /\ h[i] # -1 => i = k
    /\ \A i \in 0 .. n - 1 : h[i] # -1 => h[i] \in S
    /\ \A z \in S : z # -1 /\ \E i \in 0 .. n - 1 : h[i] = z

\* and there is no hole on the way from the slot of a number to its place.
Probed(h, n) == \A i \in 0 .. n - 1 : h[i] # -1 =>
    \E d \in 0 .. n - 1 : /\ Behind(L!Slot(h[i], n), d, n) = i
                          /\ \A e \in 0 .. d - 1 : h[Behind(L!Slot(h[i], n), e, n)] # -1

\* The same, seen from an empty place E: the number c places behind E has its slot b places
\* behind E, and there is no hole between them, but perhaps at q.
Aligned(h, n, E, q) ==
    /\ h[E] = -1
    /\ \A c \in 1 .. n - 1 : h[Behind(E, c, n)] # -1 =>
         \E b \in 1 .. c : /\ Behind(E, b, n) = L!Slot(h[Behind(E, c, n)], n)
                           /\ \A e \in b .. c : e # q => h[Behind(E, e, n)] # -1

\* The two ways of saying that no hole is on the way mean the same.
LEMMA Align ==
    ASSUME HashSlots, NEW n \in Nat \ {0}, NEW S, NEW h, Keeps(h, n, S), Probed(h, n),
           NEW E \in 0 .. n - 1, h[E] = -1
    PROVE  Aligned(h, n, E, 0)
<1> SUFFICES ASSUME NEW c \in 1 .. n - 1, h[Behind(E, c, n)] # -1
             PROVE  \E b \in 1 .. c : /\ Behind(E, b, n) = L!Slot(h[Behind(E, c, n)], n)
                                      /\ \A e \in b .. c : e # 0 => h[Behind(E, e, n)] # -1
  BY DEF Aligned
<1>0. c \in 0 .. n - 1
  OBVIOUS
<1>1. PICK i \in 0 .. n - 1 : i = Behind(E, c, n)
  BY <1>0, BehindIn
<1>2. h[i] # -1 /\ h[i] \in LocaleNumbers
  BY <1>1 DEF Keeps
<1>3. PICK s \in 0 .. n - 1 : s = L!Slot(h[i], n)
  BY <1>2, SlotIn
<1>4. PICK d \in 0 .. n - 1 :
         Behind(s, d, n) = i /\ \A e \in 0 .. d - 1 : h[Behind(s, e, n)] # -1
  BY <1>2, <1>3, Zenon DEF Probed
<1>5. \A e \in 0 .. d : h[Behind(s, e, n)] # -1
  BY <1>2, <1>4
<1>6. PICK b \in 0 .. n - 1 : Behind(E, b, n) = s
  BY BehindAll
<1>7. b # 0
  <2> SUFFICES ASSUME b = 0 PROVE FALSE
    OBVIOUS
  <2>1. 0 \in 0 .. n - 1
    OBVIOUS
  <2>2. Behind(E, 0, n) = E
    BY <2>1, BehindIs
  <2>3. Behind(E, 0, n) = IF 0 <= E THEN E - 0 ELSE E - 0 + n
    BY <2>1, BehindIs
  <2>4. Behind(s, 0, n) = IF 0 <= s THEN s - 0 ELSE s - 0 + n
    BY <2>1, BehindIs
  <2>5. s = E /\ Behind(s, 0, n) = E
    BY <1>6, <2>3, <2>4
  <2>6. 0 \in 0 .. d
    OBVIOUS
  <2> QED BY <1>5, <2>5, <2>6
<1>8. b <= c
  <2> SUFFICES ASSUME c < b PROVE FALSE
    OBVIOUS
  <2>1. n - b \in 0 .. n - 1 /\ n - b + c \in 0 .. n - 1
    BY <1>7
  <2>2. Behind(s, n - b, n) = Behind(E, 0, n)
    <3>1. b + (n - b) = n /\ ~ (b + (n - b) < n)
      OBVIOUS
    <3>2. Behind(Behind(E, b, n), n - b, n) = Behind(E, b + (n - b) - n, n)
      BY <2>1, <3>1, BehindTwice
    <3> QED BY <1>6, <3>2
  <2>3. Behind(s, n - b + c, n) = Behind(E, c, n)
    <3>1. b + (n - b + c) - n = c /\ ~ (b + (n - b + c) < n)
      OBVIOUS
    <3>2. Behind(Behind(E, b, n), n - b + c, n) = Behind(E, b + (n - b + c) - n, n)
      BY <2>1, <3>1, BehindTwice
    <3> QED BY <1>6, <3>1, <3>2
  <2>4. d = n - b + c
    BY <1>1, <1>4, <2>1, <2>3, BehindOnce
  <2>5. n - b \in 0 .. d
    BY <2>1, <2>4
  <2>6. Behind(E, 0, n) = E
    <3>1. 0 \in 0 .. n - 1
      OBVIOUS
    <3>2. Behind(E, 0, n) = IF 0 <= E THEN E - 0 ELSE E - 0 + n
      BY <3>1, BehindIs
    <3> QED BY <3>2
  <2> QED BY <1>5, <2>2, <2>5, <2>6
<1>9. ASSUME NEW f \in 0 .. c - b PROVE Behind(s, f, n) = Behind(E, b + f, n)
  <2>1. f \in 0 .. n - 1 /\ b + f < n
    BY <1>8
  <2> QED BY <1>6, <2>1, BehindTwice
<1>10. d = c - b
  <2>1. c - b \in 0 .. c - b /\ c - b \in 0 .. n - 1 /\ b + (c - b) = c
    BY <1>8
  <2>2. Behind(s, c - b, n) = i
    BY <1>1, <1>9, <2>1
  <2> QED BY <1>4, <2>1, <2>2, BehindOnce
<1>11. ASSUME NEW e \in b .. c PROVE h[Behind(E, e, n)] # -1
  <2>1. e - b \in 0 .. c - b /\ e - b \in 0 .. d /\ b + (e - b) = e
    BY <1>8, <1>10
  <2> QED BY <1>5, <1>9, <2>1
<1>12. b \in 1 .. c
  BY <1>7, <1>8
<1> QED BY <1>1, <1>3, <1>6, <1>11, <1>12, Zenon

\* And back.
LEMMA Unalign ==
    ASSUME NEW n \in Nat \ {0}, NEW S, NEW h, Keeps(h, n, S),
           NEW E \in 0 .. n - 1, Aligned(h, n, E, 0)
    PROVE  Probed(h, n)
<1> SUFFICES ASSUME NEW i \in 0 .. n - 1, h[i] # -1
             PROVE  \E d \in 0 .. n - 1 :
                      /\ Behind(L!Slot(h[i], n), d, n) = i
                      /\ \A e \in 0 .. d - 1 : h[Behind(L!Slot(h[i], n), e, n)] # -1
  BY DEF Probed
<1>1. PICK c \in 0 .. n - 1 : Behind(E, c, n) = i
  BY BehindAll
<1>2. c # 0
  <2> SUFFICES ASSUME c = 0 PROVE FALSE
    OBVIOUS
  <2>1. Behind(E, c, n) = IF c <= E THEN E - c ELSE E - c + n
    BY BehindIs
  <2>2. i = E
    BY <1>1, <2>1
  <2> QED BY <2>2 DEF Aligned
<1>3. PICK b \in 1 .. c :
         /\ Behind(E, b, n) = L!Slot(h[i], n)
         /\ \A e \in b .. c : e # 0 => h[Behind(E, e, n)] # -1
  <2>1. c \in 1 .. n - 1
    BY <1>2
  <2> QED BY <1>1, <2>1, Zenon DEF Aligned
<1>4. PICK s : s = L!Slot(h[i], n)
  OBVIOUS
<1>5. ASSUME NEW f \in 0 .. c - b PROVE Behind(s, f, n) = Behind(E, b + f, n)
  <2>1. f \in 0 .. n - 1 /\ b + f < n /\ b \in 0 .. n - 1
    OBVIOUS
  <2> QED BY <1>3, <1>4, <2>1, BehindTwice
<1>6. PICK d \in 0 .. n - 1 : d = c - b
  OBVIOUS
<1>7. Behind(s, d, n) = i
  <2>1. d \in 0 .. c - b /\ b + d = c
    BY <1>6
  <2> QED BY <1>1, <1>5, <2>1
<1>8. ASSUME NEW e \in 0 .. d - 1 PROVE h[Behind(s, e, n)] # -1
  <2>1. e \in 0 .. c - b /\ b + e \in b .. c /\ b + e # 0
    BY <1>6
  <2> QED BY <1>3, <1>5, <2>1
<1> QED BY <1>4, <1>7, <1>8, Zenon

-----------------------------------------------------------------------------
\* The search of LocaleNumbers is that of Reach.
LEMMA PlaceIs ==
    ASSUME NEW n \in Nat \ {0}, NEW h, DOMAIN h = 0 .. n - 1, NEW z, NEW wanted,
           L!Slot(z, n) \in 0 .. n - 1, NEW W, \A i \in 0 .. n - 1 : i \in W <=> h[i] \in wanted
    PROVE  L!FirstPlace(h, z, wanted) = Behind(L!Slot(z, n), Reach(L!Slot(z, n), n, W), n)
<1>1. L!Cardinality(DOMAIN h) = n
  BY SameSizeL, Length
<1>2. PICK s \in 0 .. n - 1 : s = L!Slot(z, n)
  OBVIOUS
<1>3. \A k \in 0 .. n - 1 : h[Behind(s, k, n)] \in wanted <=> Behind(s, k, n) \in W
  BY BehindIn
<1>4. PICK d : d = CHOOSE k \in 0 .. n - 1 :
                     /\ h[Behind(s, k, n)] \in wanted
                     /\ \A j \in 0 .. k - 1 : h[Behind(s, j, n)] \notin wanted
  OBVIOUS
<1>5. L!FirstPlace(h, z, wanted) = Behind(s, d, n)
  BY <1>1, <1>2, <1>4, Zenon DEF L!FirstPlace, L!Back, Behind
<1>6. ASSUME NEW k \in 0 .. n - 1
      PROVE  /\ h[Behind(s, k, n)] \in wanted
             /\ \A j \in 0 .. k - 1 : h[Behind(s, j, n)] \notin wanted
           <=> /\ Behind(s, k, n) \in W
               /\ \A j \in 0 .. k - 1 : Behind(s, j, n) \notin W
  <2>1. \A j \in 0 .. k - 1 : j \in 0 .. n - 1
    OBVIOUS
  <2> QED BY <1>3, <2>1
<1>7. d = Reach(s, n, W)
  BY <1>4, <1>6, Zenon DEF Reach
<1> QED BY <1>2, <1>5, <1>7

\* A table with room for more has an empty place.
LEMMA Room ==
    ASSUME NEW n \in Nat \ {0}, NEW S, IsFiniteSet(S), Cardinality(S) < n, NEW h, Keeps(h, n, S)
    PROVE  \E i \in 0 .. n - 1 : h[i] = -1
<1> SUFFICES ASSUME \A i \in 0 .. n - 1 : h[i] # -1 PROVE FALSE
  OBVIOUS
<1>1. h \in [0 .. n - 1 -> S]
  BY DEF Keeps
<1>2. Cardinality(0 .. n - 1) = n /\ IsFiniteSet(0 .. n - 1)
  BY Length
<1>3. h \in Injection(0 .. n - 1, S)
  <2>1. \A i, k \in 0 .. n - 1 : h[i] = h[k] => i = k
    BY DEF Keeps
  <2> QED BY <1>1, <2>1 DEF Injection, IsInjective
<1>4. Cardinality(0 .. n - 1) <= Cardinality(S)
  BY <1>2, <1>3, FS_Injection
<1>5. Cardinality(S) \in Nat
  BY FS_CardinalityType
<1> QED BY <1>2, <1>4, <1>5

\* A new number goes to the first empty place of its search.
LEMMA PutKeeps ==
    ASSUME HashSlots, NEW n \in Nat \ {0}, NEW S, NEW h, Keeps(h, n, S), Probed(h, n),
           \E i \in 0 .. n - 1 : h[i] = -1, NEW z \in LocaleNumbers, z \notin S
    PROVE  Keeps(L!Put(h, z), n, S \union {z}) /\ Probed(L!Put(h, z), n)
<1>0. h \in [0 .. n - 1 -> LocaleNumbers \union {-1}]
  BY DEF Keeps
<1>1. PICK s \in 0 .. n - 1 : s = L!Slot(z, n)
  BY SlotIn
<1>2. PICK W : W = {i \in 0 .. n - 1 : h[i] = -1}
  OBVIOUS
<1>3. PICK d : d = Reach(s, n, W)
  OBVIOUS
<1>4. /\ d \in 0 .. n - 1 /\ Behind(s, d, n) \in W
      /\ \A j \in 0 .. d - 1 : Behind(s, j, n) \notin W
  <2>1. PICK i \in 0 .. n - 1 : i \in W
    BY <1>2
  <2> QED BY <1>3, <2>1, ReachFirst
<1>5. PICK p : p = Behind(s, d, n)
  OBVIOUS
<1>6. p \in 0 .. n - 1 /\ h[p] = -1
  BY <1>2, <1>4, <1>5
<1>7. PICK g : g = L!Put(h, z)
  OBVIOUS
<1>8. g = [h EXCEPT ![p] = z]
  <2>1. \A i \in 0 .. n - 1 : i \in W <=> h[i] \in {L!Empty}
    BY <1>2 DEF L!Empty
  <2>2. L!FirstPlace(h, z, {L!Empty}) = p
    BY <1>0, <1>1, <1>3, <1>5, <2>1, PlaceIs
  <2> QED BY <1>7, <2>2, Zenon DEF L!Put, L!Hole
<1>9. g[p] = z /\ z # -1 /\ \A i \in 0 .. n - 1 : i # p => g[i] = h[i]
  BY <1>0, <1>6, <1>8 DEF LocaleNumbers
<1>10. Keeps(g, n, S \union {z})
  <2>1. g \in [0 .. n - 1 -> LocaleNumbers \union {-1}]
    BY <1>0, <1>6, <1>8
  <2>2. \A i \in 0 .. n - 1 : h[i] # z
    BY <1>9 DEF Keeps
  <2>3. \A i, k \in 0 .. n - 1 : g[i] = g[k] /\ g[i] # -1 => i = k
    BY <1>9, <2>2 DEF Keeps
  <2>4. \A i \in 0 .. n - 1 : g[i] # -1 => g[i] \in S \union {z}
    BY <1>9 DEF Keeps
  <2>5. \A y \in S \union {z} : y # -1 /\ \E i \in 0 .. n - 1 : g[i] = y
    BY <1>6, <1>9 DEF Keeps
  <2> QED BY <2>1, <2>3, <2>4, <2>5, Zenon DEF Keeps
<1>11. ASSUME NEW i \in 0 .. n - 1, g[i] # -1
       PROVE  \E b \in 0 .. n - 1 :
                 /\ Behind(L!Slot(g[i], n), b, n) = i
                 /\ \A e \in 0 .. b - 1 : g[Behind(L!Slot(g[i], n), e, n)] # -1
  <2>0. \A k \in 0 .. n - 1 : h[k] # -1 => g[k] # -1
    BY <1>6, <1>9
  <2>1. CASE i = p
    <3>1. L!Slot(g[i], n) = s
      BY <1>1, <1>9, <2>1
    <3>2. ASSUME NEW e \in 0 .. d - 1 PROVE g[Behind(s, e, n)] # -1
      <4>1. e \in 0 .. n - 1
        BY <1>4
      <4>2. PICK q \in 0 .. n - 1 : q = Behind(s, e, n)
        BY <4>1, BehindIn
      <4>3. h[q] # -1
        BY <1>2, <1>4, <4>2
      <4> QED BY <2>0, <4>2, <4>3
    <3> QED BY <1>4, <1>5, <2>1, <3>1, <3>2
  <2>2. CASE i # p
    <3>1. g[i] = h[i] /\ h[i] # -1 /\ h[i] \in LocaleNumbers
      BY <1>0, <1>9, <1>11, <2>2
    <3>2. PICK y \in 0 .. n - 1 : y = L!Slot(h[i], n)
      BY <3>1, SlotIn
    <3>3. PICK b \in 0 .. n - 1 :
             Behind(y, b, n) = i /\ \A e \in 0 .. b - 1 : h[Behind(y, e, n)] # -1
      BY <3>1, <3>2, Zenon DEF Probed
    <3>4. ASSUME NEW e \in 0 .. b - 1 PROVE g[Behind(y, e, n)] # -1
      <4>1. e \in 0 .. n - 1
        BY <3>3
      <4>2. PICK q \in 0 .. n - 1 : q = Behind(y, e, n)
        BY <4>1, BehindIn
      <4> QED BY <2>0, <3>3, <4>2
    <3> QED BY <3>1, <3>2, <3>3, <3>4
  <2> QED BY <2>1, <2>2
<1>12. Probed(g, n)
  BY <1>11, Zenon DEF Probed
<1> QED BY <1>7, <1>10, <1>12

\* The search for a number ends at its place, or else at an empty one.
LEMMA SearchEnds ==
    ASSUME HashSlots, NEW n \in Nat \ {0}, NEW S, NEW h, Keeps(h, n, S), Probed(h, n),
           \E i \in 0 .. n - 1 : h[i] = -1, NEW z \in LocaleNumbers
    PROVE  /\ L!Place(h, z) \in 0 .. n - 1
           /\ h[L!Place(h, z)] = IF z \in S THEN z ELSE -1
<1>0. h \in [0 .. n - 1 -> LocaleNumbers \union {-1}]
  BY DEF Keeps
<1>1. PICK s \in 0 .. n - 1 : s = L!Slot(z, n)
  BY SlotIn
<1>2. PICK W : W = {i \in 0 .. n - 1 : h[i] \in {-1, z}}
  OBVIOUS
<1>3. PICK d : d = Reach(s, n, W)
  OBVIOUS
<1>4. /\ d \in 0 .. n - 1 /\ Behind(s, d, n) \in W
      /\ \A j \in 0 .. d - 1 : Behind(s, j, n) \notin W
  <2>1. PICK i \in 0 .. n - 1 : i \in W
    BY <1>2
  <2> QED BY <1>3, <2>1, ReachFirst
<1>5. PICK p : p = Behind(s, d, n)
  OBVIOUS
<1>6. L!Place(h, z) = p
  <2>1. \A i \in 0 .. n - 1 : i \in W <=> h[i] \in {L!Empty, z}
    BY <1>2 DEF L!Empty
  <2>2. L!FirstPlace(h, z, {L!Empty, z}) = p
    BY <1>0, <1>1, <1>3, <1>5, <2>1, PlaceIs
  <2> QED BY <2>2, Zenon DEF L!Place
<1>7. p \in 0 .. n - 1 /\ h[p] \in {-1, z}
  BY <1>2, <1>4, <1>5
<1>8. ASSUME z \notin S PROVE h[p] = -1
  BY <1>7, <1>8 DEF Keeps
<1>9. ASSUME z \in S PROVE h[p] = z
  <2>1. PICK i \in 0 .. n - 1 : h[i] = z /\ h[i] # -1
    BY <1>9 DEF Keeps
  <2>2. PICK b \in 0 .. n - 1 :
           Behind(s, b, n) = i /\ \A e \in 0 .. b - 1 : h[Behind(s, e, n)] # -1
    BY <1>1, <2>1, Zenon DEF Probed
  <2>3. ~ (b < d)
    BY <1>2, <1>4, <2>1, <2>2
  <2>4. d < b => h[p] # -1
    BY <1>4, <1>5, <2>2
  <2>5. d = b => h[p] = z
    BY <1>5, <2>1, <2>2
  <2> QED BY <1>4, <1>7, <2>2, <2>3, <2>4, <2>5
<1> QED BY <1>6, <1>7, <1>8, <1>9

-----------------------------------------------------------------------------
\* The recursive function of Closed: one more place is seen.
ClosingStep(z, p, n) ==
    IF z.end \/ z.slots[p] = L!Empty THEN [z EXCEPT !.end = TRUE]
    ELSE IF L!Stays(L!Slot(z.slots[p], n), p, z.hole) THEN z
    ELSE [z EXCEPT !.slots = [@ EXCEPT ![z.hole] = z.slots[p], ![p] = L!Empty], !.hole = p]

IsClosing(f, h, place, n, l) ==
    f = [k \in 0 .. l |->
           IF k = 0 THEN [slots |-> [h EXCEPT ![place] = L!Empty], hole |-> place, end |-> FALSE]
           ELSE ClosingStep(f[k - 1], Behind(place, k, n), n)]

Closing(h, place, n) == CHOOSE f : IsClosing(f, h, place, n, n - 1)

\* The recursive function of Closed exists,
LEMMA ClosingExists ==
    ASSUME NEW h, NEW place, NEW n, NEW l \in Nat PROVE \E f : IsClosing(f, h, place, n, l)
<1> DEFINE S == {k \in Nat : ~ \E f : IsClosing(f, h, place, n, k)}
<1> SUFFICES ASSUME S # {} PROVE FALSE
  OBVIOUS
<1>0. PICK a : a = [slots |-> [h EXCEPT ![place] = L!Empty], hole |-> place, end |-> FALSE]
  OBVIOUS
<1>1. PICK k \in S : \A j \in S : k <= j
  BY Least
<1>2. CASE k = 0
  <2>1. PICK f : f = [i \in 0 .. 0 |-> a]
    OBVIOUS
  <2>2. f = [i \in 0 .. 0 |-> IF i = 0 THEN a ELSE ClosingStep(f[i - 1], Behind(place, i, n), n)]
    BY <2>1
  <2>3. IsClosing(f, h, place, n, k)
    BY <1>0, <1>2, <2>2, Zenon DEF IsClosing
  <2> QED BY <1>1, <2>3
<1>3. CASE k # 0
  <2>1. k - 1 \in Nat /\ k - 1 \notin S
    BY <1>1, <1>3
  <2>2. PICK f : IsClosing(f, h, place, n, k - 1)
    BY <2>1
  <2>3. PICK g : g = [i \in 0 .. k |-> IF i = k THEN ClosingStep(f[k - 1], Behind(place, k, n), n)
                                       ELSE f[i]]
    OBVIOUS
  <2>4. \A i \in 0 .. k - 1 :
           f[i] = IF i = 0 THEN a ELSE ClosingStep(f[i - 1], Behind(place, i, n), n)
    <3>1. f = [i \in 0 .. k - 1 |->
                 IF i = 0 THEN a ELSE ClosingStep(f[i - 1], Behind(place, i, n), n)]
      BY <1>0, <2>2, Zenon DEF IsClosing
    <3> QED BY <3>1
  <2>5. \A i \in 0 .. k - 1 : g[i] = f[i]
    BY <1>1, <1>3, <2>3
  <2>6. ASSUME NEW i \in 0 .. k
        PROVE  g[i] = IF i = 0 THEN a ELSE ClosingStep(g[i - 1], Behind(place, i, n), n)
    <3>1. CASE i = k
      <4>1. g[i - 1] = f[k - 1] /\ g[i] = ClosingStep(f[k - 1], Behind(place, k, n), n)
        BY <1>1, <1>3, <2>3, <2>5, <3>1
      <4> QED BY <1>3, <3>1, <4>1
    <3>2. CASE i # k /\ i # 0
      <4>1. i \in 0 .. k - 1 /\ i - 1 \in 0 .. k - 1
        BY <1>1, <3>2
      <4>2. g[i - 1] = f[i - 1] /\ g[i] = f[i]
        BY <2>5, <4>1
      <4> QED BY <2>4, <3>2, <4>1, <4>2
    <3>3. CASE i # k /\ i = 0
      BY <1>1, <2>4, <2>5, <3>3
    <3> QED BY <3>1, <3>2, <3>3
  <2>7. g = [i \in 0 .. k |->
               IF i = 0 THEN a ELSE ClosingStep(g[i - 1], Behind(place, i, n), n)]
    BY <2>3, <2>6
  <2>8. IsClosing(g, h, place, n, k)
    BY <1>0, <2>7, Zenon DEF IsClosing
  <2> QED BY <1>1, <2>8
<1> QED BY <1>2, <1>3

\* satisfies its definition,
LEMMA ClosingIs ==
    ASSUME NEW h, NEW place, NEW n \in Nat \ {0}
    PROVE  /\ Closing(h, place, n)[0]
                = [slots |-> [h EXCEPT ![place] = L!Empty], hole |-> place, end |-> FALSE]
           /\ \A k \in 1 .. n - 1 :
                Closing(h, place, n)[k] = ClosingStep(Closing(h, place, n)[k - 1], Behind(place, k, n), n)
<1>0. PICK a : a = [slots |-> [h EXCEPT ![place] = L!Empty], hole |-> place, end |-> FALSE]
  OBVIOUS
<1>1. n - 1 \in Nat
  OBVIOUS
<1>2. PICK f : f = Closing(h, place, n)
  OBVIOUS
<1>3. IsClosing(f, h, place, n, n - 1)
  BY <1>1, <1>2, ClosingExists, Zenon DEF Closing
<1>4. f = [k \in 0 .. n - 1 |-> IF k = 0 THEN a ELSE ClosingStep(f[k - 1], Behind(place, k, n), n)]
  BY <1>0, <1>3, Zenon DEF IsClosing
<1>5. f[0] = a /\ \A k \in 1 .. n - 1 : f[k] = ClosingStep(f[k - 1], Behind(place, k, n), n)
  BY <1>4
<1> QED BY <1>0, <1>2, <1>5

\* and is what Closed uses.
LEMMA ClosedIs ==
    ASSUME NEW n \in Nat \ {0}, NEW h, DOMAIN h = 0 .. n - 1, NEW place
    PROVE  L!Closed(h, place) = Closing(h, place, n)[n - 1].slots
<1>1. L!Cardinality(DOMAIN h) = n
  BY SameSizeL, Length
<1>2. L!Closed(h, place)
        = Closing(h, place, L!Cardinality(DOMAIN h))[L!Cardinality(DOMAIN h) - 1].slots
  BY Zenon DEF L!Closed, Closing, IsClosing, ClosingStep, Behind
<1> QED BY <1>1, <1>2, Zenon

\* The table z when k places after the first were seen; these are counted from the empty
\* place E, the first is c0 places behind E.  A number that was seen, or any number when the
\* end was seen, has no hole on its way.
ClosingAt(z, n, E, c0, k, S) ==
    /\ z = [slots |-> z.slots, hole |-> z.hole, end |-> z.end] /\ z.end \in BOOLEAN
    /\ Keeps(z.slots, n, S)
    /\ ~ z.end => c0 + k <= n - 1
    /\ \E q \in 0 .. n - 1 :
         /\ z.hole = Behind(E, q, n) /\ c0 <= q /\ q <= c0 + k /\ z.slots[z.hole] = -1
         /\ Aligned(z.slots, n, E, q)
         /\ \A c \in 1 .. n - 1, b \in 0 .. n - 1 :
              /\ q < c /\ (z.end \/ c <= c0 + k) /\ z.slots[Behind(E, c, n)] # -1
              /\ Behind(E, b, n) = L!Slot(z.slots[Behind(E, c, n)], n)
              => q < b

\* The number c places behind E goes to the hole at q, and g is the table after it.
GoesTo(h, g, n, E, q, c, b) ==
    /\ Aligned(h, n, E, q) /\ h[Behind(E, q, n)] = -1 /\ h[Behind(E, c, n)] # -1
    /\ q < c /\ b <= q
    /\ Behind(E, b, n) = L!Slot(h[Behind(E, c, n)], n)
    /\ g = [h EXCEPT ![Behind(E, q, n)] = h[Behind(E, c, n)], ![Behind(E, c, n)] = -1]

\* An item that the hole hides goes to the hole, and leaves the hole where it was.
LEMMA ClosingMoves ==
    ASSUME NEW n \in Nat \ {0}, NEW S, NEW h, Keeps(h, n, S),
           NEW E \in 0 .. n - 1, NEW q \in 0 .. n - 1, NEW c \in 1 .. n - 1, NEW b \in 1 .. c,
           NEW g, GoesTo(h, g, n, E, q, c, b)
    PROVE  Keeps(g, n, S) /\ Aligned(g, n, E, c) /\ g[Behind(E, c, n)] = -1
<1>0. /\ Aligned(h, n, E, q) /\ h[Behind(E, q, n)] = -1 /\ h[Behind(E, c, n)] # -1
      /\ q < c /\ b <= q
      /\ Behind(E, b, n) = L!Slot(h[Behind(E, c, n)], n)
      /\ g = [h EXCEPT ![Behind(E, q, n)] = h[Behind(E, c, n)], ![Behind(E, c, n)] = -1]
  BY Zenon DEF GoesTo
<1>1. PICK p, o \in 0 .. n - 1 : p = Behind(E, c, n) /\ o = Behind(E, q, n)
  BY BehindIn
<1>2. p # o
  <2>1. c \in 0 .. n - 1 /\ c # q
    BY <1>0
  <2> QED BY <1>1, <2>1, BehindOnce
<1>3. h \in [0 .. n - 1 -> LocaleNumbers \union {-1}]
  BY DEF Keeps
<1>4. /\ g \in [0 .. n - 1 -> LocaleNumbers \union {-1}]
      /\ g[o] = h[p] /\ g[p] = -1
      /\ \A i \in 0 .. n - 1 : i # o /\ i # p => g[i] = h[i]
  BY <1>0, <1>1, <1>2, <1>3
<1>5. h[o] = -1 /\ h[p] # -1
  BY <1>0, <1>1
<1>6. Keeps(g, n, S)
  <2>1. \A i, k \in 0 .. n - 1 : g[i] = g[k] /\ g[i] # -1 => i = k
    BY <1>4, <1>5 DEF Keeps
  <2>2. \A i \in 0 .. n - 1 : g[i] # -1 => g[i] \in S
    BY <1>4, <1>5 DEF Keeps
  <2>3. ASSUME NEW z \in S PROVE z # -1 /\ \E i \in 0 .. n - 1 : g[i] = z
    <3>1. PICK i \in 0 .. n - 1 : h[i] = z /\ z # -1
      BY DEF Keeps
    <3>2. CASE i = p
      BY <1>4, <3>1, <3>2
    <3>3. CASE i # p
      <4>1. i # o
        BY <1>5, <3>1
      <4> QED BY <1>4, <3>1, <3>3, <4>1
    <3> QED BY <3>2, <3>3
  <2> QED BY <1>4, <2>1, <2>2, <2>3, Zenon DEF Keeps
<1>7. h[E] = -1
  BY <1>0 DEF Aligned
<1>8. E # o
  <2>1. Behind(E, q, n) = IF q <= E THEN E - q ELSE E - q + n
    BY BehindIs
  <2> QED BY <1>0, <1>1, <2>1
<1>9. g[E] = -1
  BY <1>4, <1>7, <1>8
<1>10. ASSUME NEW e \in 0 .. n - 1, e # c, e = q \/ h[Behind(E, e, n)] # -1
       PROVE  g[Behind(E, e, n)] # -1
  <2>1. PICK i \in 0 .. n - 1 : i = Behind(E, e, n)
    BY BehindIn
  <2>2. i # p
    <3>1. c \in 0 .. n - 1
      OBVIOUS
    <3> QED BY <1>1, <1>10, <2>1, <3>1, BehindOnce
  <2>3. CASE i = o
    BY <1>4, <1>5, <2>1, <2>3
  <2>4. CASE i # o
    BY <1>1, <1>4, <1>10, <2>1, <2>2, <2>4
  <2> QED BY <2>3, <2>4
<1>11. ASSUME NEW c2 \in 1 .. n - 1, g[Behind(E, c2, n)] # -1
       PROVE  \E b2 \in 1 .. c2 :
                 /\ Behind(E, b2, n) = L!Slot(g[Behind(E, c2, n)], n)
                 /\ \A e \in b2 .. c2 : e # c => g[Behind(E, e, n)] # -1
  <2>1. PICK i \in 0 .. n - 1 : i = Behind(E, c2, n)
    BY BehindIn
  <2>2. i # p
    BY <1>4, <1>11, <2>1
  <2>3. CASE i = o
    <3>0. c2 \in 0 .. n - 1
      OBVIOUS
    <3>1. c2 = q
      BY <1>1, <2>1, <2>3, <3>0, BehindOnce
    <3>2. PICK b3 \in 1 .. c :
             /\ Behind(E, b3, n) = L!Slot(h[Behind(E, c, n)], n)
             /\ \A e \in b3 .. c : e # q => h[Behind(E, e, n)] # -1
      BY <1>0, Zenon DEF Aligned
    <3>3. b3 = b
      <4>1. b3 \in 0 .. n - 1 /\ b \in 0 .. n - 1
        OBVIOUS
      <4> QED BY <1>0, <3>2, <4>1, BehindOnce
    <3>4. ASSUME NEW e \in b .. c2 PROVE g[Behind(E, e, n)] # -1
      <4>1. e \in b3 .. c /\ e \in 0 .. n - 1 /\ e # c
        BY <1>0, <3>1, <3>3
      <4> QED BY <1>10, <3>2, <4>1
    <3>5. b \in 1 .. c2 /\ Behind(E, b, n) = L!Slot(g[Behind(E, c2, n)], n)
      BY <1>0, <1>1, <1>4, <2>1, <2>3, <3>1
    <3> QED BY <3>4, <3>5
  <2>4. CASE i # o
    <3>1. g[i] = h[i] /\ h[Behind(E, c2, n)] # -1
      BY <1>4, <1>11, <2>1, <2>2, <2>4
    <3>2. PICK b2 \in 1 .. c2 :
             /\ Behind(E, b2, n) = L!Slot(h[Behind(E, c2, n)], n)
             /\ \A e \in b2 .. c2 : e # q => h[Behind(E, e, n)] # -1
      BY <1>0, <3>1, Zenon DEF Aligned
    <3>3. ASSUME NEW e \in b2 .. c2, e # c PROVE g[Behind(E, e, n)] # -1
      <4>1. e \in 0 .. n - 1
        OBVIOUS
      <4> QED BY <1>10, <3>2, <3>3, <4>1
    <3> QED BY <2>1, <3>1, <3>2, <3>3
  <2> QED BY <2>3, <2>4
<1>12. Aligned(g, n, E, c)
  BY <1>9, <1>11, Zenon DEF Aligned
<1> QED BY <1>1, <1>4, <1>6, <1>12

\* One more place is seen: its item stays, or goes to the hole, or it ends the search.
LEMMA ClosingGoesOn ==
    ASSUME HashSlots, NEW n \in Nat \ {0}, NEW S, NEW E \in 0 .. n - 1, NEW c0 \in 0 .. n - 1,
           NEW k \in Nat, NEW z, ClosingAt(z, n, E, c0, k, S),
           NEW p \in 0 .. n - 1, c0 + k + 1 <= n - 1 => p = Behind(E, c0 + k + 1, n),
           c0 + k + 1 = n => p = E
    PROVE  ClosingAt(ClosingStep(z, p, n), n, E, c0, k + 1, S)
<1>1. PICK h, o : h = z.slots /\ o = z.hole
  OBVIOUS
<1>2. PICK w : w = ClosingStep(z, p, n)
  OBVIOUS
<1>3. /\ z = [slots |-> h, hole |-> o, end |-> z.end] /\ z.end \in BOOLEAN
      /\ Keeps(h, n, S)
      /\ ~ z.end => c0 + k <= n - 1
  BY <1>1 DEF ClosingAt
<1>4. PICK q \in 0 .. n - 1 :
         /\ o = Behind(E, q, n) /\ c0 <= q /\ q <= c0 + k /\ h[o] = -1
         /\ Aligned(h, n, E, q)
         /\ \A c \in 1 .. n - 1, b \in 0 .. n - 1 :
              /\ q < c /\ (z.end \/ c <= c0 + k) /\ h[Behind(E, c, n)] # -1
              /\ Behind(E, b, n) = L!Slot(h[Behind(E, c, n)], n)
              => q < b
  BY <1>1, Zenon DEF ClosingAt
<1>5. CASE z.end \/ h[p] = -1
  <2>1. w = [slots |-> h, hole |-> o, end |-> TRUE]
    <3>1. w = [z EXCEPT !.end = TRUE]
      BY <1>1, <1>2, <1>5, Zenon DEF ClosingStep, L!Empty
    <3>2. PICK e : z = [slots |-> h, hole |-> o, end |-> e]
      BY <1>3
    <3> QED BY <3>1, <3>2
  <2>2. w.slots = h /\ w.hole = o /\ w.end = TRUE
    BY <2>1
  <2>3. ASSUME NEW c \in 1 .. n - 1, NEW b \in 0 .. n - 1, q < c, h[Behind(E, c, n)] # -1,
               Behind(E, b, n) = L!Slot(h[Behind(E, c, n)], n)
        PROVE  q < b
    <3>1. CASE z.end \/ c <= c0 + k
      BY <1>4, <2>3, <3>1
    <3>2. CASE ~ z.end /\ c0 + k < c
      <4>1. c0 + k + 1 <= n - 1 /\ c0 + k + 1 <= c
        BY <3>2
      <4>2. h[Behind(E, c0 + k + 1, n)] = -1
        BY <1>5, <3>2, <4>1
      <4>3. PICK b2 \in 1 .. c :
               /\ Behind(E, b2, n) = L!Slot(h[Behind(E, c, n)], n)
               /\ \A e \in b2 .. c : e # q => h[Behind(E, e, n)] # -1
        BY <1>4, <2>3, Zenon DEF Aligned
      <4>4. b2 = b
        <5>1. b2 \in 0 .. n - 1
          OBVIOUS
        <5> QED BY <2>3, <4>3, <5>1, BehindOnce
      <4>5. ~ (b <= c0 + k + 1)
        <5>1. c0 + k + 1 # q
          BY <1>4
        <5>2. b <= c0 + k + 1 => c0 + k + 1 \in b2 .. c
          BY <4>1, <4>4
        <5> QED BY <4>2, <4>3, <5>1, <5>2
      <4> QED BY <1>4, <4>5
    <3> QED BY <1>3, <3>1, <3>2
  <2>4. \E r \in 0 .. n - 1 :
           /\ w.hole = Behind(E, r, n) /\ c0 <= r /\ r <= c0 + (k + 1) /\ w.slots[w.hole] = -1
           /\ Aligned(w.slots, n, E, r)
           /\ \A c \in 1 .. n - 1, b \in 0 .. n - 1 :
                /\ r < c /\ (w.end \/ c <= c0 + (k + 1)) /\ w.slots[Behind(E, c, n)] # -1
                /\ Behind(E, b, n) = L!Slot(w.slots[Behind(E, c, n)], n)
                => r < b
    <3>1. q <= c0 + (k + 1)
      BY <1>4
    <3> QED BY <1>4, <2>2, <2>3, <3>1
  <2>5. ClosingAt(w, n, E, c0, k + 1, S)
    BY <1>3, <2>1, <2>2, <2>4, Zenon DEF ClosingAt
  <2> QED BY <1>2, <2>5
<1>6. CASE ~ z.end /\ h[p] # -1
  <2>1. c0 + k + 1 <= n - 1
    <3>1. c0 + k + 1 # n
      BY <1>4, <1>6 DEF Aligned
    <3> QED BY <1>3, <1>6, <3>1
  <2>2. PICK c \in 1 .. n - 1 : c = c0 + k + 1 /\ q < c /\ p = Behind(E, c, n)
    BY <1>4, <2>1
  <2>3. PICK b \in 1 .. c :
           /\ Behind(E, b, n) = L!Slot(h[p], n)
           /\ \A e \in b .. c : e # q => h[Behind(E, e, n)] # -1
    BY <1>4, <1>6, <2>2, Zenon DEF Aligned
  <2>4. L!Stays(L!Slot(h[p], n), p, o) <=> q < b
    <3>1. b \in 0 .. n - 1 /\ c \in 0 .. n - 1 /\ b <= c
      OBVIOUS
    <3> QED BY <1>4, <2>2, <2>3, <3>1, StaysIs
  <2>5. CASE q < b
    <3>1. w = z
      BY <1>1, <1>2, <1>6, <2>4, <2>5, Zenon DEF ClosingStep, L!Empty
    <3>2. ASSUME NEW c2 \in 1 .. n - 1, NEW b2 \in 0 .. n - 1, q < c2, c2 <= c0 + (k + 1),
                 h[Behind(E, c2, n)] # -1, Behind(E, b2, n) = L!Slot(h[Behind(E, c2, n)], n)
          PROVE  q < b2
      <4>1. CASE c2 <= c0 + k
        BY <1>4, <3>2, <4>1
      <4>2. CASE c2 = c
        <5>1. b2 = b
          <6>1. b \in 0 .. n - 1
            OBVIOUS
          <6> QED BY <2>2, <2>3, <3>2, <4>2, <6>1, BehindOnce
        <5> QED BY <2>5, <5>1
      <4> QED BY <2>2, <3>2, <4>1, <4>2
    <3>3. \E r \in 0 .. n - 1 :
             /\ w.hole = Behind(E, r, n) /\ c0 <= r /\ r <= c0 + (k + 1) /\ w.slots[w.hole] = -1
             /\ Aligned(w.slots, n, E, r)
             /\ \A c2 \in 1 .. n - 1, b2 \in 0 .. n - 1 :
                  /\ r < c2 /\ (w.end \/ c2 <= c0 + (k + 1)) /\ w.slots[Behind(E, c2, n)] # -1
                  /\ Behind(E, b2, n) = L!Slot(w.slots[Behind(E, c2, n)], n)
                  => r < b2
      <4>0. q <= c0 + (k + 1)
        BY <1>4
      <4>1. w.slots = h /\ w.hole = o /\ ~ w.end
        BY <1>1, <1>6, <3>1, Zenon
      <4> QED BY <1>4, <3>2, <4>0, <4>1
    <3>4. c0 + (k + 1) <= n - 1
      BY <2>1
    <3>5. ClosingAt(w, n, E, c0, k + 1, S)
      BY <1>1, <1>3, <3>1, <3>3, <3>4, Zenon DEF ClosingAt
    <3> QED BY <1>2, <3>5
  <2>6. CASE b <= q
    <3>1. PICK g : g = [h EXCEPT ![o] = h[p], ![p] = -1]
      OBVIOUS
    <3>2. w = [slots |-> g, hole |-> p, end |-> z.end]
      <4>1. ~ (q < b)
        BY <2>6
      <4>2. w = [z EXCEPT !.slots = [@ EXCEPT ![z.hole] = z.slots[p], ![p] = L!Empty], !.hole = p]
        BY <1>1, <1>2, <1>6, <2>4, <4>1, Zenon DEF ClosingStep, L!Empty
      <4>3. w = [z EXCEPT !.slots = g, !.hole = p]
        BY <1>1, <1>3, <3>1, <4>2 DEF L!Empty
      <4> QED BY <1>3, <4>3
    <3>3. Keeps(g, n, S) /\ Aligned(g, n, E, c) /\ g[p] = -1
      <4>1. g = [h EXCEPT ![Behind(E, q, n)] = h[Behind(E, c, n)], ![Behind(E, c, n)] = -1]
        BY <1>4, <2>2, <3>1, Zenon
      <4>2. /\ h[Behind(E, q, n)] = -1 /\ h[Behind(E, c, n)] # -1
            /\ Behind(E, b, n) = L!Slot(h[Behind(E, c, n)], n)
        BY <1>4, <1>6, <2>2, <2>3, Zenon
      <4>3. Keeps(g, n, S) /\ Aligned(g, n, E, c) /\ g[Behind(E, c, n)] = -1
        <5>1. GoesTo(h, g, n, E, q, c, b)
          BY <1>4, <2>2, <2>6, <4>1, <4>2, Zenon DEF GoesTo
        <5> QED BY <1>3, <5>1, ClosingMoves
      <4> QED BY <2>2, <4>3, Zenon
    <3>4. w.slots = g /\ w.hole = p /\ w.end = z.end
      BY <3>2
    <3>5. \E r \in 0 .. n - 1 :
             /\ w.hole = Behind(E, r, n) /\ c0 <= r /\ r <= c0 + (k + 1) /\ w.slots[w.hole] = -1
             /\ Aligned(w.slots, n, E, r)
             /\ \A c2 \in 1 .. n - 1, b2 \in 0 .. n - 1 :
                  /\ r < c2 /\ (w.end \/ c2 <= c0 + (k + 1)) /\ w.slots[Behind(E, c2, n)] # -1
                  /\ Behind(E, b2, n) = L!Slot(w.slots[Behind(E, c2, n)], n)
                  => r < b2
      <4>1. c \in 0 .. n - 1 /\ c0 <= c /\ c <= c0 + (k + 1)
        BY <2>2
      <4>2. \A c2 \in 1 .. n - 1 : ~ (c < c2 /\ c2 <= c0 + (k + 1))
        BY <2>2
      <4> QED BY <1>6, <2>2, <3>3, <3>4, <4>1, <4>2
    <3>6. c0 + (k + 1) <= n - 1
      BY <2>1
    <3>7. ClosingAt(w, n, E, c0, k + 1, S)
      BY <1>3, <3>2, <3>3, <3>4, <3>5, <3>6, Zenon DEF ClosingAt
    <3> QED BY <1>2, <3>7
  <2> QED BY <2>5, <2>6
<1> QED BY <1>3, <1>5, <1>6

\* An erasure leaves the other numbers, and the way to each of them.
LEMMA ClosedKeeps ==
    ASSUME HashSlots, NEW n \in Nat \ {0}, NEW S, NEW h, Keeps(h, n, S), Probed(h, n),
           \E i \in 0 .. n - 1 : h[i] = -1, NEW z \in LocaleNumbers
    PROVE  /\ Keeps(L!Closed(h, L!Place(h, z)), n, S \ {z})
           /\ Probed(L!Closed(h, L!Place(h, z)), n)
<1>1. PICK p : p = L!Place(h, z)
  OBVIOUS
<1>2. p \in 0 .. n - 1 /\ h[p] = IF z \in S THEN z ELSE -1
  BY <1>1, SearchEnds
<1>3. h \in [0 .. n - 1 -> LocaleNumbers \union {-1}] /\ z # -1
  BY DEF Keeps, LocaleNumbers
<1>4. PICK E \in 0 .. n - 1 : h[E] = -1 /\ (z \notin S => E = p)
  <2>1. CASE z \in S
    BY <2>1
  <2>2. CASE z \notin S
    BY <1>2, <2>2
  <2> QED BY <2>1, <2>2
<1>5. PICK c0 \in 0 .. n - 1 : Behind(E, c0, n) = p
  BY <1>2, BehindAll
<1>6. Aligned(h, n, E, 0)
  BY <1>4, Align
<1>7. PICK g : g = [h EXCEPT ![p] = L!Empty]
  OBVIOUS
<1>8. /\ g \in [0 .. n - 1 -> LocaleNumbers \union {-1}]
      /\ g[p] = -1 /\ \A i \in 0 .. n - 1 : i # p => g[i] = h[i]
  BY <1>2, <1>3, <1>7 DEF L!Empty
<1>9. Keeps(g, n, S \ {z})
  <2>1. \A i, k \in 0 .. n - 1 : g[i] = g[k] /\ g[i] # -1 => i = k
    BY <1>8 DEF Keeps
  <2>2. ASSUME NEW i \in 0 .. n - 1, g[i] # -1 PROVE g[i] \in S \ {z}
    <3>1. i # p /\ g[i] = h[i] /\ h[i] \in S
      BY <1>8, <2>2 DEF Keeps
    <3>2. h[i] # z
      BY <1>2, <1>3, <3>1 DEF Keeps
    <3> QED BY <3>1, <3>2
  <2>3. ASSUME NEW y \in S \ {z} PROVE y # -1 /\ \E i \in 0 .. n - 1 : g[i] = y
    <3>1. PICK i \in 0 .. n - 1 : h[i] = y /\ y # -1
      BY DEF Keeps
    <3>2. i # p
      BY <1>2, <3>1
    <3> QED BY <1>8, <3>1, <3>2
  <2> QED BY <1>8, <2>1, <2>2, <2>3, Zenon DEF Keeps
<1>10. Aligned(g, n, E, c0)
  <2>1. g[E] = -1
    BY <1>4, <1>8
  <2>2. ASSUME NEW c \in 1 .. n - 1, g[Behind(E, c, n)] # -1
        PROVE  \E b \in 1 .. c : /\ Behind(E, b, n) = L!Slot(g[Behind(E, c, n)], n)
                                 /\ \A e \in b .. c : e # c0 => g[Behind(E, e, n)] # -1
    <3>0. c \in 0 .. n - 1
      OBVIOUS
    <3>1. PICK i \in 0 .. n - 1 : i = Behind(E, c, n)
      BY <3>0, BehindIn
    <3>2. g[i] = h[i] /\ h[i] # -1
      BY <1>8, <2>2, <3>1
    <3>3. PICK b \in 1 .. c :
             /\ Behind(E, b, n) = L!Slot(h[Behind(E, c, n)], n)
             /\ \A e \in b .. c : e # 0 => h[Behind(E, e, n)] # -1
      BY <1>6, <3>1, <3>2, Zenon DEF Aligned
    <3>4. ASSUME NEW e \in b .. c, e # c0 PROVE g[Behind(E, e, n)] # -1
      <4>1. e \in 0 .. n - 1 /\ e # 0
        OBVIOUS
      <4>2. PICK k \in 0 .. n - 1 : k = Behind(E, e, n)
        BY <4>1, BehindIn
      <4>3. k # p
        BY <1>5, <3>4, <4>1, <4>2, BehindOnce
      <4> QED BY <1>8, <3>3, <4>1, <4>2, <4>3
    <3> QED BY <3>1, <3>2, <3>3, <3>4
  <2> QED BY <2>1, <2>2, Zenon DEF Aligned
<1>11. PICK f : f = Closing(h, p, n)
  OBVIOUS
<1>12. ClosingAt(f[0], n, E, c0, 0, S \ {z})
  <2>1. f[0] = [slots |-> g, hole |-> p, end |-> FALSE]
    BY <1>7, <1>11, ClosingIs
  <2>2. f[0].slots = g /\ f[0].hole = p /\ f[0].end = FALSE
    BY <2>1
  <2>3. \E q \in 0 .. n - 1 :
           /\ f[0].hole = Behind(E, q, n) /\ c0 <= q /\ q <= c0 + 0 /\ f[0].slots[f[0].hole] = -1
           /\ Aligned(f[0].slots, n, E, q)
           /\ \A c \in 1 .. n - 1, b \in 0 .. n - 1 :
                /\ q < c /\ (f[0].end \/ c <= c0 + 0) /\ f[0].slots[Behind(E, c, n)] # -1
                /\ Behind(E, b, n) = L!Slot(f[0].slots[Behind(E, c, n)], n)
                => q < b
    <3>1. c0 <= c0 /\ c0 <= c0 + 0 /\ \A c \in 1 .. n - 1 : ~ (c0 < c /\ c <= c0 + 0)
      OBVIOUS
    <3> QED BY <1>5, <1>8, <1>10, <2>2, <3>1
  <2>4. c0 + 0 <= n - 1
    OBVIOUS
  <2> QED BY <1>9, <2>1, <2>2, <2>3, <2>4, Zenon DEF ClosingAt
<1>13. ASSUME NEW k \in 1 .. n - 1, ClosingAt(f[k - 1], n, E, c0, k - 1, S \ {z})
       PROVE  ClosingAt(f[k], n, E, c0, k, S \ {z})
  <2>1. f[k] = ClosingStep(f[k - 1], Behind(p, k, n), n)
    BY <1>11, ClosingIs
  <2>2. PICK m \in Nat : m = k - 1 /\ m + 1 = k
    OBVIOUS
  <2>3. PICK r \in 0 .. n - 1 : r = Behind(p, k, n)
    <3>1. k \in 0 .. n - 1
      OBVIOUS
    <3> QED BY <1>2, <3>1, BehindIn
  <2>4. r = IF c0 + k < n THEN Behind(E, c0 + k, n) ELSE Behind(E, c0 + k - n, n)
    <3>1. k \in 0 .. n - 1
      OBVIOUS
    <3> QED BY <1>5, <2>3, <3>1, BehindTwice
  <2>5. c0 + m + 1 <= n - 1 => r = Behind(E, c0 + m + 1, n)
    <3>1. c0 + m + 1 = c0 + k
      BY <2>2
    <3> QED BY <2>4, <3>1
  <2>6. c0 + m + 1 = n => r = E
    <3> SUFFICES ASSUME c0 + m + 1 = n PROVE r = E
      OBVIOUS
    <3>1. c0 + k - n = 0 /\ ~ (c0 + k < n) /\ 0 \in 0 .. n - 1
      BY <2>2
    <3>2. Behind(E, 0, n) = IF 0 <= E THEN E - 0 ELSE E - 0 + n
      BY <3>1, BehindIs
    <3> QED BY <2>4, <3>1, <3>2
  <2>7. ClosingAt(ClosingStep(f[m], r, n), n, E, c0, m + 1, S \ {z})
    BY <1>13, <2>2, <2>5, <2>6, ClosingGoesOn
  <2> QED BY <2>1, <2>2, <2>3, <2>7
<1>14. ClosingAt(f[n - 1], n, E, c0, n - 1, S \ {z})
  <2> DEFINE B == {k \in 0 .. n - 1 : ~ ClosingAt(f[k], n, E, c0, k, S \ {z})}
  <2>1. CASE B = {}
    <3>1. n - 1 \in 0 .. n - 1
      OBVIOUS
    <3> QED BY <2>1, <3>1
  <2>2. CASE B # {}
    <3>1. B \subseteq Nat
      OBVIOUS
    <3>2. PICK k \in B : \A j \in B : k <= j
      BY <2>2, <3>1, Least
    <3>3. k # 0
      BY <1>12, <3>2
    <3>4. k \in 1 .. n - 1 /\ k - 1 \in 0 .. n - 1 /\ ~ (k <= k - 1)
      BY <3>2, <3>3
    <3>5. ClosingAt(f[k - 1], n, E, c0, k - 1, S \ {z})
      BY <3>2, <3>4
    <3> QED BY <1>13, <3>2, <3>4, <3>5
  <2> QED BY <2>1, <2>2
<1>15. PICK w : w = f[n - 1].slots
  OBVIOUS
<1>16. PICK q \in 0 .. n - 1 :
         /\ Aligned(w, n, E, q)
         /\ \A c \in 1 .. n - 1, b \in 0 .. n - 1 :
              /\ q < c /\ (f[n - 1].end \/ c <= c0 + (n - 1)) /\ w[Behind(E, c, n)] # -1
              /\ Behind(E, b, n) = L!Slot(w[Behind(E, c, n)], n)
              => q < b
  BY <1>14, <1>15, Zenon DEF ClosingAt
<1>17. Keeps(w, n, S \ {z})
  BY <1>14, <1>15, Zenon DEF ClosingAt
<1>18. Aligned(w, n, E, 0)
  <2>1. w[E] = -1
    BY <1>16 DEF Aligned
  <2>2. ASSUME NEW c \in 1 .. n - 1, w[Behind(E, c, n)] # -1
        PROVE  \E b \in 1 .. c : /\ Behind(E, b, n) = L!Slot(w[Behind(E, c, n)], n)
                                 /\ \A e \in b .. c : e # 0 => w[Behind(E, e, n)] # -1
    <3>1. PICK b \in 1 .. c :
             /\ Behind(E, b, n) = L!Slot(w[Behind(E, c, n)], n)
             /\ \A e \in b .. c : e # q => w[Behind(E, e, n)] # -1
      BY <1>16, <2>2, Zenon DEF Aligned
    <3>2. c <= c0 + (n - 1) /\ b \in 0 .. n - 1
      OBVIOUS
    <3>3. q < c => q < b
      BY <1>16, <2>2, <3>1, <3>2
    <3>4. \A e \in b .. c : e = q => e = c
      BY <3>3
    <3> QED BY <2>2, <3>1, <3>4
  <2> QED BY <2>1, <2>2, Zenon DEF Aligned
<1>19. Probed(w, n)
  BY <1>17, <1>18, Unalign
<1>20. L!Closed(h, p) = w
  BY <1>3, <1>11, <1>15, ClosedIs
<1> QED BY <1>1, <1>17, <1>19, <1>20

-----------------------------------------------------------------------------
\* The recursive function of Rehashed: the numbers of the old table are put in the new one.
IsMoving(f, old, new, l) ==
    f = [i \in -1 .. l |-> IF i = -1 THEN new.slots
                           ELSE IF old.slots[i] = L!Empty THEN f[i - 1]
                           ELSE L!Put(f[i - 1], old.slots[i])]

Moving(old, new) == CHOOSE f : IsMoving(f, old, new, L!AN(old) - 1)

\* The recursive function of Rehashed exists,
LEMMA MovingExists ==
    ASSUME NEW old, NEW new, NEW n \in Nat PROVE \E f : IsMoving(f, old, new, n - 1)
<1> DEFINE S == {k \in Nat : ~ \E f : IsMoving(f, old, new, k - 1)}
<1> SUFFICES ASSUME S # {} PROVE FALSE
  OBVIOUS
<1>1. PICK k \in S : \A j \in S : k <= j
  BY Least
<1>2. CASE k = 0
  <2>1. PICK f : f = [i \in -1 .. k - 1 |-> new.slots]
    OBVIOUS
  <2>2. ASSUME NEW i \in -1 .. k - 1 PROVE i = -1
    BY <1>2
  <2>3. f = [i \in -1 .. k - 1 |-> IF i = -1 THEN new.slots
                                   ELSE IF old.slots[i] = L!Empty THEN f[i - 1]
                                   ELSE L!Put(f[i - 1], old.slots[i])]
    BY <2>1, <2>2
  <2>4. IsMoving(f, old, new, k - 1)
    BY <2>3, Zenon DEF IsMoving
  <2> QED BY <1>1, <2>4
<1>3. CASE k # 0
  <2>1. k - 1 \in Nat /\ k - 1 \notin S
    BY <1>1, <1>3
  <2>2. PICK f : IsMoving(f, old, new, (k - 1) - 1)
    BY <2>1
  <2>3. PICK l \in Nat : l = k - 1
    BY <2>1
  <2>4. PICK last : last = IF old.slots[l] = L!Empty THEN f[l - 1] ELSE L!Put(f[l - 1], old.slots[l])
    OBVIOUS
  <2>5. PICK g : g = [i \in -1 .. l |-> IF i = l THEN last ELSE f[i]]
    OBVIOUS
  <2>6. \A i \in -1 .. l - 1 : f[i] = IF i = -1 THEN new.slots
                                      ELSE IF old.slots[i] = L!Empty THEN f[i - 1]
                                      ELSE L!Put(f[i - 1], old.slots[i])
    BY <2>2, <2>3 DEF IsMoving
  <2>7. \A i \in -1 .. l - 1 : g[i] = f[i]
    BY <2>5
  <2>8. ASSUME NEW i \in -1 .. l
        PROVE  g[i] = IF i = -1 THEN new.slots
                      ELSE IF old.slots[i] = L!Empty THEN g[i - 1]
                      ELSE L!Put(g[i - 1], old.slots[i])
    <3>1. CASE i = l
      <4>1. g[i - 1] = f[l - 1] /\ g[i] = last /\ i # -1
        BY <2>5, <2>7, <3>1
      <4> QED BY <2>4, <3>1, <4>1
    <3>2. CASE i # l /\ i # -1
      <4>1. i \in -1 .. l - 1 /\ i - 1 \in -1 .. l - 1
        BY <3>2
      <4>2. g[i - 1] = f[i - 1] /\ g[i] = f[i]
        BY <2>7, <4>1
      <4> QED BY <2>6, <3>2, <4>1, <4>2
    <3>3. CASE i # l /\ i = -1
      BY <2>6, <2>7, <3>3
    <3> QED BY <3>1, <3>2, <3>3
  <2>9. g = [i \in -1 .. l |-> IF i = -1 THEN new.slots
                               ELSE IF old.slots[i] = L!Empty THEN g[i - 1]
                               ELSE L!Put(g[i - 1], old.slots[i])]
    BY <2>5, <2>8
  <2>10. IsMoving(g, old, new, k - 1)
    BY <2>3, <2>9, Zenon DEF IsMoving
  <2> QED BY <1>1, <2>10
<1> QED BY <1>2, <1>3

\* satisfies its definition,
LEMMA MovingIs ==
    ASSUME NEW old, NEW new, L!AN(old) \in Nat
    PROVE  /\ Moving(old, new)[-1] = new.slots
           /\ \A i \in 0 .. L!AN(old) - 1 :
                Moving(old, new)[i] = IF old.slots[i] = L!Empty THEN Moving(old, new)[i - 1]
                                      ELSE L!Put(Moving(old, new)[i - 1], old.slots[i])
<1>1. PICK n \in Nat : n = L!AN(old)
  OBVIOUS
<1>2. PICK f : f = Moving(old, new)
  OBVIOUS
<1>3. IsMoving(f, old, new, n - 1)
  BY <1>1, <1>2, MovingExists, Zenon DEF Moving
<1>4. f[-1] = new.slots /\ \A i \in 0 .. n - 1 :
         f[i] = IF old.slots[i] = L!Empty THEN f[i - 1] ELSE L!Put(f[i - 1], old.slots[i])
  BY <1>3 DEF IsMoving
<1> QED BY <1>1, <1>2, <1>4

\* and is what Rehashed uses.
LEMMA MovedIs ==
    ASSUME NEW old, NEW new
    PROVE  L!Rehashed(old, new) = [new EXCEPT !.slots = Moving(old, new)[L!AN(old) - 1],
                                              !.inuse = old.inuse]
BY Zenon DEF L!Rehashed, Moving, IsMoving

\* The numbers in the first places.
Before(h, i) == {h[k] : k \in 0 .. i} \ {-1}

\* All items go to the new table, which has room for them.
LEMMA MovingKeeps ==
    ASSUME HashSlots, NEW old, NEW new, NEW n0 \in Nat \ {0}, L!AN(old) = n0,
           NEW S, IsFiniteSet(S), Keeps(old.slots, n0, S),
           NEW n \in Nat \ {0}, Cardinality(S) < n,
           new.slots = [i \in 0 .. n - 1 |-> -1]
    PROVE  Keeps(Moving(old, new)[n0 - 1], n, S) /\ Probed(Moving(old, new)[n0 - 1], n)
<1>1. PICK h : h = old.slots
  OBVIOUS
<1>2. h \in [0 .. n0 - 1 -> LocaleNumbers \union {-1}]
  BY <1>1 DEF Keeps
<1>3. PICK f : f = Moving(old, new)
  OBVIOUS
<1>4. f[-1] = new.slots /\ \A i \in 0 .. n0 - 1 :
         f[i] = IF h[i] = -1 THEN f[i - 1] ELSE L!Put(f[i - 1], h[i])
  BY <1>1, <1>3, MovingIs DEF L!Empty
<1> DEFINE Good(k) == Keeps(f[k - 1], n, Before(h, k - 1)) /\ Probed(f[k - 1], n)
<1>5. Good(0)
  <2>1. PICK g : g = [i \in 0 .. n - 1 |-> -1]
    OBVIOUS
  <2>2. f[0 - 1] = g /\ Before(h, 0 - 1) = {}
    BY <1>4, <2>1 DEF Before
  <2>3. Keeps(g, n, {}) /\ Probed(g, n)
    BY <2>1 DEF Keeps, Probed
  <2> QED BY <2>2, <2>3
<1>6. ASSUME NEW k \in 0 .. n0 - 1, Good(k) PROVE Good(k + 1)
  <2>1. PICK g : g = f[k - 1]
    OBVIOUS
  <2>2. Keeps(g, n, Before(h, k - 1)) /\ Probed(g, n)
    BY <1>6, <2>1
  <2>3. (k + 1) - 1 = k
    OBVIOUS
  <2>4. Before(h, k) = IF h[k] = -1 THEN Before(h, k - 1) ELSE Before(h, k - 1) \union {h[k]}
    <3>1. \A x : (\E j \in 0 .. k : x = h[j]) <=> (\E j \in 0 .. k - 1 : x = h[j]) \/ x = h[k]
      OBVIOUS
    <3>2. {h[j] : j \in 0 .. k} = {h[j] : j \in 0 .. k - 1} \union {h[k]}
      BY <3>1
    <3> QED BY <3>2 DEF Before
  <2>5. CASE h[k] = -1
    <3>1. f[k] = g /\ Before(h, k) = Before(h, k - 1)
      BY <1>4, <2>1, <2>4, <2>5
    <3> QED BY <2>2, <2>3, <3>1
  <2>6. CASE h[k] # -1
    <3>1. f[k] = L!Put(g, h[k]) /\ Before(h, k) = Before(h, k - 1) \union {h[k]}
      BY <1>4, <2>1, <2>4, <2>6
    <3>2. h[k] \in LocaleNumbers
      BY <1>2, <2>6
    <3>3. h[k] \notin Before(h, k - 1)
      <4> SUFFICES ASSUME NEW j \in 0 .. k - 1, h[j] = h[k] PROVE FALSE
        BY DEF Before
      <4>1. j \in 0 .. n0 - 1 /\ j # k
        OBVIOUS
      <4> QED BY <1>1, <2>6, <4>1 DEF Keeps
    <3>4. Before(h, k - 1) \subseteq S
      <4>1. \A j \in 0 .. k - 1 : j \in 0 .. n0 - 1
        OBVIOUS
      <4> QED BY <1>1, <4>1 DEF Before, Keeps
    <3>5. IsFiniteSet(Before(h, k - 1)) /\ Cardinality(Before(h, k - 1)) < n
      <4>1. /\ IsFiniteSet(Before(h, k - 1)) /\ Cardinality(Before(h, k - 1)) <= Cardinality(S)
        BY <3>4, FS_Subset
      <4>2. Cardinality(Before(h, k - 1)) \in Nat /\ Cardinality(S) \in Nat
        BY <4>1, FS_CardinalityType
      <4> QED BY <4>1, <4>2
    <3>6. \E i \in 0 .. n - 1 : g[i] = -1
      BY <2>2, <3>5, Room
    <3>7. Keeps(L!Put(g, h[k]), n, Before(h, k - 1) \union {h[k]}) /\ Probed(L!Put(g, h[k]), n)
      BY <2>2, <3>2, <3>3, <3>6, PutKeeps
    <3> QED BY <2>3, <3>1, <3>7
  <2> QED BY <2>5, <2>6
<1> HIDE DEF Good
<1>7. Good(n0)
  <2> DEFINE B == {k \in 0 .. n0 : ~ Good(k)}
  <2>1. CASE B = {}
    <3>1. n0 \in 0 .. n0
      OBVIOUS
    <3> QED BY <2>1, <3>1
  <2>2. CASE B # {}
    <3>1. B \subseteq Nat
      OBVIOUS
    <3>2. PICK k \in B : \A j \in B : k <= j
      BY <2>2, <3>1, Least
    <3>3. k # 0
      BY <1>5, <3>2
    <3>4. k - 1 \in 0 .. n0 - 1 /\ k - 1 \in 0 .. n0 /\ ~ (k <= k - 1) /\ (k - 1) + 1 = k
      BY <3>2, <3>3
    <3>5. Good(k - 1)
      BY <3>2, <3>4
    <3>6. Good((k - 1) + 1)
      BY <1>6, <3>4, <3>5
    <3> QED BY <3>2, <3>4, <3>6
  <2> QED BY <2>1, <2>2
<1>8. Before(h, n0 - 1) = S
  <2>1. \A x : x \in S <=> x # -1 /\ \E i \in 0 .. n0 - 1 : x = h[i]
    BY <1>1 DEF Keeps
  <2> QED BY <2>1 DEF Before
<1> QED BY <1>3, <1>7, <1>8 DEF Good

-----------------------------------------------------------------------------
SlotTables == UNION {[0 .. n - 1 -> LocaleNumbers \union {-1}] : n \in Nat}

\* A table with some numbers, and at least one empty place.
BlockSet ==
    {b \in [slots : SlotTables, inuse : Nat, next : 0 .. MaxNumber, freed : BOOLEAN] :
       /\ L!AN(b) \in Nat /\ L!AN(b) >= 3 /\ b.inuse < L!AN(b)
       /\ b.slots \in [0 .. L!AN(b) - 1 -> LocaleNumbers \union {-1}]}

\* The table in use has the living numbers, which were given out before the next one.
InUse(b, lv) ==
    /\ b.freed = FALSE
    /\ Keeps(b.slots, L!AN(b), lv) /\ Probed(b.slots, L!AN(b))
    /\ IsFiniteSet(lv) /\ b.inuse = Cardinality(lv)
    /\ lv \subseteq 0 .. b.next - 1

\* The last table is the one in use, and it is longer than all others.
BlocksOK(bs, s, lv) ==
    /\ bs \in Seq(BlockSet) /\ s = Len(bs) /\ s >= 1
    /\ InUse(bs[s], lv)
    /\ \A i \in 1 .. s - 1 : L!AN(bs[i]) < L!AN(bs[s])

\* A thread that waits knows the table that was in use, and its length.
Waits(bs) == \A t \in Threads : pcL[t] = "extend" =>
    /\ locL[t].obuf \in 1 .. Len(bs)
    /\ locL[t].oldn = L!AN(bs[locL[t].obuf])

LocalesOK ==
    /\ HashSlots
    /\ BlocksOK(blocks, stnum, live)
    /\ live \subseteq issued
    /\ pcL \in [Threads -> {"idle", "extend"}] /\ DOMAIN locL = Threads
    /\ Waits(blocks)
    /\ misuse = FALSE

\* A thread takes a table for its own if it is empty.  If all that another thread moved
\* there was erased meanwhile, nothing is known any more.
LocalesInv == emptied \/ LocalesOK

\* A table of n places.
Shaped(b, n) ==
    /\ b = [slots |-> b.slots, inuse |-> b.inuse, next |-> b.next, freed |-> b.freed]
    /\ b.slots \in [0 .. n - 1 -> LocaleNumbers \union {-1}]
    /\ b.inuse \in 0 .. n - 1 /\ b.next \in 0 .. MaxNumber /\ b.freed \in BOOLEAN

\* A block with the shape of a table of n places is one,
LEMMA BlockIs ==
    ASSUME NEW n \in Nat, n >= 3, NEW b, Shaped(b, n)
    PROVE  b \in BlockSet /\ L!AN(b) = n
<1>0. /\ b = [slots |-> b.slots, inuse |-> b.inuse, next |-> b.next, freed |-> b.freed]
      /\ b.slots \in [0 .. n - 1 -> LocaleNumbers \union {-1}]
      /\ b.inuse \in 0 .. n - 1 /\ b.next \in 0 .. MaxNumber /\ b.freed \in BOOLEAN
  BY DEF Shaped
<1>1. L!AN(b) = n
  <2>1. DOMAIN b.slots = 0 .. n - 1
    BY <1>0
  <2> QED BY <2>1, SameSizeL, Length DEF L!AN
<1>2. b.slots \in SlotTables
  BY <1>0 DEF SlotTables
<1>3. b \in [slots : SlotTables, inuse : Nat, next : 0 .. MaxNumber, freed : BOOLEAN]
  BY <1>0, <1>2
<1>4. b.inuse < n
  BY <1>0
<1> QED BY <1>0, <1>1, <1>3, <1>4 DEF BlockSet

\* and has that shape.
LEMMA BlockHas ==
    ASSUME NEW b \in BlockSet
    PROVE  /\ b = [slots |-> b.slots, inuse |-> b.inuse, next |-> b.next, freed |-> b.freed]
           /\ L!AN(b) \in Nat \ {0} /\ L!AN(b) >= 3
           /\ b.inuse \in 0 .. L!AN(b) - 1 /\ b.next \in 0 .. MaxNumber /\ b.freed \in BOOLEAN
           /\ b.slots \in [0 .. L!AN(b) - 1 -> LocaleNumbers \union {-1}]
<1>1. b \in [slots : SlotTables, inuse : Nat, next : 0 .. MaxNumber, freed : BOOLEAN]
  BY DEF BlockSet
<1>2. /\ L!AN(b) \in Nat /\ L!AN(b) >= 3 /\ b.inuse < L!AN(b)
      /\ b.slots \in [0 .. L!AN(b) - 1 -> LocaleNumbers \union {-1}]
  BY DEF BlockSet
<1>3. b.inuse \in 0 .. L!AN(b) - 1
  BY <1>1, <1>2
<1> QED BY <1>1, <1>2, <1>3

\* While the hash function is the same, tables that are right are right in the next state.
LEMMA SameBlocks ==
    ASSUME BlocksOK(blocks', stnum', live'), hashL' = hashL PROVE BlocksOK(blocks, stnum, live)'
<1>1. \A z, n : L!Slot(z, n)' = L!Slot(z, n)
  BY DEF L!Slot
<1>2. ASSUME NEW h, NEW n PROVE Probed(h, n) => Probed(h, n)'
  <2> SUFFICES ASSUME Probed(h, n), NEW i \in 0 .. n - 1, h[i] # -1
               PROVE  \E d \in 0 .. n - 1 :
                        /\ Behind(L!Slot(h[i], n), d, n)' = i
                        /\ \A e \in 0 .. d - 1 : h[Behind(L!Slot(h[i], n), e, n)'] # -1
    BY Zenon DEF Probed
  <2>1. L!Slot(h[i], n)' = L!Slot(h[i], n)
    BY <1>1, Zenon
  <2>2. \A d : Behind(L!Slot(h[i], n), d, n)' = Behind(L!Slot(h[i], n), d, n)
    BY <2>1, Zenon DEF Behind
  <2>3. \E d \in 0 .. n - 1 :
           /\ Behind(L!Slot(h[i], n), d, n) = i
           /\ \A e \in 0 .. d - 1 : h[Behind(L!Slot(h[i], n), e, n)] # -1
    BY Zenon DEF Probed
  <2> QED BY <2>2, <2>3, Zenon
<1> QED BY <1>2, Zenon DEF BlocksOK, InUse

\* The locale gets the next number: it goes to the table s of bs.
LEMMA InstalledKeeps ==
    ASSUME HashSlots, NEW bs, NEW s, BlocksOK(bs, s, live), Waits(bs), live \subseteq issued,
           pcL \in [Threads -> {"idle", "extend"}], DOMAIN locL = Threads,
           NEW t \in Threads, ~ L!Full(bs[s]), L!Installed(bs, s, t), hashL' = hashL, misuse' = FALSE
    PROVE  LocalesOK'
<1>1. /\ bs \in Seq(BlockSet) /\ s = Len(bs) /\ s \in 1 .. Len(bs)
      /\ InUse(bs[s], live)
      /\ \A i \in 1 .. s - 1 : L!AN(bs[i]) < L!AN(bs[s])
  BY DEF BlocksOK
<1>2. PICK b \in BlockSet : b = bs[s]
  BY <1>1
<1>3. PICK n \in Nat \ {0} : n = L!AN(b) /\ n >= 3
  BY BlockHas
<1>4. /\ b = [slots |-> b.slots, inuse |-> b.inuse, next |-> b.next, freed |-> b.freed]
      /\ b.inuse \in 0 .. n - 1 /\ b.next \in 0 .. MaxNumber /\ b.freed = FALSE
      /\ b.slots \in [0 .. n - 1 -> LocaleNumbers \union {-1}]
      /\ Keeps(b.slots, n, live) /\ Probed(b.slots, n)
      /\ IsFiniteSet(live) /\ b.inuse = Cardinality(live)
      /\ live \subseteq 0 .. b.next - 1
  BY <1>1, <1>2, <1>3, BlockHas DEF InUse
<1>5. PICK z : z = b.next
  OBVIOUS
<1>6. z < MaxNumber /\ z \in Nat /\ z \in LocaleNumbers /\ z + 1 \in 0 .. MaxNumber
  BY <1>2, <1>4, <1>5, LocalesAssumption DEF L!Installed, LocaleNumbers
<1>7. z \notin live
  BY <1>4, <1>5, <1>6
<1>8. PICK g : g = L!Put(b.slots, z)
  OBVIOUS
<1>9. Keeps(g, n, live \union {z}) /\ Probed(g, n)
  <2>1. \E i \in 0 .. n - 1 : b.slots[i] = -1
    BY <1>4, Room
  <2> QED BY <1>4, <1>6, <1>7, <1>8, <2>1, PutKeeps
<1>10. g \in [0 .. n - 1 -> LocaleNumbers \union {-1}]
  BY <1>9 DEF Keeps
<1>11. b.inuse + 1 \in 0 .. n - 1
  <2>1. ~ (2 * b.inuse > n)
    BY <1>2, <1>3 DEF L!Full
  <2> QED BY <1>3, <1>4, <2>1
<1>12. PICK r : r = [slots |-> g, inuse |-> b.inuse + 1, next |-> z + 1, freed |-> b.freed]
  OBVIOUS
<1>13. r \in BlockSet /\ L!AN(r) = n
  <2>1. /\ r.slots = g /\ r.inuse = b.inuse + 1 /\ r.next = z + 1 /\ r.freed = b.freed
    BY <1>12
  <2>2. Shaped(r, n)
    BY <1>4, <1>6, <1>10, <1>11, <1>12, <2>1 DEF Shaped
  <2> QED BY <1>3, <2>2, BlockIs
<1>14. InUse(r, live \union {z})
  <2>1. IsFiniteSet(live \union {z}) /\ Cardinality(live \union {z}) = Cardinality(live) + 1
    BY <1>4, <1>7, FS_AddElement
  <2>2. live \union {z} \subseteq 0 .. (z + 1) - 1
    BY <1>4, <1>5, <1>6
  <2>3. /\ r.slots = g /\ r.inuse = b.inuse + 1 /\ r.next = z + 1 /\ r.freed = FALSE
    BY <1>4, <1>12
  <2> QED BY <1>4, <1>9, <1>13, <2>1, <2>2, <2>3 DEF InUse
<1>15. blocks' = [bs EXCEPT ![s] = r]
  <2>1. blocks' = [bs EXCEPT ![s].next = z + 1, ![s].slots = L!Put(@, z), ![s].inuse = @ + 1]
    BY <1>2, <1>5, Zenon DEF L!Installed
  <2>2. PICK sl, in, nx, fr : /\ b = [slots |-> sl, inuse |-> in, next |-> nx, freed |-> fr]
                              /\ sl = b.slots /\ in = b.inuse /\ fr = b.freed
    BY <1>4
  <2>3. [b EXCEPT !.next = z + 1, !.slots = L!Put(@, z), !.inuse = @ + 1] = r
    <3>1. PICK c, y : c = b.inuse + 1 /\ y = z + 1
      OBVIOUS
    <3>2. [b EXCEPT !.next = z + 1, !.slots = L!Put(@, z), !.inuse = @ + 1]
            = [b EXCEPT !.next = y, !.slots = g, !.inuse = c]
      BY <1>8, <3>1, Zenon
    <3>3. b = [slots |-> sl, inuse |-> in, next |-> nx, freed |-> fr]
      BY <2>2
    <3>4. [b EXCEPT !.next = y, !.slots = g, !.inuse = c]
            = [slots |-> g, inuse |-> c, next |-> y, freed |-> fr]
      <4>1. PICK d : d = [b EXCEPT !.next = y]
        OBVIOUS
      <4>2. PICK e : e = [d EXCEPT !.slots = g]
        OBVIOUS
      <4>3. d = [slots |-> sl, inuse |-> in, next |-> y, freed |-> fr]
        BY <3>3, <4>1
      <4>4. e = [slots |-> g, inuse |-> in, next |-> y, freed |-> fr]
        BY <4>2, <4>3
      <4>5. [e EXCEPT !.inuse = c] = [slots |-> g, inuse |-> c, next |-> y, freed |-> fr]
        BY <4>4
      <4>6. [b EXCEPT !.next = y, !.slots = g, !.inuse = c]
              = [[[b EXCEPT !.next = y] EXCEPT !.slots = g] EXCEPT !.inuse = c]
        BY <3>3
      <4> QED BY <4>1, <4>2, <4>5, <4>6
    <3>5. r = [slots |-> g, inuse |-> c, next |-> y, freed |-> fr]
      BY <1>12, <2>2, <3>1
    <3> QED BY <3>2, <3>4, <3>5
  <2>4. [bs EXCEPT ![s].next = z + 1, ![s].slots = L!Put(@, z), ![s].inuse = @ + 1]
          = [bs EXCEPT ![s] = [b EXCEPT !.next = z + 1, !.slots = L!Put(@, z), !.inuse = @ + 1]]
    BY <1>1, <1>2
  <2> QED BY <2>1, <2>3, <2>4
<1>16. /\ blocks' \in Seq(BlockSet) /\ Len(blocks') = s /\ blocks'[s] = r
       /\ \A k \in 1 .. s : k # s => blocks'[k] = bs[k]
  BY <1>1, <1>13, <1>15, Replaced
<1>17. \A k \in 1 .. s : L!AN(blocks'[k]) = L!AN(bs[k])
  BY <1>2, <1>3, <1>13, <1>16
<1>18. /\ stnum' = s /\ live' = live \union {z} /\ issued' = issued \union {z}
       /\ pcL' = [pcL EXCEPT ![t] = "idle"] /\ locL' = [locL EXCEPT ![t] = L!Nothing]
  BY <1>2, <1>5, Zenon DEF L!Installed
<1>19. BlocksOK(blocks', stnum', live')
  <2>1. \A i \in 1 .. s - 1 : L!AN(blocks'[i]) < L!AN(blocks'[s])
    BY <1>1, <1>17
  <2> QED BY <1>1, <1>14, <1>16, <1>18, <2>1 DEF BlocksOK
<1>20. Waits(blocks)'
  <2> SUFFICES ASSUME NEW u \in Threads, pcL'[u] = "extend"
               PROVE  /\ locL'[u].obuf \in 1 .. Len(blocks')
                      /\ locL'[u].oldn = L!AN(blocks'[locL'[u].obuf])
    BY Zenon DEF Waits, L!AN, L!Cardinality, L!IsFiniteSet
  <2>1. u # t /\ pcL[u] = "extend" /\ locL'[u] = locL[u]
    BY <1>18
  <2>2. /\ locL[u].obuf \in 1 .. s /\ locL[u].oldn = L!AN(bs[locL[u].obuf])
    BY <1>1, <2>1 DEF Waits
  <2> QED BY <1>16, <1>17, <1>18, <2>1, <2>2
<1>21. /\ live' \subseteq issued' /\ DOMAIN locL' = Threads
       /\ pcL' \in [Threads -> {"idle", "extend"}] /\ HashSlots'
  BY <1>18 DEF HashSlots
<1> QED BY <1>19, <1>20, <1>21, SameBlocks DEF LocalesOK

\* The thread waits, with the table s of bs.
LEMMA WaitingKeeps ==
    ASSUME HashSlots, NEW bs, NEW s, BlocksOK(bs, s, live), Waits(bs), live \subseteq issued,
           pcL \in [Threads -> {"idle", "extend"}], DOMAIN locL = Threads,
           NEW t \in Threads, L!Full(bs[s]), L!WaitForMemory(bs, s, t), hashL' = hashL, misuse' = FALSE
    PROVE  LocalesOK'
<1>1. /\ blocks' = bs /\ stnum' = s /\ live' = live /\ issued' = issued
      /\ pcL' = [pcL EXCEPT ![t] = "extend"]
      /\ locL' = [locL EXCEPT ![t] = [obuf |-> s, oldn |-> L!AN(bs[s])]]
  BY Zenon DEF L!WaitForMemory
<1>2. bs \in Seq(BlockSet) /\ s = Len(bs) /\ s \in 1 .. Len(bs) /\ InUse(bs[s], live)
  BY DEF BlocksOK
<1>4. Waits(blocks)'
  <2> SUFFICES ASSUME NEW u \in Threads, pcL'[u] = "extend"
               PROVE  /\ locL'[u].obuf \in 1 .. Len(blocks')
                      /\ locL'[u].oldn = L!AN(blocks'[locL'[u].obuf])
    BY Zenon DEF Waits, L!AN, L!Cardinality, L!IsFiniteSet
  <2>1. CASE u = t
    <3>1. locL'[u] = [obuf |-> s, oldn |-> L!AN(bs[s])]
      BY <1>1, <2>1
    <3>2. locL'[u].obuf = s /\ locL'[u].oldn = L!AN(bs[s])
      BY <3>1
    <3> QED BY <1>1, <1>2, <3>2
  <2>2. CASE u # t
    <3>1. pcL[u] = "extend" /\ locL'[u] = locL[u]
      BY <1>1, <2>2
    <3> QED BY <1>1, <3>1 DEF Waits
  <2> QED BY <2>1, <2>2
<1>5. /\ live' \subseteq issued' /\ DOMAIN locL' = Threads
      /\ pcL' \in [Threads -> {"idle", "extend"}] /\ HashSlots'
  BY <1>1 DEF HashSlots
<1> QED BY <1>1, <1>4, <1>5, SameBlocks DEF LocalesOK

\* The end of jtinstallnl, whichever way it goes.
LEMMA ProceedsKeep ==
    ASSUME HashSlots, NEW bs, NEW s, BlocksOK(bs, s, live), Waits(bs), live \subseteq issued,
           pcL \in [Threads -> {"idle", "extend"}], DOMAIN locL = Threads,
           NEW t \in Threads, L!Proceed(bs, s, t), hashL' = hashL, misuse' = FALSE
    PROVE  LocalesOK'
<1>1. CASE L!Full(bs[s])
  <2>1. L!WaitForMemory(bs, s, t)
    BY <1>1, Zenon DEF L!Proceed
  <2> QED BY <1>1, <2>1, WaitingKeeps
<1>2. CASE ~ L!Full(bs[s])
  <2>1. L!Installed(bs, s, t)
    BY <1>2, Zenon DEF L!Proceed
  <2> QED BY <1>2, <2>1, InstalledKeeps
<1> QED BY <1>1, <1>2

\* The numbers of the old table go to one of twice the size, and the old one is freed.
LEMMA GrownOK ==
    ASSUME HashSlots, NEW s, NEW o, BlocksOK(blocks, s, live), o = s, Waits(blocks),
           NEW bs, bs = [Append(blocks, L!Grown(blocks[s])) EXCEPT
                           ![s + 1] = L!Rehashed(blocks[o], L!Grown(blocks[s])), ![o].freed = TRUE]
    PROVE  BlocksOK(bs, s + 1, live) /\ Waits(bs)
<1>1. /\ blocks \in Seq(BlockSet) /\ s = Len(blocks) /\ s \in 1 .. Len(blocks)
      /\ InUse(blocks[s], live)
      /\ \A i \in 1 .. s - 1 : L!AN(blocks[i]) < L!AN(blocks[s])
  BY DEF BlocksOK
<1>2. PICK b \in BlockSet : b = blocks[s]
  BY <1>1
<1>3. PICK n \in Nat \ {0} : n = L!AN(b) /\ n >= 3
  BY BlockHas
<1>4. /\ b = [slots |-> b.slots, inuse |-> b.inuse, next |-> b.next, freed |-> b.freed]
      /\ b.inuse \in 0 .. n - 1 /\ b.next \in 0 .. MaxNumber /\ b.freed = FALSE
      /\ b.slots \in [0 .. n - 1 -> LocaleNumbers \union {-1}]
      /\ Keeps(b.slots, n, live) /\ Probed(b.slots, n)
      /\ IsFiniteSet(live) /\ b.inuse = Cardinality(live)
      /\ live \subseteq 0 .. b.next - 1
  BY <1>1, <1>2, <1>3, BlockHas DEF InUse
<1>5. PICK m \in Nat \ {0} : m = 2 * n + 1
  OBVIOUS
<1>6. PICK y : y = L!Grown(b)
  OBVIOUS
<1>7. y = [slots |-> [i \in 0 .. m - 1 |-> -1], inuse |-> 0, next |-> b.next, freed |-> FALSE]
  BY <1>3, <1>5, <1>6 DEF L!Grown, L!NewBlock, L!Empty
<1>8. y \in BlockSet /\ L!AN(y) = m
  <2>1. [i \in 0 .. m - 1 |-> -1] \in [0 .. m - 1 -> LocaleNumbers \union {-1}]
    OBVIOUS
  <2>2. m \in Nat /\ m >= 3 /\ 0 \in 0 .. m - 1
    BY <1>5
  <2>3. /\ y.slots = [i \in 0 .. m - 1 |-> -1] /\ y.inuse = 0 /\ y.next = b.next /\ y.freed = FALSE
    BY <1>7
  <2>4. Shaped(y, m)
    BY <1>4, <1>7, <2>1, <2>2, <2>3 DEF Shaped
  <2> QED BY <2>2, <2>4, BlockIs
<1>9. PICK g : g = Moving(b, y)[n - 1]
  OBVIOUS
<1>10. Keeps(g, m, live) /\ Probed(g, m)
  <2>1. y.slots = [i \in 0 .. m - 1 |-> -1]
    BY <1>7
  <2>2. Cardinality(live) < m
    BY <1>4, <1>5
  <2> QED BY <1>3, <1>4, <1>9, <2>1, <2>2, MovingKeeps
<1>11. PICK r : r = [slots |-> g, inuse |-> b.inuse, next |-> b.next, freed |-> FALSE]
  OBVIOUS
<1>12. L!Rehashed(b, y) = r
  <2>1. L!Rehashed(b, y) = [y EXCEPT !.slots = g, !.inuse = b.inuse]
    BY <1>3, <1>9, MovedIs, Zenon
  <2>2. PICK in, nx : in = b.inuse /\ nx = b.next
    OBVIOUS
  <2>3. PICK d : d = [y EXCEPT !.slots = g]
    OBVIOUS
  <2>4. PICK none, no : none = 0 /\ no = FALSE
    OBVIOUS
  <2>5. [d EXCEPT !.inuse = in] = [slots |-> g, inuse |-> in, next |-> nx, freed |-> no]
    <3>1. d = [slots |-> g, inuse |-> none, next |-> nx, freed |-> no]
      BY <1>7, <2>2, <2>3, <2>4
    <3> QED BY <3>1
  <2>6. [y EXCEPT !.slots = g, !.inuse = in] = [[y EXCEPT !.slots = g] EXCEPT !.inuse = in]
    BY <1>7
  <2> QED BY <1>11, <2>1, <2>2, <2>3, <2>4, <2>5, <2>6
<1>13. r \in BlockSet /\ L!AN(r) = m
  <2>1. g \in [0 .. m - 1 -> LocaleNumbers \union {-1}]
    BY <1>10 DEF Keeps
  <2>2. b.inuse \in 0 .. m - 1 /\ m \in Nat /\ m >= 3
    BY <1>3, <1>4, <1>5
  <2>3. r.slots = g /\ r.inuse = b.inuse /\ r.next = b.next /\ r.freed = FALSE
    BY <1>11
  <2>4. Shaped(r, m)
    BY <1>4, <1>11, <2>1, <2>2, <2>3 DEF Shaped
  <2> QED BY <2>2, <2>4, BlockIs
<1>14. InUse(r, live)
  <2>1. r.slots = g /\ r.inuse = b.inuse /\ r.next = b.next /\ r.freed = FALSE
    BY <1>11
  <2> QED BY <1>4, <1>10, <1>13, <2>1 DEF InUse
<1>15. PICK f : f = [b EXCEPT !.freed = TRUE]
  OBVIOUS
<1>16. f \in BlockSet /\ L!AN(f) = n
  <2>1. PICK slots, in, nx, fr :
           /\ b = [slots |-> slots, inuse |-> in, next |-> nx, freed |-> fr]
           /\ slots = b.slots /\ in = b.inuse /\ nx = b.next
    BY <1>4
  <2>2. f = [slots |-> slots, inuse |-> in, next |-> nx, freed |-> TRUE]
    BY <1>15, <2>1
  <2>3. f.slots = slots /\ f.inuse = in /\ f.next = nx /\ f.freed = TRUE
    BY <2>2
  <2>4. Shaped(f, n)
    BY <1>4, <2>1, <2>2, <2>3 DEF Shaped
  <2>5. n \in Nat /\ n >= 3
    BY <1>3
  <2> QED BY <2>4, <2>5, BlockIs
<1>17. /\ bs \in Seq(BlockSet) /\ Len(bs) = s + 1 /\ bs[s + 1] = r /\ bs[s] = f
       /\ \A k \in 1 .. s - 1 : bs[k] = blocks[k]
  <2>1. PICK a : a = Append(blocks, y)
    OBVIOUS
  <2>2. /\ a \in Seq(BlockSet) /\ Len(a) = s + 1 /\ \A k \in 1 .. s : a[k] = blocks[k]
    BY <1>1, <1>8, <2>1
  <2>3. PICK c : c = [a EXCEPT ![s + 1] = r]
    OBVIOUS
  <2>4. s + 1 \in 1 .. Len(a) /\ s \in 1 .. Len(a) /\ s # s + 1
    BY <1>1, <2>2
  <2>5. /\ c \in Seq(BlockSet) /\ Len(c) = s + 1 /\ c[s + 1] = r
        /\ \A k \in 1 .. s : c[k] = blocks[k]
    <3>1. \A k \in 1 .. s : k \in 1 .. Len(a) /\ k # s + 1
      BY <1>1, <2>2
    <3>2. /\ c \in Seq(BlockSet) /\ Len(c) = Len(a) /\ c[s + 1] = r
          /\ \A k \in 1 .. Len(a) \ {s + 1} : c[k] = a[k]
      BY <1>13, <2>2, <2>3, <2>4, Replaced
    <3> QED BY <2>2, <3>1, <3>2
  <2>6. bs = [c EXCEPT ![s] = f]
    <3>1. bs = [a EXCEPT ![s + 1] = r, ![s].freed = TRUE]
      BY <1>2, <1>6, <1>12, <2>1, Zenon
    <3>2. bs = [c EXCEPT ![s].freed = TRUE]
      BY <2>2, <2>3, <2>4, <3>1
    <3>3. [c EXCEPT ![s].freed = TRUE] = [c EXCEPT ![s] = [c[s] EXCEPT !.freed = TRUE]]
      BY <2>4, <2>5
    <3>4. c[s] = b
      BY <1>1, <1>2, <2>5
    <3> QED BY <1>15, <3>2, <3>3, <3>4, Zenon
  <2>7. s \in 1 .. Len(c)
    BY <2>4, <2>5, <2>2
  <2>8. /\ bs \in Seq(BlockSet) /\ Len(bs) = Len(c) /\ bs[s] = f
        /\ \A k \in 1 .. Len(c) \ {s} : bs[k] = c[k]
    <3>1. c \in Seq(BlockSet) /\ f \in BlockSet
      BY <1>16, <2>5
    <3>2. PICK w : w = [c EXCEPT ![s] = f]
      OBVIOUS
    <3>3. /\ w \in Seq(BlockSet) /\ Len(w) = Len(c) /\ w[s] = f
          /\ \A k \in 1 .. Len(c) \ {s} : w[k] = c[k]
      BY <2>7, <3>1, <3>2, Replaced
    <3> QED BY <2>6, <3>2, <3>3, Zenon
  <2>9. /\ s + 1 \in 1 .. Len(c) \ {s}
        /\ \A k \in 1 .. s - 1 : k \in 1 .. Len(c) \ {s} /\ k \in 1 .. s
    BY <1>1, <2>5
  <2> QED BY <2>5, <2>8, <2>9
<1>18. \A k \in 1 .. s : L!AN(bs[k]) = L!AN(blocks[k])
  <2>1. \A k \in 1 .. s : k = s \/ k \in 1 .. s - 1
    BY <1>1
  <2> QED BY <1>2, <1>3, <1>16, <1>17, <2>1
<1>19. BlocksOK(bs, s + 1, live)
  <2>1. \A k \in 1 .. s : L!AN(blocks[k]) \in Nat /\ L!AN(blocks[k]) <= n
    <3>1. ASSUME NEW k \in 1 .. s PROVE L!AN(blocks[k]) \in Nat
      <4>1. blocks[k] \in BlockSet
        BY <1>1
      <4> QED BY <4>1, BlockHas
    <3>2. \A k \in 1 .. s - 1 : L!AN(blocks[k]) < n
      BY <1>1, <1>2, <1>3
    <3>3. \A k \in 1 .. s : k = s \/ k \in 1 .. s - 1
      BY <1>1
    <3> QED BY <1>2, <1>3, <3>1, <3>2, <3>3
  <2>2. \A k \in 1 .. (s + 1) - 1 : L!AN(bs[k]) < L!AN(bs[s + 1])
    <3>1. ASSUME NEW k \in 1 .. s PROVE L!AN(bs[k]) < m
      <4>1. PICK a \in Nat : a = L!AN(blocks[k]) /\ a <= n
        BY <2>1
      <4>2. a < m
        BY <1>5, <4>1
      <4> QED BY <1>18, <4>1, <4>2
    <3>2. L!AN(bs[s + 1]) = m
      BY <1>13, <1>17
    <3>3. (s + 1) - 1 = s
      BY <1>1
    <3> QED BY <3>1, <3>2, <3>3
  <2>3. s + 1 >= 1
    BY <1>1
  <2> QED BY <1>14, <1>17, <2>2, <2>3 DEF BlocksOK
<1>20. Waits(bs)
  <2> SUFFICES ASSUME NEW u \in Threads, pcL[u] = "extend"
               PROVE  /\ locL[u].obuf \in 1 .. Len(bs)
                      /\ locL[u].oldn = L!AN(bs[locL[u].obuf])
    BY DEF Waits
  <2>1. /\ locL[u].obuf \in 1 .. s /\ locL[u].oldn = L!AN(blocks[locL[u].obuf])
    BY <1>1 DEF Waits
  <2>2. locL[u].obuf \in 1 .. s + 1
    BY <1>1, <2>1
  <2> QED BY <1>17, <1>18, <2>1, <2>2
<1> QED BY <1>19, <1>20

\* The lock is back after the allocation.
LEMMA ResumesKeep ==
    ASSUME LocalesOK, NEW t \in Threads, L!Resume(t) PROVE LocalesInv'
<1>1. /\ HashSlots /\ BlocksOK(blocks, stnum, live) /\ Waits(blocks) /\ live \subseteq issued
      /\ pcL \in [Threads -> {"idle", "extend"}] /\ DOMAIN locL = Threads /\ misuse = FALSE
  BY DEF LocalesOK
<1>2. PICK o, oldn : o = locL[t].obuf /\ oldn = locL[t].oldn
  OBVIOUS
<1>3. pcL[t] = "extend" /\ hashL' = hashL
  BY Zenon DEF L!Resume
<1>4. o \in 1 .. Len(blocks) /\ oldn = L!AN(blocks[o])
  BY <1>1, <1>2, <1>3 DEF Waits
<1>5. PICK s : s = stnum
  OBVIOUS
<1>6. /\ blocks \in Seq(BlockSet) /\ s = Len(blocks) /\ s \in 1 .. Len(blocks)
      /\ InUse(blocks[s], live)
      /\ \A i \in 1 .. s - 1 : L!AN(blocks[i]) < L!AN(blocks[s])
  BY <1>1, <1>5 DEF BlocksOK
<1>7. PICK bs, z : /\ bs = IF L!AN(blocks[s]) = oldn THEN Append(blocks, L!Grown(blocks[s])) ELSE blocks
                   /\ z = IF L!AN(blocks[s]) = oldn THEN Len(bs) ELSE s
  OBVIOUS
<1>8. IF bs[z].inuse = 0
      THEN /\ misuse' = (misuse \/ blocks[o].freed)
           /\ emptied' = (emptied \/ ~ (L!AN(blocks[s]) = oldn))
           /\ L!Proceed([bs EXCEPT ![z] = L!Rehashed(bs[o], @), ![o].freed = TRUE], z, t)
      ELSE misuse' = misuse /\ L!Proceed(bs, z, t)
  BY <1>2, <1>5, <1>7, Zenon DEF L!Resume
<1>9. CASE L!AN(blocks[s]) = oldn
  <2>1. o = s
    <3>1. blocks[o] \in BlockSet
      BY <1>4, <1>6
    <3>2. L!AN(blocks[o]) \in Nat /\ L!AN(blocks[o]) = L!AN(blocks[s])
      BY <1>4, <1>9, <3>1, BlockHas
    <3>3. ~ (o \in 1 .. s - 1)
      BY <1>6, <3>2
    <3> QED BY <1>4, <1>6, <3>3
  <2>2. PICK y : y = L!Grown(blocks[s])
    OBVIOUS
  <2>3. bs = Append(blocks, y)
    BY <1>7, <1>9, <2>2
  <2>4. /\ Len(bs) = s + 1 /\ bs[s + 1] = y /\ bs[o] = blocks[o]
    BY <1>6, <2>1, <2>3
  <2>5. z = s + 1
    BY <1>7, <1>9, <2>4
  <2>6. y.inuse = 0
    BY <2>2 DEF L!Grown, L!NewBlock
  <2>7. bs[z].inuse = 0
    BY <2>4, <2>5, <2>6
  <2>8. /\ misuse' = (misuse \/ blocks[o].freed)
        /\ L!Proceed([bs EXCEPT ![z] = L!Rehashed(bs[o], bs[z]), ![o].freed = TRUE], z, t)
    BY <1>8, <2>7, Zenon
  <2>9. misuse' = FALSE
    BY <1>1, <1>6, <2>1, <2>8 DEF InUse
  <2>10. PICK w : w = [bs EXCEPT ![z] = L!Rehashed(bs[o], bs[z]), ![o].freed = TRUE]
    OBVIOUS
  <2>11. w = [Append(blocks, L!Grown(blocks[s])) EXCEPT
                ![s + 1] = L!Rehashed(blocks[o], L!Grown(blocks[s])), ![o].freed = TRUE]
    BY <2>2, <2>3, <2>4, <2>5, <2>10, Zenon
  <2>12. BlocksOK(w, s + 1, live) /\ Waits(w)
    BY <1>1, <1>5, <2>1, <2>11, GrownOK
  <2>13. L!Proceed(w, s + 1, t)
    BY <2>5, <2>8, <2>10, Zenon
  <2> QED BY <1>1, <1>3, <2>9, <2>12, <2>13, ProceedsKeep DEF LocalesInv
<1>10. CASE L!AN(blocks[s]) # oldn
  <2>1. bs = blocks /\ z = s
    BY <1>7, <1>10
  <2>2. CASE blocks[s].inuse = 0
    BY <1>8, <1>10, <2>1, <2>2, Zenon DEF LocalesInv
  <2>3. CASE blocks[s].inuse # 0
    <3>1. misuse' = misuse /\ L!Proceed(blocks, stnum, t)
      BY <1>5, <1>8, <2>1, <2>3, Zenon
    <3>2. misuse' = FALSE
      BY <1>1, <3>1
    <3> QED BY <1>1, <1>3, <3>1, <3>2, ProceedsKeep DEF LocalesInv
  <2> QED BY <2>2, <2>3
<1> QED BY <1>9, <1>10

\* A locale is installed, or its thread begins to wait.
LEMMA InstallsKeep ==
    ASSUME LocalesOK, NEW t \in Threads, L!Install(t) PROVE LocalesOK'
<1>1. /\ HashSlots /\ BlocksOK(blocks, stnum, live) /\ Waits(blocks) /\ live \subseteq issued
      /\ pcL \in [Threads -> {"idle", "extend"}] /\ DOMAIN locL = Threads /\ misuse = FALSE
  BY DEF LocalesOK
<1>2. L!Proceed(blocks, stnum, t) /\ hashL' = hashL /\ misuse' = misuse
  BY Zenon DEF L!Install
<1>3. misuse' = FALSE
  BY <1>1, <1>2
<1> QED BY <1>1, <1>2, <1>3, ProceedsKeep

\* Nothing is done with the tables, and no thread begins to wait.
LEMMA SameTables ==
    ASSUME LocalesOK, UNCHANGED <<blocks, stnum, hashL, live, issued, misuse>>,
           pcL' \in [Threads -> {"idle", "extend"}], DOMAIN locL' = Threads,
           \A u \in Threads : pcL'[u] = "extend" => pcL[u] = "extend" /\ locL'[u] = locL[u]
    PROVE  LocalesOK'
<1>1. /\ HashSlots /\ BlocksOK(blocks, stnum, live) /\ Waits(blocks) /\ live \subseteq issued
      /\ misuse = FALSE
  BY DEF LocalesOK
<1>2. BlocksOK(blocks', stnum', live')
  BY <1>1
<1>3. Waits(blocks)'
  <2> SUFFICES ASSUME NEW u \in Threads, pcL'[u] = "extend"
               PROVE  /\ locL'[u].obuf \in 1 .. Len(blocks')
                      /\ locL'[u].oldn = L!AN(blocks'[locL'[u].obuf])
    BY Zenon DEF Waits, L!AN, L!Cardinality, L!IsFiniteSet
  <2>1. pcL[u] = "extend" /\ locL'[u] = locL[u]
    BY Zenon
  <2> QED BY <1>1, <2>1 DEF Waits
<1>4. HashSlots' /\ live' \subseteq issued' /\ misuse' = FALSE
  BY <1>1 DEF HashSlots
<1> QED BY <1>2, <1>3, <1>4, SameBlocks DEF LocalesOK

\* There is no memory.
LEMMA FailsKeep ==
    ASSUME LocalesOK, NEW t \in Threads, L!Fail(t) PROVE LocalesOK'
<1>1. pcL \in [Threads -> {"idle", "extend"}] /\ DOMAIN locL = Threads
  BY DEF LocalesOK
<1>2. /\ UNCHANGED <<blocks, stnum, hashL, live, issued, misuse>>
      /\ pcL' = [pcL EXCEPT ![t] = "idle"] /\ locL' = [locL EXCEPT ![t] = L!Nothing]
  BY Zenon DEF L!Fail
<1>3. /\ pcL' \in [Threads -> {"idle", "extend"}] /\ DOMAIN locL' = Threads
      /\ \A u \in Threads : pcL'[u] = "extend" => pcL[u] = "extend" /\ locL'[u] = locL[u]
  BY <1>1, <1>2
<1> QED BY <1>2, <1>3, SameTables

\* A number is erased, if it is there, and the others are found where they go.
LEMMA ErasesKeep ==
    ASSUME LocalesOK, NEW z \in L!Numbers, L!Erase(z) PROVE LocalesOK'
<1>1. /\ HashSlots /\ BlocksOK(blocks, stnum, live) /\ Waits(blocks) /\ live \subseteq issued
      /\ pcL \in [Threads -> {"idle", "extend"}] /\ DOMAIN locL = Threads /\ misuse = FALSE
  BY DEF LocalesOK
<1>2. PICK s : s = stnum
  OBVIOUS
<1>3. /\ blocks \in Seq(BlockSet) /\ s = Len(blocks) /\ s \in 1 .. Len(blocks)
      /\ InUse(blocks[s], live)
      /\ \A i \in 1 .. s - 1 : L!AN(blocks[i]) < L!AN(blocks[s])
  BY <1>1, <1>2 DEF BlocksOK
<1>4. PICK b \in BlockSet : b = blocks[s]
  BY <1>3
<1>5. PICK n \in Nat \ {0} : n = L!AN(b) /\ n >= 3
  BY BlockHas
<1>6. /\ b = [slots |-> b.slots, inuse |-> b.inuse, next |-> b.next, freed |-> b.freed]
      /\ b.inuse \in 0 .. n - 1 /\ b.next \in 0 .. MaxNumber /\ b.freed = FALSE
      /\ b.slots \in [0 .. n - 1 -> LocaleNumbers \union {-1}]
      /\ Keeps(b.slots, n, live) /\ Probed(b.slots, n)
      /\ IsFiniteSet(live) /\ b.inuse = Cardinality(live)
      /\ live \subseteq 0 .. b.next - 1
  BY <1>3, <1>4, <1>5, BlockHas DEF InUse
<1>7. z \in LocaleNumbers
  BY Zenon DEF L!Numbers, LocaleNumbers
<1>8. PICK p : p = L!Place(b.slots, z)
  OBVIOUS
<1>9. \E i \in 0 .. n - 1 : b.slots[i] = -1
  BY <1>6, Room
<1>10. b.slots[p] = IF z \in live THEN z ELSE -1
  BY <1>1, <1>6, <1>7, <1>8, <1>9, SearchEnds
<1>11. L!Found(b, z) <=> z \in live
  <2>1. z # -1
    BY <1>7 DEF LocaleNumbers
  <2> QED BY <1>8, <1>10, <2>1 DEF L!Found
<1>12. PICK g : g = L!Closed(b.slots, p)
  OBVIOUS
<1>13. Keeps(g, n, live \ {z}) /\ Probed(g, n)
  BY <1>1, <1>6, <1>7, <1>8, <1>9, <1>12, ClosedKeeps
<1>14. g \in [0 .. n - 1 -> LocaleNumbers \union {-1}]
  BY <1>13 DEF Keeps
<1>15. PICK left : left = IF z \in live THEN b.inuse - 1 ELSE b.inuse
  OBVIOUS
<1>16. /\ IsFiniteSet(live \ {z}) /\ left = Cardinality(live \ {z}) /\ left \in 0 .. n - 1
  <2>1. CASE z \in live
    <3>1. Cardinality(live \ {z}) = Cardinality(live) - 1 /\ IsFiniteSet(live \ {z})
      BY <1>6, <2>1, FS_RemoveElement
    <3>2. Cardinality(live \ {z}) \in Nat
      BY <3>1, FS_CardinalityType
    <3> QED BY <1>6, <1>15, <2>1, <3>1, <3>2
  <2>2. CASE z \notin live
    <3>1. live \ {z} = live
      BY <2>2
    <3> QED BY <1>6, <1>15, <2>2, <3>1
  <2> QED BY <2>1, <2>2
<1>17. PICK r : r = [slots |-> g, inuse |-> left, next |-> b.next, freed |-> b.freed]
  OBVIOUS
<1>18. r \in BlockSet /\ L!AN(r) = n
  <2>1. r.slots = g /\ r.inuse = left /\ r.next = b.next /\ r.freed = b.freed
    BY <1>17
  <2>2. Shaped(r, n)
    BY <1>6, <1>14, <1>16, <1>17, <2>1 DEF Shaped
  <2> QED BY <1>5, <2>2, BlockIs
<1>19. InUse(r, live \ {z})
  <2>1. r.slots = g /\ r.inuse = left /\ r.next = b.next /\ r.freed = FALSE
    BY <1>6, <1>17
  <2>2. live \ {z} \subseteq 0 .. b.next - 1
    BY <1>6, <1>7
  <2> QED BY <1>13, <1>16, <1>18, <2>1, <2>2 DEF InUse
<1>20. L!Erased(b, z) = r
  <2>1. PICK sl, in, nx, fr : /\ b = [slots |-> sl, inuse |-> in, next |-> nx, freed |-> fr]
                              /\ sl = b.slots /\ in = b.inuse /\ nx = b.next /\ fr = b.freed
    BY <1>6
  <2>2. L!Erased(b, z) = [b EXCEPT !.slots = g, !.inuse = left]
    <3>1. L!Erased(b, z) = [b EXCEPT !.slots = L!Closed(@, L!Place(@, z)),
                                     !.inuse = IF L!Found(b, z) THEN @ - 1 ELSE @]
      BY Zenon DEF L!Erased
    <3>2. [b EXCEPT !.slots = L!Closed(@, L!Place(@, z)), !.inuse = IF L!Found(b, z) THEN @ - 1 ELSE @]
            = [b EXCEPT !.slots = L!Closed(b.slots, L!Place(b.slots, z)),
                        !.inuse = IF L!Found(b, z) THEN b.inuse - 1 ELSE b.inuse]
      BY <2>1
    <3>3. (IF L!Found(b, z) THEN b.inuse - 1 ELSE b.inuse) = left
      BY <1>11, <1>15
    <3> QED BY <1>8, <1>12, <3>1, <3>2, <3>3, Zenon
  <2>3. [b EXCEPT !.slots = g, !.inuse = left]
          = [slots |-> g, inuse |-> left, next |-> nx, freed |-> fr]
    <3>1. PICK d : d = [b EXCEPT !.slots = g]
      OBVIOUS
    <3>2. d = [slots |-> g, inuse |-> in, next |-> nx, freed |-> fr]
      <4>1. b = [slots |-> sl, inuse |-> in, next |-> nx, freed |-> fr]
        BY <2>1
      <4> QED BY <3>1, <4>1
    <3>3. [d EXCEPT !.inuse = left] = [slots |-> g, inuse |-> left, next |-> nx, freed |-> fr]
      BY <3>2
    <3>4. [b EXCEPT !.slots = g, !.inuse = left] = [[b EXCEPT !.slots = g] EXCEPT !.inuse = left]
      BY <2>1
    <3> QED BY <3>1, <3>3, <3>4
  <2> QED BY <1>17, <2>1, <2>2, <2>3
<1>21. /\ blocks' = [blocks EXCEPT ![s] = r] /\ live' = live \ {z}
       /\ UNCHANGED <<stnum, hashL, pcL, locL, issued, misuse>>
  <2>1. /\ blocks' = [blocks EXCEPT ![s] = L!Erased(@, z)] /\ live' = live \ {z}
        /\ UNCHANGED <<stnum, hashL, pcL, locL, issued, misuse>>
    BY <1>2, Zenon DEF L!Erase
  <2>2. [blocks EXCEPT ![s] = L!Erased(@, z)] = [blocks EXCEPT ![s] = L!Erased(blocks[s], z)]
    BY <1>3
  <2> QED BY <1>4, <1>20, <2>1, <2>2, Zenon
<1>22. /\ blocks' \in Seq(BlockSet) /\ Len(blocks') = s /\ blocks'[s] = r
       /\ \A k \in 1 .. s : k # s => blocks'[k] = blocks[k]
  <2>1. PICK w : w = [blocks EXCEPT ![s] = r]
    OBVIOUS
  <2>2. /\ w \in Seq(BlockSet) /\ Len(w) = Len(blocks) /\ w[s] = r
        /\ \A k \in 1 .. Len(blocks) \ {s} : w[k] = blocks[k]
    BY <1>3, <1>18, <2>1, Replaced
  <2> QED BY <1>3, <1>21, <2>1, <2>2
<1>23. \A k \in 1 .. s : L!AN(blocks'[k]) = L!AN(blocks[k])
  BY <1>4, <1>5, <1>18, <1>22
<1>24. BlocksOK(blocks', stnum', live')
  <2>1. \A i \in 1 .. s - 1 : L!AN(blocks'[i]) < L!AN(blocks'[s])
    BY <1>3, <1>23
  <2>2. stnum' = s /\ s >= 1
    <3>1. stnum' = s
      BY <1>2, <1>21, Zenon
    <3> QED BY <1>3, <3>1
  <2>3. InUse(blocks'[s], live')
    BY <1>19, <1>21, <1>22, Zenon
  <2>4. blocks' \in Seq(BlockSet) /\ s = Len(blocks')
    BY <1>22
  <2> QED BY <2>1, <2>2, <2>3, <2>4, Zenon DEF BlocksOK
<1>25. Waits(blocks)'
  <2> SUFFICES ASSUME NEW u \in Threads, pcL'[u] = "extend"
               PROVE  /\ locL'[u].obuf \in 1 .. Len(blocks')
                      /\ locL'[u].oldn = L!AN(blocks'[locL'[u].obuf])
    BY Zenon DEF Waits, L!AN, L!Cardinality, L!IsFiniteSet
  <2>1. pcL[u] = "extend" /\ locL'[u] = locL[u]
    BY <1>21
  <2>2. locL[u].obuf \in 1 .. s /\ locL[u].oldn = L!AN(blocks[locL[u].obuf])
    BY <1>1, <1>3, <2>1 DEF Waits
  <2> QED BY <1>7, <1>21, <1>22, <1>23, <2>1, <2>2
<1>26. /\ live' \subseteq issued' /\ DOMAIN locL' = Threads /\ misuse' = FALSE
       /\ pcL' \in [Threads -> {"idle", "extend"}] /\ HashSlots' /\ hashL' = hashL
  BY <1>1, <1>21 DEF HashSlots
<1> QED BY <1>24, <1>25, <1>26, SameBlocks DEF LocalesOK

\* The first table is empty.
LEMMA LocalesStart == ASSUME L!Init PROVE LocalesOK
<1>1. /\ blocks = <<L!NewBlock(LocaleSize, 0)>> /\ stnum = 1 /\ hashL \in Hashes
      /\ pcL = [t \in Threads |-> "idle"] /\ locL = [t \in Threads |-> L!Nothing]
      /\ live = {} /\ misuse = FALSE
  BY Zenon DEF L!Init
<1>2. PICK n \in Nat \ {0} : n = LocaleSize /\ n >= 3
  BY LocalesAssumption
<1>3. PICK r : r = L!NewBlock(LocaleSize, 0)
  OBVIOUS
<1>4. r = [slots |-> [i \in 0 .. n - 1 |-> -1], inuse |-> 0, next |-> 0, freed |-> FALSE]
  BY <1>2, <1>3 DEF L!NewBlock, L!Empty
<1>5. PICK h : h = [i \in 0 .. n - 1 |-> -1]
  OBVIOUS
<1>6. r.slots = h /\ r.inuse = 0 /\ r.next = 0 /\ r.freed = FALSE
  BY <1>4, <1>5
<1>7. h \in [0 .. n - 1 -> LocaleNumbers \union {-1}] /\ \A i \in 0 .. n - 1 : h[i] = -1
  BY <1>5
<1>8. r \in BlockSet /\ L!AN(r) = n
  <2>1. 0 \in 0 .. n - 1 /\ 0 \in 0 .. MaxNumber
    BY <1>2, LocalesAssumption
  <2>2. Shaped(r, n)
    BY <1>4, <1>5, <1>6, <1>7, <2>1 DEF Shaped
  <2> QED BY <1>2, <2>2, BlockIs
<1>9. InUse(r, live)
  <2>1. Keeps(h, n, {})
    BY <1>7 DEF Keeps
  <2>2. Probed(h, n)
    BY <1>7 DEF Probed
  <2>3. IsFiniteSet({}) /\ Cardinality({}) = 0
    BY FS_EmptySet
  <2> QED BY <1>1, <1>6, <1>8, <2>1, <2>2, <2>3 DEF InUse
<1>10. BlocksOK(blocks, stnum, live)
  <2>1. blocks = <<r>>
    BY <1>1, <1>3
  <2>2. blocks \in Seq(BlockSet) /\ Len(blocks) = 1 /\ blocks[1] = r
    BY <1>8, <2>1
  <2> QED BY <1>1, <1>9, <2>2 DEF BlocksOK
<1>11. HashSlots
  BY <1>1, LocalesAssumption DEF HashSlots, LocaleNumbers
<1>12. pcL \in [Threads -> {"idle", "extend"}] /\ DOMAIN locL = Threads /\ Waits(blocks)
  BY <1>1 DEF Waits
<1> QED BY <1>1, <1>10, <1>11, <1>12 DEF LocalesOK

\* Every step keeps the invariant; those of other tables do not disturb it.
LEMMA LocalesSteps == ASSUME LocalesInv, [TablesNext]_allVars PROVE LocalesInv'
<1>1. CASE emptied
  <2>1. ASSUME L!Next PROVE emptied'
    <3>1. ASSUME NEW t \in Threads, L!Install(t) \/ L!Fail(t) \/ L!Resume(t) PROVE emptied'
      BY <1>1, <3>1, Zenon DEF L!Install, L!Fail, L!Resume
    <3>2. ASSUME NEW z \in L!Numbers, L!Erase(z) PROVE emptied'
      BY <1>1, <3>2, Zenon DEF L!Erase
    <3> QED BY <2>1, <3>1, <3>2, Zenon DEF L!Next
  <2>2. ASSUME UNCHANGED localesVars PROVE emptied'
    BY <1>1, <2>2 DEF localesVars
  <2> QED BY <2>1, <2>2, Zenon DEF TablesNext, allVars, LocalesInv
<1>2. CASE LocalesOK
  <2>1. CASE L!Next
    <3>1. CASE \E t \in Threads : L!Install(t) \/ L!Fail(t) \/ L!Resume(t)
      <4>1. PICK t \in Threads : L!Install(t) \/ L!Fail(t) \/ L!Resume(t)
        BY <3>1
      <4> QED BY <1>2, <4>1, InstallsKeep, FailsKeep, ResumesKeep DEF LocalesInv
    <3>2. CASE \E z \in L!Numbers : L!Erase(z)
      BY <1>2, <3>2, ErasesKeep DEF LocalesInv
    <3> QED BY <2>1, <3>1, <3>2, Zenon DEF L!Next
  <2>2. CASE UNCHANGED localesVars
    <3>1. UNCHANGED <<blocks, stnum, hashL, live, issued, misuse>> /\ pcL' = pcL /\ locL' = locL
      BY <2>2 DEF localesVars
    <3>2. pcL \in [Threads -> {"idle", "extend"}] /\ DOMAIN locL = Threads
      BY <1>2 DEF LocalesOK
    <3> QED BY <1>2, <3>1, <3>2, SameTables DEF LocalesInv
  <2> QED BY <2>1, <2>2, Zenon DEF TablesNext, allVars
<1> QED BY <1>1, <1>2, Zenon DEF LocalesInv

\* The inductive invariant of the table of numbered locales: each table has its items on
\* their way from their slots, the table in use is the longest, and who waits for memory
\* knows it by its length (sl.c:82-165).  That lasts until a thread takes for its own the
\* table that another one extended, because all that was in it has been erased (sl.c:107).
THEOREM LocalesInductive == TablesSpec => []LocalesInv
<1>1. TablesInit => LocalesInv
  BY LocalesStart DEF TablesInit, LocalesInv
<1> QED BY <1>1, LocalesSteps, PTL DEF TablesSpec

\* A locale is found if and only if it lives, in its one place, whatever was erased, and
\* whoever extended the table while another thread waited for memory (sl.c:82-165): for any
\* threads, hash function and first size, until a table is taken for empty (emptied).
THEOREM LocalesAreFound == TablesSpec => []FoundIffLive
<1>1. ASSUME LocalesInv, ~emptied PROVE L!TypeOK /\ L!Findable /\ L!OneSlotEach /\ L!OwnsOldTable
  <2>0. LocalesOK
    BY <1>1 DEF LocalesInv
  <2>1. /\ HashSlots /\ BlocksOK(blocks, stnum, live) /\ live \subseteq issued
        /\ pcL \in [Threads -> {"idle", "extend"}] /\ misuse = FALSE
    BY <2>0 DEF LocalesOK
  <2>2. /\ blocks \in Seq(BlockSet) /\ stnum = Len(blocks) /\ stnum \in 1 .. Len(blocks)
        /\ InUse(blocks[stnum], live)
    BY <2>1 DEF BlocksOK
  <2>3. PICK b \in BlockSet : b = blocks[stnum]
    BY <2>2
  <2>4. PICK n \in Nat \ {0} : n = L!AN(b)
    BY BlockHas
  <2>5. /\ b.inuse \in 0 .. n - 1 /\ b.slots \in [0 .. n - 1 -> LocaleNumbers \union {-1}]
        /\ Keeps(b.slots, n, live) /\ Probed(b.slots, n)
        /\ IsFiniteSet(live) /\ b.inuse = Cardinality(live)
    BY <2>2, <2>3, <2>4, BlockHas DEF InUse
  <2>6. \E i \in 0 .. n - 1 : b.slots[i] = -1
    BY <2>5, Room
  <2>7. L!TypeOK
    <3>1. ASSUME NEW i \in 1 .. Len(blocks)
          PROVE  /\ \A k \in DOMAIN blocks[i].slots : blocks[i].slots[k] \in L!Numbers \union {L!Empty}
                 /\ blocks[i].inuse \in 0 .. L!AN(blocks[i]) - 1
                 /\ blocks[i].next \in 0 .. MaxNumber
      <4>1. blocks[i] \in BlockSet
        BY <2>2
      <4>2. L!Numbers \union {L!Empty} = LocaleNumbers \union {-1}
        BY DEF L!Numbers, L!Empty, LocaleNumbers
      <4>3. blocks[i].slots \in [0 .. L!AN(blocks[i]) - 1 -> LocaleNumbers \union {-1}]
        BY <4>1, BlockHas
      <4>4. ASSUME NEW k \in DOMAIN blocks[i].slots
            PROVE  blocks[i].slots[k] \in L!Numbers \union {L!Empty}
        BY <4>2, <4>3
      <4>5. blocks[i].inuse \in 0 .. L!AN(blocks[i]) - 1 /\ blocks[i].next \in 0 .. MaxNumber
        BY <4>1, BlockHas
      <4> QED BY <4>4, <4>5
    <3> QED BY <2>1, <2>2, <3>1, Zenon DEF L!TypeOK
  <2>8. L!Findable
    <3> SUFFICES ASSUME NEW z \in L!Numbers PROVE L!Found(b, z) <=> z \in live
      BY <2>3, Zenon DEF L!Findable, L!Table
    <3>1. z \in LocaleNumbers /\ z # -1
      BY DEF L!Numbers, LocaleNumbers
    <3>2. b.slots[L!Place(b.slots, z)] = IF z \in live THEN z ELSE -1
      BY <2>1, <2>5, <2>6, <3>1, SearchEnds
    <3> QED BY <3>1, <3>2 DEF L!Found
  <2>9. L!OneSlotEach
    <3>1. b.inuse = L!Cardinality(live)
      BY <2>5, SameSizeL
    <3>2. DOMAIN b.slots = 0 .. n - 1
      BY <2>5
    <3>3. ASSUME NEW z \in live
          PROVE  L!Cardinality({k \in DOMAIN b.slots : b.slots[k] = z}) = 1
      <4>1. PICK i \in 0 .. n - 1 : b.slots[i] = z /\ z # -1
        BY <2>5 DEF Keeps
      <4>2. \A k \in 0 .. n - 1 : b.slots[k] = z => k = i
        BY <2>5, <4>1 DEF Keeps
      <4>3. {k \in DOMAIN b.slots : b.slots[k] = z} = {i}
        BY <3>2, <4>1, <4>2
      <4>4. Cardinality({i}) = 1
        BY FS_Singleton
      <4> QED BY <4>3, <4>4, SameSizeL
    <3>4. \E k \in DOMAIN b.slots : b.slots[k] = L!Empty
      BY <2>6, <3>2 DEF L!Empty
    <3> QED BY <2>3, <3>1, <3>3, <3>4, Zenon DEF L!OneSlotEach, L!Table
  <2>10. L!OwnsOldTable
    BY <2>1 DEF L!OwnsOldTable
  <2> QED BY <2>7, <2>8, <2>9, <2>10
<1>2. LocalesInv => FoundIffLive
  BY <1>1, Zenon DEF FoundIffLive, L!FoundIffLive
<1> QED BY <1>2, LocalesInductive, PTL
=============================================================================
