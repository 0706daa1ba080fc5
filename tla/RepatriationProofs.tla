------------------------- MODULE RepatriationProofs -------------------------
(***************************************************************************)
(* The safety of the blocks that come back, for any threads, any finite    *)
(* set of blocks, any owners, limits and number of reuses: IndInv is       *)
(* inductive, and OnePlace, SizeExact and Asked follow from it.            *)
(*                                                                         *)
(* What the provers cannot follow is a chain of any length.  So IndInv     *)
(* gives each free block a place (at) and the number of blocks behind it   *)
(* (left), and says of the word in it only that it names the block of the  *)
(* same place with one less (Chained): a chain then has as many blocks as  *)
(* its first one counts, one of each number.  Five lemmas say what the     *)
(* code does to chains: a block is put before one (PushFront) or behind it *)
(* (PushBack) or taken from it (PopFront), a chain is moved (MoveChain) or *)
(* put before another one (JoinChains).                                    *)
(*                                                                         *)
(* To that IndInv adds what the locals of a thread hold at each step       *)
(* (Steps) and what they say of its chains (Mine), and, for each queue,    *)
(* what its first block counts, what the senders that were not disturbed   *)
(* know of it, and who was asked to take it (Queue).                       *)
(***************************************************************************)
EXTENDS Repatriation, FiniteSetTheorems, WellFoundedInduction, TLAPS

-----------------------------------------------------------------------------
\* Chains.  A block that is free is in one of the places Pl, at[b], with left[b] blocks
\* after it.  first and end are the first and the last block of each place; a place of
\* Closed has Nil behind its last.

Count(first, left, x) == IF first[x] = Nil THEN 0 ELSE left[first[x]] + 1

\* How two ways to count compare.
OneMore(f1, l1, f2, l2, x) == \E n \in Nat : Count(f1, l1, x) = n /\ Count(f2, l2, x) = n + 1
SameCount(f1, l1, x, f2, l2, y) == Count(f2, l2, y) = Count(f1, l1, x)
SameCounts(S, f1, l1, f2, l2) == \A x \in S : Count(f2, l2, x) = Count(f1, l1, x)
Summed(f1, l1, x, y, f2, l2) ==
  \E i, j \in Nat : Count(f1, l1, x) = i /\ Count(f1, l1, y) = j /\ Count(f2, l2, y) = i + j

Chained(Pl, Closed, u, next, first, end, at, left) ==
  /\ at \in [Blocks -> Pl] /\ left \in [Blocks -> Nat] /\ first \in [Pl -> Blocks \union {Nil}]
  /\ \A x \in Pl : first[x] # Nil =>
       /\ first[x] \in Blocks \ u /\ at[first[x]] = x
       /\ end[x] \in Blocks \ u /\ at[end[x]] = x /\ left[end[x]] = 0
  /\ \A b \in Blocks \ u : first[at[b]] # Nil /\ left[b] <= left[first[at[b]]]
  /\ \A b \in Blocks \ u : left[b] > 0 =>
       next[b] \in Blocks \ u /\ at[next[b]] = at[b] /\ left[next[b]] = left[b] - 1
  /\ \A b \in Blocks \ u : left[b] = 0 /\ at[b] \in Closed => next[b] = Nil
  /\ \A b, d \in Blocks \ u : at[b] = at[d] /\ left[b] = left[d] => b = d
  /\ \A b, d \in Blocks \ u : at[b] = at[d] => Origin[b] = Origin[d]

\* Words that no chain follows change.
Reworded(Closed, u, n1, n2, at, left) ==
  \A b \in Blocks \ u : left[b] > 0 \/ at[b] \in Closed => n2[b] = n1[b]

\* They do not matter to the chains.
LEMMA OtherWords ==
    ASSUME NEW Pl, NEW Closed, NEW u, NEW n1, NEW n2, NEW first, NEW end, NEW at, NEW left,
           Chained(Pl, Closed, u, n1, first, end, at, left),
           Reworded(Closed, u, n1, n2, at, left)
    PROVE  Chained(Pl, Closed, u, n2, first, end, at, left)
BY DEF Chained, Reworded

\* Block b is put before the first of place x.
PutFirst(Pl, Closed, u, n1, n2, f1, f2, e1, e2, at, left, a2, l2, x, b) ==
  /\ x \in Pl /\ b \in Blocks /\ b \in u
  /\ f2 = [f1 EXCEPT ![x] = b]
  /\ \A y \in Pl : f2[y] # Nil => e2[y] = IF y = x /\ f1[x] = Nil THEN b ELSE e1[y]
  /\ \A d \in Blocks \ u : n2[d] = n1[d]
  /\ f1[x] # Nil \/ x \in Closed => n2[b] = f1[x]
  /\ f1[x] # Nil => Origin[f1[x]] = Origin[b]
  /\ a2 = [at EXCEPT ![b] = x]
  /\ l2 = [left EXCEPT ![b] = Count(f1, left, x)]

\* A free of an own block.
LEMMA PushFront ==
    ASSUME NEW Pl, NEW Closed, NEW u, NEW n1, NEW n2, NEW f1, NEW f2, NEW e1, NEW e2, NEW at, NEW left,
           NEW a2, NEW l2, NEW x, NEW b,
           Chained(Pl, Closed, u, n1, f1, e1, at, left),
           PutFirst(Pl, Closed, u, n1, n2, f1, f2, e1, e2, at, left, a2, l2, x, b)
    PROVE  /\ Chained(Pl, Closed, u \ {b}, n2, f2, e2, a2, l2)
           /\ OneMore(f1, left, f2, l2, x) /\ SameCounts(Pl \ {x}, f1, left, f2, l2)
<1> USE DEF Chained, Count, PutFirst
<1>1. \A d \in Blocks \ {b} : a2[d] = at[d] /\ l2[d] = left[d]
  OBVIOUS
<1>2. a2[b] = x /\ l2[b] = Count(f1, left, x) /\ Count(f1, left, x) \in Nat
  OBVIOUS
<1>3. a2 \in [Blocks -> Pl] /\ l2 \in [Blocks -> Nat] /\ f2 \in [Pl -> Blocks \union {Nil}]
  BY <1>2
<1>4. ASSUME NEW y \in Pl, f2[y] # Nil
      PROVE  /\ f2[y] \in Blocks \ (u \ {b}) /\ a2[f2[y]] = y
             /\ e2[y] \in Blocks \ (u \ {b}) /\ a2[e2[y]] = y /\ l2[e2[y]] = 0
  BY <1>1, <1>2, <1>4
<1>5. ASSUME NEW d \in Blocks \ (u \ {b})
      PROVE  f2[a2[d]] # Nil /\ l2[d] <= l2[f2[a2[d]]]
  <2>1. Nil \notin Blocks
    BY RepatriationAssumption
  <2> QED BY <1>1, <1>2, <1>5, <2>1
<1>6. ASSUME NEW d \in Blocks \ (u \ {b})
      PROVE  /\ l2[d] > 0 => n2[d] \in Blocks \ (u \ {b}) /\ a2[n2[d]] = a2[d] /\ l2[n2[d]] = l2[d] - 1
             /\ l2[d] = 0 /\ a2[d] \in Closed => n2[d] = Nil
  BY <1>1, <1>2, <1>6
<1>7. ASSUME NEW d \in Blocks \ (u \ {b}), NEW c \in Blocks \ (u \ {b}), a2[d] = a2[c], l2[d] = l2[c]
      PROVE  d = c
  BY <1>1, <1>2, <1>7
<1>8. ASSUME NEW d \in Blocks \ (u \ {b}), NEW c \in Blocks \ (u \ {b}), a2[d] = a2[c]
      PROVE  Origin[d] = Origin[c]
  BY <1>1, <1>2, <1>8
<1>9. Chained(Pl, Closed, u \ {b}, n2, f2, e2, a2, l2)
  BY <1>3, <1>4, <1>5, <1>6, <1>7, <1>8
<1>10. \E n \in Nat : Count(f1, left, x) = n /\ Count(f2, l2, x) = n + 1
  BY <1>2, RepatriationAssumption
<1>11. \A y \in Pl \ {x} : Count(f2, l2, y) = Count(f1, left, y)
  BY <1>1
<1> QED BY <1>9, <1>10, <1>11 DEF OneMore, SameCounts

\* Block b, the first of place x, is taken.
TakenFirst(Pl, Closed, u, n1, n2, f1, f2, x, b) ==
  /\ x \in Pl /\ x \in Closed /\ b = f1[x] /\ b # Nil
  /\ f2 = [f1 EXCEPT ![x] = n1[b]]
  /\ \A d \in Blocks \ (u \union {b}) : n2[d] = n1[d]

\* An allocation, or a step along a chain that came back.
LEMMA PopFront ==
    ASSUME NEW Pl, NEW Closed, NEW u, NEW n1, NEW n2, NEW f1, NEW f2, NEW end, NEW at, NEW left, NEW x, NEW b,
           Chained(Pl, Closed, u, n1, f1, end, at, left),
           TakenFirst(Pl, Closed, u, n1, n2, f1, f2, x, b)
    PROVE  /\ b \in Blocks \ u
           /\ Chained(Pl, Closed, u \union {b}, n2, f2, end, at, left)
           /\ OneMore(f2, left, f1, left, x) /\ SameCounts(Pl \ {x}, f1, left, f2, left)
<1> USE DEF Chained, Count, TakenFirst
<1>1. b \in Blocks \ u /\ at[b] = x /\ \A d \in Blocks \ u : d # b /\ at[d] = x => left[d] < left[b]
  OBVIOUS
<1>2. /\ n1[b] = Nil => left[b] = 0 /\ \A d \in Blocks \ u : at[d] = x => d = b
      /\ n1[b] # Nil => n1[b] \in Blocks \ (u \union {b}) /\ at[n1[b]] = x /\ left[n1[b]] = left[b] - 1 /\ left[b] > 0
  BY <1>1, RepatriationAssumption
<1>3. ASSUME NEW y \in Pl, f2[y] # Nil
      PROVE  /\ f2[y] \in Blocks \ (u \union {b}) /\ at[f2[y]] = y
             /\ end[y] \in Blocks \ (u \union {b}) /\ at[end[y]] = y /\ left[end[y]] = 0
  BY <1>1, <1>2, <1>3
<1>4. ASSUME NEW d \in Blocks \ (u \union {b})
      PROVE  /\ f2[at[d]] # Nil /\ left[d] <= left[f2[at[d]]]
             /\ left[d] > 0 => n2[d] \in Blocks \ (u \union {b})
  BY <1>1, <1>2, <1>4
<1>5. f2 \in [Pl -> Blocks \union {Nil}]
  BY <1>2
<1>6. Chained(Pl, Closed, u \union {b}, n2, f2, end, at, left)
  BY <1>3, <1>4, <1>5
<1>7. \E n \in Nat : Count(f2, left, x) = n /\ Count(f1, left, x) = n + 1
  <2>1. n1[b] # Nil => left[b] \in Nat \ {0} /\ left[n1[b]] = left[b] - 1 /\ f2[x] = n1[b] /\ f1[x] = b
    BY <1>1, <1>2
  <2>2. n1[b] = Nil => left[b] = 0 /\ f2[x] = Nil /\ f1[x] = b
    BY <1>1, <1>2
  <2>3. b # Nil
    OBVIOUS
  <2> HIDE DEF Chained, TakenFirst
  <2>4. CASE n1[b] = Nil
    BY <2>2, <2>3, <2>4
  <2>5. CASE n1[b] # Nil
    <3>1. left[b] - 1 \in Nat /\ Count(f2, left, x) = left[b] - 1 + 1 /\ Count(f1, left, x) = left[b] + 1
      BY <2>1, <2>3, <2>5
    <3> QED BY <2>1, <2>5, <3>1
  <2> QED BY <2>4, <2>5
<1>8. \A y \in Pl \ {x} : Count(f2, left, y) = Count(f1, left, y)
  OBVIOUS
<1> QED BY <1>1, <1>6, <1>7, <1>8 DEF OneMore, SameCounts

\* Block b is put behind the last of place x.
PutLast(Pl, Closed, u, n1, n2, first, e1, e2, at, left, a2, l2, x, b) ==
  /\ x \in Pl /\ x \notin Closed /\ first[x] # Nil /\ b \in Blocks /\ b \in u
  /\ \A y \in Pl : first[y] # Nil => e2[y] = IF y = x THEN b ELSE e1[y]
  /\ \A d \in Blocks \ (u \union {e1[x]}) : n2[d] = n1[d]
  /\ n2[e1[x]] = b
  /\ Origin[first[x]] = Origin[b]
  /\ a2 = [at EXCEPT ![b] = x]
  /\ l2 = [d \in Blocks |-> IF d = b THEN 0
                             ELSE IF d \notin u /\ at[d] = x THEN left[d] + 1 ELSE left[d]]

\* A free of a foreign block.
LEMMA PushBack ==
    ASSUME NEW Pl, NEW Closed, NEW u, NEW n1, NEW n2, NEW first, NEW e1, NEW e2, NEW at, NEW left,
           NEW a2, NEW l2, NEW x, NEW b,
           Chained(Pl, Closed, u, n1, first, e1, at, left),
           PutLast(Pl, Closed, u, n1, n2, first, e1, e2, at, left, a2, l2, x, b)
    PROVE  /\ Chained(Pl, Closed, u \ {b}, n2, first, e2, a2, l2)
           /\ OneMore(first, left, first, l2, x) /\ SameCounts(Pl \ {x}, first, left, first, l2)
<1> USE DEF Chained, Count, PutLast
<1>1. \A d \in Blocks \ {b} : a2[d] = at[d] /\ (at[d] # x => l2[d] = left[d])
  OBVIOUS
<1>2. /\ a2[b] = x /\ l2[b] = 0 /\ \A d \in Blocks \ u : d # b
      /\ \A d \in Blocks \ u : at[d] = x => l2[d] = left[d] + 1
      /\ \A d \in Blocks \ u : at[d] # x => l2[d] = left[d]
  <2>1. a2[b] = x /\ l2[b] = 0 /\ \A d \in Blocks \ u : d # b
    <3> HIDE DEF Count
    <3>1. at \in [Blocks -> Pl] /\ b \in Blocks /\ b \in u /\ a2 = [at EXCEPT ![b] = x]
      OBVIOUS
    <3>2. l2[b] = 0
      OBVIOUS
    <3> HIDE DEF Chained, PutLast
    <3> QED BY <3>1, <3>2
  <2>2. \A d \in Blocks \ u : l2[d] = IF at[d] = x THEN left[d] + 1 ELSE left[d]
    BY <2>1
  <2> QED BY <2>1, <2>2
<1>3. a2 \in [Blocks -> Pl] /\ l2 \in [Blocks -> Nat]
  <2>1. a2 \in [Blocks -> Pl]
    OBVIOUS
  <2>2. left \in [Blocks -> Nat]
    OBVIOUS
  <2>3. \A d \in Blocks : (IF d = b THEN 0 ELSE IF d \notin u /\ at[d] = x THEN left[d] + 1 ELSE left[d]) \in Nat
    BY <2>2
  <2>4. l2 = [d \in Blocks |-> IF d = b THEN 0 ELSE IF d \notin u /\ at[d] = x THEN left[d] + 1 ELSE left[d]]
    OBVIOUS
  <2> HIDE DEF Chained, PutLast
  <2>5. l2 \in [Blocks -> Nat]
    BY <2>3, <2>4
  <2> QED BY <2>1, <2>5
<1>4. ASSUME NEW y \in Pl, first[y] # Nil
      PROVE  /\ first[y] \in Blocks \ (u \ {b}) /\ a2[first[y]] = y
             /\ e2[y] \in Blocks \ (u \ {b}) /\ a2[e2[y]] = y /\ l2[e2[y]] = 0
  BY <1>1, <1>2, <1>4
<1>5. ASSUME NEW d \in Blocks \ (u \ {b})
      PROVE  first[a2[d]] # Nil /\ l2[d] <= l2[first[a2[d]]]
  BY <1>1, <1>2, <1>3, <1>5
<1>6. ASSUME NEW d \in Blocks \ (u \ {b})
      PROVE  l2[d] > 0 => n2[d] \in Blocks \ (u \ {b}) /\ a2[n2[d]] = a2[d] /\ l2[n2[d]] = l2[d] - 1
  <2>1. CASE d = e1[x]
    BY <1>1, <1>2, <2>1
  <2>2. CASE d # e1[x] /\ d # b /\ at[d] = x
    <3>1. d \in Blocks \ u /\ left[d] \in Nat /\ left[d] # 0
      BY <1>6, <2>2
    <3>2. n2[d] = n1[d] /\ n1[d] \in Blocks \ u /\ at[n1[d]] = x /\ left[n1[d]] = left[d] - 1
      BY <2>2, <3>1
    <3> QED BY <1>1, <1>2, <2>2, <3>1, <3>2
  <2>3. CASE d # b /\ at[d] # x
    <3>1. d \in Blocks \ u /\ d # e1[x]
      BY <1>6, <2>3
    <3> QED BY <1>1, <1>2, <2>3, <3>1
  <2>4. CASE d = b
    BY <1>2, <2>4
  <2> QED BY <2>1, <2>2, <2>3, <2>4
<1>7. ASSUME NEW d \in Blocks \ (u \ {b})
      PROVE  l2[d] = 0 /\ a2[d] \in Closed => n2[d] = Nil
  BY <1>1, <1>2, <1>7
<1>8. ASSUME NEW d \in Blocks \ (u \ {b}), NEW c \in Blocks \ (u \ {b}), a2[d] = a2[c]
      PROVE  /\ l2[d] = l2[c] => d = c
             /\ Origin[d] = Origin[c]
  BY <1>1, <1>2, <1>8
<1>9. Chained(Pl, Closed, u \ {b}, n2, first, e2, a2, l2)
  BY <1>3, <1>4, <1>5, <1>6, <1>7, <1>8
<1>10. \E n \in Nat : Count(first, left, x) = n /\ Count(first, l2, x) = n + 1
  BY <1>1, <1>2
<1>11. \A y \in Pl \ {x} : Count(first, l2, y) = Count(first, left, y)
  BY <1>1, <1>2
<1> QED BY <1>9, <1>10, <1>11 DEF OneMore, SameCounts

\* The chain of place x moves to place y.
Moved(Pl, Closed, u, f1, f2, e1, e2, at, a2, x, y) ==
  /\ x \in Pl /\ y \in Pl /\ x # y /\ f1[y] = Nil /\ (y \in Closed => x \in Closed)
  /\ f2 = [f1 EXCEPT ![x] = Nil, ![y] = f1[x]]
  /\ \A z \in Pl : f2[z] # Nil => e2[z] = IF z = y THEN e1[x] ELSE e1[z]
  /\ a2 = [d \in Blocks |-> IF d \notin u /\ at[d] = x THEN y ELSE at[d]]

\* A chain is taken out of repato or out of the queue, or becomes the new repato.
LEMMA MoveChain ==
    ASSUME NEW Pl, NEW Closed, NEW u, NEW next, NEW f1, NEW f2, NEW e1, NEW e2, NEW at, NEW left,
           NEW a2, NEW x, NEW y,
           Chained(Pl, Closed, u, next, f1, e1, at, left),
           Moved(Pl, Closed, u, f1, f2, e1, e2, at, a2, x, y)
    PROVE  /\ Chained(Pl, Closed, u, next, f2, e2, a2, left)
           /\ SameCount(f1, left, x, f2, left, y) /\ SameCounts(Pl \ {x, y}, f1, left, f2, left)
<1> USE DEF Chained, Count, Moved
<1>0. f2 \in [Pl -> Blocks \union {Nil}] /\ a2 \in [Blocks -> Pl]
  OBVIOUS
<1>1. /\ f2[x] = Nil /\ f2[y] = f1[x] /\ \A z \in Pl \ {x, y} : f2[z] = f1[z]
      /\ \A d \in Blocks \ u : at[d] # y /\ a2[d] = IF at[d] = x THEN y ELSE at[d]
  OBVIOUS
<1>2. ASSUME NEW z \in Pl, f2[z] # Nil
      PROVE  /\ f2[z] \in Blocks \ u /\ a2[f2[z]] = z
             /\ e2[z] \in Blocks \ u /\ a2[e2[z]] = z /\ left[e2[z]] = 0
  BY <1>1, <1>2
<1>3. ASSUME NEW d \in Blocks \ u
      PROVE  /\ f2[a2[d]] # Nil /\ left[d] <= left[f2[a2[d]]]
             /\ left[d] > 0 => next[d] \in Blocks \ u /\ a2[next[d]] = a2[d] /\ left[next[d]] = left[d] - 1
             /\ left[d] = 0 /\ a2[d] \in Closed => next[d] = Nil
  BY <1>1, <1>3
<1>4. ASSUME NEW d \in Blocks \ u, NEW c \in Blocks \ u, a2[d] = a2[c]
      PROVE  at[d] = at[c]
  BY <1>1, <1>4
<1>5. Chained(Pl, Closed, u, next, f2, e2, a2, left)
  BY <1>0, <1>2, <1>3, <1>4
<1> QED BY <1>1, <1>5 DEF SameCount, SameCounts

\* The chain of place x is put before that of place y, to which its last points.
Joined(Pl, Closed, u, next, f1, f2, e1, e2, at, left, a2, l2, x, y) ==
  /\ x \in Pl /\ y \in Pl /\ x # y /\ f1[x] # Nil /\ x \notin Closed
  /\ next[e1[x]] = f1[y]
  /\ f1[y] # Nil => Origin[f1[x]] = Origin[f1[y]]
  /\ f2 = [f1 EXCEPT ![x] = Nil, ![y] = f1[x]]
  /\ \A z \in Pl : f2[z] # Nil => e2[z] = IF z = y /\ f1[y] = Nil THEN e1[x] ELSE e1[z]
  /\ a2 = [d \in Blocks |-> IF d \notin u /\ at[d] = x THEN y ELSE at[d]]
  /\ l2 = [d \in Blocks |-> IF d \notin u /\ at[d] = x THEN left[d] + Count(f1, left, y) ELSE left[d]]

\* The compare and swap of a sender.
LEMMA JoinChains ==
    ASSUME NEW Pl, NEW Closed, NEW u, NEW next, NEW f1, NEW f2, NEW e1, NEW e2, NEW at, NEW left,
           NEW a2, NEW l2, NEW x, NEW y,
           Chained(Pl, Closed, u, next, f1, e1, at, left),
           Joined(Pl, Closed, u, next, f1, f2, e1, e2, at, left, a2, l2, x, y)
    PROVE  /\ Chained(Pl, Closed, u, next, f2, e2, a2, l2)
           /\ Summed(f1, left, x, y, f2, l2) /\ SameCounts(Pl \ {x, y}, f1, left, f2, l2)
<1> USE DEF Chained, Count, Joined
<1>0. f2 \in [Pl -> Blocks \union {Nil}] /\ a2 \in [Blocks -> Pl]
  OBVIOUS
<1>1. PICK n : n = Count(f1, left, y)
  OBVIOUS
<1>2. n \in Nat /\ (f1[y] = Nil => n = 0) /\ (f1[y] # Nil => n = left[f1[y]] + 1)
  BY <1>1
<1>3. \A d \in Blocks \ u : l2[d] = IF at[d] = x THEN left[d] + n ELSE left[d]
  BY <1>1
<1>4. l2 \in [Blocks -> Nat]
  <2>1. left \in [Blocks -> Nat]
    OBVIOUS
  <2>2. \A d \in Blocks : (IF d \notin u /\ at[d] = x THEN left[d] + n ELSE left[d]) \in Nat
    BY <1>2, <2>1
  <2>3. l2 = [d \in Blocks |-> IF d \notin u /\ at[d] = x THEN left[d] + n ELSE left[d]]
    BY <1>1
  <2> HIDE DEF Chained, Count, Joined
  <2> QED BY <2>2, <2>3
<1>5. /\ f2[x] = Nil /\ f2[y] = f1[x] /\ \A z \in Pl \ {x, y} : f2[z] = f1[z]
      /\ \A d \in Blocks \ u : a2[d] = IF at[d] = x THEN y ELSE at[d]
  OBVIOUS
<1>6. ASSUME NEW d \in Blocks \ u
      PROVE  /\ at[d] = x => l2[d] = left[d] + n /\ left[d] <= left[f1[x]] /\ a2[d] = y
             /\ at[d] = y => l2[d] = left[d] /\ left[d] < n /\ f1[y] # Nil /\ a2[d] = y
             /\ at[d] \notin {x, y} => l2[d] = left[d] /\ a2[d] = at[d] /\ f2[at[d]] = f1[at[d]]
             /\ left[d] \in Nat /\ l2[d] \in Nat
  BY <1>2, <1>3, <1>4, <1>5, <1>6
<1>7. /\ f1[x] \in Blocks \ u /\ at[f1[x]] = x /\ l2[f1[x]] = left[f1[x]] + n
      /\ e1[x] \in Blocks \ u /\ at[e1[x]] = x /\ left[e1[x]] = 0
      /\ f1[y] # Nil => f1[y] \in Blocks \ u /\ at[f1[y]] = y
  BY <1>3
<1> HIDE DEF Count
<1>8. ASSUME NEW z \in Pl, f2[z] # Nil
      PROVE  /\ f2[z] \in Blocks \ u /\ a2[f2[z]] = z
             /\ e2[z] \in Blocks \ u /\ a2[e2[z]] = z /\ l2[e2[z]] = 0
  <2>1. z # x /\ e2[z] = IF z = y /\ f1[y] = Nil THEN e1[x] ELSE e1[z]
    BY <1>5, <1>8
  <2>2. f1[z] # Nil => /\ f1[z] \in Blocks \ u /\ at[f1[z]] = z
                       /\ e1[z] \in Blocks \ u /\ at[e1[z]] = z /\ left[e1[z]] = 0
    OBVIOUS
  <2> HIDE DEF Chained, Joined
  <2>3. CASE z = y
    <3>1. f2[z] = f1[x]
      BY <1>5, <2>3
    <3>2. CASE f1[y] = Nil
      <4>1. e2[z] = e1[x] /\ n = 0
        BY <1>2, <2>1, <2>3, <3>2
      <4> QED BY <1>6, <1>7, <2>3, <3>1, <4>1
    <3>3. CASE f1[y] # Nil
      <4>1. e2[z] = e1[y]
        BY <2>1, <2>3, <3>3
      <4> QED BY <1>6, <1>7, <2>2, <2>3, <3>1, <3>3, <4>1
    <3> QED BY <3>2, <3>3
  <2>4. CASE z # y
    <3>1. f2[z] = f1[z] /\ e2[z] = e1[z]
      BY <1>5, <2>1, <2>4
    <3> QED BY <1>6, <1>8, <2>1, <2>2, <2>4, <3>1
  <2> QED BY <2>3, <2>4
<1>9. ASSUME NEW d \in Blocks \ u
      PROVE  f2[a2[d]] # Nil /\ l2[d] <= l2[f2[a2[d]]]
  <2>1. at[d] \in Pl /\ f1[at[d]] # Nil /\ left[d] <= left[f1[at[d]]] /\ f1[at[d]] \in Blocks \ u
        /\ at[f1[at[d]]] = at[d]
    OBVIOUS
  <2>2. left[f1[x]] \in Nat /\ left[d] \in Nat
    BY <1>6, <1>7
  <2>6. f2[y] = f1[x] /\ l2[f1[x]] = left[f1[x]] + n /\ f1[x] # Nil /\ n \in Nat
    BY <1>2, <1>5, <1>7
  <2> HIDE DEF Chained, Joined
  <2>3. CASE at[d] = x
    BY <1>6, <2>2, <2>3, <2>6
  <2>4. CASE at[d] = y
    BY <1>6, <2>2, <2>4, <2>6
  <2>5. CASE at[d] \notin {x, y}
    BY <1>6, <2>1, <2>5
  <2> QED BY <2>3, <2>4, <2>5
<1>10. ASSUME NEW d \in Blocks \ u, l2[d] > 0
       PROVE  next[d] \in Blocks \ u /\ a2[next[d]] = a2[d] /\ l2[next[d]] = l2[d] - 1
  <2>1. CASE at[d] = x /\ left[d] = 0
    <3>1. d = e1[x] /\ next[e1[x]] = f1[y]
      BY <1>7, <2>1
    <3>2. f1[y] # Nil
      BY <1>2, <1>6, <1>10, <2>1
    <3>3. next[d] = f1[y] /\ l2[d] = n /\ l2[f1[y]] = left[f1[y]] /\ a2[f1[y]] = y
      <4> HIDE DEF Chained, Joined
      <4>1. next[d] = f1[y]
        BY <3>1
      <4>2. l2[d] = n
        BY <1>2, <1>6, <2>1
      <4>3. l2[f1[y]] = left[f1[y]] /\ a2[f1[y]] = y
        BY <1>6, <1>7, <3>2
      <4> QED BY <4>1, <4>2, <4>3
    <3>4. left[f1[y]] = n - 1
      <4>1. left[f1[y]] \in Nat
        BY <1>6, <1>7, <3>2
      <4> QED BY <1>2, <3>2, <4>1
    <3> HIDE DEF Chained, Joined
    <3> QED BY <1>6, <1>7, <2>1, <3>2, <3>3, <3>4
  <2>2. CASE left[d] # 0
    <3>1. next[d] \in Blocks \ u /\ at[next[d]] = at[d] /\ left[next[d]] = left[d] - 1
      BY <1>6, <2>2
    <3>2. left[d] \in Nat /\ left[next[d]] \in Nat
      BY <1>6, <3>1
    <3> HIDE DEF Chained, Joined
    <3>3. CASE at[d] = x
      BY <1>2, <1>6, <3>1, <3>2, <3>3
    <3>4. CASE at[d] = y
      BY <1>6, <3>1, <3>4
    <3>5. CASE at[d] \notin {x, y}
      BY <1>6, <3>1, <3>5
    <3> QED BY <3>3, <3>4, <3>5
  <2>3. CASE at[d] # x /\ left[d] = 0
    BY <1>6, <1>10, <2>3
  <2> QED BY <2>1, <2>2, <2>3
<1>11. ASSUME NEW d \in Blocks \ u, l2[d] = 0, a2[d] \in Closed
       PROVE  next[d] = Nil
  <2>1. CASE at[d] = x
    <3>1. left[d] = 0 /\ n = 0
      BY <1>2, <1>6, <1>11, <2>1
    <3>2. d = e1[x] /\ f1[y] = Nil
      BY <1>2, <1>6, <1>7, <2>1, <3>1
    <3> QED BY <3>2
  <2>2. CASE at[d] # x
    BY <1>6, <1>11, <2>2
  <2> QED BY <2>1, <2>2
<1>12. ASSUME NEW d \in Blocks \ u, NEW c \in Blocks \ u, a2[d] = a2[c], l2[d] = l2[c]
       PROVE  d = c
  <2>1. left[d] \in Nat /\ left[c] \in Nat /\ n \in Nat
    BY <1>2, <1>6
  <2>2. at[d] = at[c]
    BY <1>6, <1>12, <2>1
  <2>3. left[d] = left[c]
    BY <1>6, <1>12, <2>1, <2>2
  <2> QED BY <2>2, <2>3
<1>13. ASSUME NEW d \in Blocks \ u, NEW c \in Blocks \ u, a2[d] = a2[c]
       PROVE  Origin[d] = Origin[c]
  <2>1. CASE at[d] = at[c]
    BY <2>1
  <2>2. CASE at[d] # at[c]
    <3>1. {at[d], at[c]} = {x, y} /\ f1[y] # Nil
      BY <1>6, <1>13, <2>2
    <3>2. /\ at[d] = x => Origin[d] = Origin[f1[x]]
          /\ at[d] = y => Origin[d] = Origin[f1[y]]
          /\ at[c] = x => Origin[c] = Origin[f1[x]]
          /\ at[c] = y => Origin[c] = Origin[f1[y]]
      BY <1>7, <3>1
    <3> QED BY <3>1, <3>2
  <2> QED BY <2>1, <2>2
<1>14. Chained(Pl, Closed, u, next, f2, e2, a2, l2)
  BY <1>0, <1>4, <1>8, <1>9, <1>10, <1>11, <1>12, <1>13
<1>15. \E i, j \in Nat : Count(f1, left, x) = i /\ Count(f1, left, y) = j /\ Count(f2, l2, y) = i + j
  <2>1. left[f1[x]] \in Nat /\ f1[x] # Nil
    BY <1>6, <1>7
  <2>2. Count(f1, left, x) = left[f1[x]] + 1
    BY <2>1 DEF Count
  <2>3. Count(f2, l2, y) = left[f1[x]] + n + 1
    BY <1>2, <1>5, <1>7, <2>1 DEF Count
  <2>4. left[f1[x]] + 1 \in Nat /\ left[f1[x]] + n + 1 = (left[f1[x]] + 1) + n
    <3> HIDE DEF Chained, Joined, Count
    <3> QED BY <1>2, <2>1
  <2> HIDE DEF Chained, Joined
  <2> QED BY <1>1, <1>2, <2>2, <2>3, <2>4
<1>16. \A z \in Pl \ {x, y} : Count(f2, l2, z) = Count(f1, left, z)
  BY <1>5, <1>6 DEF Count
<1> QED BY <1>14, <1>15, <1>16 DEF Summed, SameCounts

-----------------------------------------------------------------------------
\* A finite set of numbers that is not empty has a largest one.
LEMMA Largest ==
    ASSUME NEW S, S \subseteq Nat, S # {}, IsFiniteSet(S)
    PROVE  \E n \in S : \A m \in S : m <= n
<1> DEFINE Bad == {T \in FiniteSubsetsOf(S) : T # {} /\ ~\E n \in T : \A m \in T : m <= n}
<1>1. SUFFICES Bad = {}
  BY DEF FiniteSubsetsOf
<1>2. SUFFICES ASSUME Bad # {} PROVE FALSE
  OBVIOUS
<1>3. PICK T \in Bad : \A U \in Bad : <<U, T>> \notin StrictSubsetOrdering(S)
  BY <1>2, FS_StrictSubsetOrderingWellFounded, WFMin
<1>4. PICK x \in T : TRUE
  OBVIOUS
<1>5. T \subseteq S /\ IsFiniteSet(T)
  BY DEF FiniteSubsetsOf
<1>6. T \ {x} \in FiniteSubsetsOf(S)
  BY <1>5, FS_RemoveElement DEF FiniteSubsetsOf
<1>7. <<T \ {x}, T>> \in StrictSubsetOrdering(S)
  BY <1>4, <1>5 DEF StrictSubsetOrdering
<1>8. T \ {x} \notin Bad
  BY <1>3, <1>7
<1>9. CASE T \ {x} = {}
  BY <1>4, <1>5, <1>9
<1>10. CASE T \ {x} # {}
  <2>1. PICK n \in T \ {x} : \A m \in T \ {x} : m <= n
    BY <1>6, <1>8, <1>10
  <2>2. CASE x <= n
    BY <2>1, <2>2
  <2>3. CASE ~(x <= n)
    BY <1>4, <1>5, <2>1, <2>3
  <2> QED BY <2>2, <2>3
<1> QED BY <1>9, <1>10

\* Induction up to N.
LEMMA UpTo ==
    ASSUME NEW N \in Nat, NEW S, 0 \in S, \A n \in Nat : n \in S /\ n < N => n + 1 \in S
    PROVE  \A n \in 0 .. N : n \in S
<1> SUFFICES ASSUME NEW n \in 0 .. N, n \notin S PROVE FALSE
  OBVIOUS
<1>1. PICK T : T = S \cap (0 .. n)
  OBVIOUS
<1>2. IsFiniteSet(0 .. n) /\ T \in SUBSET (0 .. n) /\ 0 \in T
  BY <1>1, FS_Interval
<1>3. IsFiniteSet(T) /\ T \subseteq Nat /\ T # {}
  <2>1. IsFiniteSet(T)
    BY <1>2, FS_Subset
  <2> QED BY <1>2, <2>1
<1>4. PICK k \in T : \A m \in T : m <= k
  BY <1>3, Largest
<1>5. k \in Nat /\ k < n /\ k + 1 \in T
  BY <1>1, <1>4
<1> QED BY <1>4, <1>5

-----------------------------------------------------------------------------
\* What a walk along the chain finds from each word, in at most n steps, when prev
\* is what it finds in n - 1 steps.
Words == Blocks \union {Nil, Foreign}
Row(last, n, prev) ==
  [b \in Words |-> IF b = Nil THEN {}
                   ELSE IF b = Foreign \/ n = 0 THEN {Foreign}
                   ELSE {b} \union (IF b = last THEN {} ELSE prev[chain[b]])]

\* The walks of every length up to k are a function.
LEMMA WalksExist ==
    ASSUME NEW last, NEW N \in Nat
    PROVE  \E g : g = [n \in 0 .. N |-> Row(last, n, g[n - 1])]
<1>1. PICK S : S = {k \in Nat : \E g : g = [n \in 0 .. k |-> Row(last, n, g[n - 1])]}
  OBVIOUS
<1>2. 0 \in S
  <2>1. PICK g : g = [n \in 0 .. 0 |-> Row(last, 0, last)]
    OBVIOUS
  <2>2. \A n \in 0 .. 0 : Row(last, n, g[n - 1]) = Row(last, 0, last)
    BY DEF Row
  <2>3. g = [n \in 0 .. 0 |-> Row(last, n, g[n - 1])]
    BY <2>1, <2>2
  <2> QED BY <1>1, <2>3
<1>3. ASSUME NEW k \in Nat, k \in S PROVE k + 1 \in S
  <2>1. PICK g : g = [n \in 0 .. k |-> Row(last, n, g[n - 1])]
    BY <1>1, <1>3
  <2>2. PICK h : h = [n \in 0 .. k + 1 |-> IF n = k + 1 THEN Row(last, k + 1, g[k]) ELSE g[n]]
    OBVIOUS
  <2>3. \A n \in 0 .. k : h[n] = g[n] /\ g[n] = Row(last, n, g[n - 1])
    BY <2>1, <2>2
  <2>4. ASSUME NEW n \in 0 .. k + 1 PROVE h[n] = Row(last, n, h[n - 1])
    <3>1. CASE n = k + 1
      BY <2>2, <2>3, <3>1
    <3>2. CASE n = 0
      <4>1. \A p, q : Row(last, 0, p) = Row(last, 0, q)
        BY DEF Row
      <4> QED BY <2>3, <3>2, <4>1
    <3>3. CASE n # k + 1 /\ n # 0
      <4>1. n \in 0 .. k /\ n - 1 \in 0 .. k
        BY <3>3
      <4> QED BY <2>3, <4>1
    <3> QED BY <3>1, <3>2, <3>3
  <2>5. h = [n \in 0 .. k + 1 |-> Row(last, n, h[n - 1])]
    BY <2>2, <2>4
  <2> QED BY <1>1, <2>5
<1>4. N \in S
  BY <1>2, <1>3, UpTo
<1> QED BY <1>1, <1>4

\* Segment is what a walk of as many steps as there are blocks finds.
LEMMA SegmentWalks ==
    ASSUME NEW last
    PROVE  \E g : /\ g = [n \in 0 .. Cardinality(Blocks) |-> Row(last, n, g[n - 1])]
                  /\ \A first : Segment(first, last) = g[Cardinality(Blocks)][first]
<1>1. PICK N : N = Cardinality(Blocks)
  OBVIOUS
<1>2. N \in Nat
  BY <1>1, RepatriationAssumption, FS_CardinalityType
<1>3. PICK g : g = CHOOSE h : h = [n \in 0 .. N |-> Row(last, n, h[n - 1])]
  OBVIOUS
<1>4. g = [n \in 0 .. N |-> Row(last, n, g[n - 1])]
  BY <1>2, <1>3, WalksExist
<1>5. \A first : Segment(first, last) = g[N][first]
  BY <1>1, <1>3 DEF Segment, Row, Words
<1> QED BY <1>1, <1>4, <1>5

-----------------------------------------------------------------------------
\* The blocks of place x.
Held(u, at, x) == {b \in Blocks \ u : at[b] = x}

\* There are as many blocks in a place as the first one counts.
LEMMA ChainCounted ==
    ASSUME NEW Pl, NEW Closed, NEW u, NEW next, NEW first, NEW end, NEW at, NEW left, NEW x \in Pl,
           Chained(Pl, Closed, u, next, first, end, at, left)
    PROVE  /\ IsFiniteSet(Held(u, at, x))
           /\ Cardinality(Held(u, at, x)) = Count(first, left, x)
           /\ Count(first, left, x) \in Nat
           /\ Count(first, left, x) <= Cardinality(Blocks)
<1>1. PICK M : M = Held(u, at, x)
  OBVIOUS
<1>2. M \in SUBSET Blocks /\ IsFiniteSet(Blocks)
  BY <1>1, RepatriationAssumption DEF Held
<1>3. IsFiniteSet(M) /\ Cardinality(M) <= Cardinality(Blocks)
  BY <1>2, FS_Subset
<1>4. CASE first[x] = Nil
  <2>1. M = {}
    BY <1>1, <1>4 DEF Held, Chained
  <2> QED BY <1>1, <1>3, <1>4, <2>1, FS_EmptySet DEF Count
<1>5. CASE first[x] # Nil
  <2>1. PICK L : L = left[first[x]]
    OBVIOUS
  <2>2. /\ L \in Nat /\ first[x] \in M
        /\ \A b \in M : left[b] \in 0 .. L
        /\ \A b \in M : left[b] # 0 => \E d \in M : left[d] = left[b] - 1
        /\ \A b, d \in M : left[b] = left[d] => b = d
    <3>1. L \in Nat /\ first[x] \in M
      BY <1>1, <1>5, <2>1 DEF Held, Chained
    <3>2. ASSUME NEW b \in M PROVE left[b] \in 0 .. L /\ (left[b] # 0 => \E d \in M : left[d] = left[b] - 1)
      <4>1. b \in Blocks \ u /\ at[b] = x /\ left[b] \in Nat /\ left[b] <= L
        BY <1>1, <2>1 DEF Held, Chained
      <4>2. left[b] # 0 => next[b] \in M /\ left[next[b]] = left[b] - 1
        BY <1>1, <4>1 DEF Held, Chained
      <4> QED BY <3>1, <4>1, <4>2
    <3>3. \A b, d \in M : left[b] = left[d] => b = d
      BY <1>1 DEF Held, Chained
    <3> QED BY <3>1, <3>2, <3>3
  <2>3. \A m \in 0 .. L : \E b \in M : left[b] = m
    <3>1. PICK S : S = {m \in Nat : \E b \in M : left[b] = L - m}
      OBVIOUS
    <3>2. 0 \in S
      BY <2>1, <2>2, <3>1
    <3>3. ASSUME NEW m \in Nat, m \in S, m < L PROVE m + 1 \in S
      <4>1. PICK b \in M : left[b] = L - m
        BY <3>1, <3>3
      <4>2. left[b] # 0 /\ left[b] - 1 = L - (m + 1)
        BY <2>2, <3>3, <4>1
      <4> QED BY <2>2, <3>1, <4>2
    <3>4. \A m \in 0 .. L : m \in S
      BY <2>2, <3>2, <3>3, UpTo
    <3>5. ASSUME NEW m \in 0 .. L PROVE \E b \in M : left[b] = m
      <4>1. L - m \in S /\ L - (L - m) = m
        BY <2>2, <3>4
      <4> QED BY <3>1, <4>1
    <3> QED BY <3>5
  <2>4. PICK f : f = [b \in M |-> left[b]]
    OBVIOUS
  <2>5. f \in Bijection(M, 0 .. L)
    <3>1. f \in [M -> 0 .. L] /\ \A b \in M : f[b] = left[b]
      BY <2>2, <2>4
    <3>2. f \in Injection(M, 0 .. L)
      BY <2>2, <3>1 DEF Injection, IsInjective
    <3>3. f \in Surjection(M, 0 .. L)
      BY <2>3, <3>1 DEF Surjection
    <3> QED BY <3>2, <3>3 DEF Bijection
  <2>6. Cardinality(M) = Cardinality(0 .. L)
    BY <1>3, <2>5, FS_Bijection DEF ExistsBijection
  <2>7. Cardinality(0 .. L) = L + 1
    BY <2>2, FS_Interval
  <2> QED BY <1>1, <1>3, <1>5, <2>1, <2>2, <2>6, <2>7 DEF Count
<1> QED BY <1>4, <1>5

\* Segment finds the blocks of a place.
LEMMA SegmentIsHeld ==
    ASSUME NEW Pl, NEW Closed, NEW u, NEW first, NEW end, NEW at, NEW left, NEW x \in Pl, NEW last,
           Chained(Pl, Closed, u, chain, first, end, at, left),
           chain \in [Blocks -> Words],
           \/ x \in Closed /\ last = Nil
           \/ first[x] # Nil => last = end[x]
    PROVE  Segment(first[x], last) = Held(u, at, x)
<1>1. PICK N : N = Cardinality(Blocks)
  OBVIOUS
<1>2. N \in Nat
  BY <1>1, RepatriationAssumption, FS_CardinalityType
<1>3. PICK g : /\ g = [n \in 0 .. N |-> Row(last, n, g[n - 1])]
               /\ \A f : Segment(f, last) = g[N][f]
  BY <1>1, SegmentWalks
<1>4. ASSUME NEW n \in 0 .. N
      PROVE  /\ g[n][Nil] = {}
             /\ n # 0 => \A b \in Blocks :
                  g[n][b] = {b} \union (IF b = last THEN {} ELSE g[n - 1][chain[b]])
  <2>1. g[n] = Row(last, n, g[n - 1])
    BY <1>3
  <2> QED BY <2>1, RepatriationAssumption DEF Row, Words
<1>5. CASE first[x] = Nil
  <2>1. Held(u, at, x) = {}
    BY <1>5 DEF Held, Chained
  <2>2. g[N][Nil] = {}
    BY <1>2, <1>4
  <2> QED BY <1>3, <1>5, <2>1, <2>2
<1>6. CASE first[x] # Nil
  <2>1. PICK M : M = Held(u, at, x)
    OBVIOUS
  <2>2. ASSUME NEW b \in M
        PROVE  /\ b \in Blocks /\ left[b] \in Nat
               /\ left[b] = 0 => (b = last \/ chain[b] = Nil) /\ {d \in M : left[d] <= left[b]} = {b}
               /\ left[b] # 0 => b # last /\ chain[b] \in M /\ left[chain[b]] = left[b] - 1
    <3>1. b \in Blocks \ u /\ at[b] = x /\ left[b] \in Nat
      BY <2>1 DEF Held, Chained
    <3>2. left[b] = 0 => b = last \/ chain[b] = Nil
      <4>1. left[b] = 0 => b = end[x]
        BY <1>6, <3>1 DEF Chained
      <4>2. left[b] = 0 /\ x \in Closed => chain[b] = Nil
        BY <3>1 DEF Chained
      <4> QED BY <1>6, <4>1, <4>2
    <3>3. left[b] = 0 => {d \in M : left[d] <= left[b]} = {b}
      <4>1. \A d \in M : left[d] \in Nat /\ (left[d] = left[b] => d = b)
        BY <2>1, <3>1 DEF Held, Chained
      <4> QED BY <3>1, <4>1
    <3>4. left[b] # 0 => chain[b] \in M /\ left[chain[b]] = left[b] - 1
      BY <2>1, <3>1 DEF Held, Chained
    <3>5. left[b] # 0 => b # last
      <4>1. left[end[x]] = 0
        BY <1>6 DEF Chained
      <4> QED BY <1>6, <3>1, <4>1, RepatriationAssumption
    <3> QED BY <3>1, <3>2, <3>3, <3>4, <3>5
  <2>3. PICK S : S = {n \in Nat : n <= N => \A b \in M : left[b] < n => g[n][b] = {d \in M : left[d] <= left[b]}}
    OBVIOUS
  <2>4. 0 \in S
    BY <2>2, <2>3
  <2>5. ASSUME NEW n \in Nat, n \in S, n < N PROVE n + 1 \in S
    <3>1. SUFFICES ASSUME NEW b \in M, left[b] < n + 1
                   PROVE  g[n + 1][b] = {d \in M : left[d] <= left[b]}
      BY <2>3
    <3>2. g[n + 1][b] = {b} \union (IF b = last THEN {} ELSE g[n][chain[b]]) /\ g[n][Nil] = {}
      BY <1>2, <1>4, <2>2, <2>5
    <3>3. CASE left[b] = 0
      BY <2>2, <3>2, <3>3
    <3>4. CASE left[b] # 0
      <4>1. left[b] \in Nat /\ b # last /\ chain[b] \in M /\ left[chain[b]] = left[b] - 1
        BY <2>2, <3>4
      <4>2. g[n][chain[b]] = {d \in M : left[d] <= left[b] - 1}
        <5>1. n <= N /\ left[chain[b]] < n
          BY <1>2, <2>5, <3>1, <4>1
        <5>2. g[n][chain[b]] = {d \in M : left[d] <= left[chain[b]]}
          BY <2>3, <2>5, <4>1, <5>1
        <5> QED BY <4>1, <5>2
      <4>3. \A d \in M : left[d] \in Nat /\ (left[d] = left[b] => d = b)
        BY <2>1 DEF Held, Chained
      <4>4. {d \in M : left[d] <= left[b]} = {b} \union {d \in M : left[d] <= left[b] - 1}
        BY <4>1, <4>3
      <4> QED BY <3>2, <4>1, <4>2, <4>4
    <3> QED BY <3>3, <3>4
  <2>6. N \in S
    BY <1>2, <2>4, <2>5, UpTo
  <2>7. first[x] \in M /\ \A d \in M : left[d] <= left[first[x]]
    BY <1>6, <2>1 DEF Held, Chained
  <2>8. left[first[x]] + 1 <= N
    BY <1>1, <1>6, ChainCounted DEF Count
  <2>9. left[first[x]] < N
    BY <1>2, <2>2, <2>7, <2>8
  <2>10. g[N][first[x]] = {d \in M : left[d] <= left[first[x]]}
    BY <1>2, <2>3, <2>6, <2>7, <2>9
  <2> QED BY <1>3, <2>1, <2>7, <2>10
<1> QED BY <1>5, <1>6

-----------------------------------------------------------------------------
\* The places of the model as chains: the first block of each.
Ended == {"pool", "in", "walk"} \X Threads

FirstIn(pool, out, in, label, locals, p, t) ==
  CASE p = "pool" -> pool[t]
    [] p = "out"  -> out[t]
    [] p = "sent" -> IF label[t] \in {"load", "link", "cas"} THEN locals[t].head ELSE Nil
    [] p = "in"   -> in[t]
    [] p = "next" -> locals[t].next
    [] p = "walk" -> IF label[t] \in {"clear", "walk"} THEN locals[t].head ELSE Nil

FirstsOf(pool, out, in, label, locals) ==
  [x \in Places |-> FirstIn(pool, out, in, label, locals, x[1], x[2])]

Firsts == FirstsOf(mempool, repato, repatq, pc, loc)

\* F gives the first block of each place.
Shows(F, pool, out, in, label, locals) ==
  \A t \in Threads :
    /\ F[<<"pool", t>>] = pool[t]
    /\ F[<<"out", t>>] = out[t]
    /\ F[<<"sent", t>>] = IF label[t] \in {"load", "link", "cas"} THEN locals[t].head ELSE Nil
    /\ F[<<"in", t>>] = in[t]
    /\ F[<<"next", t>>] = locals[t].next
    /\ F[<<"walk", t>>] = IF label[t] \in {"clear", "walk"} THEN locals[t].head ELSE Nil

\* The places of a thread, and which of them end in Nil.
LEMMA PlacesAre ==
    /\ \A t \in Threads : /\ <<"pool", t>> \in Places /\ <<"out", t>> \in Places /\ <<"sent", t>> \in Places
                          /\ <<"in", t>> \in Places /\ <<"next", t>> \in Places /\ <<"walk", t>> \in Places
                          /\ <<"pool", t>> \in Ended /\ <<"in", t>> \in Ended /\ <<"walk", t>> \in Ended
                          /\ <<"out", t>> \notin Ended /\ <<"sent", t>> \notin Ended /\ <<"next", t>> \notin Ended
    /\ \A x \in Places : \E t \in Threads :
         \/ x = <<"pool", t>> \/ x = <<"out", t>> \/ x = <<"sent", t>>
         \/ x = <<"in", t>> \/ x = <<"next", t>> \/ x = <<"walk", t>>
BY DEF Places, Ended

\* FirstsOf is what Shows says, and nothing else is.
LEMMA FirstsShow ==
    ASSUME NEW pool, NEW out, NEW in, NEW label, NEW locals
    PROVE  /\ DOMAIN FirstsOf(pool, out, in, label, locals) = Places
           /\ FirstsOf(pool, out, in, label, locals) =
                [x \in Places |-> FirstsOf(pool, out, in, label, locals)[x]]
           /\ Shows(FirstsOf(pool, out, in, label, locals), pool, out, in, label, locals)
<1>1. PICK F : F = FirstsOf(pool, out, in, label, locals)
  OBVIOUS
<1>2. \A x \in Places : F[x] = FirstIn(pool, out, in, label, locals, x[1], x[2])
  BY <1>1 DEF FirstsOf
<1>3. ASSUME NEW p, NEW t \in Threads, <<p, t>> \in Places
      PROVE  F[<<p, t>>] = FirstIn(pool, out, in, label, locals, p, t)
  BY <1>2, <1>3
<1>4. Shows(F, pool, out, in, label, locals)
  BY <1>3, PlacesAre DEF Shows, FirstIn
<1> QED BY <1>1, <1>4 DEF FirstsOf

\* The converse.
LEMMA FirstsFrom ==
    ASSUME NEW pool, NEW out, NEW in, NEW label, NEW locals, NEW F,
           F = [x \in Places |-> F[x]], Shows(F, pool, out, in, label, locals)
    PROVE  F = FirstsOf(pool, out, in, label, locals)
<1>1. PICK G : G = FirstsOf(pool, out, in, label, locals)
  OBVIOUS
<1>2. Shows(G, pool, out, in, label, locals) /\ G = [x \in Places |-> G[x]]
  BY <1>1, FirstsShow
<1>3. ASSUME NEW x \in Places PROVE F[x] = G[x]
  <2>1. PICK t \in Threads : \/ x = <<"pool", t>> \/ x = <<"out", t>> \/ x = <<"sent", t>>
                             \/ x = <<"in", t>> \/ x = <<"next", t>> \/ x = <<"walk", t>>
    BY PlacesAre
  <2>2. /\ F[<<"pool", t>>] = G[<<"pool", t>>] /\ F[<<"out", t>>] = G[<<"out", t>>]
        /\ F[<<"sent", t>>] = G[<<"sent", t>>] /\ F[<<"in", t>>] = G[<<"in", t>>]
        /\ F[<<"next", t>>] = G[<<"next", t>>] /\ F[<<"walk", t>>] = G[<<"walk", t>>]
    BY <1>2 DEF Shows
  <2> QED BY <2>1, <2>2
<1> QED BY <1>1, <1>2, <1>3

-----------------------------------------------------------------------------
\* The inductive invariant.
Locals == [head : Blocks \union {Nil}, last : Blocks \union {Nil}, to : Threads, size : Nat,
           exp : Blocks \union {Nil}, next : Blocks \union {Nil},
           back : {"running", "popping", "waiting", "tell"}]

\* In jtrepatsend, until its chain is installed.
Sending(t) == pc[t] \in {"load", "link", "cas"}

\* What the locals of a thread hold at each of its steps.
Steps(t) ==
  /\ pc[t] \in {"running", "popping", "waiting", "tell"} => loc[t] = NoLocals
  /\ Sending(t) => loc[t].head # Nil
  /\ Sending(t) \/ pc[t] = "signal" =>
       repato[t] = Nil /\ loc[t].back \in {"running", "popping", "tell"}
  /\ pc[t] \in {"clear", "walk"} => loc[t].next = Nil /\ loc[t].back \in {"running", "waiting"}
  /\ pc[t] = "walk" => loc[t].head # Nil
  /\ raced[t] => pc[t] \in {"link", "cas"}

\* The types of the variables, and the steps of the threads.
Control ==
  /\ TypeOK
  /\ chain \in [Blocks -> Words] /\ AN \in [Blocks -> Nat] /\ loc \in [Threads -> Locals]
  /\ \A t \in Threads : Steps(t)

\* How many blocks the first of a chain counts.
Size(left, p, t) == Count(Firsts, left, <<p, t>>)

\* AAV0 and AN of repato are its last block and its size.
OutTrue(t, end, left) ==
  repato[t] # Nil => tail[t] = end[<<"out", t>>] /\ AN[repato[t]] = Size(left, "out", t)

\* So are the locals of jtrepatsend, and the chain is of one owner.
SentTrue(t, end, left) ==
  Sending(t) => /\ loc[t].last = end[<<"sent", t>>] /\ loc[t].size = Size(left, "sent", t)
                /\ Origin[loc[t].head] = loc[t].to

\* A pool, and a chain that came back, is of the thread itself.
OwnTrue(t) ==
  /\ mempool[t] # Nil => Origin[mempool[t]] = t
  /\ pc[t] \in {"clear", "walk"} /\ loc[t].head # Nil => Origin[loc[t].head] = t

\* The block that starts a new repato is alone.
NextTrue(t, left) == loc[t].next # Nil => left[loc[t].next] = 0

\* The chain leads into the queue that the sender expects.
LinkTrue(t) == pc[t] = "cas" => chain[loc[t].last] = loc[t].exp

\* A queue is of its owner, and counted until one was found again as it was.
InTrue(t, left) == repatq[t] # Nil => /\ Origin[repatq[t]] = t
                                      /\ ~aba => AN[repatq[t]] = Size(left, "in", t)

\* What a sender knows that no other thread has disturbed.
LookTrue(t) == pc[t] \in {"link", "cas"} /\ ~raced[t] => repatq[loc[t].to] = loc[t].exp

\* The size that it has written is right, too.
TotalTrue(t, left) ==
  pc[t] = "cas" /\ ~raced[t] /\ ~aba =>
    AN[loc[t].head] = loc[t].size + Size(left, "in", loc[t].to)

\* Between the taking of the queue and the clearing a signal of before still stands.
AskedTrue(o, left) ==
  Size(left, "in", o) > GCLIM =>
    \/ aba \/ needed[o] \/ (erased[o] /\ pc[o] # "clear")
    \/ \E t \in Threads : pc[t] = "signal" /\ loc[t].to = o

\* What is about the places of one thread, and what is about the queues as well.
Mine(t, end, left) ==
  /\ OutTrue(t, end, left) /\ SentTrue(t, end, left) /\ OwnTrue(t)
  /\ NextTrue(t, left) /\ LinkTrue(t)

Queue(t, left) ==
  /\ InTrue(t, left) /\ LookTrue(t) /\ TotalTrue(t, left) /\ AskedTrue(t, left)

\* The chains, and what each thread and each queue says of them.
Layout(end, at, left) ==
  /\ Chained(Places, Ended, used, chain, Firsts, end, at, left)
  /\ \A t \in Threads : Mine(t, end, left) /\ Queue(t, left)

IndInv == Control /\ \E end, at, left : Layout(end, at, left)

\* Blocks of two places, and blocks in use, are different.
LEMMA Apart ==
    ASSUME NEW end, NEW at, NEW left, Layout(end, at, left)
    PROVE  \A x \in Places : Firsts[x] # Nil =>
             /\ Firsts[x] \in Blocks \ used /\ at[Firsts[x]] = x
             /\ end[x] \in Blocks \ used /\ at[end[x]] = x
BY DEF Layout, Chained

\* The first blocks of the places, as the actions name them.
LEMMA FirstsNow ==
    ASSUME NEW t \in Threads
    PROVE  /\ Firsts = [x \in Places |-> Firsts[x]]
           /\ Firsts[<<"pool", t>>] = mempool[t]
           /\ Firsts[<<"out", t>>] = repato[t]
           /\ Firsts[<<"sent", t>>] = IF Sending(t) THEN loc[t].head ELSE Nil
           /\ Firsts[<<"in", t>>] = repatq[t]
           /\ Firsts[<<"next", t>>] = loc[t].next
           /\ Firsts[<<"walk", t>>] = IF pc[t] \in {"clear", "walk"} THEN loc[t].head ELSE Nil
<1>1. Firsts = [x \in Places |-> Firsts[x]] /\ Shows(Firsts, mempool, repato, repatq, pc, loc)
  BY FirstsShow DEF Firsts
<1> QED BY <1>1 DEF Shows, Sending

\* After a step.
LEMMA FirstsNext ==
    ASSUME NEW G, G = [x \in Places |-> G[x]],
           \A s \in Threads :
             /\ G[<<"pool", s>>] = mempool'[s] /\ G[<<"out", s>>] = repato'[s]
             /\ G[<<"sent", s>>] = (IF Sending(s)' THEN loc'[s].head ELSE Nil)
             /\ G[<<"in", s>>] = repatq'[s] /\ G[<<"next", s>>] = loc'[s].next
             /\ G[<<"walk", s>>] = (IF pc'[s] \in {"clear", "walk"} THEN loc'[s].head ELSE Nil)
    PROVE  G = Firsts'
<1>1. Shows(G, mempool', repato', repatq', pc', loc')
  BY DEF Shows, Sending
<1> QED BY <1>1, FirstsFrom DEF Firsts

\* In the beginning every block is in use.
LEMMA InitLayout == Init => IndInv
<1> SUFFICES ASSUME Init PROVE IndInv
  OBVIOUS
<1>1. NoLocals \in Locals
  BY DEF NoLocals, Locals, Threads
<1>2. Control
  BY <1>1, RepatriationAssumption DEF Init, Control, TypeOK, Steps, Sending, Words
<1>3. PICK x : x \in Places
  BY PlacesAre DEF Threads
<1>4. PICK at, left : at = [b \in Blocks |-> x] /\ left = [b \in Blocks |-> 0]
  OBVIOUS
<1>5. ASSUME NEW y \in Places PROVE Firsts[y] = Nil
  <2>1. PICK t \in Threads : \/ y = <<"pool", t>> \/ y = <<"out", t>> \/ y = <<"sent", t>>
                             \/ y = <<"in", t>> \/ y = <<"next", t>> \/ y = <<"walk", t>>
    BY PlacesAre
  <2>2. Shows(Firsts, mempool, repato, repatq, pc, loc)
    BY FirstsShow DEF Firsts
  <2>3. /\ Firsts[<<"pool", t>>] = Nil /\ Firsts[<<"out", t>>] = Nil /\ Firsts[<<"sent", t>>] = Nil
        /\ Firsts[<<"in", t>>] = Nil /\ Firsts[<<"next", t>>] = Nil /\ Firsts[<<"walk", t>>] = Nil
    BY <2>2 DEF Shows, Init, NoLocals
  <2> QED BY <2>1, <2>3
<1>6. Firsts \in [Places -> Blocks \union {Nil}]
  <2>1. Firsts = [y \in Places |-> Firsts[y]]
    BY FirstsShow DEF Firsts
  <2> QED BY <1>5, <2>1
<1>7. Chained(Places, Ended, used, chain, Firsts, x, at, left)
  BY <1>3, <1>4, <1>5, <1>6 DEF Chained, Init
<1>8. ASSUME NEW t \in Threads PROVE Mine(t, x, left) /\ Queue(t, left)
  <2>1. Size(left, "in", t) = 0
    BY <1>5, PlacesAre DEF Size, Count
  <2> QED BY <2>1, RepatriationAssumption
          DEF Mine, Queue, OutTrue, SentTrue, OwnTrue, InTrue, NextTrue, LookTrue, LinkTrue, TotalTrue,
              AskedTrue, Init, NoLocals, Sending
<1> QED BY <1>2, <1>7, <1>8 DEF IndInv, Layout

-----------------------------------------------------------------------------
\* A step of thread t leaves alone what the places of the others depend on, and the
\* blocks of the queues.
Kept(t, at, left, l2) ==
  \A b \in Blocks \ used : \A p, s : at[b] = <<p, s>> /\ (s # t \/ p = "in") =>
    AN'[b] = AN[b] /\ chain'[b] = chain[b] /\ l2[b] = left[b]

\* Step, positions and ends of the other threads.
Frame(t, end, at, left, e2, l2) ==
  /\ \A s \in Threads \ {t} :
       /\ pc'[s] = pc[s] /\ loc'[s] = loc[s] /\ mempool'[s] = mempool[s]
       /\ repato'[s] = repato[s] /\ tail'[s] = tail[s]
       /\ repato[s] # Nil => e2[<<"out", s>>] = end[<<"out", s>>]
       /\ Sending(s) => e2[<<"sent", s>>] = end[<<"sent", s>>]
  /\ Kept(t, at, left, l2)

\* So what is true of the places of another thread stays so.
LEMMA OthersKept ==
    ASSUME Control, NEW end, NEW at, NEW left, Layout(end, at, left), NEW t \in Threads,
           NEW e2, NEW l2, Frame(t, end, at, left, e2, l2), NEW s \in Threads, s # t
    PROVE  /\ Mine(s, e2, l2)'
           /\ Sending(s) => AN'[loc[s].head] = AN[loc[s].head]
<1>1. /\ pc'[s] = pc[s] /\ loc'[s] = loc[s] /\ mempool'[s] = mempool[s]
      /\ repato'[s] = repato[s] /\ tail'[s] = tail[s]
      /\ repato[s] # Nil => e2[<<"out", s>>] = end[<<"out", s>>]
      /\ Sending(s) => e2[<<"sent", s>>] = end[<<"sent", s>>]
  BY DEF Frame, Kept
<1>2. ASSUME NEW p, <<p, s>> \in Places, Firsts[<<p, s>>] # Nil
      PROVE  /\ Firsts[<<p, s>>] \in Blocks /\ AN'[Firsts[<<p, s>>]] = AN[Firsts[<<p, s>>]]
             /\ l2[Firsts[<<p, s>>]] = left[Firsts[<<p, s>>]]
             /\ chain'[end[<<p, s>>]] = chain[end[<<p, s>>]]
  <2>1. PICK x : x = <<p, s>>
    OBVIOUS
  <2>2. /\ Firsts[x] \in Blocks \ used /\ at[Firsts[x]] = x
        /\ end[x] \in Blocks \ used /\ at[end[x]] = x
    BY <1>2, <2>1, Apart
  <2> QED BY <2>1, <2>2 DEF Frame, Kept
<1>3. /\ Firsts[<<"out", s>>] = repato[s] /\ Firsts'[<<"out", s>>] = repato[s]
      /\ Sending(s) => Firsts[<<"sent", s>>] = loc[s].head /\ Firsts'[<<"sent", s>>] = loc[s].head
      /\ Firsts[<<"next", s>>] = loc[s].next
      /\ <<"out", s>> \in Places /\ <<"sent", s>> \in Places /\ <<"next", s>> \in Places
  <2>1. /\ Shows(Firsts, mempool, repato, repatq, pc, loc)
        /\ Shows(Firsts', mempool', repato', repatq', pc', loc')
    BY FirstsShow DEF Firsts
  <2>2. Firsts[<<"out", s>>] = repato[s] /\ Firsts'[<<"out", s>>] = repato[s]
    BY <1>1, <2>1 DEF Shows
  <2>3. Firsts[<<"sent", s>>] = (IF Sending(s) THEN loc[s].head ELSE Nil)
    BY <2>1 DEF Shows, Sending
  <2>4. Firsts'[<<"sent", s>>] = Firsts[<<"sent", s>>]
    <3>1. Firsts'[<<"sent", s>>] = (IF pc'[s] \in {"load", "link", "cas"} THEN loc'[s].head ELSE Nil)
      BY <2>1 DEF Shows
    <3> QED BY <1>1, <2>3, <3>1 DEF Sending
  <2>5. Firsts[<<"next", s>>] = loc[s].next
    BY <2>1 DEF Shows
  <2> QED BY <2>2, <2>3, <2>4, <2>5, PlacesAre
<1>4. Mine(s, end, left) /\ (Sending(s) => loc[s].head # Nil)
  BY DEF Layout, Control, Steps
<1>5. OutTrue(s, e2, l2)'
  BY <1>1, <1>2, <1>3, <1>4 DEF Mine, OutTrue, Size, Count
<1>6. SentTrue(s, e2, l2)'
  BY <1>1, <1>2, <1>3, <1>4 DEF Mine, SentTrue, Size, Count, Sending
<1>7. OwnTrue(s)'
  BY <1>1, <1>4 DEF Mine, OwnTrue
<1>8. NextTrue(s, l2)'
  BY <1>1, <1>2, <1>3, <1>4 DEF Mine, NextTrue
<1>9. LinkTrue(s)'
  BY <1>1, <1>2, <1>3, <1>4 DEF Mine, LinkTrue, SentTrue, Sending
<1>10. Sending(s) => AN'[loc[s].head] = AN[loc[s].head]
  BY <1>2, <1>3, <1>4
<1> QED BY <1>5, <1>6, <1>7, <1>8, <1>9, <1>10 DEF Mine

\* A queue that is the same has the same blocks.
LEMMA QueueKept ==
    ASSUME NEW end, NEW at, NEW left, Layout(end, at, left), NEW t \in Threads,
           NEW e2, NEW l2, Frame(t, end, at, left, e2, l2), NEW o \in Threads, repatq'[o] = repatq[o]
    PROVE  /\ Size(l2, "in", o)' = Size(left, "in", o)
           /\ repatq[o] # Nil => AN'[repatq[o]] = AN[repatq[o]]
<1>1. Firsts[<<"in", o>>] = repatq[o] /\ Firsts'[<<"in", o>>] = repatq[o] /\ <<"in", o>> \in Places
  <2>1. /\ Shows(Firsts, mempool, repato, repatq, pc, loc)
        /\ Shows(Firsts', mempool', repato', repatq', pc', loc')
    BY FirstsShow DEF Firsts
  <2> QED BY <2>1, PlacesAre DEF Shows
<1>2. repatq[o] # Nil => repatq[o] \in Blocks \ used /\ at[repatq[o]] = <<"in", o>>
  BY <1>1, Apart
<1>3. repatq[o] # Nil => AN'[repatq[o]] = AN[repatq[o]] /\ l2[repatq[o]] = left[repatq[o]]
  BY <1>2 DEF Frame, Kept
<1> QED BY <1>1, <1>3 DEF Size, Count

\* A step that leaves the queues alone, and asks at most more owners.
Quiet(t) ==
  /\ UNCHANGED <<repatq, raced, aba, erased>>
  /\ \A o \in Threads : needed[o] => needed'[o]
  /\ pc[t] # "signal" /\ pc'[t] # "clear"

\* It keeps what is true of the queues, of the thread's own view only the part that
\* does not depend on its step.
LEMMA QueuesKept ==
    ASSUME Control, NEW end, NEW at, NEW left, Layout(end, at, left), NEW t \in Threads,
           NEW e2, NEW l2, Frame(t, end, at, left, e2, l2), Quiet(t),
           NEW s \in Threads
    PROVE  /\ InTrue(s, l2)' /\ AskedTrue(s, l2)'
           /\ s # t => Queue(s, l2)'
<1>1. Queue(s, left) /\ (s # t => pc'[s] = pc[s] /\ loc'[s] = loc[s])
  BY DEF Layout, Frame, Kept
<1>2. InTrue(s, l2)'
  BY <1>1, QueueKept DEF Queue, InTrue, Quiet
<1>3. AskedTrue(s, l2)'
  <2>1. Size(l2, "in", s)' = Size(left, "in", s)
    BY QueueKept DEF Quiet
  <2>2. \A u \in Threads : pc[u] = "signal" => pc'[u] = "signal" /\ loc'[u] = loc[u]
    BY DEF Quiet, Frame, Kept
  <2>3. pc'[s] = "clear" => pc[s] = "clear"
    BY <1>1 DEF Quiet
  <2> QED BY <1>1, <2>1, <2>2, <2>3 DEF Queue, AskedTrue, Quiet
<1>4. s # t => LookTrue(s)'
  BY <1>1 DEF Queue, LookTrue, Quiet
<1>5. ASSUME s # t PROVE TotalTrue(s, l2)'
  <2>1. Sending(s) => loc[s].to \in Threads /\ AN'[loc[s].head] = AN[loc[s].head]
    BY <1>5, OthersKept DEF Control, Locals
  <2>2. PICK o : o = loc[s].to
    OBVIOUS
  <2>3. Sending(s) => Size(l2, "in", o)' = Size(left, "in", o)
    BY <2>1, <2>2, QueueKept DEF Quiet
  <2>4. loc'[s].to = o
    BY <1>1, <1>5, <2>2
  <2> QED BY <1>1, <1>5, <2>1, <2>2, <2>3, <2>4 DEF Queue, TotalTrue, Quiet, Sending
<1> QED BY <1>2, <1>3, <1>4, <1>5 DEF Queue

\* What remains to be shown of a quiet step.
LEMMA Assembled ==
    ASSUME Control, NEW end, NEW at, NEW left, Layout(end, at, left), NEW t \in Threads,
           NEW e2, NEW a2, NEW l2, Chained(Places, Ended, used', chain', Firsts', e2, a2, l2),
           Control', Frame(t, end, at, left, e2, l2), Quiet(t),
           Mine(t, e2, l2)', LookTrue(t)', TotalTrue(t, l2)'
    PROVE  IndInv'
<1>1. ASSUME NEW s \in Threads PROVE Mine(s, e2, l2)' /\ Queue(s, l2)'
  <2>1. CASE s = t
    BY <2>1, QueuesKept DEF Queue
  <2>2. CASE s # t
    BY <2>2, OthersKept, QueuesKept
  <2> QED BY <2>1, <2>2
<1>2. Layout(end, at, left) => Layout(e2, a2, l2)'
  BY <1>1 DEF Layout
<1> QED BY <1>2 DEF IndInv

-----------------------------------------------------------------------------
\* Alloc takes the first block of a pool.
LEMMA AllocKeeps ==
    ASSUME IndInv, NEW t \in Threads, Alloc(t)
    PROVE  IndInv'
<1>1. PICK end, at, left : Layout(end, at, left)
  BY DEF IndInv
<1>2. Control /\ chain \in [Blocks -> Words] /\ AN \in [Blocks -> Nat]
  BY DEF IndInv, Control
<1>3. PICK b : b = mempool[t]
  OBVIOUS
<1>4. /\ b # Nil /\ used' = used \union {b} /\ mempool' = [mempool EXCEPT ![t] = chain[b]]
      /\ chain' = [chain EXCEPT ![b] = Foreign] /\ AN' = [AN EXCEPT ![b] = 0]
      /\ UNCHANGED <<outVars, inVars, pc, loc>>
  BY <1>3 DEF Alloc
<1>5. PICK x : x = <<"pool", t>>
  OBVIOUS
<1>6. PICK F : F = [Firsts EXCEPT ![x] = chain[b]]
  OBVIOUS
<1>7. x \in Places /\ x \in Ended /\ Firsts[x] = b /\ b \in Blocks \ used /\ at[b] = x
  <2>1. x \in Places /\ x \in Ended /\ Firsts[x] = b
    BY <1>3, <1>5, PlacesAre, FirstsNow
  <2> QED BY <1>1, <1>4, <2>1, Apart
<1>8. F = Firsts'
  <2>1. Firsts = [y \in Places |-> Firsts[y]] /\ Shows(Firsts, mempool, repato, repatq, pc, loc)
    BY FirstsShow DEF Firsts
  <2>2. F = [y \in Places |-> F[y]]
    BY <1>6, <2>1
  <2>3. Shows(F, mempool', repato', repatq', pc', loc')
    BY <1>2, <1>4, <1>5, <1>6, <2>1, PlacesAre DEF Shows, Control, TypeOK, outVars, inVars
  <2> QED BY <2>2, <2>3, FirstsFrom DEF Firsts
<1>9. /\ Chained(Places, Ended, used', chain', F, end, at, left)
      /\ \A y \in Places \ {x} : Count(F, left, y) = Count(Firsts, left, y)
  <2>1. \A d \in Blocks \ (used \union {b}) : chain'[d] = chain[d]
    BY <1>2, <1>4
  <2>2. Chained(Places, Ended, used, chain, Firsts, end, at, left)
    BY <1>1 DEF Layout
  <2>3. /\ Chained(Places, Ended, used \union {b}, chain', F, end, at, left)
        /\ \A y \in Places \ {x} : Count(F, left, y) = Count(Firsts, left, y)
    <3>1. TakenFirst(Places, Ended, used, chain, chain', Firsts, F, x, b)
      BY <1>4, <1>6, <1>7, <2>1 DEF TakenFirst
    <3>2. SameCounts(Places \ {x}, Firsts, left, F, left)
      BY <2>2, <3>1, PopFront
    <3>3. Chained(Places, Ended, used \union {b}, chain', F, end, at, left)
      BY <2>2, <3>1, PopFront
    <3> QED BY <3>2, <3>3 DEF SameCounts
  <2> QED BY <1>4, <2>3
<1>10. Control'
  <2>1. chain[b] \in Blocks \union {Nil}
    BY <1>6, <1>7, <1>9 DEF Chained
  <2>2. TypeOK' /\ chain' \in [Blocks -> Words] /\ AN' \in [Blocks -> Nat] /\ loc' \in [Threads -> Locals]
    BY <1>2, <1>4, <1>7, <2>1 DEF Control, TypeOK, Words, outVars, inVars
  <2>3. \A s \in Threads : Steps(s)'
    BY <1>2, <1>4 DEF Control, Steps, Sending, outVars, inVars
  <2> QED BY <2>2, <2>3 DEF Control
<1>11. Frame(t, end, at, left, end, left) /\ Quiet(t)
  <2>1. Frame(t, end, at, left, end, left)
    BY <1>2, <1>4, <1>5, <1>7 DEF Frame, Kept, outVars, inVars, Control, TypeOK
  <2>2. Quiet(t)
    BY <1>4 DEF Quiet, Alloc, inVars
  <2> QED BY <2>1, <2>2
<1>12. Mine(t, end, left)' /\ LookTrue(t)' /\ TotalTrue(t, left)'
  <2>1. /\ pc[t] = "running" /\ pc'[t] = "running" /\ loc'[t] = loc[t] /\ loc[t] = NoLocals
        /\ repato'[t] = repato[t] /\ tail'[t] = tail[t] /\ mempool'[t] = chain[b]
    BY <1>2, <1>4 DEF Alloc, Control, Steps, TypeOK, outVars
  <2>2. SentTrue(t, end, left)' /\ NextTrue(t, left)' /\ LinkTrue(t)'
    BY <2>1 DEF SentTrue, NextTrue, LinkTrue, Sending, NoLocals
  <2>3. OutTrue(t, end, left)'
    <3>1. PICK y : y = <<"out", t>>
      OBVIOUS
    <3>2. y \in Places /\ y # x /\ Firsts[y] = repato[t]
      BY <1>5, <3>1, PlacesAre, FirstsNow
    <3>3. Size(left, "out", t)' = Size(left, "out", t)
      BY <1>8, <1>9, <3>1, <3>2 DEF Size
    <3>4. repato[t] # Nil => repato[t] \in Blocks /\ repato[t] # b
      BY <1>1, <1>7, <3>2, Apart
    <3> QED BY <1>1, <1>2, <1>4, <2>1, <3>3, <3>4 DEF OutTrue, Layout, Mine
  <2>4. OwnTrue(t)'
    <3>1. Origin[b] = t
      BY <1>1, <1>3, <1>4 DEF Layout, Mine, OwnTrue
    <3>2. chain[b] # Nil => chain[b] \in Blocks \ used /\ at[chain[b]] = x
      <4>1. F[x] = chain[b] /\ used \subseteq used'
        BY <1>4, <1>6, <1>7, FirstsNow
      <4> QED BY <1>7, <1>9, <4>1 DEF Chained
    <3>3. chain[b] # Nil => Origin[chain[b]] = Origin[b]
      BY <1>1, <1>7, <3>2 DEF Layout, Chained
    <3> QED BY <2>1, <3>1, <3>3 DEF OwnTrue
  <2>5. LookTrue(t)' /\ TotalTrue(t, left)'
    BY <2>1 DEF LookTrue, TotalTrue
  <2> QED BY <2>2, <2>3, <2>4, <2>5 DEF Mine
<1> QED BY <1>1, <1>2, <1>8, <1>9, <1>10, <1>11, <1>12, Assembled

\* A thread waits, starts a task, ends one with nothing to send, or signals the thread
\* that started it.
LEMMA PausesKeep ==
    ASSUME IndInv, NEW t \in Threads,
           Wait(t) \/ StartTask(t) \/ TellOriginator(t) \/ (EndTask(t) /\ repato[t] = Nil)
    PROVE  IndInv'
<1>1. PICK end, at, left : Layout(end, at, left)
  BY DEF IndInv
<1>2. Control
  BY DEF IndInv
<1>3. /\ UNCHANGED <<poolVars, chain, AN, outVars, repatq, raced, aba, erased, loc>>
      /\ pc[t] \in {"running", "popping", "waiting", "tell"} /\ loc[t] = NoLocals
      /\ \E l \in {"popping", "waiting", "running", "tell"} : Goto(t, l)
      /\ \A o \in Threads : needed[o] => needed'[o]
      /\ needed' \in [Threads -> BOOLEAN]
  BY <1>2 DEF Wait, StartTask, TellOriginator, EndTask, Control, Steps, TypeOK, inVars
<1>4. pc'[t] \in {"popping", "waiting", "running", "tell"} /\ \A s \in Threads : s # t => pc'[s] = pc[s]
  BY <1>2, <1>3 DEF Goto, Control, TypeOK
<1>5. Firsts' = Firsts
  <2>1. Firsts = [y \in Places |-> Firsts[y]] /\ Shows(Firsts, mempool, repato, repatq, pc, loc)
    BY FirstsShow DEF Firsts
  <2>2. Shows(Firsts, mempool', repato', repatq', pc', loc')
    BY <1>3, <1>4, <2>1 DEF Shows, poolVars, outVars
  <2> QED BY <2>1, <2>2, FirstsFrom DEF Firsts
<1>6. Chained(Places, Ended, used', chain', Firsts', end, at, left)
  BY <1>1, <1>3, <1>5 DEF Layout, poolVars
<1>7. Control'
  <2>1. TypeOK' /\ chain' \in [Blocks -> Words] /\ AN' \in [Blocks -> Nat] /\ loc' \in [Threads -> Locals]
    BY <1>2, <1>3, <1>4 DEF Control, TypeOK, poolVars, outVars, Goto
  <2>2. \A s \in Threads : Steps(s)'
    BY <1>2, <1>3, <1>4 DEF Control, Steps, Sending, outVars
  <2> QED BY <2>1, <2>2 DEF Control
<1>8. Frame(t, end, at, left, end, left) /\ Quiet(t)
  BY <1>3, <1>4 DEF Frame, Kept, Quiet, poolVars, outVars
<1>9. Mine(t, end, left)'
  <2>1. Mine(t, end, left)
    BY <1>1 DEF Layout
  <2>2. Size(left, "out", t)' = Size(left, "out", t)
    BY <1>5 DEF Size
  <2> QED BY <1>3, <1>4, <2>1, <2>2
          DEF Mine, OutTrue, SentTrue, OwnTrue, NextTrue, LinkTrue, Sending, poolVars, outVars
<1>10. LookTrue(t)' /\ TotalTrue(t, left)'
  BY <1>4 DEF LookTrue, TotalTrue
<1> QED BY <1>1, <1>2, <1>6, <1>7, <1>8, <1>9, <1>10, Assembled

\* A sender looks at the queue.
LEMMA LoadKeeps ==
    ASSUME IndInv, NEW t \in Threads, Load(t)
    PROVE  IndInv'
<1>1. PICK end, at, left : Layout(end, at, left)
  BY DEF IndInv
<1>2. Control
  BY DEF IndInv
<1>3. /\ UNCHANGED <<poolVars, chain, AN, outVars, inVars>> /\ pc[t] = "load"
      /\ pc' = [pc EXCEPT ![t] = "link"]
      /\ loc' = [loc EXCEPT ![t].exp = repatq[loc[t].to]]
  BY DEF Load, Goto
<1>4. loc[t] \in Locals /\ repatq[loc[t].to] \in Blocks \union {Nil}
  BY <1>2 DEF Control, TypeOK, Locals
<1>5. /\ loc'[t] \in Locals /\ pc'[t] = "link" /\ \A s \in Threads : s # t => pc'[s] = pc[s] /\ loc'[s] = loc[s]
      /\ loc'[t].head = loc[t].head /\ loc'[t].last = loc[t].last /\ loc'[t].next = loc[t].next
      /\ loc'[t].to = loc[t].to /\ loc'[t].size = loc[t].size /\ loc'[t].back = loc[t].back
      /\ loc'[t].exp = repatq[loc[t].to]
  BY <1>2, <1>3, <1>4 DEF Control, TypeOK, Locals
<1>6. Firsts' = Firsts
  <2>1. Firsts = [y \in Places |-> Firsts[y]] /\ Shows(Firsts, mempool, repato, repatq, pc, loc)
    BY FirstsShow DEF Firsts
  <2>2. Shows(Firsts, mempool', repato', repatq', pc', loc')
    <3>1. mempool' = mempool /\ repato' = repato /\ repatq' = repatq
      BY <1>3 DEF poolVars, outVars, inVars
    <3>2. ASSUME NEW s \in Threads
          PROVE  /\ loc'[s].head = loc[s].head /\ loc'[s].next = loc[s].next
                 /\ pc'[s] \in {"load", "link", "cas"} <=> pc[s] \in {"load", "link", "cas"}
                 /\ pc'[s] \in {"clear", "walk"} <=> pc[s] \in {"clear", "walk"}
      BY <1>3, <1>5
    <3> QED BY <2>1, <3>1, <3>2 DEF Shows
  <2> QED BY <2>1, <2>2, FirstsFrom DEF Firsts
<1>7. Chained(Places, Ended, used', chain', Firsts', end, at, left)
  BY <1>1, <1>3, <1>6 DEF Layout, poolVars
<1>8. Control'
  <2>1. TypeOK' /\ chain' \in [Blocks -> Words] /\ AN' \in [Blocks -> Nat]
    BY <1>2, <1>3 DEF Control, TypeOK, poolVars, outVars, inVars
  <2>2. loc' \in [Threads -> Locals]
    <3>1. \A s \in Threads : loc'[s] \in Locals
      BY <1>2, <1>5 DEF Control
    <3> QED BY <1>2, <1>3, <3>1 DEF Control
  <2>3. \A s \in Threads : Steps(s)'
    BY <1>2, <1>3, <1>5 DEF Control, Steps, Sending, outVars, inVars
  <2> QED BY <2>1, <2>2, <2>3 DEF Control
<1>9. Frame(t, end, at, left, end, left) /\ Quiet(t)
  BY <1>3, <1>5 DEF Frame, Kept, Quiet, poolVars, outVars, inVars
<1>10. Mine(t, end, left)'
  <2>1. Mine(t, end, left)
    BY <1>1 DEF Layout
  <2>2. Size(left, "out", t)' = Size(left, "out", t) /\ Size(left, "sent", t)' = Size(left, "sent", t)
    BY <1>6 DEF Size
  <2> QED BY <1>3, <1>5, <2>1, <2>2
          DEF Mine, OutTrue, SentTrue, OwnTrue, NextTrue, LinkTrue, Sending, poolVars, outVars
<1>11. LookTrue(t)' /\ TotalTrue(t, left)'
  BY <1>3, <1>5 DEF LookTrue, TotalTrue, inVars
<1> QED BY <1>1, <1>2, <1>7, <1>8, <1>9, <1>10, <1>11, Assembled

\* A sender puts what it has seen behind its chain, and the sum before it.
LEMMA LinkKeeps ==
    ASSUME IndInv, NEW t \in Threads, Link(t)
    PROVE  IndInv'
<1>1. PICK end, at, left : Layout(end, at, left)
  BY DEF IndInv
<1>2. Control
  BY DEF IndInv
<1>3. PICK h, z : h = loc[t].head /\ z = loc[t].last
  OBVIOUS
<1>4. /\ UNCHANGED <<poolVars, outVars, inVars, loc>> /\ pc[t] = "link"
      /\ pc' = [pc EXCEPT ![t] = "cas"]
      /\ chain' = [chain EXCEPT ![z] = loc[t].exp] /\ AN' = [AN EXCEPT ![h] = Total(t)]
  BY <1>3 DEF Link, Goto
<1>5. pc'[t] = "cas" /\ \A s \in Threads : s # t => pc'[s] = pc[s]
  BY <1>2, <1>4 DEF Control, TypeOK
<1>6. /\ loc[t] \in Locals /\ loc[t].exp \in Blocks \union {Nil} /\ loc[t].to \in Threads
      /\ h # Nil /\ loc[t].size \in Nat
  BY <1>2, <1>3, <1>4 DEF Control, Locals, Steps, Sending
<1>7. PICK x : x = <<"sent", t>>
  OBVIOUS
<1>8. /\ x \in Places /\ x \notin Ended /\ Firsts[x] = h
      /\ h \in Blocks \ used /\ at[h] = x /\ z \in Blocks \ used /\ at[z] = x /\ left[z] = 0
  <2>1. x \in Places /\ x \notin Ended /\ Firsts[x] = h
    BY <1>3, <1>4, <1>7, PlacesAre, FirstsNow DEF Sending
  <2>2. z = end[x]
    BY <1>1, <1>3, <1>4, <1>7 DEF Layout, Mine, SentTrue, Sending
  <2>3. left[end[x]] = 0
    BY <1>1, <1>6, <2>1 DEF Layout, Chained
  <2> QED BY <1>1, <1>6, <2>1, <2>2, <2>3, Apart
<1>9. Firsts' = Firsts
  <2>1. Firsts = [y \in Places |-> Firsts[y]] /\ Shows(Firsts, mempool, repato, repatq, pc, loc)
    BY FirstsShow DEF Firsts
  <2>2. Shows(Firsts, mempool', repato', repatq', pc', loc')
    BY <1>4, <1>5, <2>1 DEF Shows, poolVars, outVars, inVars
  <2> QED BY <2>1, <2>2, FirstsFrom DEF Firsts
<1>10. Chained(Places, Ended, used', chain', Firsts', end, at, left)
  <2>1. Reworded(Ended, used, chain, chain', at, left)
    BY <1>2, <1>4, <1>8 DEF Reworded, Control
  <2>2. Chained(Places, Ended, used, chain', Firsts, end, at, left)
    BY <1>1, <2>1, OtherWords DEF Layout
  <2> QED BY <1>4, <1>9, <2>2 DEF poolVars
<1>11. Total(t) \in Nat
  <2>1. loc[t].exp # Nil => AN[loc[t].exp] \in Nat
    BY <1>2, <1>6 DEF Control
  <2> QED BY <1>6, <2>1 DEF Total
<1>12. Control'
  <2>1. TypeOK' /\ loc' \in [Threads -> Locals]
    BY <1>2, <1>4 DEF Control, TypeOK, poolVars, outVars, inVars
  <2>2. chain' \in [Blocks -> Words]
    BY <1>2, <1>4, <1>6 DEF Control, Words
  <2>3. AN' \in [Blocks -> Nat]
    BY <1>2, <1>4, <1>11 DEF Control
  <2>4. \A s \in Threads : Steps(s)'
    BY <1>2, <1>4, <1>5 DEF Control, Steps, Sending, outVars, inVars
  <2> QED BY <2>1, <2>2, <2>3, <2>4 DEF Control
<1>13. Frame(t, end, at, left, end, left)
  <2>1. \A b \in Blocks : b # h => AN'[b] = AN[b]
    BY <1>2, <1>4 DEF Control
  <2>2. \A b \in Blocks : b # z => chain'[b] = chain[b]
    BY <1>2, <1>4 DEF Control
  <2> QED BY <1>4, <1>5, <1>7, <1>8, <2>1, <2>2 DEF Frame, Kept, poolVars, outVars
<1>14. Quiet(t)
  BY <1>4, <1>5 DEF Quiet, inVars
<1>15. Mine(t, end, left)'
  <2>1. Mine(t, end, left)
    BY <1>1 DEF Layout
  <2>2. Size(left, "out", t)' = Size(left, "out", t) /\ Size(left, "sent", t)' = Size(left, "sent", t)
    BY <1>9 DEF Size
  <2>3. repato[t] = Nil
    BY <1>2, <1>4 DEF Control, Steps, Sending
  <2>4. LinkTrue(t)'
    BY <1>2, <1>3, <1>4, <1>8 DEF LinkTrue, Control
  <2> QED BY <1>4, <1>5, <2>1, <2>2, <2>3, <2>4
          DEF Mine, OutTrue, SentTrue, OwnTrue, NextTrue, Sending, poolVars, outVars
<1>16. LookTrue(t)'
  BY <1>1, <1>4, <1>5 DEF LookTrue, inVars, Layout, Queue
<1>17. TotalTrue(t, left)'
  <2>1. PICK o : o = loc[t].to
    OBVIOUS
  <2>2. Size(left, "in", o)' = Size(left, "in", o) /\ o \in Threads
    BY <1>1, <1>4, <1>6, <1>13, <2>1, QueueKept DEF inVars
  <2>3. ASSUME ~raced[t], ~aba PROVE Total(t) = loc[t].size + Size(left, "in", o)
    <3>1. repatq[o] = loc[t].exp /\ InTrue(o, left)
      BY <1>1, <1>4, <2>1, <2>2, <2>3 DEF Layout, Queue, LookTrue
    <3>2. repatq[o] = Nil => Size(left, "in", o) = 0
      BY <2>2, FirstsNow DEF Size, Count
    <3> QED BY <1>6, <2>3, <3>1, <3>2 DEF Total, InTrue
  <2>4. AN'[h] = Total(t)
    BY <1>2, <1>4, <1>8 DEF Control
  <2>5. loc' = loc /\ raced' = raced /\ aba' = aba
    BY <1>4 DEF inVars
  <2> QED BY <1>3, <2>1, <2>2, <2>3, <2>4, <2>5 DEF TotalTrue
<1> QED BY <1>1, <1>2, <1>10, <1>12, <1>13, <1>14, <1>15, <1>16, <1>17, Assembled

\* The first block of the queue that was taken goes to the pool.
LEMMA WalkKeeps ==
    ASSUME IndInv, NEW t \in Threads, Walk(t)
    PROVE  IndInv'
<1>1. PICK end, at, left : Layout(end, at, left)
  BY DEF IndInv
<1>2. Control /\ chain \in [Blocks -> Words]
  BY DEF IndInv, Control
<1>3. PICK b : b = loc[t].head
  OBVIOUS
<1>4. PICK x, y : x = <<"walk", t>> /\ y = <<"pool", t>>
  OBVIOUS
<1>5. /\ UNCHANGED <<used, reused, AN, outVars, inVars>> /\ pc[t] = "walk"
      /\ chain' = [chain EXCEPT ![b] = mempool[t]] /\ mempool' = [mempool EXCEPT ![t] = b]
      /\ chain[b] = Nil => pc' = [pc EXCEPT ![t] = loc[t].back] /\ loc' = [loc EXCEPT ![t] = NoLocals]
      /\ chain[b] # Nil => pc' = pc /\ loc' = [loc EXCEPT ![t].head = chain[b]]
  BY <1>3 DEF Walk, Pool, Goto
<1>6. loc[t] \in Locals /\ b # Nil /\ loc[t].next = Nil /\ loc[t].back \in {"running", "waiting"}
  BY <1>2, <1>3, <1>5 DEF Control, Steps
<1>7. /\ x \in Places /\ y \in Places /\ x \in Ended /\ y \in Ended /\ x # y
      /\ Firsts[x] = b /\ Firsts[y] = mempool[t] /\ b \in Blocks \ used /\ at[b] = x
      /\ Firsts = [v \in Places |-> Firsts[v]]
  <2>1. /\ x \in Places /\ y \in Places /\ x \in Ended /\ y \in Ended /\ x # y
        /\ Firsts[x] = b /\ Firsts[y] = mempool[t] /\ Firsts = [v \in Places |-> Firsts[v]]
    BY <1>3, <1>4, <1>5, PlacesAre, FirstsNow
  <2> QED BY <1>1, <1>6, <2>1, Apart
<1>8. PICK F : F = [Firsts EXCEPT ![x] = chain[b]]
  OBVIOUS
<1>9. Chained(Places, Ended, used, chain, Firsts, end, at, left)
  BY <1>1 DEF Layout
<1>10. TakenFirst(Places, Ended, used, chain, chain', Firsts, F, x, b)
  BY <1>2, <1>5, <1>6, <1>7, <1>8 DEF TakenFirst
<1>11. Chained(Places, Ended, used \union {b}, chain', F, end, at, left)
  BY <1>9, <1>10, PopFront
<1>12. chain[b] # Nil => chain[b] \in Blocks \ used /\ at[chain[b]] = x
  <2>1. F[x] = chain[b]
    BY <1>7, <1>8
  <2> QED BY <1>7, <1>11, <2>1 DEF Chained
<1>13. Origin[b] = t /\ (chain[b] # Nil => Origin[chain[b]] = t)
  <2>1. Origin[b] = t
    BY <1>1, <1>3, <1>5, <1>6 DEF Layout, Mine, OwnTrue
  <2> QED BY <1>7, <1>9, <1>12, <2>1 DEF Chained
<1>14. PICK G : G = [F EXCEPT ![y] = b]
  OBVIOUS
<1>15. PICK e2, a2, l2 : /\ e2 = [v \in Places |-> IF v = y /\ F[y] = Nil THEN b ELSE end[v]]
                         /\ a2 = [at EXCEPT ![b] = y] /\ l2 = [left EXCEPT ![b] = Count(F, left, y)]
  OBVIOUS
<1>16. PutFirst(Places, Ended, used \union {b}, chain', chain', F, G, end, e2, at, left, a2, l2, y, b)
  <2>1. F[y] = mempool[t]
    BY <1>7, <1>8
  <2>2. chain'[b] = F[y]
    BY <1>2, <1>5, <1>7, <2>1
  <2>3. F[y] # Nil => Origin[F[y]] = Origin[b]
    BY <1>1, <1>13, <2>1 DEF Layout, Mine, OwnTrue
  <2> QED BY <1>7, <1>14, <1>15, <2>2, <2>3 DEF PutFirst
<1>17. Chained(Places, Ended, used, chain', G, e2, a2, l2)
  <2>1. Chained(Places, Ended, (used \union {b}) \ {b}, chain', G, e2, a2, l2)
    BY <1>11, <1>16, PushFront
  <2>2. (used \union {b}) \ {b} = used
    BY <1>7
  <2> QED BY <2>1, <2>2
<1>18. /\ loc'[t] \in Locals /\ loc'[t].head = chain[b] /\ loc'[t].next = Nil
       /\ pc'[t] \in {"running", "waiting", "walk"} /\ (pc'[t] = "walk" <=> chain[b] # Nil)
       /\ (pc'[t] # "walk" => loc'[t] = NoLocals) /\ loc'[t].back \in {"running", "waiting"}
       /\ \A s \in Threads : s # t => pc'[s] = pc[s] /\ loc'[s] = loc[s]
  <2>1. CASE chain[b] = Nil
    <3>1. NoLocals \in Locals
      BY DEF NoLocals, Locals, Threads
    <3>2. loc'[t] = NoLocals /\ pc'[t] = loc[t].back /\ \A s \in Threads : s # t => pc'[s] = pc[s] /\ loc'[s] = loc[s]
      BY <1>2, <1>5, <2>1 DEF Control, TypeOK
    <3> QED BY <1>6, <2>1, <3>1, <3>2 DEF NoLocals
  <2>2. CASE chain[b] # Nil
    BY <1>2, <1>5, <1>6, <1>12, <2>2 DEF Control, TypeOK, Locals
  <2> QED BY <2>1, <2>2
<1>19. G = Firsts'
  <2>1. Shows(Firsts, mempool, repato, repatq, pc, loc)
    BY FirstsShow DEF Firsts
  <2>2. G = [v \in Places |-> G[v]]
    BY <1>7, <1>8, <1>14
  <2>3. \A v \in Places : v # x /\ v # y => G[v] = Firsts[v]
    BY <1>7, <1>8, <1>14
  <2>4. G[x] = chain[b] /\ G[y] = b
    BY <1>7, <1>8, <1>14
  <2>5. repato' = repato /\ repatq' = repatq /\ mempool'[t] = b
        /\ \A s \in Threads : s # t => mempool'[s] = mempool[s]
    BY <1>2, <1>5 DEF outVars, inVars, Control, TypeOK
  <2>6. ASSUME NEW s \in Threads
        PROVE  /\ G[<<"pool", s>>] = (IF s = t THEN b ELSE Firsts[<<"pool", s>>])
               /\ G[<<"walk", s>>] = (IF s = t THEN chain[b] ELSE Firsts[<<"walk", s>>])
               /\ G[<<"out", s>>] = Firsts[<<"out", s>>] /\ G[<<"sent", s>>] = Firsts[<<"sent", s>>]
               /\ G[<<"in", s>>] = Firsts[<<"in", s>>] /\ G[<<"next", s>>] = Firsts[<<"next", s>>]
    BY <1>4, <2>3, <2>4, PlacesAre
  <2>7. ASSUME NEW s \in Threads
        PROVE  /\ mempool'[s] = (IF s = t THEN b ELSE mempool[s])
               /\ loc'[s].next = loc[s].next
               /\ pc'[s] \in {"load", "link", "cas"} <=> pc[s] \in {"load", "link", "cas"}
               /\ pc[s] \in {"load", "link", "cas"} => loc'[s].head = loc[s].head
               /\ (IF pc'[s] \in {"clear", "walk"} THEN loc'[s].head ELSE Nil) =
                    IF s = t THEN chain[b]
                    ELSE IF pc[s] \in {"clear", "walk"} THEN loc[s].head ELSE Nil
    <3>1. CASE s = t
      BY <1>5, <1>6, <1>18, <2>5, <3>1
    <3>2. CASE s # t
      BY <1>18, <2>5, <3>2
    <3> QED BY <3>1, <3>2
  <2>8. Shows(G, mempool', repato', repatq', pc', loc')
    <3> SUFFICES ASSUME NEW s \in Threads
                 PROVE  /\ G[<<"pool", s>>] = mempool'[s] /\ G[<<"out", s>>] = repato'[s]
                        /\ G[<<"sent", s>>] = (IF pc'[s] \in {"load", "link", "cas"} THEN loc'[s].head ELSE Nil)
                        /\ G[<<"in", s>>] = repatq'[s] /\ G[<<"next", s>>] = loc'[s].next
                        /\ G[<<"walk", s>>] = (IF pc'[s] \in {"clear", "walk"} THEN loc'[s].head ELSE Nil)
      BY DEF Shows
    <3>1. /\ Firsts[<<"pool", s>>] = mempool[s] /\ Firsts[<<"out", s>>] = repato[s]
          /\ Firsts[<<"sent", s>>] = (IF pc[s] \in {"load", "link", "cas"} THEN loc[s].head ELSE Nil)
          /\ Firsts[<<"in", s>>] = repatq[s] /\ Firsts[<<"next", s>>] = loc[s].next
          /\ Firsts[<<"walk", s>>] = (IF pc[s] \in {"clear", "walk"} THEN loc[s].head ELSE Nil)
      BY <2>1 DEF Shows
    <3>2. G[<<"pool", s>>] = mempool'[s] /\ G[<<"out", s>>] = repato'[s]
      BY <2>5, <2>6, <2>7, <3>1
    <3>3. G[<<"in", s>>] = repatq'[s] /\ G[<<"next", s>>] = loc'[s].next
      BY <2>5, <2>6, <2>7, <3>1
    <3>4. G[<<"sent", s>>] = (IF pc'[s] \in {"load", "link", "cas"} THEN loc'[s].head ELSE Nil)
      BY <2>6, <2>7, <3>1
    <3>5. G[<<"walk", s>>] = (IF pc'[s] \in {"clear", "walk"} THEN loc'[s].head ELSE Nil)
      BY <2>6, <2>7, <3>1
    <3> QED BY <3>2, <3>3, <3>4, <3>5
  <2> QED BY <2>2, <2>8, FirstsFrom DEF Firsts
<1>20. Chained(Places, Ended, used', chain', Firsts', e2, a2, l2)
  BY <1>5, <1>17, <1>19
<1>21. Control'
  <2>1. TypeOK' /\ AN' \in [Blocks -> Nat]
    <3>1. pc' \in [Threads -> {"running", "popping", "waiting", "load", "link", "cas",
                               "signal", "tell", "clear", "walk"}]
      BY <1>2, <1>5, <1>6 DEF Control, TypeOK
    <3>2. mempool' \in [Threads -> Blocks \union {Nil}]
      BY <1>2, <1>5, <1>7 DEF Control, TypeOK
    <3> QED BY <1>2, <1>5, <3>1, <3>2 DEF Control, TypeOK, outVars, inVars
  <2>2. loc' \in [Threads -> Locals]
    <3>1. \A s \in Threads : loc'[s] \in Locals
      BY <1>2, <1>18 DEF Control
    <3>2. loc' = [s \in Threads |-> loc'[s]]
      BY <1>2, <1>5 DEF Control
    <3> QED BY <3>1, <3>2
  <2>3. chain' \in [Blocks -> Words]
    <3>1. mempool[t] \in Words
      BY <1>2 DEF Control, TypeOK, Words
    <3> QED BY <1>2, <1>5, <3>1
  <2>4. ASSUME NEW s \in Threads PROVE Steps(s)'
    <3>1. Steps(s) /\ Steps(t) /\ repato' = repato /\ raced' = raced
      BY <1>2, <1>5 DEF Control, outVars, inVars
    <3>2. CASE s # t
      BY <1>18, <3>1, <3>2 DEF Steps, Sending
    <3>3. CASE s = t
      BY <1>5, <1>18, <3>1, <3>3 DEF Steps, Sending
    <3> QED BY <3>2, <3>3
  <2> QED BY <2>1, <2>2, <2>3, <2>4 DEF Control
<1>22. Frame(t, end, at, left, e2, l2)
  <2>1. \A d \in Blocks : d # b => chain'[d] = chain[d] /\ l2[d] = left[d]
    BY <1>2, <1>5, <1>9, <1>15 DEF Chained
  <2>2. AN' = AN /\ repato' = repato /\ tail' = tail /\ \A s \in Threads : s # t => mempool'[s] = mempool[s]
    BY <1>2, <1>5 DEF outVars, Control, TypeOK
  <2>3. \A s \in Threads : e2[<<"out", s>>] = end[<<"out", s>>] /\ e2[<<"sent", s>>] = end[<<"sent", s>>]
    BY <1>4, <1>15, PlacesAre
  <2> QED BY <1>4, <1>7, <1>18, <2>1, <2>2, <2>3 DEF Frame, Kept
<1>23. Quiet(t)
  BY <1>5, <1>18 DEF Quiet, inVars
<1>24. Mine(t, e2, l2)'
  <2>1. OutTrue(t, e2, l2)'
    <3>1. PICK w : w = <<"out", t>>
      OBVIOUS
    <3>2. w \in Places /\ w # x /\ w # y /\ Firsts[w] = repato[t] /\ Firsts'[w] = repato[t] /\ e2[w] = end[w]
      <4>1. w \in Places /\ w # x /\ w # y /\ Firsts[w] = repato[t]
        BY <1>4, <3>1, PlacesAre, FirstsNow
      <4> QED BY <1>7, <1>8, <1>14, <1>15, <1>19, <4>1
    <3>3. repato[t] # Nil => repato[t] \in Blocks /\ repato[t] # b
      BY <1>1, <1>7, <3>2, Apart
    <3>4. repato[t] # Nil => l2[repato[t]] = left[repato[t]]
      BY <1>9, <1>15, <3>3 DEF Chained
    <3>5. OutTrue(t, end, left) /\ repato' = repato /\ tail' = tail /\ AN' = AN
      BY <1>1, <1>5 DEF Layout, Mine, outVars
    <3> QED BY <3>1, <3>2, <3>4, <3>5 DEF OutTrue, Size, Count
  <2>2. OwnTrue(t)'
    <3>1. mempool'[t] = b
      BY <1>2, <1>5 DEF Control, TypeOK
    <3> QED BY <1>13, <1>18, <3>1 DEF OwnTrue
  <2> QED BY <1>18, <2>1, <2>2 DEF Mine, SentTrue, NextTrue, LinkTrue, Sending
<1>25. LookTrue(t)' /\ TotalTrue(t, l2)'
  BY <1>18 DEF LookTrue, TotalTrue
<1> QED BY <1>1, <1>2, <1>20, <1>21, <1>22, <1>23, <1>24, <1>25, Assembled

\* A chain that a thread has collected is on its way: what the sending itself changes,
\* after a change of the chains that leads to F.
Sends(t, end, at, left, head, last, size, next, back, F, e1, a1, l1) ==
  /\ Send(t, head, last, size, next, back)
  /\ pc[t] \in {"running", "popping"} /\ back \in {"running", "popping", "tell"}
  /\ head = repato[t] /\ head # Nil /\ last \in Blocks /\ size \in Nat /\ next \in Blocks \union {Nil}
  /\ F = [Firsts EXCEPT ![<<"next", t>>] = next]
  /\ Chained(Places, Ended, used', chain', F, e1, a1, l1)
  /\ e1[<<"out", t>>] = last /\ Count(F, l1, <<"out", t>>) = size /\ (next # Nil => l1[next] = 0)
  /\ \A s \in Threads \ {t} : /\ repato[s] # Nil => e1[<<"out", s>>] = end[<<"out", s>>]
                              /\ Sending(s) => e1[<<"sent", s>>] = end[<<"sent", s>>]
  /\ Kept(t, at, left, l1)
  /\ UNCHANGED <<mempool, inVars>> /\ used' \subseteq Blocks
  /\ chain' \in [Blocks -> Words] /\ AN' \in [Blocks -> Nat]

\* A step that starts a sending keeps the invariant.
LEMMA SendKeeps ==
    ASSUME Control, NEW end, NEW at, NEW left, Layout(end, at, left), NEW t \in Threads,
           NEW head, NEW last, NEW size, NEW next, NEW back, NEW F, NEW e1, NEW a1, NEW l1,
           Sends(t, end, at, left, head, last, size, next, back, F, e1, a1, l1)
    PROVE  IndInv'
<1> USE DEF Sends
<1>1. PICK x, y, w : x = <<"out", t>> /\ y = <<"sent", t>> /\ w = <<"next", t>>
  OBVIOUS
<1>2. /\ x \in Places /\ y \in Places /\ w \in Places /\ x # y /\ x # w /\ y # w /\ y \notin Ended
      /\ Firsts = [v \in Places |-> Firsts[v]] /\ Firsts[x] = head /\ Firsts[y] = Nil
  BY <1>1, PlacesAre, FirstsNow DEF Sending
<1>3. PICK loc1 : loc1 = [head |-> head, last |-> last, to |-> Origin[head],
                          size |-> size, exp |-> Nil, next |-> next, back |-> back]
  OBVIOUS
<1>4. /\ loc' = [loc EXCEPT ![t] = loc1] /\ pc' = [pc EXCEPT ![t] = "load"]
      /\ repato' = [repato EXCEPT ![t] = Nil] /\ tail' = [tail EXCEPT ![t] = Nil]
  BY <1>3 DEF Send, Goto
<1>5. head \in Blocks /\ loc1 \in Locals
  <2>1. head \in Blocks /\ Origin[head] \in Threads
    BY RepatriationAssumption DEF Control, TypeOK
  <2> QED BY <1>3, <2>1 DEF Locals
<1>6. /\ loc'[t] = loc1 /\ pc'[t] = "load" /\ repato'[t] = Nil
      /\ \A s \in Threads : s # t => /\ loc'[s] = loc[s] /\ pc'[s] = pc[s]
                                     /\ repato'[s] = repato[s] /\ tail'[s] = tail[s]
  BY <1>4 DEF Control, TypeOK
<1>7. PICK G : G = [F EXCEPT ![x] = Nil, ![y] = F[x]]
  OBVIOUS
<1>8. PICK e2, a2 : /\ e2 = [v \in Places |-> IF v = y THEN e1[x] ELSE e1[v]]
                    /\ a2 = [d \in Blocks |-> IF d \notin used' /\ a1[d] = x THEN y ELSE a1[d]]
  OBVIOUS
<1>9. F[x] = head /\ F[y] = Nil /\ F[w] = next /\ \A v \in Places : v # w => F[v] = Firsts[v]
  BY <1>1, <1>2
<1>10. Moved(Places, Ended, used', F, G, e1, e2, a1, a2, x, y)
  BY <1>2, <1>7, <1>8, <1>9 DEF Moved
<1>11. Chained(Places, Ended, used', chain', G, e2, a2, l1) /\ SameCount(F, l1, x, G, l1, y)
  <2>1. Chained(Places, Ended, used', chain', F, e1, a1, l1)
    OBVIOUS
  <2> HIDE DEF Sends
  <2> QED BY <1>10, <2>1, MoveChain
<1>12. SameCount(F, l1, x, G, l1, y)
  BY <1>11
<1>13. G = Firsts'
  <2>1. Shows(Firsts, mempool, repato, repatq, pc, loc)
    BY FirstsShow DEF Firsts
  <2>2. G = [v \in Places |-> G[v]]
    BY <1>2, <1>7
  <2>3. G[x] = Nil /\ G[y] = head /\ G[w] = next
    BY <1>2, <1>7, <1>9
  <2>4. \A v \in Places : v # x /\ v # y /\ v # w => G[v] = Firsts[v]
    BY <1>2, <1>7, <1>9
  <2>5. mempool' = mempool /\ repatq' = repatq
    BY DEF inVars
  <2>6. SUFFICES ASSUME NEW s \in Threads
                 PROVE  /\ G[<<"pool", s>>] = mempool'[s] /\ G[<<"out", s>>] = repato'[s]
                        /\ G[<<"sent", s>>] = (IF pc'[s] \in {"load", "link", "cas"} THEN loc'[s].head ELSE Nil)
                        /\ G[<<"in", s>>] = repatq'[s] /\ G[<<"next", s>>] = loc'[s].next
                        /\ G[<<"walk", s>>] = (IF pc'[s] \in {"clear", "walk"} THEN loc'[s].head ELSE Nil)
    <3>1. Shows(G, mempool', repato', repatq', pc', loc') => G = Firsts'
      BY <2>2, FirstsFrom DEF Firsts
    <3> QED BY <3>1 DEF Shows
  <2>7. /\ Firsts[<<"pool", s>>] = mempool[s] /\ Firsts[<<"out", s>>] = repato[s]
        /\ Firsts[<<"sent", s>>] = (IF pc[s] \in {"load", "link", "cas"} THEN loc[s].head ELSE Nil)
        /\ Firsts[<<"in", s>>] = repatq[s] /\ Firsts[<<"next", s>>] = loc[s].next
        /\ Firsts[<<"walk", s>>] = (IF pc[s] \in {"clear", "walk"} THEN loc[s].head ELSE Nil)
    BY <2>1 DEF Shows
  <2>8. CASE s # t
    <3>1. /\ G[<<"pool", s>>] = Firsts[<<"pool", s>>] /\ G[<<"out", s>>] = Firsts[<<"out", s>>]
          /\ G[<<"sent", s>>] = Firsts[<<"sent", s>>] /\ G[<<"in", s>>] = Firsts[<<"in", s>>]
          /\ G[<<"next", s>>] = Firsts[<<"next", s>>] /\ G[<<"walk", s>>] = Firsts[<<"walk", s>>]
      BY <1>1, <2>4, <2>8, PlacesAre
    <3> QED BY <1>6, <2>5, <2>7, <2>8, <3>1
  <2>9. CASE s = t
    <3>1. /\ G[<<"pool", t>>] = Firsts[<<"pool", t>>] /\ G[<<"in", t>>] = Firsts[<<"in", t>>]
          /\ G[<<"walk", t>>] = Firsts[<<"walk", t>>]
      BY <1>1, <2>4, PlacesAre
    <3>2. loc'[t].head = head /\ loc'[t].next = next
      BY <1>3, <1>6
    <3> QED BY <1>1, <1>6, <2>3, <2>5, <2>7, <2>9, <3>1, <3>2
  <2> QED BY <2>8, <2>9
<1>14. Control'
  <2>1. TypeOK'
    <3>1. pc' \in [Threads -> {"running", "popping", "waiting", "load", "link", "cas",
                               "signal", "tell", "clear", "walk"}]
      BY <1>4 DEF Control, TypeOK
    <3>2. repato' \in [Threads -> Blocks \union {Nil}] /\ tail' \in [Threads -> Blocks \union {Nil}]
      BY <1>4 DEF Control, TypeOK
    <3> QED BY <3>1, <3>2 DEF Control, TypeOK, inVars
  <2>2. loc' \in [Threads -> Locals]
    BY <1>4, <1>5 DEF Control
  <2>3. ASSUME NEW s \in Threads PROVE Steps(s)'
    <3>1. Steps(s) /\ raced' = raced /\ Steps(t)
      BY DEF Control, inVars
    <3>2. CASE s # t
      BY <1>6, <3>1, <3>2 DEF Steps, Sending
    <3>3. CASE s = t
      <4>1. loc'[t].head = head /\ loc'[t].back = back
        BY <1>3, <1>6
      <4> QED BY <1>6, <3>1, <3>3, <4>1 DEF Steps, Sending
    <3> QED BY <3>2, <3>3
  <2> QED BY <2>1, <2>2, <2>3 DEF Control
<1>15. Frame(t, end, at, left, e2, l1)
  <2>1. \A s \in Threads : s # t => /\ e2[<<"out", s>>] = e1[<<"out", s>>]
                                    /\ e2[<<"sent", s>>] = e1[<<"sent", s>>]
    BY <1>1, <1>8, PlacesAre
  <2> QED BY <1>6, <2>1 DEF Frame
<1>16. Quiet(t)
  BY <1>6 DEF Quiet, inVars
<1>17. Mine(t, e2, l1)'
  <2>1. SentTrue(t, e2, l1)'
    <3>1. loc'[t].head = head /\ loc'[t].last = last /\ loc'[t].size = size /\ loc'[t].to = Origin[head]
      BY <1>3, <1>6
    <3>2. e2[y] = last
      BY <1>1, <1>2, <1>8
    <3>3. Size(l1, "sent", t)' = size
      BY <1>1, <1>12, <1>13 DEF Size, SameCount
    <3> QED BY <1>1, <3>1, <3>2, <3>3 DEF SentTrue
  <2>2. OwnTrue(t)'
    BY <1>6 DEF OwnTrue, Layout, Mine
  <2>3. NextTrue(t, l1)'
    BY <1>3, <1>6 DEF NextTrue
  <2> QED BY <1>6, <2>1, <2>2, <2>3 DEF Mine, OutTrue, LinkTrue
<1>18. LookTrue(t)' /\ TotalTrue(t, l1)'
  BY <1>6 DEF LookTrue, TotalTrue
<1> QED BY <1>11, <1>13, <1>14, <1>15, <1>16, <1>17, <1>18, Assembled

\* A worker that ends its task sends what it has collected.
LEMMA EndTaskKeeps ==
    ASSUME IndInv, NEW t \in Threads, EndTask(t)
    PROVE  IndInv'
<1>1. CASE repato[t] = Nil
  BY <1>1, PausesKeep
<1>2. CASE repato[t] # Nil
  <2>1. PICK end, at, left : Layout(end, at, left)
    BY DEF IndInv
  <2>2. Control /\ loc[t] = NoLocals
    BY DEF IndInv, Control, Steps, EndTask
  <2>3. /\ Send(t, repato[t], tail[t], AN[repato[t]], Nil, "tell") /\ pc[t] = "running"
        /\ UNCHANGED <<poolVars, chain, AN, inVars>>
    BY <1>2 DEF EndTask
  <2>4. PICK x : x = <<"out", t>>
    OBVIOUS
  <2>5. x \in Places /\ Firsts[x] = repato[t] /\ repato[t] \in Blocks /\ end[x] \in Blocks
    <3>1. x \in Places /\ Firsts[x] = repato[t]
      BY <2>4, PlacesAre, FirstsNow
    <3> QED BY <1>2, <2>1, <3>1, Apart
  <2>6. end[x] = tail[t] /\ Count(Firsts, left, x) = AN[repato[t]] /\ AN[repato[t]] \in Nat
    BY <1>2, <2>1, <2>2, <2>4, <2>5 DEF Layout, Mine, OutTrue, Size, Control
  <2>7. Firsts = [Firsts EXCEPT ![<<"next", t>>] = Nil]
    <3>1. PICK w : w = <<"next", t>>
      OBVIOUS
    <3>2. w \in Places /\ Firsts[w] = Nil /\ Firsts = [v \in Places |-> Firsts[v]]
      <4>1. loc[t].next = Nil
        BY <2>2 DEF NoLocals
      <4> QED BY <3>1, <4>1, PlacesAre, FirstsNow
    <3> QED BY <3>1, <3>2
  <2>8. Chained(Places, Ended, used', chain', Firsts, end, at, left)
    BY <2>1, <2>3 DEF Layout, poolVars
  <2>9. Kept(t, at, left, left) /\ used' = used /\ mempool' = mempool
    BY <2>3 DEF Kept, poolVars
  <2>10. used' \subseteq Blocks /\ chain' \in [Blocks -> Words] /\ AN' \in [Blocks -> Nat]
    BY <2>2, <2>3, <2>9 DEF Control, TypeOK
  <2>11. Sends(t, end, at, left, repato[t], tail[t], AN[repato[t]], Nil, "tell", Firsts, end, at, left)
    BY <1>2, <2>3, <2>4, <2>5, <2>6, <2>7, <2>8, <2>9, <2>10 DEF Sends
  <2> QED BY <2>1, <2>2, <2>11, SendKeeps
<1> QED BY <1>1, <1>2

\* What a thread that frees a block knows: its places but the pool and the queue are empty.
LEMMA FreeStarts ==
    ASSUME Control, NEW end, NEW at, NEW left, Layout(end, at, left), NEW t \in Threads,
           pc[t] \in {"running", "popping"}
    PROVE  /\ loc[t].next = Nil /\ Firsts = [v \in Places |-> Firsts[v]]
           /\ Firsts[<<"pool", t>>] = mempool[t] /\ Firsts[<<"out", t>>] = repato[t]
           /\ Firsts[<<"next", t>>] = Nil
           /\ Chained(Places, Ended, used, chain, Firsts, end, at, left)
<1>1. loc[t].next = Nil
  BY DEF Control, Steps, NoLocals
<1>2. Chained(Places, Ended, used, chain, Firsts, end, at, left)
  BY DEF Layout
<1> QED BY <1>1, <1>2, FirstsNow

\* A block of its own goes to the thread's pool.
LEMMA FreeOwnKeeps ==
    ASSUME IndInv, NEW t \in Threads, pc[t] \in {"running", "popping"}, NEW b \in used,
           used' = used \ {b}, Origin[b] = t, Pool(t, b),
           UNCHANGED <<AN, outVars, pc, loc, reused, inVars>>
    PROVE  IndInv'
<1>1. PICK end, at, left : Layout(end, at, left)
  BY DEF IndInv
<1>2. Control /\ chain \in [Blocks -> Words] /\ b \in Blocks /\ used \subseteq Blocks
      /\ mempool \in [Threads -> Blocks \union {Nil}]
  BY DEF IndInv, Control, TypeOK
<1>3. PICK y : y = <<"pool", t>>
  OBVIOUS
<1>4. chain' = [chain EXCEPT ![b] = mempool[t]] /\ mempool' = [mempool EXCEPT ![t] = b]
  BY DEF Pool
<1>5. /\ y \in Places /\ y \in Ended /\ Firsts[y] = mempool[t] /\ Firsts = [v \in Places |-> Firsts[v]]
      /\ Chained(Places, Ended, used, chain, Firsts, end, at, left)
  BY <1>1, <1>2, <1>3, PlacesAre, FreeStarts
<1>6. PICK G : G = [Firsts EXCEPT ![y] = b]
  OBVIOUS
<1>7. PICK e2, a2, l2 : /\ e2 = [v \in Places |-> IF v = y /\ Firsts[y] = Nil THEN b ELSE end[v]]
                        /\ a2 = [at EXCEPT ![b] = y] /\ l2 = [left EXCEPT ![b] = Count(Firsts, left, y)]
  OBVIOUS
<1>8. mempool[t] # Nil => Origin[mempool[t]] = t
  BY <1>1 DEF Layout, Mine, OwnTrue
<1>9. PutFirst(Places, Ended, used, chain, chain', Firsts, G, end, e2, at, left, a2, l2, y, b)
  <2>1. chain'[b] = Firsts[y] /\ \A d \in Blocks \ used : chain'[d] = chain[d]
    BY <1>2, <1>4, <1>5
  <2> QED BY <1>2, <1>5, <1>6, <1>7, <1>8, <2>1 DEF PutFirst
<1>10. Chained(Places, Ended, used', chain', G, e2, a2, l2)
  BY <1>5, <1>9, PushFront
<1>11. G = Firsts'
  <2>2. G = [v \in Places |-> G[v]]
    BY <1>5, <1>6
  <2>3. ASSUME NEW s \in Threads
        PROVE  /\ G[<<"pool", s>>] = mempool'[s] /\ G[<<"out", s>>] = Firsts[<<"out", s>>]
               /\ G[<<"sent", s>>] = Firsts[<<"sent", s>>] /\ G[<<"in", s>>] = Firsts[<<"in", s>>]
               /\ G[<<"next", s>>] = Firsts[<<"next", s>>] /\ G[<<"walk", s>>] = Firsts[<<"walk", s>>]
    <3>1. G[y] = b /\ \A v \in Places : v # y => G[v] = Firsts[v]
      BY <1>5, <1>6
    <3>2. mempool'[s] = IF s = t THEN b ELSE Firsts[<<"pool", s>>]
      BY <1>2, <1>4, FirstsNow
    <3> QED BY <1>3, <3>1, <3>2, PlacesAre
  <2>4. repato' = repato /\ repatq' = repatq /\ pc' = pc /\ loc' = loc
    BY DEF outVars, inVars
  <2>5. ASSUME NEW s \in Threads
        PROVE  /\ G[<<"pool", s>>] = mempool'[s] /\ G[<<"out", s>>] = repato'[s]
               /\ G[<<"sent", s>>] = (IF Sending(s)' THEN loc'[s].head ELSE Nil)
               /\ G[<<"in", s>>] = repatq'[s] /\ G[<<"next", s>>] = loc'[s].next
               /\ G[<<"walk", s>>] = (IF pc'[s] \in {"clear", "walk"} THEN loc'[s].head ELSE Nil)
    <3>1. Sending(s)' = Sending(s)
      BY <2>4 DEF Sending
    <3> QED BY <2>3, <2>4, <3>1, FirstsNow
  <2> QED BY <2>2, <2>5, FirstsNext
<1>12. Control'
  <2>1. TypeOK' /\ AN' \in [Blocks -> Nat] /\ loc' \in [Threads -> Locals]
    <3>1. mempool' \in [Threads -> Blocks \union {Nil}]
      BY <1>2, <1>4
    <3> QED BY <1>2, <3>1 DEF Control, TypeOK, outVars, inVars
  <2>2. chain' \in [Blocks -> Words]
    <3>1. mempool[t] \in Words
      BY <1>2 DEF Words
    <3> QED BY <1>2, <1>4, <3>1
  <2>3. \A s \in Threads : Steps(s)'
    BY <1>2 DEF Control, Steps, Sending, outVars, inVars
  <2> QED BY <2>1, <2>2, <2>3 DEF Control
<1>13. Frame(t, end, at, left, e2, l2)
  <2>1. \A d \in Blocks \ used : chain'[d] = chain[d] /\ l2[d] = left[d]
    BY <1>2, <1>4, <1>5, <1>7 DEF Chained
  <2>2. \A s \in Threads : e2[<<"out", s>>] = end[<<"out", s>>] /\ e2[<<"sent", s>>] = end[<<"sent", s>>]
    BY <1>3, <1>7, PlacesAre
  <2>3. \A s \in Threads : s # t => mempool'[s] = mempool[s]
    BY <1>2, <1>4
  <2> QED BY <2>1, <2>2, <2>3 DEF Frame, Kept, outVars
<1>14. Quiet(t)
  BY DEF Quiet, inVars
<1>15. Mine(t, e2, l2)'
  <2>1. Mine(t, end, left) /\ loc[t] = NoLocals
    BY <1>1, <1>2 DEF Layout, Control, Steps
  <2>2. OutTrue(t, e2, l2)'
    <3>1. PICK w : w = <<"out", t>>
      OBVIOUS
    <3>2. w \in Places /\ w # y /\ Firsts[w] = repato[t] /\ Firsts'[w] = repato[t] /\ e2[w] = end[w]
      <4>1. w \in Places /\ w # y /\ Firsts[w] = repato[t]
        BY <1>3, <3>1, PlacesAre, FirstsNow
      <4> QED BY <1>5, <1>6, <1>7, <1>11, <4>1
    <3>3. repato[t] # Nil => repato[t] \in Blocks \ used
      BY <1>1, <3>2, Apart
    <3>4. repato[t] # Nil => l2[repato[t]] = left[repato[t]]
      BY <1>5, <1>7, <3>3 DEF Chained
    <3>5. OutTrue(t, end, left) /\ repato' = repato /\ tail' = tail /\ AN' = AN
      BY <2>1 DEF Mine, outVars
    <3> QED BY <3>1, <3>2, <3>4, <3>5 DEF OutTrue, Size, Count
  <2>3. OwnTrue(t)'
    <3>1. mempool'[t] = b
      BY <1>2, <1>4
    <3> QED BY <3>1 DEF OwnTrue
  <2> QED BY <2>1, <2>2, <2>3 DEF Mine, SentTrue, NextTrue, LinkTrue, Sending, NoLocals
<1>16. LookTrue(t)' /\ TotalTrue(t, l2)'
  BY DEF LookTrue, TotalTrue
<1> QED BY <1>1, <1>2, <1>10, <1>11, <1>12, <1>13, <1>14, <1>15, <1>16, Assembled

\* The first foreign block starts a chain.
LEMMA FreeFirstKeeps ==
    ASSUME IndInv, NEW t \in Threads, pc[t] \in {"running", "popping"}, NEW b \in used,
           used' = used \ {b}, repato[t] = Nil,
           repato' = [repato EXCEPT ![t] = b], tail' = [tail EXCEPT ![t] = b],
           AN' = [AN EXCEPT ![b] = 1],
           UNCHANGED <<chain, pc, loc, mempool, reused, inVars>>
    PROVE  IndInv'
<1>1. PICK end, at, left : Layout(end, at, left)
  BY DEF IndInv
<1>2. Control /\ AN \in [Blocks -> Nat] /\ b \in Blocks /\ used \subseteq Blocks
      /\ repato \in [Threads -> Blocks \union {Nil}] /\ tail \in [Threads -> Blocks \union {Nil}]
  BY DEF IndInv, Control, TypeOK
<1>3. PICK x : x = <<"out", t>>
  OBVIOUS
<1>4. /\ x \in Places /\ x \notin Ended /\ Firsts[x] = Nil /\ Firsts = [v \in Places |-> Firsts[v]]
      /\ Chained(Places, Ended, used, chain, Firsts, end, at, left)
  BY <1>1, <1>2, <1>3, PlacesAre, FreeStarts
<1>5. /\ repato'[t] = b /\ tail'[t] = b /\ AN'[b] = 1
      /\ \A s \in Threads : s # t => repato'[s] = repato[s] /\ tail'[s] = tail[s]
      /\ \A d \in Blocks : d # b => AN'[d] = AN[d]
  BY <1>2
<1>6. PICK G : G = [Firsts EXCEPT ![x] = b]
  OBVIOUS
<1>7. PICK e2, a2, l2 : /\ e2 = [v \in Places |-> IF v = x /\ Firsts[x] = Nil THEN b ELSE end[v]]
                        /\ a2 = [at EXCEPT ![b] = x] /\ l2 = [left EXCEPT ![b] = Count(Firsts, left, x)]
  OBVIOUS
<1>8. PutFirst(Places, Ended, used, chain, chain', Firsts, G, end, e2, at, left, a2, l2, x, b)
  BY <1>2, <1>4, <1>6, <1>7 DEF PutFirst
<1>9. Chained(Places, Ended, used', chain', G, e2, a2, l2)
  BY <1>4, <1>8, PushFront
<1>10. G = Firsts'
  <2>1. G[x] = b /\ G = [v \in Places |-> G[v]] /\ \A v \in Places : v # x => G[v] = Firsts[v]
    BY <1>4, <1>6
  <2>2. ASSUME NEW s \in Threads
        PROVE  /\ G[<<"pool", s>>] = Firsts[<<"pool", s>>] /\ G[<<"out", s>>] = repato'[s]
               /\ G[<<"sent", s>>] = Firsts[<<"sent", s>>] /\ G[<<"in", s>>] = Firsts[<<"in", s>>]
               /\ G[<<"next", s>>] = Firsts[<<"next", s>>] /\ G[<<"walk", s>>] = Firsts[<<"walk", s>>]
    <3>1. repato'[s] = IF s = t THEN b ELSE Firsts[<<"out", s>>]
      BY <1>5, FirstsNow
    <3> QED BY <1>3, <2>1, <3>1, PlacesAre
  <2>3. mempool' = mempool /\ repatq' = repatq /\ pc' = pc /\ loc' = loc
    BY DEF inVars
  <2>4. ASSUME NEW s \in Threads
        PROVE  /\ G[<<"pool", s>>] = mempool'[s] /\ G[<<"out", s>>] = repato'[s]
               /\ G[<<"sent", s>>] = (IF Sending(s)' THEN loc'[s].head ELSE Nil)
               /\ G[<<"in", s>>] = repatq'[s] /\ G[<<"next", s>>] = loc'[s].next
               /\ G[<<"walk", s>>] = (IF pc'[s] \in {"clear", "walk"} THEN loc'[s].head ELSE Nil)
    <3>1. Sending(s)' = Sending(s)
      BY <2>3 DEF Sending
    <3> QED BY <2>2, <2>3, <3>1, FirstsNow
  <2> QED BY <2>1, <2>4, FirstsNext
<1>11. Control'
  <2>1. repato' \in [Threads -> Blocks \union {Nil}] /\ tail' \in [Threads -> Blocks \union {Nil}]
    BY <1>2
  <2>2. AN' \in [Blocks -> Nat]
    BY <1>2
  <2>3. TypeOK' /\ chain' \in [Blocks -> Words] /\ loc' \in [Threads -> Locals]
    BY <1>2, <2>1 DEF Control, TypeOK, inVars
  <2>4. \A s \in Threads : Steps(s)'
    <3>1. \A s \in Threads : Steps(s) /\ pc' = pc /\ loc' = loc /\ raced' = raced
      BY <1>2 DEF Control, inVars
    <3> QED BY <1>5, <3>1 DEF Steps, Sending
  <2> QED BY <2>2, <2>3, <2>4 DEF Control
<1>12. Frame(t, end, at, left, e2, l2)
  <2>1. \A d \in Blocks \ used : AN'[d] = AN[d] /\ l2[d] = left[d]
    BY <1>2, <1>4, <1>5, <1>7 DEF Chained
  <2>2. \A s \in Threads : s # t => /\ e2[<<"out", s>>] = end[<<"out", s>>]
                                    /\ e2[<<"sent", s>>] = end[<<"sent", s>>]
    BY <1>3, <1>7, PlacesAre
  <2> QED BY <1>5, <2>1, <2>2 DEF Frame, Kept
<1>13. Quiet(t)
  BY DEF Quiet, inVars
<1>14. Mine(t, e2, l2)'
  <2>1. Mine(t, end, left) /\ loc[t] = NoLocals
    BY <1>1, <1>2 DEF Layout, Control, Steps
  <2>2. OutTrue(t, e2, l2)'
    <3>1. e2[x] = b /\ Firsts'[x] = b
      BY <1>4, <1>6, <1>7, <1>10
    <3>2. l2[b] = 0
      BY <1>2, <1>4, <1>7 DEF Chained, Count
    <3>3. b # Nil
      BY <1>2, RepatriationAssumption
    <3>4. Size(l2, "out", t)' = 1
      BY <1>3, <3>1, <3>2, <3>3 DEF Size, Count
    <3> QED BY <1>3, <1>5, <3>1, <3>4 DEF OutTrue
  <2>3. OwnTrue(t)'
    BY <2>1 DEF Mine, OwnTrue
  <2> QED BY <2>1, <2>2, <2>3 DEF Mine, SentTrue, NextTrue, LinkTrue, Sending, NoLocals
<1>15. LookTrue(t)' /\ TotalTrue(t, l2)'
  BY DEF LookTrue, TotalTrue
<1> QED BY <1>1, <1>2, <1>9, <1>10, <1>11, <1>12, <1>13, <1>14, <1>15, Assembled

\* A block of another owner starts a chain when the old one has been sent.
LEMMA FreeOtherKeeps ==
    ASSUME IndInv, NEW t \in Threads, pc[t] \in {"running", "popping"}, NEW b \in used,
           used' = used \ {b}, repato[t] # Nil,
           Send(t, repato[t], tail[t], AN[repato[t]], b, pc[t]),
           UNCHANGED <<chain, AN, mempool, reused, inVars>>
    PROVE  IndInv'
<1>1. PICK end, at, left : Layout(end, at, left)
  BY DEF IndInv
<1>2. Control /\ AN \in [Blocks -> Nat] /\ b \in Blocks /\ used \subseteq Blocks
  BY DEF IndInv, Control, TypeOK
<1>3. PICK x, w : x = <<"out", t>> /\ w = <<"next", t>>
  OBVIOUS
<1>4. /\ x \in Places /\ w \in Places /\ x # w /\ w \notin Ended /\ Firsts[w] = Nil
      /\ Firsts[x] = repato[t] /\ Firsts = [v \in Places |-> Firsts[v]]
      /\ Chained(Places, Ended, used, chain, Firsts, end, at, left)
  BY <1>1, <1>2, <1>3, PlacesAre, FreeStarts
<1>5. repato[t] \in Blocks /\ end[x] \in Blocks /\ end[x] = tail[t]
      /\ Count(Firsts, left, x) = AN[repato[t]] /\ AN[repato[t]] \in Nat
  <2>1. repato[t] \in Blocks /\ end[x] \in Blocks
    BY <1>1, <1>4, Apart
  <2> QED BY <1>1, <1>2, <1>3, <2>1 DEF Layout, Mine, OutTrue, Size
<1>6. PICK F : F = [Firsts EXCEPT ![w] = b]
  OBVIOUS
<1>7. PICK e1, a1, l1 : /\ e1 = [v \in Places |-> IF v = w /\ Firsts[w] = Nil THEN b ELSE end[v]]
                        /\ a1 = [at EXCEPT ![b] = w] /\ l1 = [left EXCEPT ![b] = Count(Firsts, left, w)]
  OBVIOUS
<1>8. PutFirst(Places, Ended, used, chain, chain', Firsts, F, end, e1, at, left, a1, l1, w, b)
  BY <1>2, <1>4, <1>6, <1>7 DEF PutFirst
<1>9. Chained(Places, Ended, used', chain', F, e1, a1, l1) /\ SameCounts(Places \ {w}, Firsts, left, F, l1)
  BY <1>4, <1>8, PushFront
<1>10. l1[b] = 0 /\ \A d \in Blocks \ used : l1[d] = left[d]
  BY <1>2, <1>4, <1>7 DEF Chained, Count
<1>11. \A v \in Places : v # w => e1[v] = end[v]
  BY <1>7
<1>12. Count(F, l1, x) = AN[repato[t]]
  BY <1>4, <1>5, <1>9 DEF SameCounts
<1>13. Kept(t, at, left, l1)
  BY <1>10 DEF Kept
<1>14. \A s \in Threads : e1[<<"out", s>>] = end[<<"out", s>>] /\ e1[<<"sent", s>>] = end[<<"sent", s>>]
  BY <1>3, <1>11, PlacesAre
<1>15. used' \subseteq Blocks /\ chain' \in [Blocks -> Words] /\ AN' \in [Blocks -> Nat]
  BY <1>2 DEF Control
<1>16. Sends(t, end, at, left, repato[t], tail[t], AN[repato[t]], b, pc[t], F, e1, a1, l1)
  <2>1. e1[x] = tail[t] /\ tail[t] \in Blocks
    BY <1>4, <1>5, <1>11
  <2> QED BY <1>2, <1>3, <1>5, <1>6, <1>9, <1>10, <1>12, <1>13, <1>14, <1>15, <2>1 DEF Sends
<1> QED BY <1>1, <1>2, <1>16, SendKeeps

\* A block of the same owner goes to the end of the chain, which is sent when it is long.
LEMMA FreeMoreKeeps ==
    ASSUME IndInv, NEW t \in Threads, pc[t] \in {"running", "popping"}, NEW b \in used,
           used' = used \ {b}, repato[t] # Nil, Origin[repato[t]] = Origin[b],
           NEW size, size = AN[repato[t]] + 1,
           chain' = AfterLast(t, b), AN' = [AN EXCEPT ![repato[t]] = size],
           \/ Send(t, repato[t], b, size, Nil, pc[t])
           \/ tail' = [tail EXCEPT ![t] = b] /\ UNCHANGED <<repato, pc, loc>>,
           UNCHANGED <<mempool, reused, inVars>>
    PROVE  IndInv'
<1>1. PICK end, at, left : Layout(end, at, left)
  BY DEF IndInv
<1>2. Control /\ AN \in [Blocks -> Nat] /\ chain \in [Blocks -> Words] /\ b \in Blocks /\ used \subseteq Blocks
      /\ tail \in [Threads -> Blocks \union {Nil}]
  BY DEF IndInv, Control, TypeOK
<1>3. PICK x, f : x = <<"out", t>> /\ f = repato[t]
  OBVIOUS
<1>4. /\ x \in Places /\ x \notin Ended /\ Firsts[x] = f /\ Firsts = [v \in Places |-> Firsts[v]]
      /\ Chained(Places, Ended, used, chain, Firsts, end, at, left)
  BY <1>1, <1>2, <1>3, PlacesAre, FreeStarts
<1>5. /\ f \in Blocks \ used /\ at[f] = x /\ end[x] \in Blocks \ used /\ at[end[x]] = x
      /\ end[x] = tail[t] /\ Count(Firsts, left, x) = AN[f]
  <2>1. f \in Blocks \ used /\ at[f] = x /\ end[x] \in Blocks \ used /\ at[end[x]] = x
    BY <1>1, <1>3, <1>4, Apart
  <2> QED BY <1>1, <1>3, <2>1 DEF Layout, Mine, OutTrue, Size
<1>6. chain' = [chain EXCEPT ![end[x]] = b]
  BY <1>5 DEF AfterLast
<1>7. PICK e1, a1, l1 :
        /\ e1 = [v \in Places |-> IF v = x THEN b ELSE end[v]]
        /\ a1 = [at EXCEPT ![b] = x]
        /\ l1 = [d \in Blocks |-> IF d = b THEN 0
                                  ELSE IF d \notin used /\ at[d] = x THEN left[d] + 1 ELSE left[d]]
  OBVIOUS
<1>8. PutLast(Places, Ended, used, chain, chain', Firsts, end, e1, at, left, a1, l1, x, b)
  <2>1. chain'[end[x]] = b /\ \A d \in Blocks : d # end[x] => chain'[d] = chain[d]
    BY <1>2, <1>5, <1>6
  <2> QED BY <1>2, <1>3, <1>4, <1>7, <2>1 DEF PutLast
<1>9. Chained(Places, Ended, used', chain', Firsts, e1, a1, l1) /\ OneMore(Firsts, left, Firsts, l1, x)
  BY <1>4, <1>8, PushBack
<1>10. Count(Firsts, l1, x) = size /\ size \in Nat
  <2>1. PICK n \in Nat : Count(Firsts, left, x) = n /\ Count(Firsts, l1, x) = n + 1
    BY <1>9 DEF OneMore
  <2> QED BY <1>3, <1>5, <2>1
<1>11. Kept(t, at, left, l1)
  <2>1. \A d \in Blocks : d # f => AN'[d] = AN[d]
    BY <1>2, <1>3
  <2>2. \A d \in Blocks : d # end[x] => chain'[d] = chain[d]
    BY <1>2, <1>6
  <2>3. \A d \in Blocks \ used : at[d] # x => l1[d] = left[d]
    BY <1>7
  <2> QED BY <1>3, <1>5, <2>1, <2>2, <2>3 DEF Kept
<1>12. \A s \in Threads : /\ s # t => e1[<<"out", s>>] = end[<<"out", s>>]
                          /\ e1[<<"sent", s>>] = end[<<"sent", s>>]
  BY <1>3, <1>7, PlacesAre
<1>13. used' \subseteq Blocks /\ chain' \in [Blocks -> Words] /\ AN' \in [Blocks -> Nat] /\ e1[x] = b
  <2>1. chain' \in [Blocks -> Words]
    BY <1>2, <1>6 DEF Words
  <2> QED BY <1>2, <1>4, <1>7, <1>10, <2>1
<1>14. CASE Send(t, repato[t], b, size, Nil, pc[t])
  <2>1. Firsts = [Firsts EXCEPT ![<<"next", t>>] = Nil]
    <3>1. PICK w : w = <<"next", t>>
      OBVIOUS
    <3>2. w \in Places /\ Firsts[w] = Nil
      BY <1>1, <1>2, <3>1, PlacesAre, FreeStarts
    <3> QED BY <1>4, <3>1, <3>2
  <2>2. Sends(t, end, at, left, repato[t], b, size, Nil, pc[t], Firsts, e1, a1, l1)
    BY <1>2, <1>3, <1>9, <1>10, <1>11, <1>12, <1>13, <1>14, <2>1 DEF Sends
  <2> QED BY <1>1, <1>2, <2>2, SendKeeps
<1>15. CASE tail' = [tail EXCEPT ![t] = b] /\ UNCHANGED <<repato, pc, loc>>
  <2>1. Firsts' = Firsts
    BY <1>15 DEF Firsts, FirstsOf, FirstIn, inVars
  <2>2. tail'[t] = b /\ (\A s \in Threads : s # t => tail'[s] = tail[s]) /\ repato' = repato /\ pc' = pc /\ loc' = loc
    BY <1>2, <1>15
  <2>3. Control'
    <3>1. tail' \in [Threads -> Blocks \union {Nil}]
      BY <1>2, <1>15
    <3>2. TypeOK' /\ loc' \in [Threads -> Locals]
      BY <1>2, <1>13, <1>15, <3>1 DEF Control, TypeOK, inVars
    <3>3. \A s \in Threads : Steps(s)'
      BY <1>2, <1>15 DEF Control, Steps, Sending, inVars
    <3> QED BY <1>13, <3>2, <3>3 DEF Control
  <2>4. Frame(t, end, at, left, e1, l1)
    BY <1>11, <1>12, <2>2 DEF Frame
  <2>5. Quiet(t)
    BY <1>15 DEF Quiet, inVars
  <2>6. Mine(t, e1, l1)'
    <3>1. Mine(t, end, left) /\ loc[t] = NoLocals
      BY <1>1, <1>2 DEF Layout, Control, Steps
    <3>2. AN'[f] = size
      BY <1>2, <1>3, <1>5
    <3>3. OutTrue(t, e1, l1)'
      BY <1>3, <1>10, <1>13, <2>1, <2>2, <3>2 DEF OutTrue, Size
    <3>4. OwnTrue(t)'
      BY <1>15, <3>1 DEF Mine, OwnTrue
    <3> QED BY <1>15, <3>1, <3>3, <3>4 DEF Mine, SentTrue, NextTrue, LinkTrue, Sending, NoLocals
  <2>7. LookTrue(t)' /\ TotalTrue(t, l1)'
    BY <1>15 DEF LookTrue, TotalTrue
  <2> QED BY <1>1, <1>2, <1>9, <2>1, <2>3, <2>4, <2>5, <2>6, <2>7, Assembled
<1> QED BY <1>14, <1>15

\* A block is freed.
LEMMA FreeKeeps ==
    ASSUME IndInv, NEW t \in Threads, Free(t)
    PROVE  IndInv'
<1>1. PICK b \in used :
         /\ pc[t] \in {"running", "popping"} /\ UNCHANGED <<reused, inVars>> /\ used' = used \ {b}
         /\ IF Origin[b] = t THEN Pool(t, b) /\ UNCHANGED <<AN, outVars, pc, loc>>
                             ELSE Repat1(t, b) /\ UNCHANGED mempool
  BY DEF Free
<1>2. CASE Origin[b] = t
  BY <1>1, <1>2, FreeOwnKeeps
<1>3. CASE Origin[b] # t
  <2>1. Repat1(t, b) /\ mempool' = mempool
    BY <1>1, <1>3
  <2>2. CASE repato[t] = Nil
    BY <1>1, <2>1, <2>2, FreeFirstKeeps DEF Repat1
  <2>3. CASE repato[t] # Nil /\ Origin[repato[t]] # Origin[b]
    BY <1>1, <2>1, <2>3, FreeOtherKeeps DEF Repat1
  <2>4. CASE repato[t] # Nil /\ Origin[repato[t]] = Origin[b]
    <3>1. PICK size : size = AN[repato[t]] + 1
      OBVIOUS
    <3>2. /\ chain' = AfterLast(t, b) /\ AN' = [AN EXCEPT ![repato[t]] = size]
          /\ \/ Send(t, repato[t], b, size, Nil, pc[t])
             \/ tail' = [tail EXCEPT ![t] = b] /\ UNCHANGED <<repato, pc, loc>>
      BY <2>1, <2>4, <3>1 DEF Repat1
    <3> QED BY <1>1, <2>1, <2>4, <3>1, <3>2, FreeMoreKeeps
  <2> QED BY <2>2, <2>3, <2>4
<1> QED BY <1>2, <1>3

\* A thread takes its queue.
LEMMA ReceiveKeeps ==
    ASSUME IndInv, NEW t \in Threads, Receive(t)
    PROVE  IndInv'
<1>1. PICK end, at, left : Layout(end, at, left)
  BY DEF IndInv
<1>2. Control /\ repatq \in [Threads -> Blocks \union {Nil}]
  BY DEF IndInv, Control, TypeOK
<1>3. /\ pc[t] \in {"running", "waiting"} /\ loc[t] = NoLocals
      /\ loc' = [loc EXCEPT ![t].head = repatq[t], ![t].back = pc[t]]
      /\ repatq' = [repatq EXCEPT ![t] = Nil] /\ raced' = Disturb(t, t)
      /\ pc' = [pc EXCEPT ![t] = "clear"]
      /\ UNCHANGED <<poolVars, chain, AN, outVars, needed, aba, erased>>
  BY <1>2 DEF Receive, Goto, Control, Steps
<1>4. /\ loc'[t] \in Locals /\ loc'[t].head = repatq[t] /\ loc'[t].next = Nil
      /\ loc'[t].back \in {"running", "waiting"} /\ pc'[t] = "clear" /\ repatq'[t] = Nil
      /\ \A s \in Threads : s # t => pc'[s] = pc[s] /\ loc'[s] = loc[s] /\ repatq'[s] = repatq[s]
  <2>1. loc \in [Threads -> Locals] /\ pc \in [Threads -> {"running", "popping", "waiting", "load", "link",
                                                       "cas", "signal", "tell", "clear", "walk"}]
    BY <1>2 DEF Control, TypeOK
  <2>2. /\ pc'[t] = "clear" /\ repatq'[t] = Nil /\ loc'[t] = [[loc[t] EXCEPT !.head = repatq[t]] EXCEPT !.back = pc[t]]
        /\ \A s \in Threads : s # t => pc'[s] = pc[s] /\ loc'[s] = loc[s] /\ repatq'[s] = repatq[s]
    BY <1>2, <1>3, <2>1
  <2>3. loc[t] \in Locals /\ repatq[t] \in Blocks \union {Nil} /\ loc[t].next = Nil
    BY <1>2, <1>3, <2>1 DEF NoLocals
  <2>4. /\ loc'[t] \in Locals /\ loc'[t].head = repatq[t] /\ loc'[t].next = Nil
        /\ loc'[t].back \in {"running", "waiting"}
    <3>1. PICK r : r = [loc[t] EXCEPT !.head = repatq[t]]
      OBVIOUS
    <3>2. r \in Locals /\ r.head = repatq[t] /\ r.next = Nil
      BY <2>3, <3>1 DEF Locals
    <3>3. loc'[t] = [r EXCEPT !.back = pc[t]]
      BY <2>2, <3>1
    <3>4. PICK p, q : p = pc[t] /\ q = [r EXCEPT !.back = p]
      OBVIOUS
    <3>5. p \in {"running", "waiting"} /\ loc'[t] = q
      BY <1>3, <3>3, <3>4
    <3>6. q.head = r.head /\ q.next = r.next /\ q.back = p
      BY <3>2, <3>4 DEF Locals
    <3>7. q \in Locals
      BY <3>2, <3>4, <3>5 DEF Locals
    <3> QED BY <3>2, <3>5, <3>6, <3>7
  <2> QED BY <2>2, <2>4
<1>5. PICK x, y : x = <<"in", t>> /\ y = <<"walk", t>>
  OBVIOUS
<1>6. /\ x \in Places /\ y \in Places /\ x \in Ended /\ x # y /\ Firsts[x] = repatq[t] /\ Firsts[y] = Nil
      /\ Firsts = [v \in Places |-> Firsts[v]]
      /\ Chained(Places, Ended, used, chain, Firsts, end, at, left)
  BY <1>1, <1>3, <1>5, PlacesAre, FirstsNow DEF Layout
<1>7. PICK G : G = [Firsts EXCEPT ![x] = Nil, ![y] = Firsts[x]]
  OBVIOUS
<1>8. PICK e2, a2 : /\ e2 = [v \in Places |-> IF v = y THEN end[x] ELSE end[v]]
                    /\ a2 = [d \in Blocks |-> IF d \notin used /\ at[d] = x THEN y ELSE at[d]]
  OBVIOUS
<1>9. Moved(Places, Ended, used, Firsts, G, end, e2, at, a2, x, y)
  BY <1>6, <1>7, <1>8 DEF Moved
<1>10. Chained(Places, Ended, used', chain', G, e2, a2, left)
  <2>1. Chained(Places, Ended, used, chain, G, e2, a2, left)
    BY <1>6, <1>9, MoveChain
  <2> QED BY <1>3, <2>1 DEF poolVars
<1>11. G = Firsts'
  <2>1. /\ G = [v \in Places |-> G[v]] /\ G[x] = Nil /\ G[y] = repatq[t]
        /\ \A v \in Places : v # x /\ v # y => G[v] = Firsts[v]
    BY <1>6, <1>7
  <2>2. ASSUME NEW s \in Threads
        PROVE  /\ G[<<"pool", s>>] = Firsts[<<"pool", s>>] /\ G[<<"out", s>>] = Firsts[<<"out", s>>]
               /\ G[<<"sent", s>>] = Firsts[<<"sent", s>>] /\ G[<<"next", s>>] = Firsts[<<"next", s>>]
               /\ G[<<"in", s>>] = (IF s = t THEN Nil ELSE Firsts[<<"in", s>>])
               /\ G[<<"walk", s>>] = (IF s = t THEN repatq[t] ELSE Firsts[<<"walk", s>>])
    BY <1>5, <2>1, PlacesAre
  <2>3. mempool' = mempool /\ repato' = repato
    BY <1>3 DEF poolVars, outVars
  <2>4. ASSUME NEW s \in Threads
        PROVE  /\ G[<<"pool", s>>] = mempool'[s] /\ G[<<"out", s>>] = repato'[s]
               /\ G[<<"sent", s>>] = (IF Sending(s)' THEN loc'[s].head ELSE Nil)
               /\ G[<<"in", s>>] = repatq'[s] /\ G[<<"next", s>>] = loc'[s].next
               /\ G[<<"walk", s>>] = (IF pc'[s] \in {"clear", "walk"} THEN loc'[s].head ELSE Nil)
    <3>1. CASE s = t
      <4>1. ~Sending(t) /\ ~Sending(t)' /\ loc[t].next = Nil
        BY <1>3, <1>4 DEF Sending, NoLocals
      <4>2. /\ Firsts[<<"pool", t>>] = mempool[t] /\ Firsts[<<"out", t>>] = repato[t]
            /\ Firsts[<<"sent", t>>] = Nil /\ Firsts[<<"next", t>>] = Nil
        BY <4>1, FirstsNow
      <4>3. /\ G[<<"pool", t>>] = mempool[t] /\ G[<<"out", t>>] = repato[t] /\ G[<<"sent", t>>] = Nil
            /\ G[<<"next", t>>] = Nil /\ G[<<"in", t>>] = Nil /\ G[<<"walk", t>>] = repatq[t]
        BY <2>2, <4>2
      <4> QED BY <1>4, <2>3, <3>1, <4>1, <4>3
    <3>2. CASE s # t
      <4>1. Sending(s)' = Sending(s) /\ pc'[s] = pc[s] /\ loc'[s] = loc[s]
        BY <1>4, <3>2 DEF Sending
      <4>2. /\ G[<<"pool", s>>] = mempool[s] /\ G[<<"out", s>>] = repato[s]
            /\ G[<<"sent", s>>] = (IF Sending(s) THEN loc[s].head ELSE Nil)
            /\ G[<<"in", s>>] = repatq[s] /\ G[<<"next", s>>] = loc[s].next
            /\ G[<<"walk", s>>] = (IF pc[s] \in {"clear", "walk"} THEN loc[s].head ELSE Nil)
        <5>1. /\ Firsts[<<"pool", s>>] = mempool[s] /\ Firsts[<<"out", s>>] = repato[s]
              /\ Firsts[<<"sent", s>>] = (IF Sending(s) THEN loc[s].head ELSE Nil)
              /\ Firsts[<<"in", s>>] = repatq[s] /\ Firsts[<<"next", s>>] = loc[s].next
              /\ Firsts[<<"walk", s>>] = (IF pc[s] \in {"clear", "walk"} THEN loc[s].head ELSE Nil)
          BY FirstsNow
        <5> QED BY <2>2, <3>2, <5>1
      <4> QED BY <1>4, <2>3, <3>2, <4>1, <4>2
    <3> QED BY <3>1, <3>2
  <2> QED BY <2>1, <2>4, FirstsNext
<1>12. Control'
  <2>1. TypeOK'
    <3>1. repatq' \in [Threads -> Blocks \union {Nil}] /\ raced' \in [Threads -> BOOLEAN]
      BY <1>2, <1>3 DEF Disturb, Control, TypeOK
    <3>2. pc' \in [Threads -> {"running", "popping", "waiting", "load", "link", "cas",
                               "signal", "tell", "clear", "walk"}]
      BY <1>2, <1>3 DEF Control, TypeOK
    <3> QED BY <1>2, <1>3, <3>1, <3>2 DEF Control, TypeOK, poolVars, outVars
  <2>2. loc' \in [Threads -> Locals]
    <3>1. \A s \in Threads : loc'[s] \in Locals
      BY <1>2, <1>4 DEF Control
    <3>2. loc' = [s \in Threads |-> loc'[s]]
      BY <1>2, <1>3 DEF Control
    <3> QED BY <3>1, <3>2
  <2>3. ASSUME NEW s \in Threads PROVE Steps(s)'
    <3>1. Steps(s) /\ repato' = repato /\ raced'[s] = (s # t /\ (raced[s] \/ (pc[s] \in {"link", "cas"} /\ loc[s].to = t)))
      BY <1>2, <1>3 DEF Control, outVars, Disturb
    <3>2. CASE s # t
      BY <1>4, <3>1, <3>2 DEF Steps, Sending
    <3>3. CASE s = t
      BY <1>4, <3>1, <3>3 DEF Steps, Sending
    <3> QED BY <3>2, <3>3
  <2> QED BY <1>2, <1>3, <2>1, <2>2, <2>3 DEF Control
<1>13. Frame(t, end, at, left, e2, left)
  <2>1. \A s \in Threads : e2[<<"out", s>>] = end[<<"out", s>>] /\ e2[<<"sent", s>>] = end[<<"sent", s>>]
    BY <1>5, <1>8, PlacesAre
  <2> QED BY <1>3, <1>4, <2>1 DEF Frame, Kept, poolVars, outVars
<1>14. ASSUME NEW s \in Threads PROVE Mine(s, e2, left)'
  <2>1. CASE s # t
    BY <1>1, <1>2, <1>13, <2>1, OthersKept
  <2>2. CASE s = t
    <3>1. Mine(t, end, left) /\ InTrue(t, left)
      BY <1>1 DEF Layout, Queue
    <3>2. OutTrue(t, e2, left)'
      <4>1. PICK w : w = <<"out", t>>
        OBVIOUS
      <4>2. w \in Places /\ w # x /\ w # y
        BY <1>5, <4>1, PlacesAre
      <4>3. Firsts'[w] = Firsts[w] /\ e2[w] = end[w]
        BY <1>6, <1>7, <1>8, <1>11, <4>2
      <4>4. OutTrue(t, end, left) /\ repato' = repato /\ tail' = tail /\ AN' = AN
        BY <1>3, <3>1 DEF Mine, outVars
      <4> QED BY <4>1, <4>3, <4>4 DEF OutTrue, Size, Count
    <3>3. OwnTrue(t)'
      BY <1>3, <1>4, <3>1 DEF OwnTrue, Mine, InTrue, poolVars
    <3> QED BY <1>4, <2>2, <3>2, <3>3 DEF Mine, SentTrue, NextTrue, LinkTrue, Sending
  <2> QED BY <2>1, <2>2
<1>15. ASSUME NEW s \in Threads PROVE Queue(s, left)'
  <2>1. Queue(s, left) /\ aba' = aba /\ needed' = needed /\ erased' = erased
    BY <1>1, <1>3 DEF Layout
  <2>2. raced'[s] = (s # t /\ (raced[s] \/ (pc[s] \in {"link", "cas"} /\ loc[s].to = t)))
    BY <1>3 DEF Disturb
  <2>3. \A o \in Threads : o # t => /\ Size(left, "in", o)' = Size(left, "in", o)
                                    /\ repatq[o] # Nil => AN'[repatq[o]] = AN[repatq[o]]
    BY <1>1, <1>4, <1>13, QueueKept
  <2>4. InTrue(s, left)'
    BY <1>4, <2>1, <2>3 DEF Queue, InTrue
  <2>5. loc[s].to \in Threads
    BY <1>2 DEF Control, Locals
  <2>6. LookTrue(s)'
    BY <1>4, <2>1, <2>2, <2>5 DEF Queue, LookTrue
  <2>7. TotalTrue(s, left)'
    <3>1. PICK o : o = loc[s].to
      OBVIOUS
    <3>2. pc'[s] = "cas" /\ ~raced'[s] => s # t /\ o # t /\ pc[s] = "cas" /\ ~raced[s] /\ loc'[s] = loc[s]
      BY <1>4, <2>2, <3>1
    <3>3. o # t => Size(left, "in", o)' = Size(left, "in", o)
      BY <2>3, <2>5, <3>1
    <3> QED BY <1>3, <2>1, <3>1, <3>2, <3>3 DEF Queue, TotalTrue
  <2>8. AskedTrue(s, left)'
    <3>1. CASE s = t
      <4>1. Size(left, "in", t)' = 0
        BY <1>5, <1>6, <1>7, <1>11 DEF Size, Count
      <4> QED BY <3>1, <4>1, RepatriationAssumption DEF AskedTrue
    <3>2. CASE s # t
      <4>1. \A u \in Threads : pc[u] = "signal" => pc'[u] = "signal" /\ loc'[u] = loc[u]
        BY <1>3, <1>4
      <4> QED BY <1>4, <2>1, <2>3, <3>2, <4>1 DEF Queue, AskedTrue
    <3> QED BY <3>1, <3>2
  <2> QED BY <2>4, <2>6, <2>7, <2>8 DEF Queue
<1>16. Layout(e2, a2, left)'
  BY <1>10, <1>11, <1>14, <1>15 DEF Layout
<1> QED BY <1>12, <1>16 DEF IndInv

\* It clears the signal, and has a chain to walk along or not.
LEMMA ClearKeeps ==
    ASSUME IndInv, NEW t \in Threads, Clear(t)
    PROVE  IndInv'
<1>1. PICK end, at, left : Layout(end, at, left)
  BY DEF IndInv
<1>2. Control
  BY DEF IndInv
<1>3. /\ pc[t] = "clear" /\ erased' = [erased EXCEPT ![t] = needed[t] /\ repatq[t] # Nil]
      /\ needed' = [needed EXCEPT ![t] = FALSE]
      /\ loc[t].head = Nil => pc' = [pc EXCEPT ![t] = loc[t].back] /\ loc' = [loc EXCEPT ![t] = NoLocals]
      /\ loc[t].head # Nil => pc' = [pc EXCEPT ![t] = "walk"] /\ loc' = loc
      /\ UNCHANGED <<poolVars, chain, AN, outVars, repatq, raced, aba>>
  BY DEF Clear, Goto
<1>4. loc[t] \in Locals /\ loc[t].next = Nil /\ loc[t].back \in {"running", "waiting"} /\ NoLocals \in Locals
  BY <1>2, <1>3 DEF Control, Steps, NoLocals, Locals, Threads
<1>5. /\ loc'[t] \in Locals /\ loc'[t].head = loc[t].head /\ loc'[t].next = Nil
      /\ pc'[t] \in {"running", "waiting", "walk"}
      /\ (pc'[t] = "walk" <=> loc[t].head # Nil) /\ (pc'[t] # "walk" => loc'[t] = NoLocals)
      /\ loc'[t].back \in {"running", "waiting"}
      /\ \A s \in Threads : s # t => pc'[s] = pc[s] /\ loc'[s] = loc[s]
  BY <1>2, <1>3, <1>4 DEF Control, TypeOK, NoLocals
<1>6. Firsts' = Firsts
  <2>1. mempool' = mempool /\ repato' = repato /\ repatq' = repatq
    BY <1>3 DEF poolVars, outVars
  <2>2. ASSUME NEW s \in Threads
        PROVE  /\ Firsts[<<"pool", s>>] = mempool'[s] /\ Firsts[<<"out", s>>] = repato'[s]
               /\ Firsts[<<"sent", s>>] = (IF Sending(s)' THEN loc'[s].head ELSE Nil)
               /\ Firsts[<<"in", s>>] = repatq'[s] /\ Firsts[<<"next", s>>] = loc'[s].next
               /\ Firsts[<<"walk", s>>] = (IF pc'[s] \in {"clear", "walk"} THEN loc'[s].head ELSE Nil)
    <3>1. CASE s = t
      <4>1. ~Sending(t) /\ ~Sending(t)'
        BY <1>3, <1>5 DEF Sending
      <4> QED BY <1>3, <1>4, <1>5, <2>1, <3>1, <4>1, FirstsNow
    <3>2. CASE s # t
      <4>1. Sending(s)' = Sending(s) /\ pc'[s] = pc[s] /\ loc'[s] = loc[s]
        BY <1>5, <3>2 DEF Sending
      <4> QED BY <2>1, <4>1, FirstsNow
    <3> QED BY <3>1, <3>2
  <2> QED BY <2>2, FirstsNow, FirstsNext
<1>7. Chained(Places, Ended, used', chain', Firsts', end, at, left)
  BY <1>1, <1>3, <1>6 DEF Layout, poolVars
<1>8. Control'
  <2>1. TypeOK'
    <3>1. needed' \in [Threads -> BOOLEAN] /\ erased' \in [Threads -> BOOLEAN]
      BY <1>2, <1>3 DEF Control, TypeOK
    <3>2. pc' \in [Threads -> {"running", "popping", "waiting", "load", "link", "cas",
                               "signal", "tell", "clear", "walk"}]
      BY <1>2, <1>3, <1>4 DEF Control, TypeOK
    <3> QED BY <1>2, <1>3, <3>1, <3>2 DEF Control, TypeOK, poolVars, outVars
  <2>2. loc' \in [Threads -> Locals]
    BY <1>2, <1>3, <1>4 DEF Control
  <2>3. ASSUME NEW s \in Threads PROVE Steps(s)'
    <3>1. Steps(s) /\ Steps(t) /\ repato' = repato /\ raced' = raced
      BY <1>2, <1>3 DEF Control, outVars
    <3>2. CASE s # t
      BY <1>5, <3>1, <3>2 DEF Steps, Sending
    <3>3. CASE s = t
      BY <1>3, <1>5, <3>1, <3>3 DEF Steps, Sending
    <3> QED BY <3>2, <3>3
  <2> QED BY <1>2, <1>3, <2>1, <2>2, <2>3 DEF Control
<1>9. Frame(t, end, at, left, end, left)
  BY <1>3, <1>5 DEF Frame, Kept, poolVars, outVars
<1>10. ASSUME NEW s \in Threads PROVE Mine(s, end, left)'
  <2>1. CASE s # t
    BY <1>1, <1>2, <1>9, <2>1, OthersKept
  <2>2. CASE s = t
    <3>1. Mine(t, end, left)
      BY <1>1 DEF Layout
    <3>2. Size(left, "out", t)' = Size(left, "out", t)
      BY <1>6 DEF Size
    <3> QED BY <1>3, <1>5, <2>2, <3>1, <3>2
            DEF Mine, OutTrue, SentTrue, OwnTrue, NextTrue, LinkTrue, Sending, poolVars, outVars
  <2> QED BY <2>1, <2>2
<1>11. ASSUME NEW s \in Threads PROVE Queue(s, left)'
  <2>1. Queue(s, left) /\ aba' = aba /\ repatq' = repatq /\ raced' = raced /\ AN' = AN
    BY <1>1, <1>3 DEF Layout
  <2>2. \A o : Size(left, "in", o)' = Size(left, "in", o)
    BY <1>6 DEF Size
  <2>3. pc'[s] \in {"link", "cas"} => pc'[s] = pc[s] /\ loc'[s] = loc[s]
    BY <1>5
  <2>4. InTrue(s, left)' /\ LookTrue(s)'
    BY <2>1, <2>2, <2>3 DEF Queue, InTrue, LookTrue
  <2>5. TotalTrue(s, left)'
    <3>1. PICK o : o = loc[s].to
      OBVIOUS
    <3> QED BY <2>1, <2>2, <2>3, <3>1 DEF Queue, TotalTrue
  <2>6. AskedTrue(s, left)'
    <3>1. \A u \in Threads : pc[u] = "signal" => pc'[u] = "signal" /\ loc'[u] = loc[u]
      BY <1>3, <1>5
    <3>2. CASE s # t
      BY <1>2, <1>3, <1>5, <2>1, <2>2, <3>1, <3>2 DEF Queue, AskedTrue, Control, TypeOK
    <3>3. CASE s = t
      <4>1. ASSUME Size(left, "in", t) > GCLIM PROVE repatq[t] # Nil
        <5>1. Size(left, "in", t) # 0
          BY <4>1, RepatriationAssumption
        <5> QED BY <5>1, FirstsNow DEF Size, Count
      <4>2. pc'[t] # "clear" /\ (needed[t] /\ repatq[t] # Nil => erased'[t])
        BY <1>2, <1>3, <1>5 DEF Control, TypeOK
      <4> QED BY <1>3, <2>1, <2>2, <3>1, <3>3, <4>1, <4>2 DEF Queue, AskedTrue
    <3> QED BY <3>2, <3>3
  <2> QED BY <2>4, <2>5, <2>6 DEF Queue
<1>12. Layout(end, at, left)'
  BY <1>7, <1>10, <1>11 DEF Layout
<1> QED BY <1>8, <1>12 DEF IndInv

\* The end of the sending: what Sent itself changes, after a change of the queues that
\* leads to the places F.
Finishes(t, end, at, left, F, e1, a1, l1) ==
  /\ Sent(t) /\ pc[t] \in {"cas", "signal"}
  /\ F = FirstsOf(mempool, repato, repatq', [pc EXCEPT ![t] = "signal"], loc)
  /\ Chained(Places, Ended, used, chain, F, e1, a1, l1)
  /\ loc[t].next # Nil => l1[loc[t].next] = 0
  /\ \A s \in Threads \ {t} : /\ repato[s] # Nil => e1[<<"out", s>>] = end[<<"out", s>>]
                              /\ Sending(s) => e1[<<"sent", s>>] = end[<<"sent", s>>]
  /\ \A b \in Blocks \ used : \A p, s : at[b] = <<p, s>> /\ (s # t \/ p = "in") => l1[b] = left[b]
  /\ UNCHANGED <<poolVars, chain>>
  /\ repatq' \in [Threads -> Blocks \union {Nil}]
  /\ needed' \in [Threads -> BOOLEAN] /\ raced' \in [Threads -> BOOLEAN] /\ erased' \in [Threads -> BOOLEAN]
  /\ \A s \in Threads : raced'[s] => s # t /\ pc[s] \in {"link", "cas"}

\* What holds then of everything but the queues.
Finished(t, end, at, left, l1) ==
  /\ Control'
  /\ \E e2, a2 : /\ Chained(Places, Ended, used', chain', Firsts', e2, a2, l1)
                 /\ Frame(t, end, at, left, e2, l1)
                 /\ Mine(t, e2, l1)'

\* The collected block of another owner starts the new repato.
LEMMA SentFinishes ==
    ASSUME Control, NEW end, NEW at, NEW left, Layout(end, at, left), NEW t \in Threads,
           NEW F, NEW e1, NEW a1, NEW l1, Finishes(t, end, at, left, F, e1, a1, l1)
    PROVE  Finished(t, end, at, left, l1)
<1>1. PICK b : b = loc[t].next
  OBVIOUS
<1>2. /\ pc[t] \in {"cas", "signal"} /\ repato[t] = Nil /\ loc[t].back \in {"running", "popping", "tell"}
      /\ b \in Blocks \union {Nil} /\ NoLocals \in Locals /\ NoLocals.next = Nil
  <2>1. Steps(t) /\ pc[t] \in {"cas", "signal"} /\ loc[t] \in Locals
    BY DEF Control, Finishes
  <2>2. b \in Blocks \union {Nil}
    BY <1>1, <2>1 DEF Locals
  <2> QED BY <2>1, <2>2 DEF Steps, Sending, NoLocals, Locals, Threads
<1>3. /\ pc' = [pc EXCEPT ![t] = loc[t].back] /\ loc' = [loc EXCEPT ![t] = NoLocals]
      /\ IF b = Nil THEN UNCHANGED <<AN, outVars>>
         ELSE /\ repato' = [repato EXCEPT ![t] = b] /\ tail' = [tail EXCEPT ![t] = b]
              /\ AN' = [AN EXCEPT ![b] = 1]
  BY <1>1 DEF Finishes, Sent, Goto
<1>4. /\ pc'[t] \in {"running", "popping", "tell"} /\ loc'[t] = NoLocals /\ repato'[t] = b
      /\ b # Nil => tail'[t] = b /\ AN'[b] = 1
      /\ \A s \in Threads : s # t => /\ loc'[s] = loc[s] /\ pc'[s] = pc[s]
                                     /\ repato'[s] = repato[s] /\ tail'[s] = tail[s]
      /\ \A d \in Blocks : d # b => AN'[d] = AN[d]
  <2>1. /\ pc'[t] = loc[t].back /\ loc'[t] = NoLocals
        /\ \A s \in Threads : s # t => loc'[s] = loc[s] /\ pc'[s] = pc[s]
    BY <1>3 DEF Control, TypeOK
  <2>2. CASE b = Nil
    BY <1>2, <1>3, <2>1, <2>2 DEF outVars
  <2>3. CASE b # Nil
    <3>1. repato'[t] = b /\ tail'[t] = b /\ \A s \in Threads : s # t => repato'[s] = repato[s] /\ tail'[s] = tail[s]
      BY <1>3, <2>3 DEF Control, TypeOK
    <3>2. AN'[b] = 1 /\ \A d \in Blocks : d # b => AN'[d] = AN[d]
      BY <1>2, <1>3, <2>3 DEF Control
    <3> QED BY <1>2, <2>1, <3>1, <3>2
  <2> QED BY <2>2, <2>3
<1>5. PICK x, y : x = <<"next", t>> /\ y = <<"out", t>>
  OBVIOUS
<1>6. PICK lab : lab = [pc EXCEPT ![t] = "signal"]
  OBVIOUS
<1>7. lab[t] = "signal" /\ \A s \in Threads : s # t => lab[s] = pc[s]
  BY <1>6 DEF Control, TypeOK
<1>8. /\ F = [v \in Places |-> F[v]]
      /\ Shows(F, mempool, repato, repatq', lab, loc)
  BY <1>6, FirstsShow DEF Finishes
<1>9. x \in Places /\ y \in Places /\ x # y /\ y \notin Ended /\ F[x] = b /\ F[y] = Nil
  BY <1>1, <1>2, <1>5, <1>8, PlacesAre DEF Shows
<1>10. PICK G : G = [F EXCEPT ![x] = Nil, ![y] = F[x]]
  OBVIOUS
<1>11. PICK e2, a2 : /\ e2 = [v \in Places |-> IF v = y THEN e1[x] ELSE e1[v]]
                     /\ a2 = [d \in Blocks |-> IF d \notin used /\ a1[d] = x THEN y ELSE a1[d]]
  OBVIOUS
<1>12. Moved(Places, Ended, used, F, G, e1, e2, a1, a2, x, y)
  BY <1>9, <1>10, <1>11 DEF Moved
<1>13. Chained(Places, Ended, used, chain, F, e1, a1, l1)
  BY DEF Finishes
<1>14. Chained(Places, Ended, used', chain', G, e2, a2, l1) /\ SameCount(F, l1, x, G, l1, y)
  <2>1. Chained(Places, Ended, used, chain, G, e2, a2, l1) /\ SameCount(F, l1, x, G, l1, y)
    BY <1>12, <1>13, MoveChain
  <2> QED BY <2>1 DEF Finishes, poolVars
<1>15. G = Firsts'
  <2>1. G = [v \in Places |-> G[v]] /\ G[x] = Nil /\ G[y] = b /\ \A v \in Places : v # x /\ v # y => G[v] = F[v]
    BY <1>8, <1>9, <1>10
  <2>2. mempool' = mempool
    BY DEF Finishes, poolVars
  <2>3. ASSUME NEW s \in Threads
        PROVE  /\ G[<<"pool", s>>] = mempool'[s] /\ G[<<"out", s>>] = repato'[s]
               /\ G[<<"sent", s>>] = (IF Sending(s)' THEN loc'[s].head ELSE Nil)
               /\ G[<<"in", s>>] = repatq'[s] /\ G[<<"next", s>>] = loc'[s].next
               /\ G[<<"walk", s>>] = (IF pc'[s] \in {"clear", "walk"} THEN loc'[s].head ELSE Nil)
    <3>1. /\ F[<<"pool", s>>] = mempool[s] /\ F[<<"out", s>>] = repato[s]
          /\ F[<<"sent", s>>] = (IF lab[s] \in {"load", "link", "cas"} THEN loc[s].head ELSE Nil)
          /\ F[<<"in", s>>] = repatq'[s] /\ F[<<"next", s>>] = loc[s].next
          /\ F[<<"walk", s>>] = (IF lab[s] \in {"clear", "walk"} THEN loc[s].head ELSE Nil)
      BY <1>8 DEF Shows
    <3>2. /\ G[<<"pool", s>>] = F[<<"pool", s>>] /\ G[<<"sent", s>>] = F[<<"sent", s>>]
          /\ G[<<"in", s>>] = F[<<"in", s>>] /\ G[<<"walk", s>>] = F[<<"walk", s>>]
          /\ G[<<"out", s>>] = (IF s = t THEN b ELSE F[<<"out", s>>])
          /\ G[<<"next", s>>] = (IF s = t THEN Nil ELSE F[<<"next", s>>])
      BY <1>5, <2>1, PlacesAre
    <3>3. CASE s = t
      <4>1. ~Sending(t)' /\ pc'[t] \notin {"clear", "walk"}
        BY <1>4 DEF Sending
      <4> QED BY <1>2, <1>4, <1>7, <2>2, <3>1, <3>2, <3>3, <4>1
    <3>4. CASE s # t
      <4>1. Sending(s)' = (pc[s] \in {"load", "link", "cas"}) /\ pc'[s] = pc[s] /\ loc'[s] = loc[s]
        BY <1>4, <3>4 DEF Sending
      <4> QED BY <1>4, <1>7, <2>2, <3>1, <3>2, <3>4, <4>1
    <3> QED BY <3>3, <3>4
  <2> QED BY <2>1, <2>3, FirstsNext
<1>16. Control'
  <2>1. TypeOK'
    <3>1. pc' \in [Threads -> {"running", "popping", "waiting", "load", "link", "cas",
                               "signal", "tell", "clear", "walk"}]
      BY <1>2, <1>3 DEF Control, TypeOK
    <3>2. repato' \in [Threads -> Blocks \union {Nil}] /\ tail' \in [Threads -> Blocks \union {Nil}]
      BY <1>2, <1>3 DEF Control, TypeOK, outVars
    <3>3. used' \subseteq Blocks /\ mempool' \in [Threads -> Blocks \union {Nil}]
      BY DEF Control, TypeOK, Finishes, poolVars
    <3>4. /\ repatq' \in [Threads -> Blocks \union {Nil}]
          /\ needed' \in [Threads -> BOOLEAN] /\ raced' \in [Threads -> BOOLEAN] /\ erased' \in [Threads -> BOOLEAN]
      BY DEF Finishes
    <3> QED BY <3>1, <3>2, <3>3, <3>4 DEF TypeOK
  <2>2. loc' \in [Threads -> Locals]
    BY <1>2, <1>3 DEF Control
  <2>3. chain' \in [Blocks -> Words] /\ AN' \in [Blocks -> Nat]
    <3>1. chain' = chain /\ AN \in [Blocks -> Nat]
      BY DEF Control, Finishes
    <3>2. AN' \in [Blocks -> Nat]
      BY <1>2, <1>3, <3>1
    <3> QED BY <3>1, <3>2 DEF Control
  <2>4. ASSUME NEW s \in Threads PROVE Steps(s)'
    <3>1. Steps(s) /\ (raced'[s] => s # t /\ pc[s] \in {"link", "cas"})
      BY DEF Control, Finishes
    <3>2. CASE s # t
      BY <1>4, <3>1, <3>2 DEF Steps, Sending
    <3>3. CASE s = t
      BY <1>4, <3>1, <3>3 DEF Steps, Sending
    <3> QED BY <3>2, <3>3
  <2> QED BY <2>1, <2>2, <2>3, <2>4 DEF Control
<1>17. Frame(t, end, at, left, e2, l1)
  <2>1. \A s \in Threads : s # t => e2[<<"out", s>>] = e1[<<"out", s>>] /\ e2[<<"sent", s>>] = e1[<<"sent", s>>]
    BY <1>5, <1>11, PlacesAre
  <2>2. b # Nil => at[b] = x
    <3>1. Firsts[x] = b /\ x \in Places
      BY <1>1, <1>5, FirstsNow, PlacesAre
    <3> QED BY <3>1, Apart
  <2>3. Kept(t, at, left, l1)
    <3>1. \A d \in Blocks \ used : \A p, s : at[d] = <<p, s>> /\ (s # t \/ p = "in") => l1[d] = left[d]
      BY DEF Finishes
    <3>2. ASSUME NEW d \in Blocks \ used, NEW p, NEW s, at[d] = <<p, s>>, s # t \/ p = "in"
          PROVE  d # b
      BY <1>5, <2>2, <3>2, RepatriationAssumption
    <3>3. chain' = chain
      BY DEF Finishes
    <3> QED BY <1>4, <3>1, <3>2, <3>3 DEF Kept
  <2>4. /\ \A s \in Threads \ {t} : /\ repato[s] # Nil => e1[<<"out", s>>] = end[<<"out", s>>]
                                    /\ Sending(s) => e1[<<"sent", s>>] = end[<<"sent", s>>]
        /\ mempool' = mempool
    BY DEF Finishes, poolVars
  <2> QED BY <1>4, <2>1, <2>3, <2>4 DEF Frame
<1>18. Mine(t, e2, l1)'
  <2>1. OutTrue(t, e2, l1)'
    <3>1. SUFFICES ASSUME b # Nil PROVE tail'[t] = e2[y] /\ AN'[b] = Size(l1, "out", t)'
      BY <1>4, <1>5 DEF OutTrue
    <3>2. l1[b] = 0 /\ b \in Blocks
      BY <1>1, <1>2, <3>1 DEF Finishes
    <3>3. e1[x] = b
      BY <1>9, <1>13, <3>1, <3>2 DEF Chained
    <3>4. e2[y] = b
      BY <1>9, <1>11, <3>3
    <3>5. Count(F, l1, x) = 1
      BY <1>9, <3>1, <3>2 DEF Count
    <3>6. Size(l1, "out", t)' = 1
      BY <1>5, <1>14, <1>15, <3>5 DEF Size, SameCount
    <3> QED BY <1>4, <3>1, <3>4, <3>6
  <2>2. OwnTrue(t)'
    <3>1. OwnTrue(t) /\ mempool' = mempool
      BY DEF Layout, Mine, Finishes, poolVars
    <3> QED BY <1>4, <3>1 DEF OwnTrue
  <2> QED BY <1>2, <1>4, <2>1, <2>2 DEF Mine, SentTrue, NextTrue, LinkTrue, Sending
<1> QED BY <1>14, <1>15, <1>16, <1>17, <1>18 DEF Finished

\* The owner of a long queue is asked to take it.
LEMMA SignalKeeps ==
    ASSUME IndInv, NEW t \in Threads, Signal(t)
    PROVE  IndInv'
<1>1. PICK end, at, left : Layout(end, at, left)
  BY DEF IndInv
<1>2. Control
  BY DEF IndInv
<1>3. PICK o : o = loc[t].to
  OBVIOUS
<1>4. /\ pc[t] = "signal" /\ Sent(t) /\ o \in Threads /\ loc[t].back \in {"running", "popping", "tell"}
      /\ needed' = [needed EXCEPT ![o] = TRUE]
      /\ UNCHANGED <<poolVars, chain, repatq, raced, aba, erased>>
  BY <1>2, <1>3 DEF Signal, Control, Steps, Locals
<1>5. \A s \in Threads : needed[s] \/ s = o => needed'[s]
  BY <1>2, <1>4 DEF Control, TypeOK
<1>6. /\ Firsts = FirstsOf(mempool, repato, repatq', [pc EXCEPT ![t] = "signal"], loc)
      /\ Chained(Places, Ended, used, chain, Firsts, end, at, left)
  <2>1. pc = [pc EXCEPT ![t] = "signal"]
    BY <1>2, <1>4 DEF Control, TypeOK
  <2> QED BY <1>1, <1>4, <2>1 DEF Firsts, Layout
<1>7. ASSUME NEW s \in Threads PROVE raced'[s] => s # t /\ pc[s] \in {"link", "cas"}
  <2>1. Steps(s) /\ raced' = raced
    BY <1>2, <1>4 DEF Control
  <2> QED BY <1>4, <2>1 DEF Steps
<1>8. /\ repatq' \in [Threads -> Blocks \union {Nil}]
      /\ needed' \in [Threads -> BOOLEAN] /\ raced' \in [Threads -> BOOLEAN] /\ erased' \in [Threads -> BOOLEAN]
  BY <1>2, <1>4 DEF Control, TypeOK
<1>9. loc[t].next # Nil => left[loc[t].next] = 0
  BY <1>1 DEF Layout, Mine, NextTrue
<1>10. Finishes(t, end, at, left, Firsts, end, at, left)
  BY <1>4, <1>6, <1>7, <1>8, <1>9 DEF Finishes
<1>11. Finished(t, end, at, left, left)
  BY <1>1, <1>2, <1>10, SentFinishes
<1>12. PICK e2, a2 : /\ Chained(Places, Ended, used', chain', Firsts', e2, a2, left)
                     /\ Frame(t, end, at, left, e2, left)
                     /\ Mine(t, e2, left)'
  BY <1>11 DEF Finished
<1>13. ASSUME NEW s \in Threads PROVE Mine(s, e2, left)'
  BY <1>1, <1>2, <1>12, OthersKept
<1>14. pc'[t] = loc[t].back /\ pc'[t] \notin {"link", "cas", "clear"}
       /\ \A s \in Threads : s # t => pc'[s] = pc[s] /\ loc'[s] = loc[s]
  <2>1. pc' = [pc EXCEPT ![t] = loc[t].back]
    BY <1>4 DEF Sent, Goto
  <2>2. pc'[t] = loc[t].back
    BY <1>2, <2>1 DEF Control, TypeOK
  <2> QED BY <1>4, <1>12, <2>2 DEF Frame
<1>15. ASSUME NEW s \in Threads
       PROVE  /\ Size(left, "in", s)' = Size(left, "in", s)
              /\ repatq[s] # Nil => AN'[repatq[s]] = AN[repatq[s]]
  BY <1>1, <1>4, <1>12, QueueKept
<1>16. ASSUME NEW s \in Threads PROVE Queue(s, left)'
  <2>1. Queue(s, left) /\ aba' = aba /\ raced' = raced /\ erased' = erased /\ repatq' = repatq
    BY <1>1, <1>4 DEF Layout
  <2>2. InTrue(s, left)'
    BY <1>15, <2>1 DEF Queue, InTrue
  <2>3. LookTrue(s)'
    BY <1>14, <2>1 DEF Queue, LookTrue
  <2>4. TotalTrue(s, left)'
    <3>1. PICK w : w = loc[s].to
      OBVIOUS
    <3>2. w \in Threads
      BY <1>2, <3>1 DEF Control, Locals
    <3>3. Size(left, "in", w)' = Size(left, "in", w)
      BY <1>15, <3>2
    <3>4. s # t /\ Sending(s) => AN'[loc[s].head] = AN[loc[s].head]
      BY <1>1, <1>2, <1>12, OthersKept
    <3> QED BY <1>14, <2>1, <3>1, <3>3, <3>4 DEF Queue, TotalTrue, Sending
  <2>5. AskedTrue(s, left)'
    <3>1. ASSUME NEW u \in Threads, pc[u] = "signal", loc[u].to = s
          PROVE  needed'[s] \/ (pc'[u] = "signal" /\ loc'[u].to = s)
      BY <1>3, <1>5, <1>14, <3>1
    <3>2. pc'[s] = "clear" => pc[s] = "clear"
      BY <1>14
    <3> QED BY <1>5, <1>15, <2>1, <3>1, <3>2 DEF Queue, AskedTrue
  <2> QED BY <2>2, <2>3, <2>4, <2>5 DEF Queue
<1>17. Layout(e2, a2, left)'
  BY <1>12, <1>13, <1>16 DEF Layout
<1> QED BY <1>11, <1>17 DEF IndInv, Finished

\* The queue is not what the sender expected: it tries again with what it has found.
LEMMA SwapFailsKeeps ==
    ASSUME IndInv, NEW t \in Threads, CompareAndSwap(t), ~Installed(t)
    PROVE  IndInv'
<1>1. PICK end, at, left : Layout(end, at, left)
  BY DEF IndInv
<1>2. Control /\ repatq \in [Threads -> Blocks \union {Nil}]
  BY DEF IndInv, Control, TypeOK
<1>3. PICK o : o = loc[t].to
  OBVIOUS
<1>4. /\ pc[t] = "cas" /\ loc' = [loc EXCEPT ![t].exp = repatq[o]] /\ raced' = [raced EXCEPT ![t] = FALSE]
      /\ pc' = [pc EXCEPT ![t] = "link"]
      /\ UNCHANGED <<poolVars, chain, AN, repatq, aba, outVars, needed, erased>>
  BY <1>3 DEF CompareAndSwap, Goto
<1>5. loc[t] \in Locals /\ o \in Threads /\ repatq[o] \in Blocks \union {Nil}
  <2>1. loc[t] \in Locals
    BY <1>2 DEF Control
  <2>2. o \in Threads
    BY <1>3, <2>1 DEF Locals
  <2> QED BY <1>2, <2>1, <2>2
<1>6. /\ pc'[t] = "link" /\ loc'[t] \in Locals /\ loc'[t].exp = repatq[o] /\ ~raced'[t]
      /\ loc'[t].head = loc[t].head /\ loc'[t].last = loc[t].last /\ loc'[t].to = o
      /\ loc'[t].size = loc[t].size /\ loc'[t].next = loc[t].next /\ loc'[t].back = loc[t].back
      /\ \A s \in Threads : s # t => pc'[s] = pc[s] /\ loc'[s] = loc[s] /\ raced'[s] = raced[s]
  <2>1. /\ pc'[t] = "link" /\ ~raced'[t] /\ loc'[t] = [loc[t] EXCEPT !.exp = repatq[o]]
        /\ \A s \in Threads : s # t => pc'[s] = pc[s] /\ loc'[s] = loc[s] /\ raced'[s] = raced[s]
    BY <1>2, <1>4 DEF Control, TypeOK
  <2>2. PICK r : r = [loc[t] EXCEPT !.exp = repatq[o]]
    OBVIOUS
  <2>3. /\ r \in Locals /\ r.exp = repatq[o] /\ r.head = loc[t].head /\ r.last = loc[t].last
        /\ r.to = loc[t].to /\ r.size = loc[t].size /\ r.next = loc[t].next /\ r.back = loc[t].back
    BY <1>5, <2>2 DEF Locals
  <2> QED BY <1>3, <2>1, <2>2, <2>3
<1>7. Firsts' = Firsts
  <2>1. mempool' = mempool /\ repato' = repato /\ repatq' = repatq
    BY <1>4 DEF poolVars, outVars
  <2>2. ASSUME NEW s \in Threads
        PROVE  /\ Firsts[<<"pool", s>>] = mempool'[s] /\ Firsts[<<"out", s>>] = repato'[s]
               /\ Firsts[<<"sent", s>>] = (IF Sending(s)' THEN loc'[s].head ELSE Nil)
               /\ Firsts[<<"in", s>>] = repatq'[s] /\ Firsts[<<"next", s>>] = loc'[s].next
               /\ Firsts[<<"walk", s>>] = (IF pc'[s] \in {"clear", "walk"} THEN loc'[s].head ELSE Nil)
    <3>1. CASE s = t
      <4>1. Sending(t) /\ Sending(t)' /\ pc[t] \notin {"clear", "walk"} /\ pc'[t] \notin {"clear", "walk"}
        BY <1>4, <1>6 DEF Sending
      <4> QED BY <1>6, <2>1, <3>1, <4>1, FirstsNow
    <3>2. CASE s # t
      <4>1. Sending(s)' = Sending(s) /\ pc'[s] = pc[s] /\ loc'[s] = loc[s]
        BY <1>6, <3>2 DEF Sending
      <4> QED BY <2>1, <4>1, FirstsNow
    <3> QED BY <3>1, <3>2
  <2> QED BY <2>2, FirstsNow, FirstsNext
<1>8. Chained(Places, Ended, used', chain', Firsts', end, at, left)
  BY <1>1, <1>4, <1>7 DEF Layout, poolVars
<1>9. Control'
  <2>1. TypeOK'
    <3>1. raced' \in [Threads -> BOOLEAN]
      BY <1>2, <1>4 DEF Control, TypeOK
    <3>2. pc' \in [Threads -> {"running", "popping", "waiting", "load", "link", "cas",
                               "signal", "tell", "clear", "walk"}]
      BY <1>2, <1>4 DEF Control, TypeOK
    <3> QED BY <1>2, <1>4, <3>1, <3>2 DEF Control, TypeOK, poolVars, outVars
  <2>2. loc' \in [Threads -> Locals]
    <3>1. \A s \in Threads : loc'[s] \in Locals
      BY <1>2, <1>6 DEF Control
    <3>2. loc' = [s \in Threads |-> loc'[s]]
      BY <1>2, <1>4 DEF Control
    <3> QED BY <3>1, <3>2
  <2>3. ASSUME NEW s \in Threads PROVE Steps(s)'
    <3>1. Steps(s) /\ repato' = repato
      BY <1>2, <1>4 DEF Control, outVars
    <3>2. CASE s # t
      BY <1>6, <3>1, <3>2 DEF Steps, Sending
    <3>3. CASE s = t
      BY <1>4, <1>6, <3>1, <3>3 DEF Steps, Sending
    <3> QED BY <3>2, <3>3
  <2> QED BY <1>2, <1>4, <2>1, <2>2, <2>3 DEF Control
<1>10. Frame(t, end, at, left, end, left)
  BY <1>4, <1>6 DEF Frame, Kept, poolVars, outVars
<1>11. ASSUME NEW s \in Threads PROVE Mine(s, end, left)'
  <2>1. CASE s # t
    BY <1>1, <1>2, <1>10, <2>1, OthersKept
  <2>2. CASE s = t
    <3>1. Mine(t, end, left) /\ Sending(t)
      BY <1>1, <1>4 DEF Layout, Sending
    <3>2. Size(left, "out", t)' = Size(left, "out", t) /\ Size(left, "sent", t)' = Size(left, "sent", t)
      BY <1>7 DEF Size
    <3>3. OutTrue(t, end, left)'
      BY <1>4, <3>1, <3>2 DEF Mine, OutTrue, outVars
    <3>4. SentTrue(t, end, left)'
      BY <1>3, <1>6, <3>1, <3>2 DEF Mine, SentTrue
    <3>5. OwnTrue(t)'
      BY <1>4, <1>6, <3>1 DEF Mine, OwnTrue, poolVars
    <3> QED BY <1>6, <2>2, <3>1, <3>3, <3>4, <3>5 DEF Mine, NextTrue, LinkTrue
  <2> QED BY <2>1, <2>2
<1>12. ASSUME NEW s \in Threads PROVE Queue(s, left)'
  <2>1. Queue(s, left) /\ aba' = aba /\ repatq' = repatq /\ AN' = AN /\ needed' = needed /\ erased' = erased
    BY <1>1, <1>4 DEF Layout
  <2>2. \A w : Size(left, "in", w)' = Size(left, "in", w)
    BY <1>7 DEF Size
  <2>3. InTrue(s, left)'
    BY <2>1, <2>2 DEF Queue, InTrue
  <2>4. LookTrue(s)'
    BY <1>6, <2>1 DEF Queue, LookTrue
  <2>5. TotalTrue(s, left)'
    <3>1. PICK w : w = loc[s].to
      OBVIOUS
    <3> QED BY <1>6, <2>1, <2>2, <3>1 DEF Queue, TotalTrue
  <2>6. AskedTrue(s, left)'
    <3>1. \A u \in Threads : pc[u] = "signal" => pc'[u] = "signal" /\ loc'[u] = loc[u]
      BY <1>4, <1>6
    <3>2. pc'[s] = "clear" => pc[s] = "clear"
      BY <1>6
    <3> QED BY <2>1, <2>2, <3>1, <3>2 DEF Queue, AskedTrue
  <2> QED BY <2>3, <2>4, <2>5, <2>6 DEF Queue
<1>13. Layout(end, at, left)'
  BY <1>8, <1>11, <1>12 DEF Layout
<1> QED BY <1>9, <1>13 DEF IndInv

\* The chain is put before the queue: what the exchange itself changes.
Swapped(t, end, at, left, F, e1, a1, l1) ==
  /\ F = FirstsOf(mempool, repato, repatq', [pc EXCEPT ![t] = "signal"], loc)
  /\ Chained(Places, Ended, used, chain, F, e1, a1, l1)
  /\ Summed(Firsts, left, <<"sent", t>>, <<"in", loc[t].to>>, F, l1)
  /\ \A v \in Places : v # <<"in", loc[t].to>> => e1[v] = end[v]
  /\ \A b \in Blocks \ used : at[b] # <<"sent", t>> => l1[b] = left[b]

\* There are such chains.
LEMMA SwapJoins ==
    ASSUME Control, NEW end, NEW at, NEW left, Layout(end, at, left), NEW t \in Threads,
           pc[t] = "cas", Installed(t), repatq' = [repatq EXCEPT ![loc[t].to] = loc[t].head]
    PROVE  \E F, e1, a1, l1 : Swapped(t, end, at, left, F, e1, a1, l1)
<1>0. PICK x, y : x = <<"sent", t>> /\ y = <<"in", loc[t].to>>
  OBVIOUS
<1>1. PICK o, h : o = loc[t].to /\ h = loc[t].head
  OBVIOUS
<1>2. o \in Threads /\ repatq'[o] = h /\ \A s \in Threads : s # o => repatq'[s] = repatq[s]
  BY <1>1 DEF Control, TypeOK, Locals
<1>3. /\ x \in Places /\ y \in Places /\ x # y /\ x \notin Ended
      /\ Firsts[x] = h /\ Firsts[y] = repatq[o] /\ Firsts = [v \in Places |-> Firsts[v]]
  BY <1>0, <1>1, <1>2, PlacesAre, FirstsNow DEF Sending
<1>4. /\ h # Nil /\ Origin[h] = o /\ end[x] = loc[t].last
      /\ chain[loc[t].last] = repatq[o] /\ (repatq[o] # Nil => Origin[repatq[o]] = o)
  <2>1. Steps(t) /\ Mine(t, end, left) /\ InTrue(o, left) /\ repatq[o] = loc[t].exp
    BY <1>1, <1>2 DEF Control, Layout, Queue, Installed
  <2> QED BY <1>0, <1>1, <2>1 DEF Steps, Mine, SentTrue, LinkTrue, InTrue, Sending
<1>5. PICK F : F = [Firsts EXCEPT ![x] = Nil, ![y] = Firsts[x]]
  OBVIOUS
<1>6. PICK e1, a1, l1 :
        /\ e1 = [v \in Places |-> IF v = y /\ Firsts[y] = Nil THEN end[x] ELSE end[v]]
        /\ a1 = [d \in Blocks |-> IF d \notin used /\ at[d] = x THEN y ELSE at[d]]
        /\ l1 = [d \in Blocks |-> IF d \notin used /\ at[d] = x THEN left[d] + Count(Firsts, left, y) ELSE left[d]]
  OBVIOUS
<1>7. Joined(Places, Ended, used, chain, Firsts, F, end, e1, at, left, a1, l1, x, y)
  BY <1>3, <1>4, <1>5, <1>6 DEF Joined
<1>8. Chained(Places, Ended, used, chain, Firsts, end, at, left)
  BY DEF Layout
<1>9. Chained(Places, Ended, used, chain, F, e1, a1, l1) /\ Summed(Firsts, left, x, y, F, l1)
  BY <1>7, <1>8, JoinChains
<1>10. PICK lab : lab = [pc EXCEPT ![t] = "signal"]
  OBVIOUS
<1>11. F = FirstsOf(mempool, repato, repatq', lab, loc)
  <2>1. /\ F = [v \in Places |-> F[v]] /\ F[x] = Nil /\ F[y] = h
        /\ \A v \in Places : v # x /\ v # y => F[v] = Firsts[v]
    BY <1>3, <1>5
  <2>2. lab[t] = "signal" /\ \A s \in Threads : s # t => lab[s] = pc[s]
    BY <1>10 DEF Control, TypeOK
  <2>3. ASSUME NEW s \in Threads
        PROVE  /\ F[<<"pool", s>>] = mempool[s] /\ F[<<"out", s>>] = repato[s]
               /\ F[<<"sent", s>>] = (IF lab[s] \in {"load", "link", "cas"} THEN loc[s].head ELSE Nil)
               /\ F[<<"in", s>>] = repatq'[s] /\ F[<<"next", s>>] = loc[s].next
               /\ F[<<"walk", s>>] = (IF lab[s] \in {"clear", "walk"} THEN loc[s].head ELSE Nil)
    <3>1. /\ F[<<"pool", s>>] = Firsts[<<"pool", s>>] /\ F[<<"out", s>>] = Firsts[<<"out", s>>]
          /\ F[<<"next", s>>] = Firsts[<<"next", s>>] /\ F[<<"walk", s>>] = Firsts[<<"walk", s>>]
          /\ F[<<"sent", s>>] = (IF s = t THEN Nil ELSE Firsts[<<"sent", s>>])
          /\ F[<<"in", s>>] = (IF s = o THEN h ELSE Firsts[<<"in", s>>])
      BY <1>0, <1>1, <2>1, PlacesAre
    <3>2. /\ Firsts[<<"pool", s>>] = mempool[s] /\ Firsts[<<"out", s>>] = repato[s]
          /\ Firsts[<<"sent", s>>] = (IF Sending(s) THEN loc[s].head ELSE Nil)
          /\ Firsts[<<"in", s>>] = repatq[s] /\ Firsts[<<"next", s>>] = loc[s].next
          /\ Firsts[<<"walk", s>>] = (IF pc[s] \in {"clear", "walk"} THEN loc[s].head ELSE Nil)
      BY FirstsNow
    <3>3. F[<<"in", s>>] = repatq'[s]
      BY <1>2, <3>1, <3>2
    <3>4. CASE s = t
      BY <2>2, <3>1, <3>2, <3>3, <3>4
    <3>5. CASE s # t
      BY <2>2, <3>1, <3>2, <3>3, <3>5 DEF Sending
    <3> QED BY <3>4, <3>5
  <2>4. Shows(F, mempool, repato, repatq', lab, loc)
    BY <2>3 DEF Shows
  <2> QED BY <2>1, <2>4, FirstsFrom
<1>12. \A v \in Places : v # y => e1[v] = end[v]
  BY <1>6
<1>13. \A b \in Blocks \ used : at[b] # x => l1[b] = left[b]
  BY <1>6
<1>14. Swapped(t, end, at, left, F, e1, a1, l1)
  BY <1>0, <1>9, <1>10, <1>11, <1>12, <1>13 DEF Swapped
<1> QED BY <1>14

\* The sender goes on to the signal, or has finished.
LEMMA SwapFinishes ==
    ASSUME Control, NEW end, NEW at, NEW left, Layout(end, at, left), NEW t \in Threads,
           CompareAndSwap(t), Installed(t),
           NEW F, NEW e1, NEW a1, NEW l1, Swapped(t, end, at, left, F, e1, a1, l1)
    PROVE  Finished(t, end, at, left, l1)
<1>1. PICK o, h, b : o = loc[t].to /\ h = loc[t].head /\ b = loc[t].next
  OBVIOUS
<1>2. /\ pc[t] = "cas" /\ repatq' = [repatq EXCEPT ![o] = h] /\ raced' = Disturb(o, t)
      /\ UNCHANGED <<poolVars, chain, needed, erased>>
      /\ IF Crosses(t) THEN pc' = [pc EXCEPT ![t] = "signal"] /\ UNCHANGED <<AN, outVars, loc>> ELSE Sent(t)
  BY <1>1 DEF CompareAndSwap, Goto
<1>3. loc[t] \in Locals /\ o \in Threads /\ h \in Blocks \union {Nil} /\ Steps(t) /\ repato[t] = Nil
  <2>1. loc[t] \in Locals /\ Steps(t)
    BY DEF Control
  <2>2. repato[t] = Nil
    BY <1>2, <2>1 DEF Steps, Sending
  <2> QED BY <1>1, <2>1, <2>2 DEF Locals
<1>4. /\ repatq' \in [Threads -> Blocks \union {Nil}] /\ needed' \in [Threads -> BOOLEAN]
      /\ raced' \in [Threads -> BOOLEAN] /\ erased' \in [Threads -> BOOLEAN]
  <2>1. /\ repatq \in [Threads -> Blocks \union {Nil}] /\ needed \in [Threads -> BOOLEAN]
        /\ raced \in [Threads -> BOOLEAN] /\ erased \in [Threads -> BOOLEAN]
    BY DEF Control, TypeOK
  <2>2. repatq' \in [Threads -> Blocks \union {Nil}]
    BY <1>2, <1>3, <2>1
  <2>3. raced' \in [Threads -> BOOLEAN]
    BY <1>2, <2>1 DEF Disturb
  <2> QED BY <1>2, <2>1, <2>2, <2>3
<1>5. ASSUME NEW s \in Threads PROVE raced'[s] => s # t /\ pc[s] \in {"link", "cas"}
  <2>1. Steps(s) /\ (raced'[s] => s # t /\ (raced[s] \/ pc[s] \in {"link", "cas"}))
    BY <1>2 DEF Control, Disturb
  <2> QED BY <2>1 DEF Steps
<1>6. b # Nil => l1[b] = 0
  <2>1. Firsts[<<"next", t>>] = b /\ <<"next", t>> \in Places /\ <<"next", t>> # <<"sent", t>>
    BY <1>1, FirstsNow, PlacesAre
  <2>2. b # Nil => b \in Blocks \ used /\ at[b] = <<"next", t>>
    BY <2>1, Apart
  <2>3. b # Nil => left[b] = 0
    BY <1>1 DEF Layout, Mine, NextTrue
  <2> QED BY <2>1, <2>2, <2>3 DEF Swapped
<1>7. \A s \in Threads : e1[<<"out", s>>] = end[<<"out", s>>] /\ e1[<<"sent", s>>] = end[<<"sent", s>>]
  BY PlacesAre DEF Swapped
<1>8. \A d \in Blocks \ used : \A p, s : at[d] = <<p, s>> /\ (s # t \/ p = "in") => l1[d] = left[d]
  BY DEF Swapped
<1>9. CASE ~Crosses(t)
  <2>1. Finishes(t, end, at, left, F, e1, a1, l1)
    BY <1>1, <1>2, <1>4, <1>5, <1>6, <1>7, <1>8, <1>9 DEF Finishes, Swapped
  <2> QED BY <2>1, SentFinishes
<1>10. CASE Crosses(t)
  <2>1. pc' = [pc EXCEPT ![t] = "signal"] /\ UNCHANGED <<AN, outVars, loc>>
    BY <1>2, <1>10
  <2>2. pc'[t] = "signal" /\ \A s \in Threads : s # t => pc'[s] = pc[s]
    BY <2>1 DEF Control, TypeOK
  <2>3. F = Firsts' /\ Chained(Places, Ended, used', chain', Firsts', e1, a1, l1)
    <3>1. F = Firsts'
      BY <1>2, <2>1 DEF Swapped, Firsts, poolVars, outVars
    <3> QED BY <1>2, <3>1 DEF Swapped, poolVars
  <2>4. Control'
    <3>1. TypeOK'
      <4>1. pc' \in [Threads -> {"running", "popping", "waiting", "load", "link", "cas",
                                 "signal", "tell", "clear", "walk"}]
        BY <2>1 DEF Control, TypeOK
      <4> QED BY <1>2, <1>4, <2>1, <4>1 DEF Control, TypeOK, poolVars, outVars
    <3>2. ASSUME NEW s \in Threads PROVE Steps(s)'
      <4>1. Steps(s) /\ repato' = repato /\ loc' = loc
        BY <2>1 DEF Control, outVars
      <4>2. CASE s # t
        BY <1>5, <2>2, <4>1, <4>2 DEF Steps, Sending
      <4>3. CASE s = t
        BY <1>2, <1>5, <2>2, <4>1, <4>3 DEF Steps, Sending
      <4> QED BY <4>2, <4>3
    <3> QED BY <1>2, <2>1, <3>1, <3>2 DEF Control
  <2>5. Frame(t, end, at, left, e1, l1)
    BY <1>2, <1>7, <1>8, <2>1, <2>2 DEF Frame, Kept, poolVars, outVars
  <2>6. Mine(t, e1, l1)'
    <3>1. OwnTrue(t)'
      <4>1. OwnTrue(t) /\ mempool' = mempool
        BY <1>2 DEF Layout, Mine, poolVars
      <4> QED BY <2>2, <4>1 DEF OwnTrue
    <3>2. OutTrue(t, e1, l1)' /\ SentTrue(t, e1, l1)' /\ LinkTrue(t)'
      BY <1>3, <2>1, <2>2 DEF OutTrue, SentTrue, LinkTrue, Sending, outVars
    <3>3. NextTrue(t, l1)'
      BY <1>1, <1>6, <2>1 DEF NextTrue
    <3> QED BY <3>1, <3>2, <3>3 DEF Mine
  <2> QED BY <2>3, <2>4, <2>5, <2>6 DEF Finished
<1> QED BY <1>9, <1>10

\* A chain is hung on the queue of its owner.
LEMMA SwapKeeps ==
    ASSUME IndInv, NEW t \in Threads, CompareAndSwap(t), Installed(t)
    PROVE  IndInv'
<1>1. PICK end, at, left : Layout(end, at, left)
  BY DEF IndInv
<1>2. Control
  BY DEF IndInv
<1>3. PICK o, h, b : o = loc[t].to /\ h = loc[t].head /\ b = loc[t].next
  OBVIOUS
<1>4. /\ pc[t] = "cas" /\ repatq' = [repatq EXCEPT ![o] = h] /\ raced' = Disturb(o, t)
      /\ aba' = (aba \/ raced[t]) /\ UNCHANGED <<poolVars, chain, needed, erased>>
      /\ IF Crosses(t) THEN pc' = [pc EXCEPT ![t] = "signal"] /\ UNCHANGED <<AN, outVars, loc>> ELSE Sent(t)
  BY <1>3 DEF CompareAndSwap, Goto
<1>5. PICK x, y : x = <<"sent", t>> /\ y = <<"in", o>>
  OBVIOUS
<1>6. PICK F, e1, a1, l1 : Swapped(t, end, at, left, F, e1, a1, l1)
  BY <1>1, <1>2, <1>3, <1>4, SwapJoins
<1>7. Finished(t, end, at, left, l1)
  BY <1>1, <1>2, <1>6, SwapFinishes
<1>8. PICK e2, a2 : /\ Chained(Places, Ended, used', chain', Firsts', e2, a2, l1)
                    /\ Frame(t, end, at, left, e2, l1)
                    /\ Mine(t, e2, l1)'
  BY <1>7 DEF Finished
<1>9. ASSUME NEW s \in Threads PROVE Mine(s, e2, l1)'
  BY <1>1, <1>2, <1>8, OthersKept
<1>10. /\ o \in Threads /\ h \in Blocks /\ h # Nil /\ Origin[h] = o /\ repatq'[o] = h
       /\ \A s \in Threads : s # o => repatq'[s] = repatq[s]
       /\ loc[t].back \in {"running", "popping", "tell"}
  <2>1. loc[t] \in Locals /\ Steps(t) /\ SentTrue(t, end, left) /\ repatq \in [Threads -> Blocks \union {Nil}]
    BY <1>1, <1>2 DEF Control, Layout, Mine, TypeOK
  <2>2. o \in Threads /\ h \in Blocks /\ h # Nil /\ Origin[h] = o /\ loc[t].back \in {"running", "popping", "tell"}
    BY <1>3, <1>4, <2>1 DEF Locals, Steps, SentTrue, Sending
  <2> QED BY <1>4, <2>1, <2>2
<1>11. /\ pc'[t] \notin {"link", "cas", "clear"}
       /\ Crosses(t) => pc'[t] = "signal" /\ loc'[t].to = o
       /\ \A s \in Threads : s # t => pc'[s] = pc[s] /\ loc'[s] = loc[s]
  <2>1. ~Crosses(t) => pc' = [pc EXCEPT ![t] = loc[t].back]
    BY <1>4 DEF Sent, Goto
  <2>2. ~Crosses(t) => pc'[t] = loc[t].back
    BY <1>2, <2>1 DEF Control, TypeOK
  <2>3. Crosses(t) => pc'[t] = "signal" /\ loc' = loc
    BY <1>2, <1>4 DEF Control, TypeOK
  <2>4. \A s \in Threads : s # t => pc'[s] = pc[s] /\ loc'[s] = loc[s]
    BY <1>8 DEF Frame
  <2> QED BY <1>3, <1>10, <2>2, <2>3, <2>4
<1>12. AN'[h] = AN[h]
  <2>1. h # b
    <3>1. /\ Firsts[<<"next", t>>] = b /\ <<"next", t>> \in Places /\ <<"next", t>> # x
          /\ Firsts[x] = h /\ x \in Places
      BY <1>3, <1>4, <1>5, FirstsNow, PlacesAre DEF Sending
    <3> QED BY <1>1, <1>10, <3>1, Apart
  <2>2. AN' = AN \/ AN' = [AN EXCEPT ![b] = 1]
    BY <1>3, <1>4 DEF Sent
  <2>3. AN \in [Blocks -> Nat]
    BY <1>2 DEF Control
  <2> QED BY <1>10, <2>1, <2>2, <2>3
<1>13. Size(l1, "in", o)' = loc[t].size + Size(left, "in", o)
  <2>1. PICK i \in Nat, j \in Nat : Count(Firsts, left, x) = i /\ Count(Firsts, left, y) = j /\ Count(F, l1, y) = i + j
    BY <1>3, <1>5, <1>6 DEF Swapped, Summed
  <2>2. F[y] = h /\ Firsts'[y] = h
    <3>1. Shows(F, mempool, repato, repatq', [pc EXCEPT ![t] = "signal"], loc)
          /\ Shows(Firsts', mempool', repato', repatq', pc', loc')
      BY <1>6, FirstsShow DEF Swapped, Firsts
    <3> QED BY <1>5, <1>10, <3>1 DEF Shows
  <2>3. Size(l1, "in", o)' = Count(F, l1, y)
    BY <1>5, <2>2 DEF Size, Count
  <2>4. Count(Firsts, left, x) = loc[t].size /\ Count(Firsts, left, y) = Size(left, "in", o)
    BY <1>1, <1>4, <1>5 DEF Layout, Mine, SentTrue, Size, Sending
  <2> QED BY <2>1, <2>3, <2>4
<1>14. ~aba' => AN'[h] = Size(l1, "in", o)' /\ AN[h] = Size(l1, "in", o)'
  <2>1. TotalTrue(t, left)
    BY <1>1 DEF Layout, Queue
  <2> QED BY <1>3, <1>4, <1>12, <1>13, <2>1 DEF TotalTrue
<1>15. ASSUME NEW s \in Threads, s # o
       PROVE  /\ Size(l1, "in", s)' = Size(left, "in", s)
              /\ repatq[s] # Nil => AN'[repatq[s]] = AN[repatq[s]]
  BY <1>1, <1>8, <1>10, <1>15, QueueKept
<1>16. ASSUME NEW s \in Threads PROVE Queue(s, l1)'
  <2>1. Queue(s, left) /\ needed' = needed /\ erased' = erased /\ (aba => aba')
    BY <1>1, <1>4 DEF Layout
  <2>2. raced'[s] = (s # t /\ (raced[s] \/ (pc[s] \in {"link", "cas"} /\ loc[s].to = o)))
    BY <1>4 DEF Disturb
  <2>3. InTrue(s, l1)'
    <3>1. CASE s = o
      BY <1>10, <1>14, <3>1 DEF InTrue
    <3>2. CASE s # o
      BY <1>10, <1>15, <2>1, <3>2 DEF Queue, InTrue
    <3> QED BY <3>1, <3>2
  <2>4. loc[s].to \in Threads
    BY <1>2 DEF Control, Locals
  <2>5. LookTrue(s)'
    BY <1>10, <1>11, <2>1, <2>2, <2>4 DEF Queue, LookTrue
  <2>6. TotalTrue(s, l1)'
    <3>1. PICK w : w = loc[s].to
      OBVIOUS
    <3>2. pc'[s] = "cas" /\ ~raced'[s] => s # t /\ w # o /\ pc[s] = "cas" /\ ~raced[s] /\ loc'[s] = loc[s]
      BY <1>11, <2>2, <3>1
    <3>3. w # o => Size(l1, "in", w)' = Size(left, "in", w)
      BY <1>15, <2>4, <3>1
    <3>4. s # t /\ Sending(s) => AN'[loc[s].head] = AN[loc[s].head]
      BY <1>1, <1>2, <1>8, OthersKept
    <3> QED BY <2>1, <3>1, <3>2, <3>3, <3>4 DEF Queue, TotalTrue, Sending
  <2>7. AskedTrue(s, l1)'
    <3>1. CASE s = o
      <4>1. ~aba' /\ Size(l1, "in", o)' > GCLIM => Crosses(t)
        BY <1>3, <1>14 DEF Crosses
      <4> QED BY <1>11, <3>1, <4>1 DEF AskedTrue
    <3>2. CASE s # o
      <4>1. \A u \in Threads : pc[u] = "signal" => pc'[u] = "signal" /\ loc'[u] = loc[u]
        BY <1>4, <1>11
      <4>2. pc'[s] = "clear" => pc[s] = "clear"
        BY <1>11
      <4> QED BY <1>15, <2>1, <3>2, <4>1, <4>2 DEF Queue, AskedTrue
    <3> QED BY <3>1, <3>2
  <2> QED BY <2>3, <2>5, <2>6, <2>7 DEF Queue
<1>17. Layout(e2, a2, l1)'
  BY <1>8, <1>9, <1>16 DEF Layout
<1> QED BY <1>7, <1>17 DEF IndInv, Finished

-----------------------------------------------------------------------------
\* Every step keeps the invariant.
LEMMA StepKeeps ==
    ASSUME IndInv, [Next]_vars
    PROVE  IndInv'
<1>1. CASE UNCHANGED vars
  <2>1. PICK end, at, left : Layout(end, at, left)
    BY DEF IndInv
  <2>2. /\ used' = used /\ mempool' = mempool /\ chain' = chain /\ AN' = AN /\ repato' = repato /\ tail' = tail
        /\ repatq' = repatq /\ needed' = needed /\ pc' = pc /\ loc' = loc /\ raced' = raced /\ aba' = aba
        /\ erased' = erased
    BY <1>1 DEF vars, poolVars, outVars, inVars
  <2>3. Firsts' = Firsts
    BY <2>2 DEF Firsts
  <2>4. Control'
    <3>1. Control /\ TypeOK'
      BY <2>2 DEF IndInv, Control, TypeOK
    <3>2. ASSUME NEW s \in Threads PROVE Steps(s)'
      BY <2>2, <3>1 DEF Control, Steps, Sending
    <3> QED BY <2>2, <3>1, <3>2 DEF Control
  <2>5. ASSUME NEW s \in Threads PROVE Mine(s, end, left)' /\ Queue(s, left)'
    <3>1. Mine(s, end, left) /\ Queue(s, left)
      BY <2>1 DEF Layout
    <3>2. \A p, o : Size(left, p, o)' = Size(left, p, o)
      BY <2>3 DEF Size
    <3>3. Mine(s, end, left)'
      BY <2>2, <3>1, <3>2 DEF Mine, OutTrue, SentTrue, OwnTrue, NextTrue, LinkTrue, Sending
    <3>4. InTrue(s, left)' /\ LookTrue(s)' /\ AskedTrue(s, left)'
      BY <2>2, <3>1, <3>2 DEF Queue, InTrue, LookTrue, AskedTrue
    <3>5. TotalTrue(s, left)'
      <4>1. PICK w : w = loc[s].to
        OBVIOUS
      <4> QED BY <2>2, <3>1, <3>2, <4>1 DEF Queue, TotalTrue
    <3> QED BY <3>3, <3>4, <3>5 DEF Queue
  <2>6. Chained(Places, Ended, used', chain', Firsts', end, at, left)
    BY <2>1, <2>2, <2>3 DEF Layout
  <2>7. Layout(end, at, left)'
    BY <2>5, <2>6 DEF Layout
  <2> QED BY <2>4, <2>7 DEF IndInv
<1>2. CASE Next
  <2>1. PICK t \in Threads :
          \/ Alloc(t) \/ Free(t) \/ Load(t) \/ Link(t) \/ CompareAndSwap(t)
          \/ Signal(t) \/ EndTask(t) \/ TellOriginator(t) \/ Wait(t)
          \/ StartTask(t) \/ Receive(t) \/ Clear(t) \/ Walk(t)
    BY <1>2 DEF Next
  <2>2. CASE Alloc(t)
    BY <2>2, AllocKeeps
  <2>3. CASE Free(t)
    BY <2>3, FreeKeeps
  <2>4. CASE Load(t)
    BY <2>4, LoadKeeps
  <2>5. CASE Link(t)
    BY <2>5, LinkKeeps
  <2>6. CASE CompareAndSwap(t)
    <3>1. CASE Installed(t)
      BY <2>6, <3>1, SwapKeeps
    <3>2. CASE ~Installed(t)
      BY <2>6, <3>2, SwapFailsKeeps
    <3> QED BY <3>1, <3>2
  <2>7. CASE Signal(t)
    BY <2>7, SignalKeeps
  <2>8. CASE EndTask(t)
    BY <2>8, EndTaskKeeps
  <2>9. CASE TellOriginator(t) \/ Wait(t) \/ StartTask(t)
    BY <2>9, PausesKeep
  <2>10. CASE Receive(t)
    BY <2>10, ReceiveKeeps
  <2>11. CASE Clear(t)
    BY <2>11, ClearKeeps
  <2>12. CASE Walk(t)
    BY <2>12, WalkKeeps
  <2> QED BY <2>1, <2>2, <2>3, <2>4, <2>5, <2>6, <2>7, <2>8, <2>9, <2>10, <2>11, <2>12
<1> QED BY <1>1, <1>2

\* The inductive invariant holds of every state: the free blocks form chains with
\* positions, and what each function of m.c remembers of a chain is true of it.
THEOREM Inductive == Spec => []IndInv
<1>1. Init => IndInv
  BY InitLayout
<1>2. IndInv /\ [Next]_vars => IndInv'
  BY StepKeeps
<1> QED BY <1>1, <1>2, PTL DEF Spec

-----------------------------------------------------------------------------
\* The chains that the model follows are the places of the invariant.
LEMMA ChainsAreHeld ==
    ASSUME Control, NEW end, NEW at, NEW left, Layout(end, at, left), NEW x \in Places
    PROVE  Chain(x[1], x[2]) = Held(used, at, x)
<1>1. PICK t \in Threads : \/ x = <<"pool", t>> \/ x = <<"out", t>> \/ x = <<"sent", t>>
                           \/ x = <<"in", t>> \/ x = <<"next", t>> \/ x = <<"walk", t>>
  BY PlacesAre
<1>2. /\ Chained(Places, Ended, used, chain, Firsts, end, at, left)
      /\ chain \in [Blocks -> Words] /\ Mine(t, end, left)
  BY DEF Control, Layout
<1>3. ASSUME Firsts[x] = Nil PROVE Held(used, at, x) = {}
  BY <1>2, <1>3 DEF Chained, Held
<1>4. ASSUME NEW last, (x \in Ended /\ last = Nil) \/ (Firsts[x] # Nil => last = end[x])
      PROVE  Segment(Firsts[x], last) = Held(used, at, x)
  BY <1>2, <1>4, SegmentIsHeld
<1>5. CASE x = <<"pool", t>>
  <2>1. Firsts[x] = mempool[t] /\ x \in Ended /\ Chain(x[1], x[2]) = Segment(mempool[t], Nil)
    BY <1>5, FirstsNow, PlacesAre DEF Chain
  <2> QED BY <1>4, <2>1
<1>6. CASE x = <<"in", t>>
  <2>1. Firsts[x] = repatq[t] /\ x \in Ended /\ Chain(x[1], x[2]) = Segment(repatq[t], Nil)
    BY <1>6, FirstsNow, PlacesAre DEF Chain
  <2> QED BY <1>4, <2>1
<1>7. CASE x = <<"out", t>>
  <2>1. Firsts[x] = repato[t] /\ Chain(x[1], x[2]) = Segment(repato[t], tail[t])
    BY <1>7, FirstsNow DEF Chain
  <2>2. Firsts[x] # Nil => tail[t] = end[x]
    BY <1>2, <1>7, <2>1 DEF Mine, OutTrue
  <2> QED BY <1>4, <2>1, <2>2
<1>8. CASE x = <<"sent", t>>
  <2>1. CASE Sending(t)
    <3>1. Firsts[x] = loc[t].head /\ Chain(x[1], x[2]) = Segment(loc[t].head, loc[t].last)
      BY <1>8, <2>1, FirstsNow DEF Chain, Sending
    <3>2. loc[t].last = end[x]
      BY <1>2, <1>8, <2>1 DEF Mine, SentTrue
    <3> QED BY <1>4, <3>1, <3>2
  <2>2. CASE ~Sending(t)
    <3>1. Firsts[x] = Nil /\ Chain(x[1], x[2]) = {}
      BY <1>8, <2>2, FirstsNow DEF Chain, Sending
    <3> QED BY <1>3, <3>1
  <2> QED BY <2>1, <2>2
<1>9. CASE x = <<"next", t>>
  <2>1. Firsts[x] = loc[t].next /\ Chain(x[1], x[2]) = {loc[t].next} \ {Nil}
    BY <1>9, FirstsNow DEF Chain
  <2>2. CASE Firsts[x] = Nil
    BY <1>3, <2>1, <2>2
  <2>3. CASE Firsts[x] # Nil
    <3>1. left[Firsts[x]] = 0 /\ Firsts[x] \in Held(used, at, x)
      BY <1>2, <2>1, <2>3 DEF Chained, Held, Mine, NextTrue
    <3>2. ASSUME NEW b \in Held(used, at, x) PROVE b = Firsts[x]
      <4>1. b \in Blocks \ used /\ at[b] = x /\ left[b] \in Nat /\ left[b] <= left[Firsts[x]]
        BY <1>2 DEF Chained, Held
      <4>2. left[b] = left[Firsts[x]]
        BY <3>1, <4>1
      <4> QED BY <1>2, <3>1, <4>1, <4>2 DEF Chained, Held
    <3>3. Held(used, at, x) = {Firsts[x]}
      BY <3>1, <3>2
    <3> QED BY <2>1, <2>3, <3>3
  <2> QED BY <2>2, <2>3
<1>10. CASE x = <<"walk", t>>
  <2>1. CASE pc[t] \in {"clear", "walk"}
    <3>1. Firsts[x] = loc[t].head /\ x \in Ended /\ Chain(x[1], x[2]) = Segment(loc[t].head, Nil)
      BY <1>10, <2>1, FirstsNow, PlacesAre DEF Chain
    <3> QED BY <1>4, <3>1
  <2>2. CASE pc[t] \notin {"clear", "walk"}
    <3>1. Firsts[x] = Nil /\ Chain(x[1], x[2]) = {}
      BY <1>10, <2>2, FirstsNow DEF Chain
    <3> QED BY <1>3, <3>1
  <2> QED BY <2>1, <2>2
<1> QED BY <1>1, <1>5, <1>6, <1>7, <1>8, <1>9, <1>10

\* A queue, and a repato, has as many blocks as its first block counts.
LEMMA ChainsCounted ==
    ASSUME Control, NEW end, NEW at, NEW left, Layout(end, at, left), NEW t \in Threads
    PROVE  /\ Cardinality(Chain("out", t)) = Size(left, "out", t)
           /\ Cardinality(Chain("in", t)) = Size(left, "in", t)
<1>1. ASSUME NEW p, <<p, t>> \in Places PROVE Cardinality(Chain(p, t)) = Size(left, p, t)
  <2>1. PICK x \in Places : x = <<p, t>>
    BY <1>1
  <2>2. Chain(x[1], x[2]) = Held(used, at, x)
    BY ChainsAreHeld
  <2>3. Cardinality(Held(used, at, x)) = Count(Firsts, left, x)
    BY ChainCounted DEF Layout
  <2> QED BY <2>1, <2>2, <2>3 DEF Size
<1> QED BY <1>1, PlacesAre

-----------------------------------------------------------------------------
\* What OnePlace says of the blocks of each place.
Apportioned(In) ==
  /\ TypeOK
  /\ used \union UNION {In[p] : p \in Places} = Blocks
  /\ \A b \in Blocks : Cardinality({p \in Places : b \in In[p]}) = IF b \in used THEN 0 ELSE 1
  /\ \A t \in Threads : \A p \in {"pool", "in", "walk"} :
       \A b \in In[<<p, t>>] : Origin[b] = t

\* OnePlace, with a name for its local definition.
LEMMA OnePlaceIs == OnePlace <=> Apportioned([p \in Places |-> Chain(p[1], p[2])])
BY Zenon DEF OnePlace, Apportioned

\* A block is in use or in exactly one chain, which ends and runs through blocks only,
\* and a thread is given back blocks of its own only, however the senders, the owner and
\* the reuse of blocks interleave, an equal head after all this included.
THEOREM OnePlaceHolds == Spec => []OnePlace
<1>1. ASSUME IndInv PROVE OnePlace
  <2>1. Control
    BY <1>1 DEF IndInv
  <2>2. PICK end, at, left : Layout(end, at, left)
    BY <1>1 DEF IndInv
  <2>3. Chained(Places, Ended, used, chain, Firsts, end, at, left)
    BY <2>2 DEF Layout
  <2>4. TypeOK
    BY <2>1 DEF Control
  <2>5. PICK In : In = [p \in Places |-> Chain(p[1], p[2])]
    OBVIOUS
  <2>6. \A p \in Places : In[p] = Held(used, at, p)
    BY <2>1, <2>2, <2>5, ChainsAreHeld
  <2>7. used \subseteq Blocks /\ \A b \in Blocks : at[b] \in Places
    BY <2>3, <2>4 DEF TypeOK, Chained
  <2>8. used \union UNION {In[p] : p \in Places} = Blocks
    <3>1. \A b \in Blocks \ used : b \in In[at[b]]
      BY <2>6, <2>7 DEF Held
    <3>2. \A p \in Places : In[p] \subseteq Blocks
      BY <2>6 DEF Held
    <3> QED BY <2>7, <3>1, <3>2
  <2>9. ASSUME NEW b \in Blocks
        PROVE  Cardinality({p \in Places : b \in In[p]}) = IF b \in used THEN 0 ELSE 1
    <3>1. CASE b \in used
      <4>1. {p \in Places : b \in In[p]} = {}
        BY <2>6, <3>1 DEF Held
      <4> QED BY <3>1, <4>1, FS_EmptySet
    <3>2. CASE b \notin used
      <4>1. {p \in Places : b \in In[p]} = {at[b]}
        BY <2>6, <2>7, <3>2 DEF Held
      <4> QED BY <3>2, <4>1, FS_Singleton
    <3> QED BY <3>1, <3>2
  <2>10. ASSUME NEW t \in Threads, NEW p \in {"pool", "in", "walk"}, NEW b \in In[<<p, t>>]
         PROVE  Origin[b] = t
    <3>1. PICK x \in Places : x = <<p, t>>
      BY PlacesAre
    <3>2. b \in Blocks \ used /\ at[b] = x
      BY <2>6, <2>10, <3>1 DEF Held
    <3>3. Firsts[x] # Nil /\ Origin[b] = Origin[Firsts[x]]
      BY <2>3, <3>2 DEF Chained
    <3>4. OwnTrue(t) /\ InTrue(t, left)
      BY <2>2 DEF Layout, Mine, Queue
    <3>5. CASE p = "pool"
      BY <3>1, <3>3, <3>4, <3>5, FirstsNow DEF OwnTrue
    <3>6. CASE p = "in"
      BY <3>1, <3>3, <3>4, <3>6, FirstsNow DEF InTrue
    <3>7. CASE p = "walk"
      <4>1. Firsts[x] = IF pc[t] \in {"clear", "walk"} THEN loc[t].head ELSE Nil
        BY <3>1, <3>7, FirstsNow
      <4> QED BY <3>3, <3>4, <4>1 DEF OwnTrue
    <3> QED BY <3>5, <3>6, <3>7
  <2>11. Apportioned(In)
    BY <2>4, <2>8, <2>9, <2>10 DEF Apportioned
  <2> QED BY <2>5, <2>11, OnePlaceIs
<1> QED BY <1>1, Inductive, PTL

\* The size in the first block of a queue is that of its blocks, unless a queue that has
\* changed was found again as it was.
THEOREM SizeExactHolds == Spec => []SizeExact
<1>1. ASSUME IndInv PROVE SizeExact
  <2>1. Control
    BY <1>1 DEF IndInv
  <2>2. PICK end, at, left : Layout(end, at, left)
    BY <1>1 DEF IndInv
  <2>3. ASSUME NEW t \in Threads
        PROVE  /\ repato[t] # Nil => AN[repato[t]] = Cardinality(Chain("out", t))
               /\ repatq[t] # Nil /\ ~aba => AN[repatq[t]] = Cardinality(Chain("in", t))
    <3>1. OutTrue(t, end, left) /\ InTrue(t, left)
      BY <2>2 DEF Layout, Mine, Queue
    <3> QED BY <2>1, <2>2, <3>1, ChainsCounted DEF OutTrue, InTrue
  <2> QED BY <2>3 DEF SizeExact
<1> QED BY <1>1, Inductive, PTL

\* The owner of a queue over the limit has been asked to take it, or is about to be,
\* unless its own last clearing has undone the signal.
THEOREM AskedHolds == Spec => []Asked
<1>1. ASSUME IndInv PROVE Asked
  <2>1. Control
    BY <1>1 DEF IndInv
  <2>2. PICK end, at, left : Layout(end, at, left)
    BY <1>1 DEF IndInv
  <2>3. ASSUME NEW o \in Threads, Cardinality(Chain("in", o)) > GCLIM
        PROVE  \/ aba \/ needed[o] \/ erased[o] \/ pc[o] = "clear"
               \/ \E t \in Threads : pc[t] = "signal" /\ loc[t].to = o
    <3>1. AskedTrue(o, left)
      BY <2>2 DEF Layout, Queue
    <3>2. Cardinality(Chain("in", o)) = Size(left, "in", o)
      BY <2>1, <2>2, ChainsCounted
    <3> QED BY <2>3, <3>1, <3>2 DEF AskedTrue
  <2> QED BY <2>3 DEF Asked
<1> QED BY <1>1, Inductive, PTL
=============================================================================
