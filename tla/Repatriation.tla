---------------------------- MODULE Repatriation ----------------------------
(***************************************************************************)
(* Blocks that are freed by another thread than allocated them: jtmf,      *)
(* jtrepat1, jtrepatsend and jtrepatrecv of jsrc/m.c, with the places in   *)
(* jsrc/ct.c and jsrc/sc.c that call them.                                 *)
(*                                                                         *)
(* A thread collects foreign blocks of one owner in its repato and hangs   *)
(* the whole chain on the owner's repatq, without a lock; the owner takes  *)
(* the queue and frees its blocks.  A chain is linked through the blocks,  *)
(* and its first block holds its size.  A step is one access to memory     *)
(* that another thread uses.                                               *)
(***************************************************************************)
EXTENDS Integers, FiniteSets

CONSTANTS
    Workers,    \* the threads of pools
    Master,     \* the thread of the user
    Blocks,     \* blocks of one pool, of size 1
    Origin,     \* AORIGIN: who allocated each block
    Starter,    \* initthread: who starts the tasks of each worker
    OLIM,       \* REPATOLIM: the size at which repato is sent
    GCLIM,      \* REPATGCLIM: the size at which the owner is asked to act
    Reuses,     \* bound: how many blocks are given out again
    Nil,
    Foreign     \* what the words of a block hold while it is used

Threads == Workers \union {Master}

ASSUME RepatriationAssumption ==
    /\ Master \notin Workers /\ IsFiniteSet(Blocks)
    /\ Origin \in [Blocks -> Threads] /\ Starter \in [Workers -> Threads]
    /\ {Nil, Foreign} \cap Blocks = {} /\ Nil # Foreign
    /\ OLIM \in Nat \ {0, 1} /\ GCLIM \in Nat /\ OLIM <= GCLIM
    /\ Reuses \in Nat

VARIABLES
    used,       \* the blocks in use
    reused,     \* how many blocks were given out again
    mempool,    \* the free blocks of each thread: the first of the chain
    chain,      \* AFCHAIN of each block
    AN,         \* AN of each block
    repato,     \* the first block each thread will send
    tail,       \* AAV0(repato)[0], the last of them
    repatq,     \* the first block that came back to each thread
    needed,     \* sprepatneeded
    pc,
    loc,        \* the locals of the functions
    raced,      \* history: the queue a sender has looked at has changed since
    aba,        \* history: one of these found it again as it was
    erased      \* history: the owner's last clearing has undone a signal

poolVars == <<used, reused, mempool>>
outVars  == <<repato, tail>>
inVars   == <<repatq, needed, raced, aba, erased>>
vars     == <<poolVars, chain, AN, outVars, inVars, pc, loc>>

NoLocals == [head |-> Nil, last |-> Nil, to |-> Master, size |-> 0,
             exp |-> Nil, next |-> Nil, back |-> "running"]

Init ==
    /\ used = Blocks /\ reused = 0
    /\ mempool = [t \in Threads |-> Nil]
    /\ chain = [b \in Blocks |-> Foreign]
    /\ AN = [b \in Blocks |-> 0]
    /\ repato = [t \in Threads |-> Nil] /\ tail = repato /\ repatq = repato
    /\ needed = [t \in Threads |-> FALSE] /\ raced = needed /\ erased = needed
    /\ pc = [t \in Threads |-> "running"]
    /\ loc = [t \in Threads |-> NoLocals]
    /\ aba = FALSE

Goto(t, l) == pc' = [pc EXCEPT ![t] = l]

-----------------------------------------------------------------------------
\* jtgaf: the first block of the pool is given out.
Alloc(t) ==
    /\ pc[t] = "running" /\ mempool[t] # Nil
    /\ reused < Reuses /\ reused' = reused + 1
    /\ LET b == mempool[t] IN
         /\ used' = used \union {b}
         /\ mempool' = [mempool EXCEPT ![t] = chain[b]]
         /\ chain' = [chain EXCEPT ![b] = Foreign]
         /\ AN' = [AN EXCEPT ![b] = 0]
    /\ UNCHANGED <<outVars, inVars, pc, loc>>

Pool(t, b) ==
    /\ chain' = [chain EXCEPT ![b] = mempool[t]]
    /\ mempool' = [mempool EXCEPT ![t] = b]

\* The start of jtrepatsend: the chain is taken out of repato; next is the block
\* that starts a new one afterwards.
Send(t, head, last, size, next, back) ==
    /\ loc' = [loc EXCEPT ![t] = [head |-> head, last |-> last, to |-> Origin[head],
                    size |-> size, exp |-> Nil, next |-> next, back |-> back]]
    /\ repato' = [repato EXCEPT ![t] = Nil] /\ tail' = [tail EXCEPT ![t] = Nil]
    /\ Goto(t, "load")

AfterLast(t, b) == [chain EXCEPT ![tail[t]] = b]

\* jtrepat1: the block goes to the end of repato, or starts a new one.
Repat1(t, b) ==
    LET first == repato[t]
        size == IF first = Nil THEN 1 ELSE AN[first] + 1
    IN  IF first = Nil
        THEN /\ repato' = [repato EXCEPT ![t] = b] /\ tail' = [tail EXCEPT ![t] = b]
             /\ AN' = [AN EXCEPT ![b] = 1]
             /\ UNCHANGED <<chain, pc, loc>>
        ELSE IF Origin[first] # Origin[b]
        THEN Send(t, first, tail[t], AN[first], b, pc[t]) /\ UNCHANGED <<chain, AN>>
        ELSE /\ chain' = AfterLast(t, b)
             /\ AN' = [AN EXCEPT ![first] = size]
             /\ IF size >= OLIM THEN Send(t, first, b, size, Nil, pc[t])
                ELSE /\ tail' = [tail EXCEPT ![t] = b]
                     /\ UNCHANGED <<repato, pc, loc>>

\* jtmf, of any block: the value that held it is shared by all threads.
Free(t) ==
    /\ pc[t] \in {"running", "popping"}
    /\ \E b \in used :
         /\ used' = used \ {b}
         /\ IF Origin[b] = t THEN Pool(t, b) /\ UNCHANGED <<AN, outVars, pc, loc>>
                             ELSE Repat1(t, b) /\ UNCHANGED mempool
    /\ UNCHANGED <<reused, inVars>>

-----------------------------------------------------------------------------
\* jtrepatsend: expval=lda(&jt->repatq).
Load(t) ==
    /\ pc[t] = "load"
    /\ loc' = [loc EXCEPT ![t].exp = repatq[loc[t].to]]
    /\ Goto(t, "link")
    /\ UNCHANGED <<poolVars, chain, AN, outVars, inVars>>

\* A slip: the size of the queue is left out.
Total_Own(t) == loc[t].size

Total(t) == loc[t].size + (IF loc[t].exp = Nil THEN 0 ELSE AN[loc[t].exp])

\* AFCHAIN(tail)=expval and AN(repato)=..., which reads the block expval though
\* its owner may have taken it meanwhile.
Link(t) ==
    /\ pc[t] = "link"
    /\ chain' = [chain EXCEPT ![loc[t].last] = loc[t].exp]
    /\ AN' = [AN EXCEPT ![loc[t].head] = Total(t)]
    /\ Goto(t, "cas")
    /\ UNCHANGED <<poolVars, outVars, inVars, loc>>

\* Every other sender to this queue sees that it has changed.
Disturb(o, t) ==
    [u \in Threads |-> u # t /\ (raced[u] \/ (pc[u] \in {"link", "cas"} /\ loc[u].to = o))]

\* After the sending: the new chain of one block, or the end of the task.
Sent(t) ==
    LET b == loc[t].next IN
    /\ Goto(t, loc[t].back)
    /\ IF b = Nil THEN UNCHANGED <<AN, outVars>>
       ELSE /\ repato' = [repato EXCEPT ![t] = b] /\ tail' = [tail EXCEPT ![t] = b]
            /\ AN' = [AN EXCEPT ![b] = 1]
    /\ loc' = [loc EXCEPT ![t] = NoLocals]

\* A slip: each chain is compared with the limit by itself.
Crosses_Own(t) == loc[t].size > GCLIM

\* The total has gone beyond the limit (a chain of its own never does).
Crosses(t) == AN[loc[t].head] > GCLIM

\* A slip: the chain is installed over whatever is there.
Installed_Anyway(t) == TRUE

Installed(t) == repatq[loc[t].to] = loc[t].exp

\* casa(&jt->repatq, &expval, repato)
CompareAndSwap(t) ==
    /\ pc[t] = "cas"
    /\ LET o == loc[t].to IN
       IF Installed(t)
       THEN /\ repatq' = [repatq EXCEPT ![o] = loc[t].head]
            /\ raced' = Disturb(o, t)
            /\ aba' = (aba \/ raced[t])
            /\ IF Crosses(t)
               THEN /\ Goto(t, "signal")
                    /\ UNCHANGED <<AN, outVars, loc>>
               ELSE Sent(t)
       ELSE /\ loc' = [loc EXCEPT ![t].exp = repatq[o]]
            /\ raced' = [raced EXCEPT ![t] = FALSE]
            /\ Goto(t, "link")
            /\ UNCHANGED <<AN, repatq, aba, outVars>>
    /\ UNCHANGED <<poolVars, chain, needed, erased>>

\* The owner is asked to take its blocks.
Signal(t) ==
    /\ pc[t] = "signal"
    /\ needed' = [needed EXCEPT ![loc[t].to] = TRUE]
    /\ Sent(t)
    /\ UNCHANGED <<poolVars, chain, repatq, raced, aba, erased>>

-----------------------------------------------------------------------------
\* A worker has reported its result and freed the arguments; it sends what it has.
EndTask(t) ==
    /\ t \in Workers /\ pc[t] = "running"
    /\ IF repato[t] = Nil THEN Goto(t, "tell") /\ UNCHANGED <<outVars, loc>>
       ELSE Send(t, repato[t], tail[t], AN[repato[t]], Nil, "tell")
    /\ UNCHANGED <<poolVars, chain, AN, inVars>>

\* It signals the thread that started the task, then goes on to tpop.
TellOriginator(t) ==
    /\ pc[t] = "tell"
    /\ needed' = [needed EXCEPT ![Starter[t]] = TRUE]
    /\ Goto(t, "popping")
    /\ UNCHANGED <<poolVars, chain, AN, outVars, repatq, raced, aba, erased, loc>>

\* There is no job (jtrepatrecv is called before the wait), or there is one.
Wait(t) ==
    /\ pc[t] = "popping" /\ Goto(t, "waiting")
    /\ UNCHANGED <<poolVars, chain, AN, outVars, inVars, loc>>

StartTask(t) ==
    /\ pc[t] = "waiting" /\ Goto(t, "running")
    /\ UNCHANGED <<poolVars, chain, AN, outVars, inVars, loc>>

\* jtrepatrecv: the queue is taken.  A thread that runs does so when it was asked
\* to, a worker without a job at once, the user's thread also after a sentence.  (The
\* queue of a thread without blocks of its own is always empty.)
Receive(t) ==
    /\ \E b \in Blocks : Origin[b] = t
    /\ \/ pc[t] = "running" /\ (needed[t] \/ t = Master)
       \/ pc[t] = "waiting"
    /\ loc' = [loc EXCEPT ![t].head = repatq[t], ![t].back = pc[t]]
    /\ repatq' = [repatq EXCEPT ![t] = Nil]
    /\ raced' = Disturb(t, t)
    /\ Goto(t, "clear")
    /\ UNCHANGED <<poolVars, chain, AN, outVars, needed, aba, erased>>

\* The signal is cleared, and the blocks of the chain are next, if there are any.
Clear(t) ==
    /\ pc[t] = "clear"
    /\ erased' = [erased EXCEPT ![t] = needed[t] /\ repatq[t] # Nil]
    /\ needed' = [needed EXCEPT ![t] = FALSE]
    /\ IF loc[t].head = Nil THEN Goto(t, loc[t].back) /\ loc' = [loc EXCEPT ![t] = NoLocals]
                            ELSE Goto(t, "walk") /\ UNCHANGED loc
    /\ UNCHANGED <<poolVars, chain, AN, outVars, repatq, raced, aba>>

\* One block of the chain is freed.
Walk(t) ==
    /\ pc[t] = "walk"
    /\ LET b == loc[t].head IN
         /\ Pool(t, b)
         /\ IF chain[b] = Nil THEN Goto(t, loc[t].back) /\ loc' = [loc EXCEPT ![t] = NoLocals]
                              ELSE loc' = [loc EXCEPT ![t].head = chain[b]] /\ UNCHANGED pc
    /\ UNCHANGED <<used, reused, AN, outVars, inVars>>

Next ==
    \E t \in Threads :
        \/ Alloc(t) \/ Free(t) \/ Load(t) \/ Link(t) \/ CompareAndSwap(t)
        \/ Signal(t) \/ EndTask(t) \/ TellOriginator(t) \/ Wait(t)
        \/ StartTask(t) \/ Receive(t) \/ Clear(t) \/ Walk(t)

Spec == Init /\ [][Next]_vars
-----------------------------------------------------------------------------
\* The blocks from first to last along AFCHAIN, and Foreign if the chain runs into a
\* block in use, or does not end after as many steps as there are blocks.
Segment(first, last) ==
    LET Words == Blocks \union {Nil, Foreign}
        from[n \in 0 .. Cardinality(Blocks)] ==
            [b \in Words |->
                IF b = Nil THEN {}
                ELSE IF b = Foreign \/ n = 0 THEN {Foreign}
                ELSE {b} \union (IF b = last THEN {} ELSE from[n - 1][chain[b]])]
    IN  from[Cardinality(Blocks)][first]

\* Where a block can be, beside in use: each place is a chain that one thread has.
Chain(p, t) ==
    CASE p = "pool" -> Segment(mempool[t], Nil)
      [] p = "out"  -> Segment(repato[t], tail[t])
      [] p = "sent" -> IF pc[t] \in {"load", "link", "cas"}
                       THEN Segment(loc[t].head, loc[t].last) ELSE {}
      [] p = "in"   -> Segment(repatq[t], Nil)
      [] p = "next" -> {loc[t].next} \ {Nil}
      [] p = "walk" -> IF pc[t] \in {"clear", "walk"} THEN Segment(loc[t].head, Nil) ELSE {}

Places == {"pool", "out", "sent", "in", "next", "walk"} \X Threads

TypeOK ==
    /\ used \subseteq Blocks
    /\ {mempool, repato, tail, repatq} \subseteq [Threads -> Blocks \union {Nil}]
    /\ {needed, raced, erased} \subseteq [Threads -> BOOLEAN]
    /\ pc \in [Threads -> {"running", "popping", "waiting", "load", "link", "cas",
                           "signal", "tell", "clear", "walk"}]

\* A block is in use or in exactly one chain, which ends and runs through blocks
\* only: none is lost, none is freed twice and none that is used again is still
\* queued, however the senders, the owner's emptying of its queue and the reuse of
\* blocks interleave, an equal head after all this included (m.c:1467, 1475).  A
\* chain that comes back, and a pool, has blocks of its own thread only.
OnePlace ==
    LET In == [p \in Places |-> Chain(p[1], p[2])] IN
    /\ TypeOK
    /\ used \union UNION {In[p] : p \in Places} = Blocks
    /\ \A b \in Blocks : Cardinality({p \in Places : b \in In[p]}) = IF b \in used THEN 0 ELSE 1
    /\ \A t \in Threads : \A p \in {"pool", "in", "walk"} :
         \A b \in In[<<p, t>>] : Origin[b] = t

\* The size in the first block of a queue is that of its blocks, which decides
\* whether the owner is asked; "this code fails if ABA happens" (m.c:1466), and only
\* then, though the size goes through wrong values while a sender tries again.
SizeExact ==
    \A t \in Threads :
        /\ repato[t] # Nil => AN[repato[t]] = Cardinality(Chain("out", t))
        /\ repatq[t] # Nil /\ ~aba => AN[repatq[t]] = Cardinality(Chain("in", t))

\* An owner whose queue is over the limit has been asked to take it, or is about to
\* be, unless the clearing of its last round undid the signal (m.c:1476), which the
\* code accepts: "We simply set sprepatneeded ... with no interlock" (m.c:1451).
Asked ==
    \A o \in Threads :
        Cardinality(Chain("in", o)) > GCLIM =>
            \/ aba \/ needed[o] \/ erased[o] \/ pc[o] = "clear"
            \/ \E t \in Threads : pc[t] = "signal" /\ loc[t].to = o
=============================================================================
