---------------------------- MODULE StopTheWorld ----------------------------
(***************************************************************************)
(* What the system lock promises: a function that was asked for runs while *)
(* every other thread that runs J code is stopped, requests of the highest *)
(* priority go first, one run serves everybody who asked at that priority, *)
(* and nobody goes on before what it asked for was done.                   *)
(***************************************************************************)
EXTENDS Integers

CONSTANTS Threads, Priorities

VARIABLES
    status,     \* "out" of J code, "running" it, "stopped", or "alone"
    asked       \* the priorities a thread has asked for, not yet served

svars == <<status, asked>>

\* The highest priority is the lowest bit.
Top(S) == CHOOSE p \in S : \A q \in S : p <= q

Init ==
    /\ status = [t \in Threads |-> "out"]
    /\ asked = [t \in Threads |-> {}]

NobodyAlone == \A t \in Threads : status[t] # "alone"
Pending == UNION {asked[t] : t \in Threads}
To(t, s) == status' = [status EXCEPT ![t] = s]

Enter(t) == status[t] = "out" /\ NobodyAlone /\ To(t, "running") /\ UNCHANGED asked
Leave(t) == status[t] = "running" /\ To(t, "out") /\ UNCHANGED asked
Stop(t)  == status[t] = "running" /\ To(t, "stopped") /\ UNCHANGED asked

Ask(t) ==
    /\ status[t] = "running"
    /\ To(t, "stopped")
    /\ \E p \in Priorities : asked' = [asked EXCEPT ![t] = {p}]

Take(t) ==
    /\ status[t] = "stopped"
    /\ \A u \in Threads \ {t} : status[u] \in {"out", "stopped"}
    /\ asked[t] # {}
    /\ Top(Pending) \in asked[t]
    /\ To(t, "alone")
    /\ UNCHANGED asked

Release(t) ==
    /\ status[t] = "alone"
    /\ To(t, "stopped")
    /\ asked' = [u \in Threads |-> asked[u] \ {Top(Pending)}]

Resume(t) ==
    /\ status[t] = "stopped"
    /\ asked[t] = {}
    /\ NobodyAlone
    /\ To(t, "running")
    /\ UNCHANGED asked

Next == \E t \in Threads :
    Enter(t) \/ Leave(t) \/ Stop(t) \/ Ask(t) \/ Take(t) \/ Release(t) \/ Resume(t)

Spec == Init /\ [][Next]_svars
=============================================================================
