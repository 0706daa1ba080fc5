----------------------------- MODULE WriteOnce -----------------------------
(***************************************************************************)
(* What a pyx promises: a box that is written once, by one of those who    *)
(* may write it, with a value or an error; everybody who reads it gets     *)
(* just that, or gives up before.                                          *)
(***************************************************************************)
CONSTANTS
    Readers,
    Outcomes,       \* what can be written
    Excuses,        \* what a reader that gives up gets
    Nothing         \* not written, not answered

VARIABLES
    content,        \* what has been written
    answer          \* what each reader has got

Init ==
    /\ content = Nothing
    /\ answer = [t \in Readers |-> Nothing]

Write ==
    /\ content = Nothing
    /\ content' \in Outcomes
    /\ UNCHANGED answer

Read(t) ==
    /\ answer[t] = Nothing
    /\ content # Nothing
    /\ answer' = [answer EXCEPT ![t] = content]
    /\ UNCHANGED content

GiveUp(t) ==
    /\ answer[t] = Nothing
    /\ \E x \in Excuses : answer' = [answer EXCEPT ![t] = x]
    /\ UNCHANGED content

Next == Write \/ \E t \in Readers : Read(t) \/ GiveUp(t)

Spec == Init /\ [][Next]_<<content, answer>>
=============================================================================
