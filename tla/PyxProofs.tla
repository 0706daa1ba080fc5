----------------------------- MODULE PyxProofs -----------------------------
(***************************************************************************)
(* The pyx for any number of readers, any threads that fill it, any        *)
(* outcomes and any number of system locks: it is written once and read    *)
(* whole, no reader is left asleep, and a lock's leader touches it only    *)
(* while its reader is still in it.                                        *)
(***************************************************************************)
EXTENDS Pyx, TLAPS

Typed ==
    /\ pyxorigthread \in {NotStarted, Finished, Running}
    /\ errcode \in {0} \union Errors
    /\ pyxvalue \in {"none", Emsg} \union Values
    /\ state \in {"EMPTY", "WAIT", "FULL"}
    /\ fresh \in [Readers -> BOOLEAN]
    /\ rpc \in [Readers -> {"idle", "mark", "sample", "check", "accepting", "break", "wait",
                            "asleep", "clear", "settle", "take", "done"}]
    /\ sees \in [Readers -> {"EMPTY", "WAIT", "FULL"}]
    /\ excuse \in [Readers -> {0} \union Excuses]
    /\ answer \in [Readers -> Outcomes \union {Nothing} \union {Excused(e) : e \in Excuses}]
    /\ lockactive \in [Readers -> BOOLEAN]
    /\ futexwt \in [Readers -> BOOLEAN]
    /\ futexwake \in [Readers -> BOOLEAN]
    /\ spc \in [Setters -> {"start", "idle", "refused", "error", "value", "fill", "wake", "done"}]
    /\ brings \in [Setters -> Outcomes \union {Nothing}]
    /\ target \in Readers

\* The exchange of pyxorigthread lets one setter through, after the task has started.
Won(u) == spc[u] \in {"error", "value", "fill", "wake", "done"}

OneWriter ==
    /\ \A u, v \in Setters : Won(u) /\ Won(v) => u = v
    /\ \A u \in Setters : Won(u) => pyxorigthread = Finished
    /\ \A u \in Setters : spc[u] = "start" => u = Task
    /\ \A u \in Setters : spc[u] = "start" =>
          pyxorigthread # Running /\ \A v \in Setters : ~Won(v)

\* What the one setter has stored so far, and that the state tells when it is complete.
Stored ==
    /\ state = "FULL" <=> \E u \in Setters : spc[u] \in {"wake", "done"}
    /\ (\A u \in Setters : ~Won(u)) => errcode = 0
    /\ \A u \in Setters :
          /\ spc[u] = "error" => errcode = 0 /\ brings[u] \in Outcomes
          /\ spc[u] = "value" => errcode = brings[u].err /\ brings[u] \in Outcomes
          /\ spc[u] \in {"fill", "wake", "done"} =>
                [val |-> pyxvalue, err |-> errcode] \in Outcomes

Inside == {"sample", "check", "accepting", "break", "wait", "asleep"}

\* A reader leaves with an excuse or a full pyx; while it waits the state says so.
Reading == \A t \in Readers :
    /\ answer[t] # Nothing => rpc[t] = "done"
    /\ excuse[t] # 0 => rpc[t] \in {"clear", "settle", "take"}
    /\ rpc[t] \in {"clear", "settle", "take"} /\ excuse[t] = 0 => state = "FULL"
    /\ rpc[t] = "mark" /\ sees[t] # "EMPTY" => state # "EMPTY"
    /\ rpc[t] \in Inside => state # "EMPTY"
    /\ fresh[t] => state # "FULL"
    /\ rpc[t] = "asleep" /\ state = "FULL" => \E u \in Setters : spc[u] = "wake"

\* A sleeper, or one that is about to sleep, has its pointer out, or the leader that
\* took the pointer has not yet changed the word, or not yet woken it.
Findable == \A t \in Readers :
    /\ rpc[t] = "wait" /\ fresh[t] => futexwt[t] \/ (target = t /\ lpc = "bump")
    /\ rpc[t] = "asleep" => futexwt[t] \/ (target = t /\ lpc \in {"bump", "wakea"})

\* The pointer is out only while the reader is inside; the leader holds the reader by
\* FUTEXWAKE from before it loads the pointer until after it has used it.
Held ==
    /\ \A t \in Readers : futexwt[t] => rpc[t] \in Inside \union {"clear"}
    /\ lpc \in {"load", "unarm", "bump", "wakea", "leave"} => futexwake[target]
    /\ lpc \in {"unarm", "bump", "wakea"} => rpc[target] \in Inside \union {"clear", "settle"}

IndInv == Typed /\ OneWriter /\ Stored /\ Reading /\ Findable /\ Held

-----------------------------------------------------------------------------
LEMMA InitHolds == ASSUME Init PROVE IndInv
<1>1. Typed
  BY PyxAssumption DEF Init, Typed, Readers
<1>2. OneWriter
  BY DEF Init, OneWriter, Won, NotStarted, Running
<1>3. Stored
  BY DEF Init, Stored, Won
<1>4. Reading
  BY DEF Init, Reading, Inside
<1>5. Findable /\ Held
  BY DEF Init, Findable, Held, Inside
<1> QED BY <1>1, <1>2, <1>3, <1>4, <1>5 DEF IndInv

\* An outcome is told by its error number, and is never "nothing".
LEMMA OutcomeParts ==
    ASSUME NEW o \in Outcomes
    PROVE  /\ o = [val |-> o.val, err |-> o.err]
           /\ o.val \in {Emsg} \union Values
           /\ o.err \in {0} \union Errors
           /\ o # Nothing
BY PyxAssumption DEF Outcomes, Nothing, Emsg

-----------------------------------------------------------------------------
\* The setters: the types, who has won and what is stored.

LEMMA TypedKept == ASSUME IndInv, Next PROVE Typed'
<1> USE DEF IndInv
<1>1. ASSUME NEW u \in Setters, Sets(u) PROVE Typed'
  <2>1. CASE Start(u)
    BY <2>1 DEF Typed, Start, SGoto, reader, wakeup, locker
  <2>2. CASE StartFails(u)
    BY <2>2 DEF Typed, StartFails, SGoto, block, reader, wakeup, locker
  <2>3. CASE Claim(u)
    <3>1. CASE Refused
      BY <2>3, <3>1 DEF Typed, Claim, SGoto, reader, wakeup, locker
    <3>2. CASE ~Refused
      BY <2>3, <3>2 DEF Typed, Claim, SGoto, reader, wakeup, locker
    <3> QED BY <3>1, <3>2
  <2>4. CASE StoreError(u)
    <3>1. brings[u].err \in {0} \union Errors
      BY <2>4, OutcomeParts DEF StoreError, Stored
    <3> QED BY <2>4, <3>1 DEF Typed, StoreError, SGoto, reader, wakeup, locker
  <2>5. CASE StoreValue(u)
    <3>1. brings[u].val \in {Emsg} \union Values
      BY <2>5, OutcomeParts DEF StoreValue, Stored
    <3> QED BY <2>5, <3>1 DEF Typed, StoreValue, SGoto, reader, wakeup, locker
  <2>6. CASE Fill(u)
    BY <2>6 DEF Typed, Fill, SGoto, wakeup, locker
  <2>7. CASE WakeReaders(u)
    BY <2>7 DEF Typed, WakeReaders, Woken, SGoto, block, wakeup, locker
  <2> QED BY <1>1, <2>1, <2>2, <2>3, <2>4, <2>5, <2>6, <2>7 DEF Sets
<1>2. ASSUME NEW t \in Readers, Enter(t) \/ Reads(t) \/ GiveUp(t) \/ NapOver(t) PROVE Typed'
  <2>1. CASE Enter(t)
    BY <2>1 DEF Typed, Enter, RGoto, block, wakeup, locker, setter
  <2>2. CASE Mark(t)
    BY <2>2 DEF Typed, Mark, RGoto, wakeup, locker, setter
  <2>3. CASE Sample(t)
    BY <2>3 DEF Typed, Sample, RGoto, block, wakeup, locker, setter
  <2>4. CASE Check(t)
    BY <2>4 DEF Typed, Check, RGoto, block, wakeup, locker, setter
  <2>5. CASE GiveUp(t)
    BY <2>5 DEF Typed, GiveUp, RGoto, block, wakeup, locker, setter
  <2>6. CASE Arm(t)
    BY <2>6 DEF Typed, Arm, RGoto, block, locker, setter
  <2>7. CASE Wait(t)
    BY <2>7 DEF Typed, Wait, RGoto, block, wakeup, locker, setter
  <2>8. CASE NapOver(t)
    BY <2>8 DEF Typed, NapOver, RGoto, block, wakeup, locker, setter
  <2>9. CASE Clear(t)
    BY <2>9 DEF Typed, Clear, RGoto, block, locker, setter
  <2>10. CASE Settle(t)
    BY <2>10 DEF Typed, Settle, RGoto, block, wakeup, locker, setter
  <2>11. CASE Take(t)
    <3>1. excuse[t] = 0 => [val |-> pyxvalue, err |-> errcode] \in Outcomes
      BY <2>11 DEF Take, Reading, Stored
    <3>2. excuse[t] # 0 => Excused(excuse[t]) \in {Excused(e) : e \in Excuses}
      BY DEF Typed
    <3> HIDE DEF IndInv
    <3>3. answer' \in [Readers -> Outcomes \union {Nothing} \union {Excused(e) : e \in Excuses}]
      BY <2>11, <3>1, <3>2 DEF Take, Typed, IndInv
    <3> QED BY <2>11, <3>3 DEF IndInv, Typed, Take, RGoto, block, wakeup, locker, setter
  <2> QED BY <1>2, <2>1, <2>2, <2>3, <2>4, <2>5, <2>6, <2>7, <2>8, <2>9, <2>10, <2>11 DEF Reads
<1>3. ASSUME LockBegin \/ Locks PROVE Typed'
  <2>1. CASE LockBegin
    BY <2>1, PyxAssumption DEF Typed, LockBegin, LGoto, Readers, block, reader, setter
  <2>2. CASE Visit
    BY <2>2 DEF Typed, Visit, LGoto, block, reader, setter
  <2>3. CASE LoadWt \/ Round
    BY <2>3 DEF Typed, LoadWt, Round, LGoto, block, reader, wakeup, setter
  <2>4. CASE Unarm
    BY <2>4 DEF Typed, Unarm, LGoto, block, reader, setter
  <2>5. CASE Bump
    BY <2>5 DEF Typed, Bump, LGoto, block, wakeup, setter
  <2>6. CASE WakeAll
    BY <2>6 DEF Typed, WakeAll, Woken, LGoto, block, wakeup, setter
  <2>7. CASE Leave
    <3>1. target' \in Readers
      BY <2>7, PyxAssumption DEF Typed, Leave, Readers
    <3> QED BY <2>7, <3>1 DEF Typed, Leave, LGoto, block, reader, setter
  <2>8. CASE LockOver
    BY <2>8 DEF Typed, LockOver, LGoto, block, setter
  <2> QED BY <1>3, <2>1, <2>2, <2>3, <2>4, <2>5, <2>6, <2>7, <2>8 DEF Locks
<1> QED BY <1>1, <1>2, <1>3 DEF Next

LEMMA OneWriterKept == ASSUME IndInv, Next PROVE OneWriter'
<1>0. Typed /\ OneWriter
  BY DEF IndInv
<1>1. ASSUME NEW u \in Setters, Sets(u) PROVE OneWriter'
  <2> USE DEF OneWriter, Won
  <2>1. CASE Start(u)
    BY <1>0, <2>1 DEF Typed, Start, SGoto, Running
  <2>2. CASE StartFails(u)
    BY <1>0, <2>2 DEF Typed, StartFails, SGoto, block
  <2>3. CASE Claim(u)
    <3>1. pyxorigthread' = Finished /\ Finished # Running
      BY <2>3 DEF Claim, Finished, Running
    <3>2. CASE Refused
      BY <1>0, <2>3, <3>1, <3>2 DEF Typed, Claim, SGoto
    <3>3. CASE ~Refused
      <4>1. pyxorigthread = Running /\ \A v \in Setters : ~Won(v) /\ spc[v] # "start"
        BY <1>0, <3>3 DEF Typed, Refused, NotStarted, Finished, Running
      <4>2. \A v \in Setters \ {u} : spc'[v] = spc[v]
        BY <1>0, <2>3, <3>3 DEF Typed, Claim, SGoto
      <4>3. spc'[u] \in {"error", "value"}
        BY <1>0, <2>3, <3>3 DEF Typed, Claim, SGoto
      <4> QED BY <3>1, <4>1, <4>2, <4>3
    <3> QED BY <3>2, <3>3
  <2>4. CASE StoreError(u)
    BY <1>0, <2>4 DEF Typed, StoreError, SGoto
  <2>5. CASE StoreValue(u)
    BY <1>0, <2>5 DEF Typed, StoreValue, SGoto
  <2>6. CASE Fill(u)
    BY <1>0, <2>6 DEF Typed, Fill, SGoto
  <2>7. CASE WakeReaders(u)
    BY <1>0, <2>7 DEF Typed, WakeReaders, SGoto, block
  <2> QED BY <1>1, <2>1, <2>2, <2>3, <2>4, <2>5, <2>6, <2>7 DEF Sets
<1>2. CASE UNCHANGED <<spc, pyxorigthread>>
  BY <1>0, <1>2 DEF OneWriter, Won
<1>3. ASSUME NEW t \in Readers, Enter(t) \/ Reads(t) \/ GiveUp(t) \/ NapOver(t)
      PROVE  UNCHANGED <<spc, pyxorigthread>>
  BY <1>3 DEF Enter, Reads, Mark, Sample, Check, Arm, Wait, Clear, Settle, Take, GiveUp, NapOver,
              block, setter
<1>4. ASSUME LockBegin \/ Locks PROVE UNCHANGED <<spc, pyxorigthread>>
  BY <1>4 DEF LockBegin, Locks, Visit, LoadWt, Unarm, Bump, WakeAll, Leave, Round, LockOver,
              block, setter
<1> QED BY <1>1, <1>2, <1>3, <1>4 DEF Next

LEMMA StoredKept == ASSUME IndInv, Next PROVE Stored'
<1>0. Typed /\ OneWriter /\ Stored
  BY DEF IndInv
<1>1. ASSUME NEW u \in Setters, Sets(u) PROVE Stored'
  <2> USE DEF Stored
  <2>0. \A v \in Setters \ {u} : spc'[v] = spc[v]
    BY <1>0, <1>1 DEF Typed, Sets, Start, StartFails, Claim, StoreError, StoreValue, Fill, WakeReaders, SGoto
  <2>1. CASE Start(u)
    BY <1>0, <2>1 DEF Typed, Start, SGoto, Won
  <2>2. CASE StartFails(u)
    BY <1>0, <2>2 DEF Typed, StartFails, SGoto, block, Won
  <2>3. CASE Claim(u)
    <3>1. UNCHANGED <<errcode, pyxvalue, state>>
      BY <2>3 DEF Claim
    <3>2. CASE Refused
      <4>1. spc[u] = "idle" /\ spc'[u] = "refused" /\ brings' = brings
        BY <1>0, <2>3, <3>2 DEF Typed, Claim, SGoto
      <4> QED BY <1>0, <2>0, <3>1, <4>1 DEF Won
    <3>3. CASE ~Refused
      <4>1. \A v \in Setters : ~Won(v)
        BY <1>0, <3>3 DEF Typed, OneWriter, Refused, NotStarted, Finished, Running
      <4>2. PICK o \in Outcomes :
              /\ brings' = [brings EXCEPT ![u] = o]
              /\ SGoto(u, IF o.err # 0 THEN "error" ELSE "value")
        BY <2>3, <3>3 DEF Claim
      <4>3. brings'[u] = o /\ errcode = 0 /\ state # "FULL"
        BY <1>0, <4>1, <4>2 DEF Typed, Won
      <4>4. spc'[u] = IF o.err # 0 THEN "error" ELSE "value"
        BY <1>0, <4>2 DEF Typed, SGoto
      <4> QED BY <2>0, <3>1, <4>1, <4>3, <4>4 DEF Won
    <3> QED BY <3>2, <3>3
  <2>4. CASE StoreError(u)
    <3>1. /\ spc[u] = "error" /\ spc'[u] = "value" /\ errcode' = brings[u].err
          /\ UNCHANGED <<pyxvalue, state, brings>>
      BY <1>0, <2>4 DEF Typed, StoreError, SGoto
    <3>2. \A v \in Setters \ {u} : ~Won(v)
      BY <1>0, <3>1 DEF OneWriter, Won
    <3> QED BY <1>0, <2>0, <3>1, <3>2 DEF Won
  <2>5. CASE StoreValue(u)
    <3>1. /\ spc[u] = "value" /\ spc'[u] = "fill" /\ pyxvalue' = brings[u].val
          /\ UNCHANGED <<errcode, state>>
      BY <1>0, <2>5 DEF Typed, StoreValue, SGoto
    <3>2. \A v \in Setters \ {u} : ~Won(v)
      BY <1>0, <3>1 DEF OneWriter, Won
    <3>3. [val |-> pyxvalue', err |-> errcode'] = brings[u] /\ brings[u] \in Outcomes
      BY <1>0, <3>1, OutcomeParts
    <3> QED BY <1>0, <2>0, <3>1, <3>2, <3>3 DEF Won
  <2>6. CASE Fill(u)
    <3>1. /\ spc[u] = "fill" /\ spc'[u] \in {"wake", "done"} /\ state' = "FULL"
          /\ UNCHANGED <<pyxvalue, errcode, brings>>
      BY <1>0, <2>6 DEF Typed, Fill, SGoto
    <3>2. \A v \in Setters \ {u} : ~Won(v)
      BY <1>0, <3>1 DEF OneWriter, Won
    <3> QED BY <1>0, <2>0, <3>1, <3>2 DEF Won
  <2>7. CASE WakeReaders(u)
    <3>1. /\ spc[u] = "wake" /\ spc'[u] = "done"
          /\ UNCHANGED <<pyxvalue, errcode, brings, state>>
      BY <1>0, <2>7 DEF Typed, WakeReaders, SGoto, block
    <3> QED BY <1>0, <2>0, <3>1 DEF Won
  <2> QED BY <1>1, <2>1, <2>2, <2>3, <2>4, <2>5, <2>6, <2>7 DEF Sets
<1>2. CASE UNCHANGED <<spc, brings, errcode, pyxvalue>> /\ (state' = "FULL" <=> state = "FULL")
  BY <1>0, <1>2 DEF Stored, Won
<1>3. ASSUME NEW t \in Readers, Enter(t) \/ Reads(t) \/ GiveUp(t) \/ NapOver(t)
      PROVE  UNCHANGED <<spc, brings, errcode, pyxvalue>> /\ (state' = "FULL" <=> state = "FULL")
  BY <1>3 DEF Enter, Reads, Mark, Sample, Check, Arm, Wait, Clear, Settle, Take, GiveUp, NapOver,
              block, setter
<1>4. ASSUME LockBegin \/ Locks
      PROVE  UNCHANGED <<spc, brings, errcode, pyxvalue, state>>
  BY <1>4 DEF LockBegin, Locks, Visit, LoadWt, Unarm, Bump, WakeAll, Leave, Round, LockOver,
              block, setter
<1> QED BY <1>1, <1>2, <1>3, <1>4 DEF Next

-----------------------------------------------------------------------------
\* The readers.

LEMMA ReadingKept == ASSUME IndInv, Next PROVE Reading'
<1>0. Typed /\ Reading
  BY DEF IndInv
<1>1. ASSUME NEW u \in Setters, Sets(u) PROVE Reading'
  <2>1. CASE Start(u) \/ StartFails(u) \/ Claim(u) \/ StoreError(u) \/ StoreValue(u)
    <3>1. UNCHANGED <<state, fresh, rpc, sees, excuse, answer>>
      BY <2>1 DEF Start, StartFails, Claim, StoreError, StoreValue, block, reader
    <3>2. \A v \in Setters : spc[v] = "wake" => spc'[v] = "wake"
      BY <1>0, <2>1 DEF Typed, Start, StartFails, Claim, StoreError, StoreValue, SGoto
    <3> QED BY <1>0, <3>1, <3>2 DEF Reading
  <2>2. CASE Fill(u)
    <3>1. /\ spc[u] = "fill" /\ state' = "FULL"
          /\ \A t \in Readers : ~fresh'[t]
          /\ UNCHANGED <<rpc, sees, excuse, answer>>
      BY <2>2 DEF Fill
    <3>2. state # "FULL"
      BY <3>1 DEF IndInv, Stored, OneWriter, Won
    <3>3. state = "WAIT" => spc'[u] = "wake"
      BY <1>0, <2>2 DEF Typed, Fill, SGoto
    <3>4. \A t \in Readers : rpc[t] = "asleep" => state = "WAIT"
      BY <1>0, <3>2 DEF Typed, Reading, Inside
    <3> QED BY <1>0, <3>1, <3>3, <3>4 DEF Reading
  <2>3. CASE WakeReaders(u)
    <3>1. /\ UNCHANGED <<state, fresh, sees, excuse, answer>>
          /\ \A t \in Readers : rpc'[t] = IF rpc[t] = "asleep" THEN "sample" ELSE rpc[t]
      BY <2>3 DEF WakeReaders, Woken, block
    <3> QED BY <1>0, <3>1 DEF Reading, Inside
  <2> QED BY <1>1, <2>1, <2>2, <2>3 DEF Sets
<1>2. ASSUME NEW t \in Readers, Enter(t) \/ Reads(t) \/ GiveUp(t) \/ NapOver(t) PROVE Reading'
  <2>0. spc' = spc
    BY <1>2 DEF Enter, Reads, Mark, Sample, Check, Arm, Wait, Clear, Settle, Take, GiveUp, NapOver,
                setter
  <2> USE DEF Reading, Inside
  <2>1. CASE Enter(t)
    BY <1>0, <2>0, <2>1 DEF Typed, Enter, RGoto, block
  <2>2. CASE Mark(t)
    BY <1>0, <2>0, <2>2 DEF Typed, Mark, RGoto
  <2>3. CASE Sample(t)
    BY <1>0, <2>0, <2>3 DEF Typed, Sample, RGoto, block
  <2>4. CASE Check(t)
    BY <1>0, <2>0, <2>4 DEF Typed, Check, RGoto, block
  <2>5. CASE GiveUp(t)
    BY <1>0, <2>0, <2>5, PyxAssumption DEF Typed, GiveUp, RGoto, block
  <2>6. CASE Arm(t)
    BY <1>0, <2>0, <2>6 DEF Typed, Arm, RGoto, block
  <2>7. CASE Wait(t)
    BY <1>0, <2>0, <2>7 DEF Typed, Wait, RGoto, block
  <2>8. CASE NapOver(t)
    BY <1>0, <2>0, <2>8 DEF Typed, NapOver, RGoto, block
  <2>9. CASE Clear(t)
    BY <1>0, <2>0, <2>9 DEF Typed, Clear, RGoto, block
  <2>10. CASE Settle(t)
    BY <1>0, <2>0, <2>10 DEF Typed, Settle, RGoto, block
  <2>11. CASE Take(t)
    BY <1>0, <2>0, <2>11 DEF Typed, Take, RGoto, block
  <2> QED BY <1>2, <2>1, <2>2, <2>3, <2>4, <2>5, <2>6, <2>7, <2>8, <2>9, <2>10, <2>11 DEF Reads
<1>3. ASSUME LockBegin \/ Locks PROVE Reading'
  <2>0. UNCHANGED <<state, spc, sees, excuse, answer>>
    BY <1>3 DEF LockBegin, Locks, Visit, LoadWt, Unarm, Bump, WakeAll, Leave, Round, LockOver,
                block, reader, setter
  <2> USE DEF Reading, Inside
  <2>1. CASE LockBegin \/ Visit \/ LoadWt \/ Unarm \/ Leave \/ Round
    <3>1. UNCHANGED <<fresh, rpc>>
      BY <2>1 DEF LockBegin, Visit, LoadWt, Unarm, Leave, Round, reader
    <3> QED BY <1>0, <2>0, <3>1
  <2>2. CASE Bump
    BY <1>0, <2>0, <2>2 DEF Bump
  <2>3. CASE WakeAll
    BY <1>0, <2>0, <2>3 DEF WakeAll, Woken
  <2>4. CASE LockOver
    BY <1>0, <2>0, <2>4 DEF LockOver
  <2> QED BY <1>3, <2>1, <2>2, <2>3, <2>4 DEF Locks
<1> QED BY <1>1, <1>2, <1>3 DEF Next

-----------------------------------------------------------------------------
\* The leader of a system lock and the pointer.

LEMMA FindableKept == ASSUME IndInv, Next PROVE Findable'
<1>0. Typed /\ Findable /\ Held
  BY DEF IndInv
<1>1. ASSUME NEW u \in Setters, Sets(u) PROVE Findable'
  <2>1. UNCHANGED <<futexwt, target, lpc>>
    BY <1>1 DEF Sets, Start, StartFails, Claim, StoreError, StoreValue, Fill, WakeReaders, wakeup, locker
  <2>2. \A t \in Readers :
           /\ rpc'[t] = "asleep" => rpc[t] = "asleep"
           /\ rpc'[t] = "wait" => rpc[t] = "wait"
           /\ fresh'[t] => fresh[t]
    BY <1>1 DEF Sets, Start, StartFails, Claim, StoreError, StoreValue, Fill, WakeReaders, Woken,
                block, reader
  <2> QED BY <1>0, <2>1, <2>2 DEF Findable
<1>2. ASSUME NEW t \in Readers, Enter(t) \/ Reads(t) \/ GiveUp(t) \/ NapOver(t) PROVE Findable'
  <2>0. UNCHANGED <<target, lpc>>
    BY <1>2 DEF Enter, Reads, Mark, Sample, Check, Arm, Wait, Clear, Settle, Take, GiveUp, NapOver,
                locker
  <2> USE DEF Findable
  <2>1. CASE Enter(t) \/ Mark(t) \/ Sample(t) \/ Check(t) \/ GiveUp(t) \/ NapOver(t) \/ Settle(t) \/ Take(t)
    <3>1. futexwt' = futexwt
      BY <2>1 DEF Enter, Mark, Sample, Check, GiveUp, NapOver, Settle, Take, wakeup
    <3>2. rpc'[t] \notin {"wait", "asleep"} /\ \A u \in Readers \ {t} : rpc'[u] = rpc[u]
      BY <1>0, <2>1 DEF Typed, Enter, Mark, Sample, Check, GiveUp, NapOver, Settle, Take, RGoto
    <3>3. \A u \in Readers \ {t} : fresh'[u] => fresh[u]
      BY <1>0, <2>1 DEF Typed, Enter, Mark, Sample, Check, GiveUp, NapOver, Settle, Take
    <3> QED BY <1>0, <2>0, <3>1, <3>2, <3>3
  <2>2. CASE Arm(t)
    BY <1>0, <2>0, <2>2 DEF Typed, Arm, RGoto
  <2>3. CASE Wait(t)
    BY <1>0, <2>0, <2>3 DEF Typed, Wait, RGoto, wakeup
  <2>4. CASE Clear(t)
    BY <1>0, <2>0, <2>4 DEF Typed, Clear, RGoto
  <2> QED BY <1>2, <2>1, <2>2, <2>3, <2>4 DEF Reads
<1>3. ASSUME LockBegin \/ Locks PROVE Findable'
  <2> USE DEF Findable
  <2>1. CASE LockBegin \/ Visit \/ LoadWt \/ Leave \/ Round
    <3>1. UNCHANGED <<fresh, rpc, futexwt>> /\ lpc \notin {"bump", "wakea"}
      BY <2>1 DEF LockBegin, Visit, LoadWt, Leave, Round, reader, wakeup
    <3> QED BY <1>0, <3>1
  <2>2. CASE Unarm
    BY <1>0, <2>2 DEF Typed, Unarm, LGoto, reader
  <2>3. CASE Bump
    BY <1>0, <2>3 DEF Typed, Bump, LGoto, wakeup
  <2>4. CASE WakeAll
    BY <1>0, <2>4 DEF Typed, WakeAll, Woken, LGoto, wakeup
  <2>5. CASE LockOver
    BY <1>0, <2>5 DEF Typed, LockOver, LGoto, Accepted
  <2> QED BY <1>3, <2>1, <2>2, <2>3, <2>4, <2>5 DEF Locks
<1> QED BY <1>1, <1>2, <1>3 DEF Next

LEMMA HeldKept == ASSUME IndInv, Next PROVE Held'
<1>0. Typed /\ Held
  BY DEF IndInv
<1>1. ASSUME NEW u \in Setters, Sets(u) PROVE Held'
  <2>1. UNCHANGED <<futexwt, futexwake, target, lpc>>
    BY <1>1 DEF Sets, Start, StartFails, Claim, StoreError, StoreValue, Fill, WakeReaders, wakeup, locker
  <2>2. \A t \in Readers : rpc'[t] = rpc[t] \/ (rpc[t] = "asleep" /\ rpc'[t] = "sample")
    BY <1>1 DEF Sets, Start, StartFails, Claim, StoreError, StoreValue, Fill, WakeReaders, Woken,
                block, reader
  <2> QED BY <1>0, <2>1, <2>2 DEF Held, Inside, Typed
<1>2. ASSUME NEW t \in Readers, Enter(t) \/ Reads(t) \/ GiveUp(t) \/ NapOver(t) PROVE Held'
  <2>0. UNCHANGED <<target, lpc, futexwake>>
    BY <1>2 DEF Enter, Reads, Mark, Sample, Check, Arm, Wait, Clear, Settle, Take, GiveUp, NapOver,
                locker, wakeup
  <2> USE DEF Held, Inside
  <2>1. CASE Enter(t) \/ Mark(t) \/ Sample(t) \/ Check(t) \/ GiveUp(t) \/ NapOver(t) \/ Take(t) \/ Wait(t)
    <3>1. futexwt' = futexwt /\ \A u \in Readers \ {t} : rpc'[u] = rpc[u]
      BY <1>0, <2>1 DEF Typed, Enter, Mark, Sample, Check, GiveUp, NapOver, Take, Wait, RGoto, wakeup
    <3>2. \/ rpc[t] \in {"idle", "mark", "take"}
          \/ rpc[t] \in Inside /\ rpc'[t] \in Inside \union {"clear"}
      BY <1>0, <2>1 DEF Typed, Enter, Mark, Sample, Check, GiveUp, NapOver, Take, Wait, RGoto
    <3> QED BY <1>0, <2>0, <3>1, <3>2 DEF Typed
  <2>2. CASE Arm(t)
    BY <1>0, <2>0, <2>2 DEF Typed, Arm, RGoto
  <2>3. CASE Clear(t)
    BY <1>0, <2>0, <2>3 DEF Typed, Clear, RGoto
  <2>4. CASE Settle(t)
    <3>1. /\ rpc[t] = "settle" /\ ~futexwake[t] /\ futexwt' = futexwt
          /\ rpc' = [rpc EXCEPT ![t] = "take"]
      BY <2>4 DEF Settle, RGoto, wakeup
    <3>2. lpc \in {"unarm", "bump", "wakea"} => target # t
      BY <1>0, <3>1
    <3> QED BY <1>0, <2>0, <3>1, <3>2 DEF Typed
  <2> QED BY <1>2, <2>1, <2>2, <2>3, <2>4 DEF Reads
<1>3. ASSUME LockBegin \/ Locks PROVE Held'
  <2> USE DEF Held, Inside
  <2>1. CASE LockBegin \/ Round
    BY <1>0, <2>1 DEF LockBegin, Round, LGoto, reader, wakeup
  <2>2. CASE Visit
    BY <1>0, <2>2 DEF Typed, Visit, LGoto, reader
  <2>3. CASE LoadWt
    BY <1>0, <2>3 DEF Typed, LoadWt, LGoto, reader, wakeup
  <2>4. CASE Unarm
    BY <1>0, <2>4 DEF Typed, Unarm, LGoto, reader
  <2>5. CASE Bump
    BY <1>0, <2>5 DEF Typed, Bump, LGoto, wakeup
  <2>6. CASE WakeAll
    BY <1>0, <2>6 DEF Typed, WakeAll, Woken, LGoto, wakeup
  <2>7. CASE Leave
    BY <1>0, <2>7 DEF Typed, Leave, LGoto, reader
  <2>8. CASE LockOver
    BY <1>0, <2>8 DEF Typed, LockOver, LGoto
  <2> QED BY <1>3, <2>1, <2>2, <2>3, <2>4, <2>5, <2>6, <2>7, <2>8 DEF Locks
<1> QED BY <1>1, <1>2, <1>3 DEF Next

-----------------------------------------------------------------------------
\* The inductive invariant of jtpyxgerval, jtsetpyxval and wakeall (ct.c:99, 213, 257): who
\* writes, what is stored, where readers may be, and who can find the ones that sleep.
THEOREM Inductive == Spec => []IndInv
<1>1. Init => IndInv
  BY InitHolds
<1>2. IndInv /\ [Next]_vars => IndInv'
  <2>1. IndInv /\ Next => IndInv'
    BY TypedKept, OneWriterKept, StoredKept, ReadingKept, FindableKept, HeldKept DEF IndInv
  <2>2. IndInv /\ UNCHANGED vars => IndInv'
    BY DEF vars, block, reader, wakeup, locker, setter, IndInv, Typed, OneWriter, Won, Stored,
           Reading, Inside, Findable, Held
  <2> QED BY <2>1, <2>2
<1> QED BY <1>1, <1>2, PTL DEF Spec

\* No reader is left asleep, neither by the one who fills the pyx nor by the leader of a
\* system lock (ct.c:99-107, 216-238, 273).
THEOREM NobodyOversleeps == Spec => []NoSleeperLeft
<1>1. IndInv => NoSleeperLeft
  <2> SUFFICES ASSUME IndInv PROVE NoSleeperLeft
    OBVIOUS
  <2>1. TypeOK
    BY DEF IndInv, Typed, TypeOK
  <2>2. WokenWhenFull
    BY DEF IndInv, Reading, WokenWhenFull
  <2>3. FoundByLock
    BY DEF IndInv, Findable, FoundByLock
  <2> QED BY <2>1, <2>2, <2>3 DEF NoSleeperLeft
<1> QED BY <1>1, Inductive, PTL

\* wakeall touches a pyx only while the reader by whose pointer it came is inside
\* (ct.c:104-106, mt.h:83).
THEOREM PyxOutlivesWake == Spec => []WakesInside
<1>1. IndInv => WakesInside
  BY DEF IndInv, Held, Inside, WakesInside
<1> QED BY <1>1, Inductive, PTL

-----------------------------------------------------------------------------
\* The pyx implements WriteOnce.

Content == IF state = "FULL" THEN [val |-> pyxvalue, err |-> errcode] ELSE Nothing

\* A full pyx holds an outcome, and nobody who writes is left.
LEMMA FullIsWhole ==
    ASSUME IndInv, state = "FULL"
    PROVE  /\ Content \in Outcomes
           /\ \A u \in Setters : spc[u] \notin {"error", "value", "fill"}
<1>1. PICK u \in Setters : spc[u] \in {"wake", "done"}
  BY DEF IndInv, Stored
<1>2. Content \in Outcomes
  BY <1>1 DEF Content, IndInv, Stored
<1>3. \A v \in Setters : spc[v] \notin {"error", "value", "fill"}
  BY <1>1 DEF IndInv, OneWriter, Won
<1> QED BY <1>2, <1>3

LEMMA StepImplements ==
    ASSUME IndInv, [Next]_vars
    PROVE  [Box!Next]_<<Content, answer>>
<1> USE DEF Box!Next
<1>0. Typed /\ Stored /\ Reading
  BY DEF IndInv
<1>1. ASSUME NEW u \in Setters, Sets(u) PROVE [Box!Next]_<<Content, answer>>
  <2>0. answer' = answer
    BY <1>1 DEF Sets, Start, StartFails, Claim, StoreError, StoreValue, Fill, WakeReaders, block, reader
  <2>1. CASE Fill(u)
    <3>1. state # "FULL"
      BY <2>1, FullIsWhole DEF Fill
    <3>2. Content = Nothing
      BY <3>1 DEF Content
    <3>3. Content' = [val |-> pyxvalue, err |-> errcode]
      BY <2>1 DEF Fill, Content
    <3>4. Content' \in Outcomes
      BY <1>0, <2>1, <3>3 DEF Fill, Stored
    <3> QED BY <2>0, <3>2, <3>4 DEF Box!Write, Content
  <2>2. CASE StoreError(u) \/ StoreValue(u)
    <3>1. state # "FULL" /\ state' = state
      BY <2>2, FullIsWhole DEF StoreError, StoreValue
    <3>2. Content' = Content
      BY <3>1 DEF Content
    <3> QED BY <2>0, <3>2
  <2>3. CASE Start(u) \/ StartFails(u) \/ Claim(u) \/ WakeReaders(u)
    <3>1. UNCHANGED <<state, pyxvalue, errcode>>
      BY <2>3 DEF Start, StartFails, Claim, WakeReaders, block
    <3>2. Content' = Content
      BY <3>1 DEF Content
    <3> QED BY <2>0, <3>2
  <2> QED BY <1>1, <2>1, <2>2, <2>3 DEF Sets
<1>2. ASSUME NEW t \in Readers, Take(t) PROVE [Box!Next]_<<Content, answer>>
  <2>1. /\ rpc[t] = "take" /\ Content' = Content
        /\ answer' = [answer EXCEPT ![t] = IF excuse[t] # 0 THEN Excused(excuse[t])
                                           ELSE [val |-> pyxvalue, err |-> errcode]]
    BY <1>2 DEF Take, block, Content
  <2>2. answer[t] = Nothing
    BY <1>0, <2>1 DEF Reading
  <2>3. CASE excuse[t] # 0
    <3>1. Excused(excuse[t]) \in {Excused(e) : e \in Excuses}
      BY <1>0, <2>3 DEF Typed
    <3>2. answer' = [answer EXCEPT ![t] = Excused(excuse[t])]
      BY <2>1, <2>3
    <3>3. Box!GiveUp(t)
      BY <2>1, <2>2, <3>1, <3>2 DEF Box!GiveUp, Content
    <3> QED BY <3>3
  <2>4. CASE excuse[t] = 0
    <3>1. state = "FULL"
      BY <1>0, <2>1, <2>4 DEF Reading
    <3>2. Content # Nothing
      BY <3>1, FullIsWhole, OutcomeParts
    <3>3. answer' = [answer EXCEPT ![t] = Content]
      BY <2>1, <2>4, <3>1 DEF Content
    <3>4. Box!Read(t)
      BY <2>1, <2>2, <3>2, <3>3 DEF Box!Read, Content
    <3> QED BY <3>4
  <2> QED BY <2>3, <2>4
<1>3. ASSUME NEW t \in Readers,
             Enter(t) \/ Mark(t) \/ Sample(t) \/ Check(t) \/ Arm(t) \/ Wait(t) \/ Clear(t)
               \/ Settle(t) \/ GiveUp(t) \/ NapOver(t)
      PROVE  UNCHANGED <<pyxvalue, errcode, answer>> /\ (state' = "FULL" <=> state = "FULL")
  BY <1>3 DEF Enter, Mark, Sample, Check, Arm, Wait, Clear, Settle, GiveUp, NapOver, block
<1>4. ASSUME LockBegin \/ Locks
      PROVE  UNCHANGED <<pyxvalue, errcode, answer, state>>
  BY <1>4 DEF LockBegin, Locks, Visit, LoadWt, Unarm, Bump, WakeAll, Leave, Round, LockOver,
              block, reader
<1>5. ASSUME UNCHANGED <<pyxvalue, errcode, answer>>, state' = "FULL" <=> state = "FULL"
      PROVE  [Box!Next]_<<Content, answer>>
  <2>1. Content' = Content
    BY <1>5 DEF Content
  <2> QED BY <1>5, <2>1
<1>6. CASE UNCHANGED vars
  BY <1>5, <1>6 DEF vars, block, reader
<1> QED BY <1>1, <1>2, <1>3, <1>4, <1>5, <1>6 DEF Next, Reads

\* A pyx is written once, by one of those who may, and everybody who reads it gets just that
\* or gives up (ct.c:213-275): Spec implements WriteOnce.
THEOREM Refinement == Spec => WritesOnce
<1>1. Init => Box!Init
  BY DEF Init, Box!Init, Nothing
<1>2. IndInv /\ [Next]_vars => [Box!Next]_<<Content, answer>>
  BY StepImplements
<1> QED BY <1>1, <1>2, Inductive, PTL DEF Spec, WritesOnce, Box!Spec, Content
=============================================================================
