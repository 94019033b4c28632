--------------------------- MODULE AppendGateProofs ---------------------------
(* Theorems about AppendGate, for any threads, names and numbers of        *)
(* operations.                                                             *)
EXTENDS AppendGate, FiniteSetTheorems, SequenceTheorems, TLAPS

-----------------------------------------------------------------------------
(* The gate.                                                               *)

Inside(t) == pc[t] \in {"inside", "valid", "applying", "leaving"}

Waiters == {t \in Authority : Queued(t)}

(* One writer at a time, and the count of waiting authority writers is     *)
(* the number of those that are in the queue.                              *)
GateInv ==
  /\ \A t \in Threads : Inside(t) => writerActive
  /\ \A t, u \in Threads : Inside(t) /\ Inside(u) => t = u
  /\ waiting = Cardinality(Waiters)

(* A thread brings a version that was committed, authority threads always  *)
(* one; and the record that is being applied is the last of the log.       *)
OpInv ==
  /\ version = Len(log)
  /\ \A t \in Threads :
       /\ pc[t] # "idle" /\ t \in Authority => op[t].kind = "authority"
       /\ op[t].reads = NoVersion => op[t].name = NoName
       /\ op[t].reads # NoVersion => op[t].reads <= version
       /\ pc[t] = "applying" => version > 0 /\ log[version] = op[t]

TypeInv == TypeOK /\ GateInv /\ OpInv

LEMMA WaitersFinite == IsFiniteSet(Waiters)
<1>1. Waiters \in SUBSET Threads
  BY DEF Waiters, Threads
<1> QED
  BY <1>1, ThreadAssumption, FS_Subset

LEMMA TypeInit == Init => TypeInv
<1> SUFFICES ASSUME Init PROVE TypeInv
  OBVIOUS
<1>1. Waiters = {}
  BY DEF Init, Waiters, Queued, Threads
<1>2. TypeOK
  <2>1. op \in [Threads -> Records]
    BY DEF Init, Nothing, Records, Kinds
  <2>2. log \in Seq(Records) /\ left \in Nat
    BY CallerAssumption DEF Init
  <2> QED
    BY <2>1, <2>2 DEF Init, TypeOK, Steps
<1>3. GateInv
  BY <1>1, FS_EmptySet DEF Init, GateInv, Inside
<1>4. OpInv
  BY NameAssumption DEF Init, OpInv, Nothing
<1> QED
  BY <1>2, <1>3, <1>4 DEF TypeInv

LEMMA GateStep == TypeInv /\ [Next]_vars => GateInv' /\ waiting' \in Nat
<1> SUFFICES ASSUME TypeInv, [Next]_vars PROVE GateInv' /\ waiting' \in Nat
  OBVIOUS
<1> USE DEF TypeInv
<1>1. CASE UNCHANGED <<pc, writerActive, waiting>>
  <2>1. Waiters' = Waiters /\ \A t : Inside(t)' <=> Inside(t)
    BY <1>1 DEF Waiters, Queued, Inside
  <2> QED
    BY <1>1, <2>1 DEF GateInv, TypeOK
<1>2. ASSUME NEW t \in Threads, Enter(t)
      PROVE  GateInv' /\ waiting' \in Nat
  <2>1. pc' = [pc EXCEPT ![t] = "awake"] /\ pc[t] = "entry"
    BY <1>2 DEF Enter, Goto
  <2>2. Waiters' = IF t \in Authority THEN Waiters \cup {t} ELSE Waiters
    BY <2>1, ThreadAssumption DEF Waiters, Queued, TypeOK, Threads
  <2>3. t \notin Waiters
    BY <2>1 DEF Waiters, Queued
  <2>4. waiting' = Cardinality(Waiters')
    BY <1>2, <2>2, <2>3, WaitersFinite, FS_AddElement DEF Enter, GateInv, Lane
  <2>5. waiting' \in Nat
    BY <1>2 DEF Enter, TypeOK
  <2>6. \A u \in Threads : Inside(u)' <=> Inside(u)
    BY <2>1 DEF Inside, TypeOK
  <2> QED
    BY <1>2, <2>4, <2>5, <2>6 DEF GateInv, Enter
<1>3. ASSUME NEW t \in Threads, Pass(t)
      PROVE  GateInv' /\ waiting' \in Nat
  <2>1. pc' = [pc EXCEPT ![t] = "inside"] /\ pc[t] = "awake" /\ ~writerActive /\ writerActive'
    BY <1>3 DEF Pass, Goto, MayPass
  <2>2. Waiters' = Waiters \ {t}
    BY <2>1 DEF Waiters, Queued, TypeOK, Threads
  <2>3. t \in Waiters <=> t \in Authority
    BY <2>1 DEF Waiters, Queued
  <2>4. waiting' = Cardinality(Waiters')
    BY <1>3, <2>2, <2>3, WaitersFinite, FS_RemoveElement DEF Pass, GateInv, Lane
  <2>5. waiting' \in Nat
    <3>1. IsFiniteSet(Waiters')
      BY <2>2, WaitersFinite, FS_RemoveElement
    <3> QED
      BY <3>1, <2>4, FS_CardinalityType
  <2>6. \A u \in Threads : Inside(u)' <=> u = t
    BY <2>1 DEF Inside, TypeOK, GateInv
  <2> QED
    BY <2>1, <2>4, <2>5, <2>6 DEF GateInv
<1>4. ASSUME NEW t \in Threads, Leave(t)
      PROVE  GateInv' /\ waiting' \in Nat
  <2>1. \A u \in Threads : pc'[u] = IF u = t THEN "idle"
                                   ELSE IF pc[u] = "asleep" THEN "awake" ELSE pc[u]
    BY <1>4 DEF Leave
  <2>2. pc[t] = "leaving" /\ waiting' = waiting
    BY <1>4 DEF Leave
  <2>3. Waiters' = Waiters
    BY <2>1, <2>2 DEF Waiters, Queued, Threads
  <2>4. \A u \in Threads : ~Inside(u)'
    BY <2>1, <2>2 DEF Inside, GateInv
  <2> QED
    BY <2>2, <2>3, <2>4 DEF GateInv, TypeOK
<1>5. ASSUME NEW t \in Threads, NEW step \in Steps,
             Goto(t, step), UNCHANGED <<writerActive, waiting>>,
             \/ pc[t] \in {"idle", "guard"} /\ step \in {"idle", "guard", "entry"}
             \/ pc[t] \in {"awake", "asleep"} /\ step \in {"awake", "asleep"}
             \/ Inside(t) /\ step \in {"inside", "valid", "applying", "leaving"}
      PROVE  GateInv' /\ waiting' \in Nat
  <2>1. pc' = [pc EXCEPT ![t] = step]
    BY <1>5 DEF Goto
  <2>2. \A u \in Threads : Inside(u)' <=> Inside(u)
    BY <1>5, <2>1 DEF Inside, TypeOK
  <2>3. Waiters' = Waiters
    BY <1>5, <2>1 DEF Waiters, Queued, TypeOK, Threads, Inside
  <2> QED
    BY <1>5, <2>2, <2>3 DEF GateInv, TypeOK
<1>6. ASSUME NEW t \in Threads, Start(t) \/ CheckGuard(t) PROVE GateInv' /\ waiting' \in Nat
  <2>1. \E step \in {"idle", "guard", "entry"} : Goto(t, step)
    BY <1>6 DEF Start, CheckGuard
  <2>2. pc[t] \in {"idle", "guard"} /\ UNCHANGED <<writerActive, waiting>>
    BY <1>6 DEF Start, CheckGuard
  <2> QED
    BY <1>5, <2>1, <2>2 DEF Steps
<1>7. ASSUME NEW t \in Threads, Sleep(t) PROVE GateInv' /\ waiting' \in Nat
  BY <1>5, <1>7 DEF Sleep, Steps
<1>8. ASSUME NEW t \in Threads, Validate(t) \/ Publish(t) \/ CannotOpen(t) \/ Apply(t)
      PROVE  GateInv' /\ waiting' \in Nat
  <2>1. \E step \in {"inside", "valid", "applying", "leaving"} : Goto(t, step)
    BY <1>8 DEF Validate, Publish, CannotOpen, Apply
  <2>2. Inside(t) /\ UNCHANGED <<writerActive, waiting>>
    BY <1>8 DEF Validate, Publish, CannotOpen, Apply, Inside
  <2> QED
    BY <1>5, <2>1, <2>2 DEF Steps
<1> QED
  BY <1>1, <1>2, <1>3, <1>4, <1>6, <1>7, <1>8 DEF Next, Step, Terminated, vars

LEMMA StartType ==
  ASSUME TypeInv, NEW t \in Threads, Start(t)
  PROVE  /\ op'[t] \in Records
         /\ t \in Authority => op'[t].kind = "authority"
         /\ op'[t].reads = NoVersion => op'[t].name = NoName
         /\ op'[t].reads # NoVersion => op'[t].reads <= version
<1> USE DEF TypeInv
<1>1. PICK v \in 0 .. version : \E r \in Operations(t, v) : op' = [op EXCEPT ![t] = r]
  BY DEF Start
<1>2. v \in Nat /\ v <= version
  BY <1>1 DEF TypeOK
<1>3. op'[t] \in Operations(t, v)
  BY <1>1 DEF TypeOK
<1>4. CASE t \in Authority
  <2>1. op'[t] \in [kind : {"authority"}, name : Names, reads : {v}]
    BY <1>3, <1>4 DEF Operations
  <2>2. op'[t].reads = v /\ op'[t].kind = "authority" /\ v # NoVersion
    BY <1>2, <2>1, NameAssumption
  <2>3. op'[t] \in Records
    BY <1>2, <2>1 DEF Records, Kinds
  <2> QED
    BY <1>2, <2>2, <2>3
<1>5. CASE t \notin Authority
  <2>1. \/ op'[t] = [kind |-> "post", name |-> NoName, reads |-> v]
        \/ op'[t] = [kind |-> "observation", name |-> NoName, reads |-> NoVersion]
    BY <1>3, <1>5 DEF Operations
  <2> QED
    BY <1>2, <1>5, <2>1 DEF Records, Kinds
<1> QED
  BY <1>4, <1>5

(* What is under way keeps its record and its history.                     *)
LEMMA Locals ==
  ASSUME TypeInv, NEW t \in Threads, NEW u \in Threads,
         \/ CheckGuard(t) \/ Enter(t) \/ Pass(t) \/ Sleep(t) \/ Validate(t)
         \/ Publish(t) \/ CannotOpen(t) \/ Apply(t) \/ Leave(t)
  PROVE  \/ op'[u] = op[u] /\ (u \in early' <=> u \in early)
         \/ u = t /\ pc'[u] = "idle" /\ op'[u] = Nothing
<1> USE DEF TypeInv
<1>1. CASE UNCHANGED <<op, early>>
  BY <1>1
<1>2. CASE Forget(t) /\ pc'[t] = "idle"
  BY <1>2 DEF Forget, TypeOK
<1>3. CASE CheckGuard(t)
  BY <1>1, <1>2, <1>3 DEF CheckGuard, Goto, TypeOK
<1>4. CASE Leave(t)
  BY <1>2, <1>4 DEF Leave
<1> QED
  BY <1>1, <1>3, <1>4 DEF Enter, Pass, Sleep, Validate, Publish, CannotOpen, Apply

LEMMA ForgetType ==
  ASSUME TypeInv, NEW t \in Threads, Forget(t)
  PROVE  op' \in [Threads -> Records] /\ early' \subseteq Threads /\ joined' \in [Threads -> Nat]
<1>1. Nothing \in Records
  BY DEF Nothing, Records, Kinds
<1> QED
  BY <1>1 DEF Forget, TypeInv, TypeOK

LEMMA PublishedLog ==
  ASSUME TypeInv, NEW t \in Threads, Publish(t)
  PROVE  /\ log' \in Seq(Records) /\ version' = version + 1 /\ version' = Len(log')
         /\ log'[version'] = op[t]
         /\ \A i \in 1 .. version : log'[i] = log[i]
         /\ DOMAIN log = 1 .. version /\ DOMAIN log' = 1 .. version + 1
<1>1. log' = Append(log, op[t]) /\ version' = version + 1
  BY DEF Publish
<1>2. log \in Seq(Records) /\ op[t] \in Records /\ version = Len(log)
  BY DEF TypeInv, TypeOK, OpInv
<1>3. /\ log' \in Seq(Records) /\ Len(log') = version + 1
      /\ \A i \in 1 .. version : log'[i] = log[i]
      /\ log'[version + 1] = op[t]
  BY <1>1, <1>2, AppendProperties
<1>4. DOMAIN log = 1 .. Len(log) /\ DOMAIN log' = 1 .. Len(log')
  BY <1>2, <1>3
<1> QED
  BY <1>1, <1>2, <1>3, <1>4

LEMMA TypeOKStep == TypeInv /\ [Next]_vars => TypeOK'
<1> SUFFICES ASSUME TypeInv, [Next]_vars PROVE TypeOK'
  OBVIOUS
<1>1. waiting' \in Nat
  BY GateStep
<1>2. ASSUME NEW t \in Threads, Start(t) PROVE TypeOK'
  <2>1. op' \in [Threads -> Records]
    BY <1>2, StartType DEF Start, TypeInv, TypeOK
  <2>2. left' \in Nat /\ early' \subseteq Threads
    BY <1>2 DEF Start, TypeInv, TypeOK
  <2> QED
    BY <1>2, <2>1, <2>2 DEF Start, Goto, Steps, TypeInv, TypeOK
<1>3. ASSUME NEW t \in Threads, Sleep(t) \/ Validate(t) \/ CannotOpen(t)
      PROVE  TypeOK'
  BY <1>3 DEF Sleep, Validate, CannotOpen, Goto, Steps, TypeInv, TypeOK
<1>10. ASSUME NEW t \in Threads, CheckGuard(t) PROVE TypeOK'
  <2>1. op' \in [Threads -> Records] /\ early' \subseteq Threads /\ joined' \in [Threads -> Nat]
    BY <1>10, ForgetType DEF CheckGuard, TypeInv, TypeOK
  <2> QED
    BY <1>10, <2>1 DEF CheckGuard, Goto, Steps, TypeInv, TypeOK
<1>4. ASSUME NEW t \in Threads, Enter(t) PROVE TypeOK'
  BY <1>1, <1>4 DEF Enter, Goto, Steps, TypeInv, TypeOK
<1>5. ASSUME NEW t \in Threads, Pass(t) PROVE TypeOK'
  BY <1>1, <1>5 DEF Pass, Goto, Steps, TypeInv, TypeOK
<1>6. ASSUME NEW t \in Threads, Publish(t) PROVE TypeOK'
  BY <1>6, PublishedLog DEF Publish, Goto, Steps, TypeInv, TypeOK
<1>7. ASSUME NEW t \in Threads, Apply(t) PROVE TypeOK'
  <2>1. op[t].name \in Names \cup {NoName}
    BY DEF TypeInv, TypeOK, Records
  <2> QED
    BY <1>7, <2>1 DEF Apply, Goto, Steps, TypeInv, TypeOK
<1>8. ASSUME NEW t \in Threads, Leave(t) PROVE TypeOK'
  BY <1>8, ForgetType DEF Leave, Steps, TypeInv, TypeOK
<1>9. CASE UNCHANGED vars
  BY <1>9 DEF vars, TypeInv, TypeOK
<1> QED
  BY <1>2, <1>3, <1>4, <1>5, <1>6, <1>7, <1>8, <1>9, <1>10 DEF Next, Step, Terminated

LEMMA OpStep == TypeInv /\ [Next]_vars => OpInv'
<1> SUFFICES ASSUME TypeInv, [Next]_vars PROVE OpInv'
  OBVIOUS
<1> USE DEF TypeInv
<1>1. CASE UNCHANGED vars
  BY <1>1 DEF vars, OpInv
<1>2. ASSUME NEW t \in Threads, Start(t) PROVE OpInv'
  <2>1. \A u \in Threads : u # t => op'[u] = op[u] /\ pc'[u] = pc[u]
    BY <1>2 DEF Start, Goto, TypeOK
  <2>2. pc'[t] = "guard" /\ UNCHANGED <<log, version>>
    BY <1>2 DEF Start, Goto, TypeOK
  <2> QED
    BY <1>2, <2>1, <2>2, StartType DEF OpInv
<1>3. ASSUME UNCHANGED <<log, version>>,
             \A u \in Threads :
               /\ pc'[u] = "applying" => pc[u] = "applying"
               /\ pc'[u] # "idle" => pc[u] # "idle"
               /\ op'[u] = op[u] \/ (pc'[u] = "idle" /\ op'[u] = Nothing)
      PROVE  OpInv'
  BY <1>3 DEF OpInv, Nothing
<1>4. ASSUME NEW t \in Threads,
             CheckGuard(t) \/ Enter(t) \/ Pass(t) \/ Sleep(t) \/ Validate(t) \/ CannotOpen(t)
               \/ Apply(t)
      PROVE  OpInv'
  <2>1. \E step \in Steps \ {"applying"} : Goto(t, step)
    BY <1>4 DEF CheckGuard, Enter, Pass, Sleep, Validate, CannotOpen, Apply, Steps
  <2>2. pc[t] # "idle" /\ UNCHANGED <<log, version>>
    BY <1>4 DEF CheckGuard, Enter, Pass, Sleep, Validate, CannotOpen, Apply
  <2>3. \A u \in Threads : /\ pc'[u] = "applying" => pc[u] = "applying"
                           /\ pc'[u] # "idle" => pc[u] # "idle"
    BY <2>1, <2>2 DEF Goto, TypeOK
  <2> QED
    BY <1>3, <1>4, <2>2, <2>3, Locals
<1>5. ASSUME NEW t \in Threads, Leave(t) PROVE OpInv'
  <2>1. pc[t] # "idle" /\ UNCHANGED <<log, version>>
    BY <1>5 DEF Leave
  <2>2. \A u \in Threads : /\ pc'[u] = "applying" => pc[u] = "applying"
                           /\ pc'[u] # "idle" => pc[u] # "idle"
    BY <1>5, <2>1 DEF Leave, TypeOK
  <2> QED
    BY <1>3, <1>5, <2>1, <2>2, Locals
<1>6. ASSUME NEW t \in Threads, Publish(t) PROVE OpInv'
  <2>1. pc' = [pc EXCEPT ![t] = "applying"] /\ pc[t] = "valid" /\ op' = op
    BY <1>6 DEF Publish, Goto
  <2>2. \A u \in Threads : pc'[u] = "applying" => u = t
    BY <2>1 DEF GateInv, Inside, TypeOK
  <2>3. \A u \in Threads : op[u].reads # NoVersion => op[u].reads \in Nat
    BY DEF TypeOK, Records
  <2>4. version \in Nat
    BY DEF TypeOK
  <2> QED
    BY <1>6, <2>1, <2>2, <2>3, <2>4, PublishedLog DEF OpInv, TypeOK
<1> QED
  BY <1>1, <1>2, <1>4, <1>5, <1>6 DEF Next, Step, Terminated

LEMMA TypeInvariant == Spec => []TypeInv
<1>1. TypeInv /\ [Next]_vars => TypeInv'
  BY GateStep, TypeOKStep, OpStep DEF TypeInv
<1> QED
  BY <1>1, TypeInit, PTL DEF Spec

(* Every variable keeps its type; in particular the count of waiting       *)
(* authority writers of append_event never wraps below zero.               *)
THEOREM TypeCorrect == Spec => []TypeOK
<1>1. TypeInv => TypeOK
  BY DEF TypeInv
<1> QED
  BY <1>1, TypeInvariant, PTL

-----------------------------------------------------------------------------
(* The conditional append.                                                 *)

(* What was validated is admissible until it is in the log: no other       *)
(* thread extends the log in between.                                      *)
FreshInv == \A t \in Threads : pc[t] = "valid" => Fresh(t)

LEMMA FreshStep == TypeInv /\ FreshInv /\ [Next]_vars => FreshInv'
<1> SUFFICES ASSUME TypeInv, FreshInv, [Next]_vars, NEW u \in Threads, pc'[u] = "valid"
             PROVE  Fresh(u)'
  BY DEF FreshInv
<1> USE DEF TypeInv
<1>1. ASSUME UNCHANGED <<version, log>>, op'[u] = op[u] PROVE Fresh(u)' <=> Fresh(u)
  BY <1>1 DEF Fresh, OnlyCommutativeSince, Lane
<1>2. CASE UNCHANGED vars
  BY <1>1, <1>2 DEF vars, FreshInv
<1>3. ASSUME NEW t \in Threads, Start(t) PROVE Fresh(u)'
  <2>1. u # t /\ pc[u] = "valid"
    BY <1>3 DEF Start, Goto, TypeOK
  <2> QED
    BY <1>1, <1>3, <2>1 DEF Start, FreshInv, TypeOK
<1>4. ASSUME NEW t \in Threads, CheckGuard(t) \/ Enter(t) \/ Pass(t) \/ Sleep(t)
                                 \/ CannotOpen(t) \/ Apply(t)
      PROVE  Fresh(u)'
  <2>1. \E step \in Steps \ {"valid"} : Goto(t, step)
    BY <1>4 DEF CheckGuard, Enter, Pass, Sleep, CannotOpen, Apply, Steps
  <2>2. UNCHANGED <<version, log>> /\ op'[u] = op[u]
    BY <1>4, Locals DEF CheckGuard, Enter, Pass, Sleep, CannotOpen, Apply
  <2>3. pc[u] = "valid"
    BY <2>1 DEF Goto, TypeOK
  <2> QED
    BY <1>1, <2>2, <2>3 DEF FreshInv
<1>5. ASSUME NEW t \in Threads, Validate(t) PROVE Fresh(u)'
  <2>1. u = t => Fresh(u)
    BY <1>5 DEF Validate, Goto, TypeOK
  <2>2. u # t => pc[u] = "valid"
    BY <1>5 DEF Validate, Goto, TypeOK
  <2>3. UNCHANGED <<version, log, op>>
    BY <1>5 DEF Validate
  <2> QED
    BY <1>1, <2>1, <2>2, <2>3 DEF FreshInv
<1>6. ASSUME NEW t \in Threads, Publish(t) PROVE FALSE
  <2>1. pc[t] = "valid" /\ pc' = [pc EXCEPT ![t] = "applying"]
    BY <1>6 DEF Publish, Goto
  <2>2. u # t /\ pc[u] = "valid"
    BY <2>1 DEF TypeOK
  <2> QED
    BY <2>1, <2>2 DEF GateInv, Inside
<1>7. ASSUME NEW t \in Threads, Leave(t) PROVE Fresh(u)'
  <2>1. pc[u] = "valid" /\ op'[u] = op[u]
    BY <1>7, Locals DEF Leave, TypeOK
  <2> QED
    BY <1>1, <1>7, <2>1 DEF Leave, FreshInv
<1> QED
  BY <1>2, <1>3, <1>4, <1>5, <1>6, <1>7 DEF Next, Step, Terminated

LEMMA FreshInvariant == Spec => [](TypeInv /\ FreshInv)
<1>1. Init => FreshInv
  BY DEF Init, FreshInv
<1> QED
  BY <1>1, FreshStep, TypeInvariant, PTL DEF Spec

(* What the gate admits is what ConditionalLog admits.                     *)
LEMMA PublishCommits ==
  ASSUME TypeInv, FreshInv, NEW t \in Threads, Publish(t)
  PROVE  Log!Next
<1> USE DEF TypeInv
<1>1. Fresh(t) /\ pc[t] = "valid"
  BY DEF Publish, FreshInv
<1>2. t \in Authority => op[t].kind = "authority"
  BY <1>1 DEF OpInv
<1>3. version = Len(log) /\ version \in Nat
  BY DEF OpInv, TypeOK
<1>4. Log!Admissible(op[t])
  BY <1>1, <1>2, <1>3
     DEF Fresh, OnlyCommutativeSince, Lane, Log!Admissible, Log!Commutes
<1>5. log' = Append(log, op[t]) /\ log'[version + 1] = op[t] /\ version + 1 \in DOMAIN log'
  BY <1>3, PublishedLog DEF Publish
<1> QED
  BY <1>4, <1>5 DEF Log!Next, Log!Commit

(* append_event, with its gate, its validation and its publication as      *)
(* separate steps of concurrent threads, implements one atomic conditional *)
(* append.                                                                 *)
THEOREM GateImplementsLog == Spec => ImplementsLog
<1>1. Init => Log!Init
  BY DEF Init, Log!Init
<1>2. TypeInv /\ FreshInv /\ [Next]_vars => [Log!Next]_log
  <2> SUFFICES ASSUME TypeInv, FreshInv, [Next]_vars, log' # log PROVE Log!Next
    OBVIOUS
  <2>1. \E t \in Threads : Publish(t)
    BY DEF Next, Step, Terminated, vars, Start, CheckGuard, Enter, Pass, Sleep, Validate,
           CannotOpen, Apply, Leave
  <2> QED
    BY <2>1, PublishCommits
<1> QED
  BY <1>1, <1>2, FreshInvariant, PTL DEF Spec, ImplementsLog, Log!Spec

-----------------------------------------------------------------------------
(* Names.                                                                  *)

(* Between its guard and the validation of its record.                     *)
Guarded(t) == pc[t] \in {"entry", "awake", "asleep", "inside", "valid"}

(* The log holds this thread's name in the part its author had seen: then  *)
(* only as the last record that the author had seen, and its version was   *)
(* taken while that was being applied.                                     *)
SeenOnlyEarly(t) ==
  \A i \in 1 .. op[t].reads : log[i].name = op[t].name => t \in early /\ op[t].reads = i

(* Chatter claims nothing; a name in the log is in the maps that guards    *)
(* read, except that of a record which is still being applied; a caller    *)
(* has the version of that record, before its guard, only if it called     *)
(* version() early.                                                        *)
NameInv ==
  /\ \A i \in 1 .. version :
       /\ log[i].reads = NoVersion => log[i].name = NoName
       /\ log[i].name \in claimed \cup {NoName} \/ (i = version /\ Applying)
  /\ \A t \in Threads : op[t].name # NoName =>
       /\ pc[t] = "guard" /\ Applying /\ op[t].reads = version => t \in early
       /\ Guarded(t) => SeenOnlyEarly(t)

LEMMA OpTypes ==
  ASSUME TypeInv, NEW t \in Threads
  PROVE  /\ version \in Nat /\ version = Len(log) /\ DOMAIN log = 1 .. version
         /\ op[t].name # NoName => op[t].reads \in Nat /\ op[t].reads <= version
BY DEF TypeInv, TypeOK, OpInv, Records

(* What another thread does to the log leaves a thread's past alone.       *)
LEMMA SeenKept ==
  ASSUME TypeInv, NEW t \in Threads, op[t].name # NoName, SeenOnlyEarly(t),
         op'[t] = op[t], t \in early' <=> t \in early,
         \A i \in 1 .. version : log'[i] = log[i]
  PROVE  SeenOnlyEarly(t)'
<1>1. op[t].reads \in Nat /\ op[t].reads <= version /\ version \in Nat
  BY OpTypes
<1>2. \A i \in 1 .. op[t].reads : log'[i] = log[i]
  BY <1>1
<1> QED
  BY <1>2 DEF SeenOnlyEarly

LEMMA NameStart ==
  ASSUME TypeInv, NameInv, NEW t \in Threads, Start(t)
  PROVE  NameInv'
<1> USE DEF TypeInv
<1>1. pc[t] = "idle" /\ UNCHANGED <<log, version, claimed>>
  BY DEF Start
<1>2. ASSUME NEW u \in Threads, u # t
      PROVE  op'[u] = op[u] /\ pc'[u] = pc[u] /\ (u \in early' <=> u \in early)
  BY <1>2 DEF Start, Goto, TypeOK
<1>3. pc'[t] = "guard"
  BY DEF Start, Goto, TypeOK
<1>4. Applying' <=> Applying
  BY <1>1, <1>2, <1>3 DEF Applying
<1>5. Applying /\ op'[t].name # NoName /\ op'[t].reads = version => t \in early'
  <2> SUFFICES ASSUME Applying, op'[t].name # NoName, op'[t].reads = version PROVE t \in early'
    OBVIOUS
  <2>1. PICK v \in 0 .. version :
          /\ \E r \in Operations(t, v) : op' = [op EXCEPT ![t] = r]
          /\ early' = IF Applying /\ v = version THEN early \cup {t} ELSE early
    BY DEF Start
  <2>2. op'[t] \in Operations(t, v)
    BY <2>1 DEF TypeOK
  <2>3. CASE t \in Authority
    <3>1. op'[t] \in [kind : {"authority"}, name : Names, reads : {v}]
      BY <2>2, <2>3 DEF Operations
    <3>2. v = version
      BY <3>1
    <3> QED
      BY <2>1, <3>2
  <2>4. CASE t \notin Authority
    BY <2>2, <2>4 DEF Operations
  <2> QED
    BY <2>3, <2>4
<1>6. \A u \in Threads : op'[u].name # NoName =>
        /\ pc'[u] = "guard" /\ Applying' /\ op'[u].reads = version' => u \in early'
        /\ Guarded(u)' => SeenOnlyEarly(u)'
  <2> SUFFICES ASSUME NEW u \in Threads, op'[u].name # NoName
               PROVE  /\ pc'[u] = "guard" /\ Applying' /\ op'[u].reads = version' => u \in early'
                      /\ Guarded(u)' => SeenOnlyEarly(u)'
    OBVIOUS
  <2>1. CASE u = t
    BY <1>1, <1>3, <1>4, <1>5, <2>1 DEF Guarded
  <2>2. CASE u # t
    BY <1>1, <1>2, <1>4, <2>2, SeenKept DEF NameInv, Guarded
  <2> QED
    BY <2>1, <2>2
<1> QED
  BY <1>1, <1>4, <1>6 DEF NameInv

(* A name that a guard did not find is in the log only as that of the      *)
(* record which is being applied.                                          *)
LEMMA NameGuard ==
  ASSUME TypeInv, NameInv, NEW t \in Threads, pc[t] = "guard",
         op[t].name # NoName, op[t].name \notin claimed
  PROVE  SeenOnlyEarly(t)
<1> SUFFICES ASSUME NEW i \in 1 .. op[t].reads, log[i].name = op[t].name
             PROVE  t \in early /\ op[t].reads = i
  BY DEF SeenOnlyEarly
<1>1. i \in 1 .. version /\ op[t].reads \in Nat /\ op[t].reads <= version /\ version \in Nat
  BY OpTypes
<1>2. i = version /\ Applying
  BY <1>1 DEF NameInv
<1>3. op[t].reads = version
  BY <1>1, <1>2
<1> QED
  BY <1>2, <1>3 DEF NameInv

(* The version that is validated covers every other name in the log.       *)
LEMMA NameIsFree ==
  ASSUME TypeInv, NameInv, FreshInv, NEW t \in Threads, pc[t] = "valid",
         op[t].name # NoName, NEW i \in 1 .. version, log[i].name = op[t].name
  PROVE  t \in early /\ op[t].reads = i
<1>1. Fresh(t)
  BY DEF FreshInv
<1>2. op[t].reads \in Nat /\ version \in Nat /\ version = Len(log)
  BY OpTypes
<1>3. CASE i <= op[t].reads
  BY <1>2, <1>3 DEF NameInv, Guarded, SeenOnlyEarly
<1>4. CASE i > op[t].reads
  <2>1. op[t].reads # NoVersion
    BY <1>2, NameAssumption
  <2>2. i \in op[t].reads + 1 .. Len(log)
    BY <1>2, <1>4
  <2>3. log[i].reads = NoVersion
    BY <1>1, <1>2, <1>4, <2>1, <2>2 DEF Fresh, OnlyCommutativeSince
  <2> QED
    BY <2>3 DEF NameInv
<1> QED
  BY <1>2, <1>3, <1>4

LEMMA NamePublish ==
  ASSUME TypeInv, NameInv, NEW t \in Threads, Publish(t)
  PROVE  NameInv'
<1> USE DEF TypeInv
<1>1. pc[t] = "valid" /\ UNCHANGED <<claimed, op, early>>
  BY DEF Publish
<1>2. pc' = [pc EXCEPT ![t] = "applying"]
  BY DEF Publish, Goto
<1>3. Applying'
  BY <1>2 DEF Applying, TypeOK
<1>4. ~Applying
  <2>1. \A u \in Threads : pc[u] # "applying"
    BY <1>1 DEF GateInv, Inside
  <2> QED
    BY <2>1 DEF Applying
<1>5. /\ version' = version + 1 /\ version \in Nat /\ log'[version'] = op[t]
      /\ \A i \in 1 .. version : log'[i] = log[i]
  BY PublishedLog, OpTypes
<1>6. \A i \in 1 .. version' : i \in 1 .. version \/ i = version'
  BY <1>5
<1>7. op[t].reads = NoVersion => op[t].name = NoName
  BY DEF OpInv
<1>8. ASSUME NEW i \in 1 .. version'
      PROVE  /\ log'[i].reads = NoVersion => log'[i].name = NoName
             /\ log'[i].name \in claimed' \cup {NoName} \/ (i = version' /\ Applying')
  BY <1>1, <1>3, <1>4, <1>5, <1>6, <1>7 DEF NameInv
<1>9. ASSUME NEW u \in Threads, op[u].name # NoName
      PROVE  /\ pc'[u] = "guard" => op[u].reads # version'
             /\ Guarded(u)' => SeenOnlyEarly(u)'
  <2>1. op[u].reads \in Nat /\ op[u].reads <= version
    BY <1>9, OpTypes
  <2>2. op[u].reads # version'
    BY <1>5, <2>1
  <2>3. Guarded(u)' => Guarded(u)
    BY <1>2 DEF Guarded, TypeOK
  <2>4. Guarded(u) => SeenOnlyEarly(u)
    BY <1>9 DEF NameInv
  <2>5. SeenOnlyEarly(u) => SeenOnlyEarly(u)'
    BY <1>1, <1>5, <1>9, SeenKept
  <2> QED
    BY <2>2, <2>3, <2>4, <2>5
<1> QED
  BY <1>1, <1>8, <1>9 DEF NameInv

LEMMA NameApply ==
  ASSUME TypeInv, NameInv, NEW t \in Threads, Apply(t)
  PROVE  NameInv'
<1> USE DEF TypeInv
<1>1. pc[t] = "applying" /\ UNCHANGED <<log, version, op, early>>
  BY DEF Apply
<1>2. pc' = [pc EXCEPT ![t] = "leaving"] /\ claimed' = claimed \cup ({op[t].name} \ {NoName})
  BY <1>1 DEF Apply, Goto
<1>3. log[version] = op[t]
  BY <1>1 DEF OpInv
<1>4. ~Applying'
  <2>1. \A u \in Threads : u # t => pc[u] # "applying"
    BY <1>1 DEF GateInv, Inside
  <2> QED
    BY <1>2, <2>1 DEF Applying, TypeOK
<1>5. \A u \in Threads : (Guarded(u)' => Guarded(u)) /\ (SeenOnlyEarly(u)' <=> SeenOnlyEarly(u))
  BY <1>1, <1>2 DEF Guarded, SeenOnlyEarly, TypeOK
<1> QED
  BY <1>1, <1>2, <1>3, <1>4, <1>5 DEF NameInv

LEMMA NameStep == TypeInv /\ NameInv /\ [Next]_vars => NameInv'
<1> SUFFICES ASSUME TypeInv, NameInv, [Next]_vars PROVE NameInv'
  OBVIOUS
<1> USE DEF TypeInv
<1>1. ASSUME UNCHANGED <<log, version, claimed>>,
             \A u \in Threads :
               /\ pc'[u] = "applying" <=> pc[u] = "applying"
               /\ \/ op'[u] = op[u] /\ (u \in early' <=> u \in early)
                  \/ op'[u] = Nothing
               /\ op'[u].name # NoName =>
                    /\ pc'[u] = "guard" => pc[u] = "guard"
                    /\ Guarded(u)' => Guarded(u) \/ SeenOnlyEarly(u)
      PROVE  NameInv'
  <2>1. Applying' <=> Applying
    BY <1>1 DEF Applying
  <2>2. ASSUME NEW u \in Threads, op'[u].name # NoName
        PROVE  /\ pc'[u] = "guard" /\ Applying' /\ op'[u].reads = version' => u \in early'
               /\ Guarded(u)' => SeenOnlyEarly(u)'
    <3>1. op'[u] = op[u] /\ (u \in early' <=> u \in early) /\ op[u].name # NoName
      BY <1>1, <2>2 DEF Nothing
    <3>2. SeenOnlyEarly(u) => SeenOnlyEarly(u)'
      BY <1>1, <3>1, SeenKept
    <3>3. Guarded(u)' => SeenOnlyEarly(u)
      BY <1>1, <2>2, <3>1 DEF NameInv
    <3> QED
      BY <1>1, <2>1, <2>2, <3>1, <3>2, <3>3 DEF NameInv
  <2> QED
    BY <1>1, <2>1, <2>2 DEF NameInv
<1>2. CASE UNCHANGED vars
  BY <1>1, <1>2 DEF vars, Guarded
<1>3. ASSUME NEW t \in Threads, Enter(t) \/ Pass(t) \/ Sleep(t) \/ Validate(t) \/ CannotOpen(t)
      PROVE  NameInv'
  <2>1. pc[t] \in {"entry", "awake", "inside", "valid"} /\ UNCHANGED <<log, version, claimed>>
    BY <1>3 DEF Enter, Pass, Sleep, Validate, CannotOpen
  <2>2. \E step \in {"awake", "asleep", "inside", "valid", "leaving"} : Goto(t, step)
    BY <1>3 DEF Enter, Pass, Sleep, Validate, CannotOpen
  <2>3. \A u \in Threads : /\ pc'[u] = "applying" <=> pc[u] = "applying"
                           /\ pc'[u] = "guard" => pc[u] = "guard"
                           /\ Guarded(u)' => Guarded(u)
    BY <2>1, <2>2 DEF Goto, TypeOK, Guarded
  <2> QED
    BY <1>1, <1>3, <2>1, <2>3, Locals
<1>4. ASSUME NEW t \in Threads, CheckGuard(t) PROVE NameInv'
  <2>1. pc[t] = "guard" /\ UNCHANGED <<log, version, claimed>>
    BY <1>4 DEF CheckGuard
  <2>2. \A u \in Threads : u # t => pc'[u] = pc[u]
    BY <1>4 DEF CheckGuard, Goto, TypeOK
  <2>3. pc'[t] = IF op[t].name \in claimed THEN "idle" ELSE "entry"
    BY <1>4 DEF CheckGuard, Goto, TypeOK
  <2>4. pc'[t] # "idle" => op'[t] = op[t]
    BY <1>4, <2>3 DEF CheckGuard
  <2>5. op'[t].name # NoName /\ Guarded(t)' => SeenOnlyEarly(t)
    BY <2>1, <2>3, <2>4, NameGuard DEF Guarded
  <2> QED
    BY <1>1, <1>4, <2>1, <2>2, <2>3, <2>5, Locals DEF Guarded
<1>5. ASSUME NEW t \in Threads, Leave(t) PROVE NameInv'
  <2>1. UNCHANGED <<log, version, claimed>>
    BY <1>5 DEF Leave
  <2>2. \A u \in Threads : /\ pc'[u] = "applying" <=> pc[u] = "applying"
                           /\ pc'[u] = "guard" => pc[u] = "guard"
                           /\ Guarded(u)' => Guarded(u)
    BY <1>5 DEF Leave, TypeOK, Guarded
  <2> QED
    BY <1>1, <1>5, <2>1, <2>2, Locals
<1> QED
  BY <1>2, <1>3, <1>4, <1>5, NameStart, NamePublish, NameApply DEF Next, Step, Terminated

(* A record claims a mount id, a task or a learning that the log holds     *)
(* only if its caller took the version of the record that holds it from    *)
(* version() in the middle of apply_event: with the version of an answer   *)
(* the guard, checked outside the gate, covers what is validated in it.    *)
THEOREM NamesAreClaimedAgainOnlyEarly == Spec => []ClaimedAgainOnlyEarly
<1>1. Init => NameInv
  BY DEF Init, NameInv, Guarded
<1>2. TypeInv /\ FreshInv /\ NameInv => ClaimedAgainOnlyEarly
  <2> SUFFICES ASSUME TypeInv, FreshInv, NameInv, NEW t \in Threads, NEW i \in DOMAIN log,
                      pc[t] = "valid", op[t].name # NoName, log[i].name = op[t].name
               PROVE  t \in early /\ op[t].reads = i
    BY DEF ClaimedAgainOnlyEarly
  <2>1. i \in 1 .. version
    BY OpTypes
  <2> QED
    BY <2>1, NameIsFree
<1> QED
  BY <1>1, <1>2, NameStep, FreshInvariant, PTL DEF Spec

-----------------------------------------------------------------------------
(* Priority.                                                               *)

Over(t) == {i \in joined[t] + 1 .. Len(log) : log[i].kind # "authority"}

(* An authority writer that waits was overtaken by nobody yet, or by one   *)
(* chatter record, and then no chatter writer is left inside the gate.     *)
OvertakeInv ==
  \A t \in Authority : Queued(t) =>
    /\ joined[t] <= version
    /\ \/ Over(t) = {}
       \/ /\ \E i : Over(t) = {i}
          /\ \A u \in Threads : pc[u] \in {"inside", "valid"} => u \in Authority

LEMMA OvertakeStep == TypeInv /\ OvertakeInv /\ [Next]_vars => OvertakeInv'
<1> SUFFICES ASSUME TypeInv, OvertakeInv, [Next]_vars,
                    NEW t \in Authority, Queued(t)'
             PROVE  /\ joined'[t] <= version'
                    /\ \/ Over(t)' = {}
                       \/ /\ \E i : Over(t)' = {i}
                          /\ \A u \in Threads :
                               pc'[u] \in {"inside", "valid"} => u \in Authority
  BY DEF OvertakeInv
<1> USE DEF TypeInv
<1>a. t \in Threads
  BY DEF Threads
<1>1. ASSUME UNCHANGED <<log, version>>, joined'[t] = joined[t], Queued(t),
             \A u \in Threads : pc'[u] \in {"inside", "valid"} =>
                                  pc[u] \in {"inside", "valid"} \/ u \in Authority
      PROVE  /\ joined'[t] <= version'
             /\ \/ Over(t)' = {}
                \/ /\ \E i : Over(t)' = {i}
                   /\ \A u \in Threads : pc'[u] \in {"inside", "valid"} => u \in Authority
  <2>1. Over(t)' = Over(t)
    BY <1>1 DEF Over
  <2> QED
    BY <1>1, <2>1 DEF OvertakeInv
<1>2. CASE UNCHANGED vars
  BY <1>1, <1>2 DEF vars, Queued
<1>3. ASSUME NEW u \in Threads, Enter(u)
      PROVE  /\ joined'[t] <= version'
             /\ \/ Over(t)' = {}
                \/ /\ \E i : Over(t)' = {i}
                   /\ \A w \in Threads : pc'[w] \in {"inside", "valid"} => w \in Authority
  <2>1. pc' = [pc EXCEPT ![u] = "awake"] /\ joined' = [joined EXCEPT ![u] = version]
        /\ UNCHANGED <<log, version>>
    BY <1>3 DEF Enter, Goto
  <2>2. CASE t = u
    <3>1. joined'[t] = version /\ version \in Nat /\ version' = Len(log')
      BY <1>a, <2>1, <2>2 DEF TypeOK, OpInv
    <3>2. Over(t)' = {}
      BY <2>1, <3>1 DEF Over
    <3> QED
      BY <2>1, <3>1, <3>2
  <2>3. CASE t # u
    <3>1. joined'[t] = joined[t] /\ Queued(t)
      BY <1>a, <2>1, <2>3 DEF Queued, TypeOK
    <3>2. \A w \in Threads : pc'[w] \in {"inside", "valid"} => pc[w] \in {"inside", "valid"}
      BY <2>1 DEF TypeOK
    <3> QED
      BY <1>1, <2>1, <3>1, <3>2
  <2> QED
    BY <2>2, <2>3
<1>4. ASSUME NEW u \in Threads, Pass(u)
      PROVE  /\ joined'[t] <= version'
             /\ \/ Over(t)' = {}
                \/ /\ \E i : Over(t)' = {i}
                   /\ \A w \in Threads : pc'[w] \in {"inside", "valid"} => w \in Authority
  <2>1. pc' = [pc EXCEPT ![u] = "inside"] /\ UNCHANGED <<log, version, joined>> /\ MayPass(u)
    BY <1>4 DEF Pass, Goto
  <2>2. Queued(t)
    BY <1>a, <2>1 DEF Queued, TypeOK
  <2>3. waiting # 0
    <3>1. t \in Waiters
      BY <2>2 DEF Waiters
    <3> QED
      BY <3>1, WaitersFinite, FS_EmptySet DEF GateInv
  <2>4. u \in Authority
    BY <2>1, <2>3 DEF MayPass, Lane
  <2> QED
    BY <1>1, <2>1, <2>2, <2>4 DEF TypeOK
<1>5. ASSUME NEW u \in Threads, Publish(u)
      PROVE  /\ joined'[t] <= version'
             /\ \/ Over(t)' = {}
                \/ /\ \E i : Over(t)' = {i}
                   /\ \A w \in Threads : pc'[w] \in {"inside", "valid"} => w \in Authority
  <2>1. pc' = [pc EXCEPT ![u] = "applying"] /\ pc[u] = "valid" /\ joined' = joined
    BY <1>5 DEF Publish, Goto
  <2>2. Queued(t)
    BY <1>a, <2>1 DEF Queued, TypeOK
  <2>3. joined[t] \in Nat /\ joined[t] <= version /\ version \in Nat /\ version = Len(log)
    BY <1>a, <2>2 DEF OvertakeInv, TypeOK, OpInv
  <2>4. /\ version' = version + 1 /\ version' = Len(log') /\ log'[version'] = op[u]
        /\ \A i \in 1 .. version : log'[i] = log[i]
    BY <1>5, PublishedLog
  <2>5. joined[t] + 1 .. Len(log') = (joined[t] + 1 .. Len(log)) \cup {version'}
    BY <2>3, <2>4
  <2>6. \A i \in joined[t] + 1 .. Len(log) : log'[i] = log[i] /\ i # version'
    BY <2>3, <2>4
  <2>7. CASE u \in Authority
    <3>1. op[u].kind = "authority"
      BY <2>1, <2>7 DEF OpInv
    <3>2. Over(t)' = Over(t)
      BY <2>1, <2>4, <2>5, <2>6, <3>1 DEF Over
    <3>3. \A w \in Threads : pc'[w] \in {"inside", "valid"} => pc[w] \in {"inside", "valid"}
      BY <2>1 DEF TypeOK
    <3>4. joined'[t] <= version'
      BY <2>1, <2>3, <2>4
    <3>5. CASE Over(t) = {}
      BY <3>2, <3>4, <3>5
    <3>6. CASE Over(t) # {}
      <4>1. \A w \in Threads : pc'[w] \in {"inside", "valid"} => w \in Authority
        BY <2>2, <3>3, <3>6 DEF OvertakeInv
      <4>2. PICK i : Over(t) = {i}
        BY <2>2, <3>6 DEF OvertakeInv
      <4> QED
        BY <3>2, <3>4, <4>1, <4>2
    <3> QED
      BY <3>5, <3>6
  <2>8. CASE u \notin Authority
    <3>1. Over(t) = {}
      BY <2>1, <2>2, <2>8 DEF OvertakeInv
    <3>2. Over(t)' = {} \/ Over(t)' = {version'}
      BY <2>1, <2>4, <2>5, <2>6, <3>1 DEF Over
    <3>3. \A w \in Threads : pc'[w] \notin {"inside", "valid"}
      BY <2>1 DEF TypeOK, GateInv, Inside
    <3>4. joined'[t] <= version'
      BY <2>1, <2>3, <2>4
    <3>5. CASE Over(t)' = {}
      BY <3>4, <3>5
    <3>6. CASE Over(t)' = {version'}
      BY <3>3, <3>4, <3>6
    <3> QED
      BY <3>2, <3>5, <3>6
  <2> QED
    BY <2>7, <2>8
<1>6. ASSUME NEW u \in Threads,
             Start(u) \/ CheckGuard(u) \/ Sleep(u) \/ Validate(u) \/ CannotOpen(u) \/ Apply(u)
      PROVE  /\ joined'[t] <= version'
             /\ \/ Over(t)' = {}
                \/ /\ \E i : Over(t)' = {i}
                   /\ \A w \in Threads : pc'[w] \in {"inside", "valid"} => w \in Authority
  <2>1. UNCHANGED <<log, version>>
    BY <1>6 DEF Start, CheckGuard, Sleep, Validate, CannotOpen, Apply
  <2>2. \/ \E step \in {"guard", "idle", "entry", "leaving"} : Goto(u, step)
        \/ Goto(u, "asleep") /\ pc[u] = "awake"
        \/ Goto(u, "valid") /\ pc[u] = "inside"
    BY <1>6 DEF Start, CheckGuard, Sleep, Validate, CannotOpen, Apply
  <2>3. Queued(t)
    BY <1>a, <2>2 DEF Queued, Goto, TypeOK
  <2>4. \A w \in Threads : pc'[w] \in {"inside", "valid"} => pc[w] \in {"inside", "valid"}
    BY <2>2 DEF Goto, TypeOK
  <2>5. joined'[t] = joined[t]
    <3>1. CASE joined' = joined
      BY <3>1
    <3>2. CASE CheckGuard(u) /\ Forget(u)
      <4>1. t # u
        BY <2>3, <3>2 DEF CheckGuard, Queued
      <4> QED
        BY <1>a, <3>2, <4>1 DEF Forget, TypeOK
    <3> QED
      BY <1>6, <3>1, <3>2 DEF Start, CheckGuard, Sleep, Validate, CannotOpen, Apply
  <2> QED
    BY <1>1, <2>1, <2>3, <2>4, <2>5
<1>7. ASSUME NEW u \in Threads, Leave(u)
      PROVE  /\ joined'[t] <= version'
             /\ \/ Over(t)' = {}
                \/ /\ \E i : Over(t)' = {i}
                   /\ \A w \in Threads : pc'[w] \in {"inside", "valid"} => w \in Authority
  <2>1. Queued(t) /\ UNCHANGED <<log, version>> /\ joined'[t] = joined[t]
    BY <1>a, <1>7 DEF Leave, Queued, Forget, TypeOK
  <2>2. \A w \in Threads : pc'[w] \in {"inside", "valid"} => pc[w] \in {"inside", "valid"}
    BY <1>7 DEF Leave
  <2> QED
    BY <1>1, <2>1, <2>2
<1> QED
  BY <1>2, <1>3, <1>4, <1>5, <1>6, <1>7 DEF Next, Step, Terminated

(* The gate lets at most one chatter record go before an authority writer  *)
(* that is in its queue, whatever the number of chatter threads.           *)
THEOREM ChatterGivesWay == Spec => []ChatterOvertakesOnce
<1>1. Init => OvertakeInv
  BY DEF Init, OvertakeInv, Queued, Threads
<1>2. TypeInv /\ OvertakeInv => ChatterOvertakesOnce
  <2> SUFFICES ASSUME OvertakeInv, NEW t \in Authority, Queued(t)
               PROVE  Cardinality(Over(t)) <= 1
    BY DEF ChatterOvertakesOnce, Over
  <2>1. CASE Over(t) = {}
    BY <2>1, FS_EmptySet
  <2>2. CASE \E i : Over(t) = {i}
    <3>1. PICK i : Over(t) = {i}
      BY <2>2
    <3>2. Cardinality({i}) = 1
      BY FS_Singleton
    <3> QED
      BY <3>1, <3>2
  <2> QED
    BY <2>1, <2>2 DEF OvertakeInv
<1> QED
  BY <1>1, <1>2, OvertakeStep, TypeInvariant, PTL DEF Spec
=============================================================================
