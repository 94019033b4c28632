------------------------------ MODULE AppendGate ------------------------------
(***************************************************************************)
(* append_event under concurrent callers (src/src/core.cpp).  A caller     *)
(* reads the state version and checks its operation's guard without a      *)
(* lock, then passes a gate that admits one writer at a time and lets      *)
(* authority writers overtake Workroom chatter, revalidates the version it *)
(* read, writes the record, publishes the new version and, after that,     *)
(* applies the record to the maps that guards read.                        *)
(***************************************************************************)
EXTENDS Integers, FiniteSets, Sequences

CONSTANTS
  Authority,      \* threads that append in the authority lane
  Chatter,        \* threads that append in the chatter lane
  Names,          \* what authority operations claim: mount ids, tasks, learnings
  NoVersion,      \* an empty read_set
  NoName,         \* what chatter claims
  MaxOps          \* bound: operations that all threads start

Threads == Authority \cup Chatter

Kinds == {"authority", "post", "observation"}

Records == [kind : Kinds, name : Names \cup {NoName}, reads : Nat \cup {NoVersion}]

ASSUME ThreadAssumption == IsFiniteSet(Threads) /\ Authority \cap Chatter = {}
ASSUME NameAssumption == NoName \notin Names /\ NoVersion \notin Nat
ASSUME CallerAssumption == MaxOps \in Nat

VARIABLES
  log,           \* events_
  version,       \* state_version_ and sequence_
  claimed,       \* the keys of the maps that apply_event fills
  writerActive,  \* writer_active_
  waiting,       \* waiting_authority_writers_
  pc,            \* where each thread is
  op,            \* the record each thread wants to append
  early,         \* callers whose version() was that of a record still being applied (history)
  joined,        \* version at which a thread entered the queue (history)
  left           \* operations that may still be started

vars == <<log, version, claimed, writerActive, waiting, pc, op, early, joined, left>>

Steps == {"idle", "guard", "entry", "awake", "asleep", "inside", "valid", "applying", "leaving"}

Lane(t) == IF t \in Authority THEN "authority" ELSE "chatter"

Nothing == [kind |-> "observation", name |-> NoName, reads |-> NoVersion]

Goto(t, step) == pc' = [pc EXCEPT ![t] = step]

Init ==
  /\ log = <<>> /\ version = 0 /\ claimed = {}
  /\ writerActive = FALSE /\ waiting = 0
  /\ pc = [t \in Threads |-> "idle"]
  /\ op = [t \in Threads |-> Nothing]
  /\ early = {} /\ joined = [t \in Threads |-> 0]
  /\ left = MaxOps

Applying == \E t \in Threads : pc[t] = "applying"

Operations(t, v) ==
  IF t \in Authority
  THEN [kind : {"authority"}, name : Names, reads : {v}]
  ELSE {[kind |-> "post", name |-> NoName, reads |-> v],
        [kind |-> "observation", name |-> NoName, reads |-> NoVersion]}

(* A caller brings the version of an answer it was given, however old, or  *)
(* calls version(), an atomic load that nothing keeps from falling between *)
(* the publication of a record and its application.                        *)
Start(t) ==
  /\ pc[t] = "idle" /\ left > 0
  /\ \E v \in 0 .. version :
       /\ \E r \in Operations(t, v) : op' = [op EXCEPT ![t] = r]
       /\ early' = IF Applying /\ v = version THEN early \cup {t} ELSE early
  /\ left' = left - 1
  /\ Goto(t, "guard")
  /\ UNCHANGED <<log, version, claimed, writerActive, waiting, joined>>

(* The locals of an operation that returned are gone.                      *)
Forget(t) ==
  /\ op' = [op EXCEPT ![t] = Nothing]
  /\ early' = early \ {t}
  /\ joined' = [joined EXCEPT ![t] = 0]

(* The guard of the operation, evaluated on maps that another thread may   *)
(* be changing: the unsynchronised read sees them before or after Apply.   *)
(* CONFLICT is thrown, or append_event is called.                          *)
CheckGuard(t) ==
  /\ pc[t] = "guard"
  /\ IF op[t].name \in claimed THEN Goto(t, "idle") /\ Forget(t)
     ELSE Goto(t, "entry") /\ UNCHANGED <<op, early, joined>>
  /\ UNCHANGED <<log, version, claimed, writerActive, waiting, left>>

Enter(t) ==
  /\ pc[t] = "entry"
  /\ waiting' = IF Lane(t) = "authority" THEN waiting + 1 ELSE waiting
  /\ joined' = [joined EXCEPT ![t] = version]
  /\ Goto(t, "awake")
  /\ UNCHANGED <<log, version, claimed, writerActive, op, early, left>>

(* Mutants: two writers are let in; chatter does not give way.             *)
MayPass_NoExclusion(t) == Lane(t) = "chatter" => waiting = 0
MayPass_NoPriority(t) == ~writerActive

(* The predicate of writer_gate_cv_.wait.                                  *)
MayPass(t) == ~writerActive /\ (Lane(t) = "chatter" => waiting = 0)

(* Mutant: chatter, too, leaves a queue that only authority entered.       *)
Pass_AlwaysDecrements(t) ==
  /\ pc[t] = "awake"
  /\ MayPass(t)
  /\ waiting' = waiting - 1
  /\ writerActive' = TRUE
  /\ Goto(t, "inside")
  /\ UNCHANGED <<log, version, claimed, op, early, joined, left>>

Pass(t) ==
  /\ pc[t] = "awake"
  /\ MayPass(t)
  /\ waiting' = IF Lane(t) = "authority" THEN waiting - 1 ELSE waiting
  /\ writerActive' = TRUE
  /\ Goto(t, "inside")
  /\ UNCHANGED <<log, version, claimed, op, early, joined, left>>

Sleep(t) ==
  /\ pc[t] = "awake"
  /\ ~MayPass(t)
  /\ Goto(t, "asleep")
  /\ UNCHANGED <<log, version, claimed, writerActive, waiting, op, early, joined, left>>

OnlyCommutativeSince(v) == \A i \in v + 1 .. Len(log) : log[i].reads = NoVersion

(* Mutant: an authority record is rebased over whatever came between.      *)
Fresh_RebasesOverAll(t) ==
  \/ op[t].reads = NoVersion
  \/ op[t].reads = version
  \/ Lane(t) = "authority" /\ op[t].reads < version

(* The loop over the read_set: an outdated version is rebased over records *)
(* that commute, in the authority lane only.                               *)
Fresh(t) ==
  \/ op[t].reads = NoVersion
  \/ op[t].reads = version
  \/ Lane(t) = "authority" /\ op[t].reads < version /\ OnlyCommutativeSince(op[t].reads)

(* STALE_PRECONDITION is thrown, or the record is built.                   *)
Validate(t) ==
  /\ pc[t] = "inside"
  /\ Goto(t, IF Fresh(t) THEN "valid" ELSE "leaving")
  /\ UNCHANGED <<log, version, claimed, writerActive, waiting, op, early, joined, left>>

(* The line is written and fsynced; apply_event first stores the version   *)
(* and pushes the event.                                                   *)
Publish(t) ==
  /\ pc[t] = "valid"
  /\ log' = Append(log, op[t])
  /\ version' = version + 1
  /\ Goto(t, "applying")
  /\ UNCHANGED <<claimed, writerActive, waiting, op, early, joined, left>>

(* The journal could not be opened: nothing was written.                   *)
CannotOpen(t) ==
  /\ pc[t] = "valid"
  /\ Goto(t, "leaving")
  /\ UNCHANGED <<log, version, claimed, writerActive, waiting, op, early, joined, left>>

Apply(t) ==
  /\ pc[t] = "applying"
  /\ claimed' = claimed \cup ({op[t].name} \ {NoName})
  /\ Goto(t, "leaving")
  /\ UNCHANGED <<log, version, writerActive, waiting, op, early, joined, left>>

(* Mutant: a release wakes nobody.                                         *)
Leave_Silently(t) ==
  /\ pc[t] = "leaving"
  /\ writerActive' = FALSE
  /\ Goto(t, "idle")
  /\ UNCHANGED <<log, version, claimed, waiting, op, early, joined, left>>

(* release_writer wakes every thread that sleeps at the gate.              *)
Leave(t) ==
  /\ pc[t] = "leaving"
  /\ writerActive' = FALSE
  /\ pc' = [u \in Threads |-> IF u = t THEN "idle"
                              ELSE IF pc[u] = "asleep" THEN "awake" ELSE pc[u]]
  /\ Forget(t)
  /\ UNCHANGED <<log, version, claimed, waiting, left>>

Done == left = 0 /\ \A t \in Threads : pc[t] = "idle"

Terminated == Done /\ UNCHANGED vars

Step(t) ==
  \/ Start(t) \/ CheckGuard(t) \/ Enter(t) \/ Pass(t) \/ Sleep(t)
  \/ Validate(t) \/ Publish(t) \/ CannotOpen(t) \/ Apply(t) \/ Leave(t)

Next == (\E t \in Threads : Step(t)) \/ Terminated

Spec == Init /\ [][Next]_vars

(* A thread in the middle of an operation is scheduled again and again.    *)
FairSpec == Spec /\ \A t \in Threads : WF_vars(Step(t) /\ pc[t] # "idle")

-----------------------------------------------------------------------------
(* Properties.                                                             *)

(* The type of every variable.                                             *)
TypeOK ==
  /\ log \in Seq(Records) /\ version \in Nat /\ claimed \subseteq Names
  /\ writerActive \in BOOLEAN /\ waiting \in Nat
  /\ pc \in [Threads -> Steps]
  /\ op \in [Threads -> Records] /\ early \subseteq Threads
  /\ joined \in [Threads -> Nat] /\ left \in Nat

Log == INSTANCE ConditionalLog WITH None <- NoVersion

(* The gate, the validation and the publication, interleaved in any way,   *)
(* are one atomic conditional append: no version is validated against a    *)
(* log that another writer extends before the record is added.             *)
ImplementsLog == Log!Spec

(* A record is about to claim a name that the log holds only if its caller *)
(* called version() between the publication and the application of the     *)
(* record that holds it.  So nobody claims a name a third time, and with   *)
(* the version of an answer nobody claims it a second time, though guards  *)
(* are checked outside the gate.                                           *)
ClaimedAgainOnlyEarly ==
  \A t \in Threads, i \in DOMAIN log :
    pc[t] = "valid" /\ op[t].name # NoName /\ log[i].name = op[t].name =>
      t \in early /\ op[t].reads = i

Queued(t) == pc[t] \in {"awake", "asleep"}

(* An authority writer in the queue is overtaken by one chatter record at  *)
(* most, the one whose writer was already past the gate.                   *)
ChatterOvertakesOnce ==
  \A t \in Authority : Queued(t) =>
    Cardinality({i \in joined[t] + 1 .. Len(log) : log[i].kind # "authority"}) <= 1

(* Every append returns, in both lanes: no wakeup at the gate is lost and  *)
(* no count of waiting authority writers keeps chatter out for good.       *)
EveryAppendReturns == \A t \in Threads : pc[t] # "idle" ~> pc[t] = "idle"
=============================================================================
