--------------------------- MODULE CoreRosterProofs ---------------------------
(* Theorems about CoreRoster, for every value of its constants: what is    *)
(* proved of the core alone holds beside the roster and the ledger too,    *)
(* and the properties that only the three together can have.               *)
EXTENDS CoreRoster, DispatchCoreProofs

-----------------------------------------------------------------------------
(* Owners.                                                                 *)

(* The mount that cast an attempt stays in the roster of the core: no      *)
(* record takes a mount out or puts another envelope in its place.         *)
OwnerInv ==
  \A k \in DOMAIN disk.attempts :
    LET owner == disk.attempts[k].owner IN
    /\ AttemptKey(owner) = k
    /\ owner.mount \in DOMAIN disk.mounts /\ disk.mounts[owner.mount] = owner

(* Every record about an attempt keeps its owner.                          *)
LEMMA OwnerKept ==
  ASSUME NEW a \in Attempt, NEW id, NEW state
  PROVE  /\ [a EXCEPT !.inFlight = id, !.state = state].owner = a.owner
         /\ [a EXCEPT !.inFlight = id, !.acked = TRUE, !.state = state].owner = a.owner
         /\ [a EXCEPT !.state = state, !.inFlight = id, !.ambiguous = FALSE].owner = a.owner
BY DEF Attempt

LEMMA OwnerReplace ==
  ASSUME OwnerInv, NEW k, NEW a, disk'.mounts = disk.mounts,
         disk'.attempts = [disk.attempts EXCEPT ![k] = a],
         k \in DOMAIN disk.attempts => a.owner = disk.attempts[k].owner
  PROVE  OwnerInv'
BY DEF OwnerInv

LEMMA OwnerStep == CoreInv /\ OwnerInv /\ [Next]_vars => OwnerInv'
<1> SUFFICES ASSUME CoreInv, OwnerInv, [Next]_vars PROVE OwnerInv'
  OBVIOUS
<1>1. \A k \in DOMAIN disk.attempts : disk.attempts[k] \in Attempt
  BY DEF CoreInv, TypeInv, TypeOK, StoreOK
<1>2. up => mem.mounts = disk.mounts
  BY DEF CoreInv, SameRest
<1>3. ASSUME disk'.attempts = disk.attempts, disk'.mounts = disk.mounts PROVE OwnerInv'
  BY <1>3 DEF OwnerInv
<1>4. ASSUME NEW e, Mount(e) PROVE OwnerInv'
  BY <1>2, <1>4 DEF Mount, Accepting, ApplyMounted, WithMounts, Put, OwnerInv
<1>5. ASSUME NEW e, Cast(e) PROVE OwnerInv'
  <2>1. /\ e.mount \in DOMAIN disk.mounts /\ disk.mounts[e.mount] = e
        /\ disk'.mounts = disk.mounts
        /\ disk'.attempts = Put(disk.attempts, AttemptKey(e),
                                [owner |-> e, state |-> "CAST", inFlight |-> NoCall,
                                 acked |-> FALSE, ambiguous |-> FALSE])
    BY <1>2, <1>5 DEF Cast, Accepting, Mounted, ApplyCast, WithAttempts
  <2> QED
    BY <2>1 DEF Put, OwnerInv
<1>6. ASSUME NEW e, BeginDispatch(e) \/ BeginResult(e) PROVE OwnerInv'
  <2>1. PICK kind : BeginCall(e, kind)
    BY <1>6 DEF BeginDispatch, BeginResult
  <2> DEFINE k == AttemptKey(e)
             a == [disk.attempts[k] EXCEPT !.inFlight = NextCallId(e, kind), !.state = "RUNNING"]
  <2>2. k \in DOMAIN disk.attempts => a.owner = disk.attempts[k].owner
    BY <1>1, OwnerKept
  <2>3. disk'.attempts = [disk.attempts EXCEPT ![k] = a] /\ disk'.mounts = disk.mounts
    BY <2>1 DEF BeginCall, ApplyCallIntent, WithAttempts
  <2> HIDE DEF a
  <2> QED
    BY <2>2, <2>3, OwnerReplace
<1>7. ASSUME NEW e, NEW d, DisposeLate(e, d) PROVE OwnerInv'
  BY <1>1, <1>7, OwnerKept, OwnerReplace DEF DisposeLate, ApplyDisposition, WithAttempts
<1>8. CASE AcknowledgeDispatch
  <2> DEFINE k == AttemptKey(handler.env)
             a == [disk.attempts[k] EXCEPT !.inFlight = NoCall, !.acked = TRUE, !.state = "RUNNING"]
  <2>1. k \in DOMAIN disk.attempts => a.owner = disk.attempts[k].owner
    BY <1>1, OwnerKept
  <2>2. disk'.attempts = [disk.attempts EXCEPT ![k] = a] /\ disk'.mounts = disk.mounts
    BY <1>8 DEF AcknowledgeDispatch, Answer, ApplyDispatchAck, WithAttempts
  <2> HIDE DEF a
  <2> QED
    BY <2>1, <2>2, OwnerReplace
<1>9. CASE CompleteResult \/ FailCall
  <2>1. PICK state : disk' = ApplySettled(disk, handler.env, state)
    BY <1>9 DEF CompleteResult, FailCall, Answer
  <2> DEFINE k == AttemptKey(handler.env)
             a == [disk.attempts[k] EXCEPT !.inFlight = NoCall, !.state = state]
  <2>2. k \in DOMAIN disk.attempts => a.owner = disk.attempts[k].owner
    BY <1>1, OwnerKept
  <2>3. disk'.attempts = [disk.attempts EXCEPT ![k] = a] /\ disk'.mounts = disk.mounts
    BY <2>1 DEF ApplySettled, WithAttempts
  <2> HIDE DEF a
  <2> QED
    BY <2>2, <2>3, OwnerReplace
<1>10. CASE CompleteGate \/ FailGate
  BY <1>3, <1>10 DEF CompleteGate, FailGate, Answer, ApplyGateSettled, WithGates
<1>11. ASSUME NEW e, BeginGate(e) \/ RefuseStaleBegin(e) PROVE OwnerInv'
  BY <1>3, <1>11 DEF BeginGate, RefuseStaleBegin, ApplyGateIntent, WithGates
<1>12. CASE CallEngine \/ Crash \/ Restart \/ UNCHANGED vars
  BY <1>3, <1>12 DEF CallEngine, Crash, Restart, vars
<1> QED
  BY <1>4, <1>5, <1>6, <1>7, <1>8, <1>9, <1>10, <1>11, <1>12 DEF Next, Request, Complete

-----------------------------------------------------------------------------
(* The core beside the roster.                                             *)

(* All that is known of the core.                                          *)
CoreFacts == CoreInv /\ SlotInv /\ TaskInv /\ CallInv /\ LateIsLive /\ OwnerInv

(* A record of the roster or the ledger leaves all of the core's maps but  *)
(* the epochs as they are.                                                 *)
Aside(s, t) ==
  /\ StoreOK(t) /\ t.seq = s.seq + 1
  /\ t.mounts = s.mounts /\ t.attempts = s.attempts /\ t.gates = s.gates
  /\ t.count = s.count /\ t.active = s.active

LEMMA NothingIsAside ==
  ASSUME NEW s, StoreOK(s)
  PROVE  Aside(s, WithNothing(s))
BY DEF Aside, WithNothing, WithAttempts, StoreOK

LEMMA BumpIsAside ==
  ASSUME NEW s, StoreOK(s), NEW j \in Jobs
  PROVE  Aside(s, Bumped(s, j))
BY DEF Aside, Bumped, WithMounts, StoreOK

LEMMA AsideKeeps ==
  ASSUME CoreFacts, up, Aside(mem, mem'), Aside(disk, disk'), counter' \in Nat,
         UNCHANGED <<up, handler, tasks, calls>>
  PROVE  CoreFacts'
<1>1. TypeInv'
  BY DEF CoreFacts, CoreInv, TypeInv, TypeOK, SameKeys, Aside
<1>2. LiveView' /\ SameRest' /\ OpenCallShape' /\ HandlerOpen'
  BY DEF CoreFacts, CoreInv, LiveView, SameRest, OpenCallShape, HandlerOpen, Aside, AttemptShown, GateShown,
         InFlight, Calling, WorksOnAttempt, WorksOnGate, GateMatches, CallMatches, Owns, Mounted,
         AttemptOf
<1>3. SlotInv'
  BY DEF CoreFacts, SlotInv, Covered, Occupied, InFlight, Aside
<1>4. TaskInv'
  BY DEF CoreFacts, TaskInv, TaskOf, Aside
<1>5. CallInv'
  BY DEF CoreFacts, CallInv, Reserved, Aside
<1>6. LateIsLive' /\ OwnerInv'
  BY DEF CoreFacts, LateIsLive, OwnerInv, Aside
<1> QED
  BY <1>1, <1>2, <1>3, <1>4, <1>5, <1>6 DEF CoreFacts, CoreInv

LEMMA CoreFactsInit == Init => CoreFacts
<1>1. Init => OwnerInv
  BY DEF Init, EmptyStore, EmptyMap, OwnerInv
<1> QED
  BY <1>1, CoreInit, SlotInit, TaskInit, CallInit, LateInit DEF CoreFacts

LEMMA CoreFactsStep == CoreFacts /\ [Next]_vars => CoreFacts'
BY CoreStep, SlotStep, TaskStep, CallStep, LateStep, OwnerStep DEF CoreFacts

(* What is injected is live and the request loop is still at it: nothing   *)
(* was revoked or bumped and no other call was begun since.                *)
InjectedLive ==
  /\ injected \subseteq Envelopes
  /\ injected # {} => up /\ handler = Idle /\ mem.seq < MaxSeq /\ ledger
  /\ \A e \in injected : e.mount \notin revoked /\ mem.epochs[e.job] = e.epoch

(* A step of the roster is one of the core, or appends a record aside.     *)
LEMMA RosterStepCases ==
  ASSUME CoreFacts, InjectedLive, [NextRoster]_rosterVars
  PROVE  \/ [Next]_vars
         \/ /\ up /\ Aside(mem, mem') /\ Aside(disk, disk') /\ counter' \in Nat
            /\ UNCHANGED <<up, handler, tasks, calls>>
<1>1. TypeOK /\ StoreOK(mem) /\ StoreOK(disk)
  BY DEF CoreFacts, CoreInv, TypeInv, TypeOK
<1>2. CounterAfterAppend(counter) \in Nat
  BY <1>1, CounterType DEF TypeOK
<1>3. CASE CoreRequest
  BY <1>3 DEF CoreRequest, Next, Request
<1>4. CASE (CallEngine \/ Complete) /\ UNCHANGED roster
  BY <1>4 DEF Next
<1>5. ASSUME NEW e \in Envelopes, RevokeMount(e) \/ Inject(e)
      PROVE  /\ up /\ Aside(mem, mem') /\ Aside(disk, disk') /\ counter' \in Nat
             /\ UNCHANGED <<up, handler, tasks, calls>>
  BY <1>1, <1>2, <1>5, NothingIsAside DEF RevokeMount, Inject, Append, Waiting, Accepting
<1>6. ASSUME NEW j \in Jobs, BumpJobEpoch(j)
      PROVE  /\ up /\ Aside(mem, mem') /\ Aside(disk, disk') /\ counter' \in Nat
             /\ UNCHANGED <<up, handler, tasks, calls>>
  BY <1>1, <1>2, <1>6, BumpIsAside DEF BumpJobEpoch, Append, Waiting, Accepting
<1>7. CASE CrashRoster \/ RestartRoster \/ UNCHANGED rosterVars
  BY <1>7 DEF CrashRoster, RestartRoster, rosterVars, Next
<1>8. CASE DispatchInjected
  BY <1>8 DEF DispatchInjected, InjectedLive, Accepting, BeginDispatch, Next, Request
<1> QED
  BY <1>3, <1>4, <1>5, <1>6, <1>7, <1>8 DEF NextRoster

LEMMA InjectedStep ==
  ASSUME CoreFacts, InjectedLive, [NextRoster]_rosterVars
  PROVE  InjectedLive'
<1>1. CASE CoreRequest
  BY <1>1 DEF CoreRequest, roster, InjectedLive
<1>2. CASE (CallEngine \/ Complete) /\ UNCHANGED roster
  <2>1. handler # Idle
    BY <1>2 DEF CallEngine, Complete, AcknowledgeDispatch, CompleteResult, FailCall, CompleteGate,
                FailGate, Idle
  <2> QED
    BY <1>2, <2>1 DEF roster, InjectedLive
<1>3. ASSUME NEW e \in Envelopes, RevokeMount(e) PROVE InjectedLive'
  BY <1>3 DEF RevokeMount, Waiting, InjectedLive
<1>4. ASSUME NEW e \in Envelopes, Inject(e) PROVE InjectedLive'
  <2>1. mem.seq \in Nat /\ mem'.seq = mem.seq + 1 /\ mem'.epochs = mem.epochs
    BY <1>4 DEF Inject, Append, WithNothing, WithAttempts, CoreFacts, CoreInv, TypeInv, TypeOK, StoreOK
  <2> QED
    BY <1>4, <2>1 DEF Inject, Append, Waiting, Accepting, Live, InjectedLive
<1>5. ASSUME NEW j \in Jobs, BumpJobEpoch(j) PROVE InjectedLive'
  BY <1>5 DEF BumpJobEpoch, Waiting, roster, InjectedLive
<1>6. CASE DispatchInjected \/ CrashRoster
  BY <1>6 DEF DispatchInjected, CrashRoster, InjectedLive
<1>7. CASE RestartRoster
  BY <1>7 DEF RestartRoster, Restart, InjectedLive
<1>8. CASE UNCHANGED rosterVars
  BY <1>8 DEF rosterVars, vars, roster, InjectedLive
<1> QED
  BY <1>1, <1>2, <1>3, <1>4, <1>5, <1>6, <1>7, <1>8 DEF NextRoster

RosterInv == CoreFacts /\ InjectedLive

LEMMA RosterInvariant == SpecRoster => []RosterInv
<1>1. InitRoster => RosterInv
  BY CoreFactsInit DEF InitRoster, RosterInv, InjectedLive
<1>2. RosterInv /\ [NextRoster]_rosterVars => RosterInv'
  BY RosterStepCases, InjectedStep, AsideKeeps, CoreFactsStep DEF RosterInv
<1> QED
  BY <1>1, <1>2, PTL DEF SpecRoster

(* With revocations, epoch bumps and injections between its steps the core *)
(* keeps what was proved of it alone: its caps, one dispatch per attempt,  *)
(* no refused answer, and every open call shown as late.                   *)
THEOREM RosterKeepsCore ==
  SpecRoster =>
    [](TypeOK /\ CapRespected /\ DispatchedAtMostOnce /\ CallCapRespected
         /\ AnswerNeverRefused /\ AmbiguityExposed)
<1>1. RosterInv =>
        TypeOK /\ CapRespected /\ DispatchedAtMostOnce /\ CallCapRespected
          /\ AnswerNeverRefused /\ AmbiguityExposed
  BY ShownIsExposed, OpenIsAccepted, CallsAreCapped
  DEF RosterInv, CoreFacts, CoreInv, TypeInv, SlotInv, CapRespected, TaskInv, TaskOf,
      DispatchedAtMostOnce
<1> QED
  BY <1>1, RosterInvariant, PTL

(* And the attempts of the core still live the life of AttemptLife.        *)
THEOREM RosterImplementsLife == SpecRoster => ImplementsLife
<1>1. InitRoster => Life!Init
  BY LifeInit DEF InitRoster
<1>2. ASSUME Aside(disk, disk'), tasks' = tasks PROVE UNCHANGED Life!lifeVars
  BY <1>2 DEF Aside, Life!lifeVars, DurableLife, InFlight
<1>3. RosterInv /\ [NextRoster]_rosterVars => [Life!Next]_(Life!lifeVars)
  BY <1>2, RosterStepCases, LifeStep DEF RosterInv, CoreFacts
<1> QED
  BY <1>1, <1>3, RosterInvariant, PTL DEF SpecRoster, ImplementsLife, Life!Spec

(* Whatever the roster did while a call was open, the owner of a late or   *)
(* stranded attempt still passes require_attempt, and can dispose of it.   *)
THEOREM LateIsDisposable == SpecRoster => []LateCanBeDisposed
<1>1. RosterInv => LateCanBeDisposed
  <2> SUFFICES ASSUME RosterInv, up, NEW k \in DOMAIN mem.attempts
               PROVE  Owns(mem.attempts[k].owner)
    BY DEF LateCanBeDisposed
  <2>1. /\ k \in DOMAIN disk.attempts /\ disk.attempts[k] \in Attempt
        /\ mem.mounts = disk.mounts /\ AttemptShown(k)
    BY DEF RosterInv, CoreFacts, CoreInv, TypeInv, TypeOK, StoreOK, SameKeys, SameRest, LiveView
  <2>2. mem.attempts[k].owner = disk.attempts[k].owner
    BY <2>1 DEF AttemptShown, Late, Attempt
  <2> QED
    BY <2>1, <2>2 DEF RosterInv, CoreFacts, OwnerInv, Owns, Mounted
<1> QED
  BY <1>1, RosterInvariant, PTL

(* With the ledger, a dispatch is journaled only for a mount that is live  *)
(* at that moment: begin_dispatch does not ask, the injection before it    *)
(* did, and nothing can come between the two.                              *)
THEOREM InjectedDispatchIsLive == SpecRoster => DispatchedWasLive
<1>1. RosterInv /\ [NextRoster]_rosterVars =>
        (ledger => \A e \in Envelopes :
           Reserves(e, "dispatch") => e.mount \notin revoked /\ mem.epochs[e.job] = e.epoch)
  <2> SUFFICES ASSUME RosterInv, [NextRoster]_rosterVars, ledger, NEW e \in Envelopes,
                      Reserves(e, "dispatch")
               PROVE  e.mount \notin revoked /\ mem.epochs[e.job] = e.epoch
    OBVIOUS
  <2>1. TypeOK /\ handler' # handler /\ handler = Idle /\ handler' # Idle
    BY DEF RosterInv, CoreFacts, CoreInv, TypeInv, Reserves
  <2>2. CASE CoreRequest
    <3>1. PICK x \in Envelopes : BeginResult(x) \/ BeginGate(x)
      BY <2>1, <2>2 DEF CoreRequest, Mount, Cast, RefuseStaleBegin, DisposeLate
    <3>2. PICK kind \in {"result", "gate"} : handler'.id = NextCallId(x, kind)
      BY <3>1 DEF BeginResult, BeginGate, BeginCall
    <3>3. handler'.id.kind = kind
      BY <2>1, <3>2, NextCallIdType
    <3> QED
      BY <3>2, <3>3 DEF Reserves
  <2>3. CASE DispatchInjected
    <3>1. PICK x \in injected : BeginCall(x, "dispatch")
      BY <2>1, <2>3 DEF DispatchInjected, vars
    <3>2. x = e
      BY <3>1 DEF BeginCall, Reserves
    <3> QED
      BY <3>1, <3>2 DEF RosterInv, InjectedLive
  <2>4. CASE (CallEngine \/ Complete) /\ UNCHANGED roster
    BY <2>1, <2>4 DEF CallEngine, Complete, AcknowledgeDispatch, CompleteResult, FailCall,
                      CompleteGate, FailGate, Idle
  <2>5. ASSUME NEW x \in Envelopes, RevokeMount(x) \/ Inject(x) PROVE FALSE
    BY <2>1, <2>5 DEF RevokeMount, Inject, Append
  <2>6. ASSUME NEW j \in Jobs, BumpJobEpoch(j) PROVE FALSE
    BY <2>1, <2>6 DEF BumpJobEpoch, Append
  <2>7. CASE CrashRoster \/ RestartRoster \/ UNCHANGED rosterVars
    BY <2>1, <2>7 DEF CrashRoster, Crash, RestartRoster, Restart, rosterVars, vars
  <2> QED
    BY <2>2, <2>3, <2>4, <2>5, <2>6, <2>7 DEF NextRoster
<1> QED
  BY <1>1, RosterInvariant, PTL DEF SpecRoster, DispatchedWasLive
=============================================================================
