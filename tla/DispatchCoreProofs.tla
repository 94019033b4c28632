------------------------- MODULE DispatchCoreProofs -------------------------
(* Theorems about DispatchCore, for every value of its constants.          *)
EXTENDS DispatchCore, FiniteSetTheorems, TLAPS

-----------------------------------------------------------------------------
(* Type correctness.                                                       *)

LEMMA EmptyStoreType == StoreOK(EmptyStore)
BY DEF StoreOK, EmptyStore, EmptyMap

LEMMA KeyInKeys ==
  ASSUME NEW e \in Envelopes
  PROVE  AttemptKey(e) \in Keys /\ e.job \in Jobs /\ e.run \in Runs /\ e.mount \in Mounts
BY DEF Keys, Jobs, Runs, Mounts

LEMMA MountedType ==
  ASSUME NEW s, StoreOK(s), NEW e \in Envelopes
  PROVE  StoreOK(ApplyMounted(s, e))
BY KeyInKeys, EnvelopeAssumption DEF StoreOK, ApplyMounted, WithMounts, Put

(* Every record about an attempt replaces the attempt under one key.       *)
LEMMA ReplaceAttemptType ==
  ASSUME NEW s, StoreOK(s), NEW k \in DOMAIN s.attempts, NEW a \in Attempt,
         NEW count \in [Jobs -> Nat], NEW active \in Nat
  PROVE  StoreOK(WithAttempts(s, [s.attempts EXCEPT ![k] = a], count, active))
BY DEF StoreOK, WithAttempts

LEMMA OneMoreCallType ==
  ASSUME NEW s, StoreOK(s), NEW e \in Envelopes
  PROVE  OneMoreCall(s, e) \in [Jobs -> Nat]
BY KeyInKeys DEF StoreOK, OneMoreCall

LEMMA ChangedAttempt ==
  ASSUME NEW a \in Attempt, NEW state \in AttemptStates
  PROVE  /\ [a EXCEPT !.inFlight = NoCall, !.state = state] \in Attempt
         /\ [a EXCEPT !.inFlight = NoCall, !.acked = TRUE, !.state = state] \in Attempt
         /\ [a EXCEPT !.state = state, !.inFlight = NoCall, !.ambiguous = FALSE] \in Attempt
         /\ \A id \in CallIds : [a EXCEPT !.inFlight = id, !.state = state] \in Attempt
         /\ [a EXCEPT !.state = state, !.ambiguous = TRUE] \in Attempt
BY DEF Attempt

LEMMA CastType ==
  ASSUME NEW s, StoreOK(s), NEW e \in Envelopes
  PROVE  StoreOK(ApplyCast(s, e))
BY KeyInKeys DEF StoreOK, ApplyCast, WithAttempts, Put, Attempt, AttemptStates

LEMMA CallIntentType ==
  ASSUME NEW s, StoreOK(s), NEW e \in Envelopes, NEW id \in CallIds,
         AttemptKey(e) \in DOMAIN s.attempts
  PROVE  StoreOK(ApplyCallIntent(s, e, id))
<1>1. [s.attempts[AttemptKey(e)] EXCEPT !.inFlight = id, !.state = "RUNNING"] \in Attempt
  BY ChangedAttempt DEF StoreOK, AttemptStates
<1>2. (IF id.kind = "dispatch" THEN s.active + 1 ELSE s.active) \in Nat
  BY DEF StoreOK
<1> QED
  BY <1>1, <1>2, ReplaceAttemptType, OneMoreCallType DEF ApplyCallIntent

LEMMA DispatchAckType ==
  ASSUME NEW s, StoreOK(s), NEW e \in Envelopes, AttemptKey(e) \in DOMAIN s.attempts
  PROVE  StoreOK(ApplyDispatchAck(s, e))
<1>1. [s.attempts[AttemptKey(e)] EXCEPT !.inFlight = NoCall, !.acked = TRUE, !.state = "RUNNING"]
        \in Attempt
  BY ChangedAttempt DEF StoreOK, AttemptStates
<1>2. s.count \in [Jobs -> Nat] /\ s.active \in Nat
  BY DEF StoreOK
<1> QED
  BY <1>1, <1>2, ReplaceAttemptType DEF ApplyDispatchAck

LEMMA SettledType ==
  ASSUME NEW s, StoreOK(s), NEW e \in Envelopes, AttemptKey(e) \in DOMAIN s.attempts,
         NEW state \in {"RESULT", "STRANDED"}
  PROVE  StoreOK(ApplySettled(s, e, state))
<1>1. [s.attempts[AttemptKey(e)] EXCEPT !.inFlight = NoCall, !.state = state] \in Attempt
  BY ChangedAttempt DEF StoreOK, AttemptStates
<1>2. s.count \in [Jobs -> Nat] /\ Decrement(s.active) \in Nat
  BY DEF StoreOK, Decrement
<1> QED
  BY <1>1, <1>2, ReplaceAttemptType DEF ApplySettled

LEMMA DispositionType ==
  ASSUME NEW s, StoreOK(s), NEW e \in Envelopes, AttemptKey(e) \in DOMAIN s.attempts,
         NEW d \in Final
  PROVE  StoreOK(ApplyDisposition(s, e, d))
<1>1. [s.attempts[AttemptKey(e)] EXCEPT !.state = d, !.inFlight = NoCall, !.ambiguous = FALSE]
        \in Attempt
  BY ChangedAttempt DEF StoreOK, AttemptStates
<1>2. s.count \in [Jobs -> Nat] /\ s.active \in Nat
  BY DEF StoreOK
<1> QED
  BY <1>1, <1>2, ReplaceAttemptType DEF ApplyDisposition

LEMMA GateIntentType ==
  ASSUME NEW s, StoreOK(s), NEW e \in Envelopes, NEW id \in CallIds
  PROVE  StoreOK(ApplyGateIntent(s, e, id))
BY OneMoreCallType DEF StoreOK, ApplyGateIntent, WithGates, Put, GateAttempt, GateStates

LEMMA GateSettledType ==
  ASSUME NEW s, StoreOK(s), NEW id \in DOMAIN s.gates, NEW state \in {"RESULT", "STRANDED"}
  PROVE  StoreOK(ApplyGateSettled(s, id, state))
BY DEF StoreOK, ApplyGateSettled, WithGates, GateAttempt, GateStates

LEMMA KeysFinite == IsFiniteSet(Keys)
<1> DEFINE f == [e \in Envelopes |-> AttemptKey(e)]
<1>1. f \in Surjection(Envelopes, Keys)
  BY DEF Surjection, Keys
<1> QED
  BY <1>1, FS_Surjection, EnvelopeAssumption

LEMMA RecoverType ==
  ASSUME NEW s, StoreOK(s)
  PROVE  StoreOK(Recover(s))
<1>1. InFlight(s) \in SUBSET Keys
  BY DEF InFlight, StoreOK
<1>2. Cardinality(InFlight(s)) \in Nat
  BY <1>1, KeysFinite, FS_Subset, FS_CardinalityType
<1>3. \A k \in DOMAIN s.attempts : Late(s.attempts[k]) \in Attempt
  BY ChangedAttempt DEF Late, StoreOK, AttemptStates
<1>4. \A id \in DOMAIN s.gates : Late(s.gates[id]) \in GateAttempt
  BY DEF Late, StoreOK, GateAttempt, GateStates
<1> QED
  BY <1>2, <1>3, <1>4 DEF Recover, StoreOK

LEMMA NextCallIdType ==
  ASSUME TypeOK, NEW e \in Envelopes, NEW kind \in {"dispatch", "result", "gate"}
  PROVE  /\ NextCallId(e, kind) \in CallIds
         /\ NextCallId(e, kind).kind = kind
         /\ [phase |-> "reserved", env |-> e, id |-> NextCallId(e, kind)] \in Busy
BY KeyInKeys DEF TypeOK, NextCallId, CallIds, Busy

LEMMA CounterType ==
  ASSUME TypeOK, NEW c \in Nat
  PROVE  CounterAfterAppend(c) \in Nat
BY DEF TypeOK, StoreOK, CounterAfterAppend

(* The handler is idle or holds a call, and its phase tells which.         *)
LEMMA HandlerCases ==
  ASSUME TypeOK
  PROVE  /\ handler = Idle <=> handler.phase = "idle"
         /\ handler # Idle => handler \in Busy
BY DEF TypeOK, Idle, Busy

(* The live maps have the keys that the journal gives them: with it the    *)
(* types are inductive, since a record applies to both stores.             *)
SameKeys ==
  up => DOMAIN mem.attempts = DOMAIN disk.attempts /\ DOMAIN mem.gates = DOMAIN disk.gates

TypeInv == TypeOK /\ SameKeys

LEMMA TypeStep == TypeInv /\ [Next]_vars => TypeInv'
<1> SUFFICES ASSUME TypeOK, SameKeys, [Next]_vars PROVE TypeOK' /\ SameKeys'
  BY DEF TypeInv
<1>1. ASSUME NEW e \in Envelopes, Mount(e) PROVE TypeOK' /\ SameKeys'
  <2>1. TypeOK'
    BY <1>1, MountedType, CounterType DEF TypeOK, Mount
  <2>2. SameKeys'
    BY <1>1 DEF SameKeys, Mount, Accepting, ApplyMounted, WithMounts
  <2> QED
    BY <2>1, <2>2
<1>2. ASSUME NEW e \in Envelopes, Cast(e) PROVE TypeOK' /\ SameKeys'
  <2>1. TypeOK'
    BY <1>2, CastType, CounterType DEF TypeOK, Cast
  <2>2. SameKeys'
    BY <1>2 DEF SameKeys, Cast, Accepting, ApplyCast, WithAttempts, Put
  <2> QED
    BY <2>1, <2>2
<1>3. ASSUME NEW e \in Envelopes, NEW kind \in {"dispatch", "result"},
             up, Owns(e), BeginCall(e, kind)
      PROVE  TypeOK' /\ SameKeys'
  <2>1. NextCallId(e, kind) \in CallIds
    BY NextCallIdType
  <2>2. AttemptKey(e) \in DOMAIN mem.attempts /\ AttemptKey(e) \in DOMAIN disk.attempts
    BY <1>3 DEF Owns, SameKeys
  <2>3. StoreOK(mem') /\ StoreOK(disk')
    BY <1>3, <2>1, <2>2, CallIntentType DEF TypeOK, BeginCall
  <2>4. handler' \in Busy
    BY <1>3, NextCallIdType DEF BeginCall
  <2>5. counter' \in Nat
    BY <1>3, CounterType DEF BeginCall, TypeOK
  <2>6. SameKeys'
    BY <1>3 DEF SameKeys, BeginCall, ApplyCallIntent, WithAttempts
  <2> QED
    BY <1>3, <2>3, <2>4, <2>5, <2>6 DEF TypeOK, BeginCall
<1>4. ASSUME NEW e \in Envelopes, BeginGate(e) PROVE TypeOK' /\ SameKeys'
  <2>1. NextCallId(e, "gate") \in CallIds
    BY NextCallIdType
  <2>2. StoreOK(mem') /\ StoreOK(disk')
    BY <1>4, <2>1, GateIntentType DEF TypeOK, BeginGate
  <2>3. handler' \in Busy
    BY <1>4, NextCallIdType DEF BeginGate
  <2>4. counter' \in Nat
    BY <1>4, CounterType DEF BeginGate, TypeOK
  <2>5. SameKeys'
    BY <1>4 DEF SameKeys, BeginGate, Accepting, ApplyGateIntent, WithGates, Put
  <2> QED
    BY <1>4, <2>2, <2>3, <2>4, <2>5 DEF TypeOK, BeginGate
<1>5. ASSUME NEW e \in Envelopes, RefuseStaleBegin(e) PROVE TypeOK' /\ SameKeys'
  BY <1>5 DEF RefuseStaleBegin, TypeOK, SameKeys
<1>6. ASSUME NEW e \in Envelopes, NEW d \in Final, DisposeLate(e, d)
      PROVE  TypeOK' /\ SameKeys'
  <2>1. AttemptKey(e) \in DOMAIN mem.attempts /\ AttemptKey(e) \in DOMAIN disk.attempts
    BY <1>6 DEF DisposeLate, Accepting, Owns, SameKeys
  <2>2. TypeOK'
    BY <1>6, <2>1, DispositionType, CounterType DEF TypeOK, DisposeLate
  <2>3. SameKeys'
    BY <1>6 DEF SameKeys, DisposeLate, Accepting, ApplyDisposition, WithAttempts
  <2> QED
    BY <2>2, <2>3
<1>7. ASSUME CallEngine PROVE TypeOK' /\ SameKeys'
  <2>1. handler \in Busy
    BY <1>7 DEF CallEngine, TypeOK, Idle
  <2>2. handler' \in Busy
    BY <1>7, <2>1 DEF CallEngine, Busy
  <2>3. AttemptKey(handler.env) \in Keys /\ handler.env.job \in Jobs
    BY <2>1, KeyInKeys DEF Busy
  <2>4. tasks' \in [Keys -> Nat]
    BY <1>7, <2>3 DEF CallEngine, TypeOK
  <2>5. calls' \in [Jobs -> Nat]
    BY <1>7, <2>3 DEF CallEngine, TypeOK
  <2> QED
    BY <1>7, <2>2, <2>4, <2>5 DEF CallEngine, TypeOK, SameKeys
<1>8. ASSUME Complete PROVE TypeOK' /\ SameKeys'
  <2>1. handler \in Busy /\ up
    BY <1>8 DEF Complete, AcknowledgeDispatch, CompleteResult, FailCall, CompleteGate,
                FailGate, TypeOK, Idle
  <2>2. handler.env \in Envelopes /\ handler.id \in CallIds
    BY <2>1 DEF Busy
  <2>3. ASSUME NEW m, NEW d, Answer(m, d), StoreOK(m), StoreOK(d),
               DOMAIN m.attempts = DOMAIN d.attempts, DOMAIN m.gates = DOMAIN d.gates
        PROVE  TypeOK' /\ SameKeys'
    BY <2>3, CounterType DEF Answer, TypeOK, SameKeys
  <2>4. ASSUME NEW kind, CallMatches(kind)
        PROVE  /\ AttemptKey(handler.env) \in DOMAIN mem.attempts
               /\ AttemptKey(handler.env) \in DOMAIN disk.attempts
    BY <2>1, <2>4 DEF CallMatches, Owns, SameKeys
  <2>5. GateMatches => handler.id \in DOMAIN mem.gates /\ handler.id \in DOMAIN disk.gates
    BY <2>1 DEF GateMatches, Calling, SameKeys
  <2>6. StoreOK(mem) /\ StoreOK(disk) /\ DOMAIN mem.attempts = DOMAIN disk.attempts
          /\ DOMAIN mem.gates = DOMAIN disk.gates
    BY <2>1 DEF TypeOK, SameKeys
  <2>7. CASE AcknowledgeDispatch
    <3>1. /\ AttemptKey(handler.env) \in DOMAIN mem.attempts
          /\ AttemptKey(handler.env) \in DOMAIN disk.attempts
      BY <2>4, <2>7 DEF AcknowledgeDispatch
    <3> QED
      BY <2>2, <2>3, <2>6, <2>7, <3>1, DispatchAckType
      DEF AcknowledgeDispatch, ApplyDispatchAck, WithAttempts
  <2>8. ASSUME NEW state \in {"RESULT", "STRANDED"}, NEW kind, CallMatches(kind),
               Answer(ApplySettled(mem, handler.env, state), ApplySettled(disk, handler.env, state))
        PROVE  TypeOK' /\ SameKeys'
    <3>1. /\ AttemptKey(handler.env) \in DOMAIN mem.attempts
          /\ AttemptKey(handler.env) \in DOMAIN disk.attempts
      BY <2>4, <2>8
    <3>2. /\ StoreOK(ApplySettled(mem, handler.env, state))
          /\ StoreOK(ApplySettled(disk, handler.env, state))
      BY <2>2, <2>6, <3>1, SettledType
    <3> QED
      BY <2>3, <2>6, <2>8, <3>2 DEF ApplySettled, WithAttempts
  <2>9. ASSUME NEW state \in {"RESULT", "STRANDED"}, GateMatches,
               Answer(ApplyGateSettled(mem, handler.id, state),
                      ApplyGateSettled(disk, handler.id, state))
        PROVE  TypeOK' /\ SameKeys'
    <3>1. /\ StoreOK(ApplyGateSettled(mem, handler.id, state))
          /\ StoreOK(ApplyGateSettled(disk, handler.id, state))
      BY <2>2, <2>5, <2>6, <2>9, GateSettledType
    <3> QED
      BY <2>3, <2>6, <2>9, <3>1 DEF ApplyGateSettled, WithGates
  <2> QED
    BY <1>8, <2>7, <2>8, <2>9 DEF Complete, CompleteResult, FailCall, CompleteGate, FailGate
<1>9. ASSUME Crash PROVE TypeOK' /\ SameKeys'
  BY <1>9, EmptyStoreType DEF Crash, TypeOK, SameKeys
<1>10. ASSUME Restart PROVE TypeOK' /\ SameKeys'
  <2>1. StoreOK(mem')
    BY <1>10, RecoverType DEF Restart, TypeOK
  <2>2. SameKeys'
    BY <1>10 DEF Restart, SameKeys, Recover
  <2> QED
    BY <1>10, <2>1, <2>2 DEF Restart, TypeOK, StoreOK
<1>11. CASE UNCHANGED vars
  BY <1>11 DEF vars, TypeOK, SameKeys
<1> QED
  BY <1>1, <1>2, <1>3, <1>4, <1>5, <1>6, <1>7, <1>8, <1>9, <1>10, <1>11
  DEF Next, Request, BeginDispatch, BeginResult, DispatchReady, ResultReady, Accepting

(* Every variable keeps its type, through every request, crash and         *)
(* recovery of src/src/core.cpp.                                           *)
THEOREM TypeCorrect == Spec => []TypeOK
<1>1. Init => TypeInv
  BY EmptyStoreType DEF Init, TypeInv, TypeOK, SameKeys, EmptyStore
<1>2. TypeInv => TypeOK
  BY DEF TypeInv
<1> QED
  BY <1>1, <1>2, TypeStep, PTL DEF Spec

-----------------------------------------------------------------------------
(* The live process and the journal.                                       *)

(* The live attempts and gates are the journal's, except that a call the   *)
(* journal leaves open, and no handler works on, is late and ambiguous.    *)
AttemptShown(k) ==
  mem.attempts[k] = IF k \in InFlight(disk) /\ ~WorksOnAttempt(k)
                    THEN Late(disk.attempts[k]) ELSE disk.attempts[k]

GateShown(id) ==
  mem.gates[id] = IF id \in Calling(disk) /\ ~WorksOnGate(id)
                  THEN Late(disk.gates[id]) ELSE disk.gates[id]

LiveView ==
  up => /\ \A k \in DOMAIN disk.attempts : AttemptShown(k)
        /\ \A id \in DOMAIN disk.gates : GateShown(id)

(* The rest of the two stores agrees.                                      *)
SameRest ==
  up => mem.seq = disk.seq /\ mem.mounts = disk.mounts /\ mem.count = disk.count

(* In the journal an open call is a dispatch or a result of a running      *)
(* attempt, and a result is only asked for a dispatch that was acknowledged. *)
OpenCallShape ==
  \A k \in InFlight(disk) :
    LET a == disk.attempts[k] IN
    /\ a.state = "RUNNING"
    /\ a.inFlight.kind = "dispatch" \/ (a.inFlight.kind = "result" /\ a.acked)

(* The handler's call is open in the journal, and its own.                 *)
HandlerOpen ==
  handler # Idle =>
    /\ up
    /\ GateMatches \/ \E kind \in {"dispatch", "result"} : CallMatches(kind)

CoreInv == TypeInv /\ LiveView /\ SameRest /\ OpenCallShape /\ HandlerOpen

LEMMA CoreInit == Init => CoreInv
BY EmptyStoreType, HandlerCases
DEF Init, CoreInv, TypeInv, TypeOK, SameKeys, LiveView, SameRest, OpenCallShape, HandlerOpen,
    AttemptShown, GateShown, EmptyStore, EmptyMap, InFlight, Calling

(* An attempt that the live process holds in a state other than late is    *)
(* the journal's.                                                          *)
LEMMA LiveIsDurable ==
  ASSUME CoreInv, up, NEW k \in DOMAIN mem.attempts,
         mem.attempts[k].state # "PENDING_LATE"
  PROVE  mem.attempts[k] = disk.attempts[k]
<1>1. k \in DOMAIN disk.attempts /\ disk.attempts[k] \in Attempt
  BY DEF CoreInv, TypeInv, TypeOK, StoreOK, SameKeys
<1>2. Late(disk.attempts[k]).state = "PENDING_LATE"
  BY <1>1 DEF Late, Attempt
<1> QED
  BY <1>1, <1>2 DEF CoreInv, LiveView, AttemptShown

(* An attempt that a step leaves alone stays shown as it was; one that the *)
(* step makes the same in both stores is shown if it is settled or its     *)
(* call is the handler's.  Likewise for gates.                             *)
LEMMA AttemptFrame ==
  ASSUME NEW k \in DOMAIN disk.attempts, AttemptShown(k), k \in DOMAIN disk'.attempts,
         mem'.attempts[k] = mem.attempts[k], disk'.attempts[k] = disk.attempts[k],
         WorksOnAttempt(k)' <=> WorksOnAttempt(k)
  PROVE  AttemptShown(k)'
BY DEF AttemptShown, InFlight

LEMMA AttemptAgrees ==
  ASSUME NEW k, mem'.attempts[k] = disk'.attempts[k],
         disk'.attempts[k].inFlight = NoCall \/ WorksOnAttempt(k)'
  PROVE  AttemptShown(k)'
BY DEF AttemptShown, InFlight

LEMMA GateFrame ==
  ASSUME NEW id \in DOMAIN disk.gates, GateShown(id), id \in DOMAIN disk'.gates,
         mem'.gates[id] = mem.gates[id], disk'.gates[id] = disk.gates[id],
         WorksOnGate(id)' <=> WorksOnGate(id)
  PROVE  GateShown(id)'
BY DEF GateShown, Calling

LEMMA GateAgrees ==
  ASSUME NEW id, mem'.gates[id] = disk'.gates[id],
         disk'.gates[id].state # "CALLING" \/ WorksOnGate(id)'
  PROVE  GateShown(id)'
BY DEF GateShown, Calling

LEMMA CoreMount ==
  ASSUME CoreInv, TypeInv', NEW e \in Envelopes, Mount(e)
  PROVE  CoreInv'
<1>1. /\ mem'.attempts = mem.attempts /\ disk'.attempts = disk.attempts
      /\ mem'.gates = mem.gates /\ disk'.gates = disk.gates
  BY DEF Mount, ApplyMounted, WithMounts
<1>2. SameRest'
  BY DEF CoreInv, SameRest, Mount, ApplyMounted, WithMounts
<1>3. LiveView' /\ OpenCallShape' /\ HandlerOpen'
  BY <1>1 DEF CoreInv, LiveView, OpenCallShape, HandlerOpen, Mount, Accepting, InFlight, Calling,
              AttemptShown, GateShown, WorksOnAttempt, WorksOnGate
<1> QED
  BY <1>2, <1>3 DEF CoreInv

LEMMA CoreCast ==
  ASSUME CoreInv, TypeInv', NEW e \in Envelopes, Cast(e)
  PROVE  CoreInv'
<1> DEFINE k == AttemptKey(e)
           a == [owner |-> e, state |-> "CAST", inFlight |-> NoCall,
                 acked |-> FALSE, ambiguous |-> FALSE]
<1>1. /\ mem'.attempts = Put(mem.attempts, k, a) /\ disk'.attempts = Put(disk.attempts, k, a)
      /\ mem'.gates = mem.gates /\ disk'.gates = disk.gates
      /\ handler = Idle /\ handler' = Idle /\ up /\ up'
  BY DEF Cast, ApplyCast, WithAttempts, Accepting
<1>2. SameRest'
  BY DEF CoreInv, SameRest, Cast, ApplyCast, WithAttempts
<1>3. InFlight(disk') = InFlight(disk) /\ Calling(disk') = Calling(disk)
  <2>1. k \notin DOMAIN disk.attempts
    BY <1>1 DEF Cast, CoreInv, TypeInv, SameKeys
  <2> QED
    BY <1>1, <2>1 DEF InFlight, Calling, Put
<1>4. \A x \in DOMAIN disk'.attempts : AttemptShown(x)'
  <2>1. mem'.attempts[k] = a /\ disk'.attempts[k] = a
    BY <1>1 DEF Put
  <2>2. AttemptShown(k)'
    BY <2>1, AttemptAgrees
  <2> HIDE DEF a
  <2>3. ASSUME NEW x \in DOMAIN disk'.attempts, x # k PROVE AttemptShown(x)'
    <3>1. /\ x \in DOMAIN disk.attempts
          /\ mem'.attempts[x] = mem.attempts[x] /\ disk'.attempts[x] = disk.attempts[x]
      BY <1>1, <2>3 DEF Put, CoreInv, TypeInv, SameKeys
    <3> QED
      BY <1>1, <3>1, AttemptFrame DEF CoreInv, LiveView, WorksOnAttempt
  <2> QED
    BY <2>2, <2>3
<1>5. \A id \in DOMAIN disk'.gates : GateShown(id)'
  BY <1>1, GateFrame DEF CoreInv, LiveView, WorksOnGate
<1>6. OpenCallShape' /\ HandlerOpen'
  BY <1>1, <1>3 DEF CoreInv, OpenCallShape, HandlerOpen, Put, InFlight
<1> QED
  BY <1>2, <1>4, <1>5, <1>6 DEF CoreInv, LiveView

(* A record that replaces the attempt of e by the same one in both stores. *)
LEMMA ReplaceShown ==
  ASSUME CoreInv, up, up', NEW e \in Envelopes, NEW a,
         AttemptKey(e) \in DOMAIN disk.attempts,
         mem'.attempts = [mem.attempts EXCEPT ![AttemptKey(e)] = a],
         disk'.attempts = [disk.attempts EXCEPT ![AttemptKey(e)] = a],
         mem'.gates = mem.gates, disk'.gates = disk.gates,
         a.inFlight = NoCall \/ WorksOnAttempt(AttemptKey(e))',
         \A k \in Keys : k # AttemptKey(e) => ~WorksOnAttempt(k) /\ ~WorksOnAttempt(k)',
         \A id \in CallIds : id \in Calling(disk) => ~WorksOnGate(id) /\ ~WorksOnGate(id)'
  PROVE  LiveView'
<1> DEFINE k == AttemptKey(e)
<1>1. k \in DOMAIN mem.attempts /\ DOMAIN mem.attempts = DOMAIN disk.attempts
        /\ DOMAIN disk.attempts \subseteq Keys /\ DOMAIN disk.gates \subseteq CallIds
  BY DEF CoreInv, TypeInv, SameKeys, TypeOK, StoreOK
<1>2. AttemptShown(k)'
  BY <1>1, AttemptAgrees
<1>3. ASSUME NEW x \in DOMAIN disk'.attempts, x # k PROVE AttemptShown(x)'
  BY <1>1, <1>3, AttemptFrame DEF CoreInv, LiveView
<1>4. ASSUME NEW id \in DOMAIN disk'.gates PROVE GateShown(id)'
  BY <1>1, <1>4 DEF GateShown, Calling, CoreInv, LiveView
<1> QED
  BY <1>2, <1>3, <1>4 DEF LiveView

LEMMA CoreBeginCall ==
  ASSUME CoreInv, TypeInv', NEW e \in Envelopes, NEW kind \in {"dispatch", "result"},
         Accepting, Owns(e), BeginCall(e, kind), AttemptOf(e).state \in {"CAST", "RUNNING"},
         kind = "result" => AttemptOf(e).acked
  PROVE  CoreInv'
<1> DEFINE k == AttemptKey(e)
           id == NextCallId(e, kind)
           a == [mem.attempts[k] EXCEPT !.inFlight = id, !.state = "RUNNING"]
<1>1. /\ k \in DOMAIN mem.attempts /\ k \in DOMAIN disk.attempts
      /\ mem.attempts[k] = disk.attempts[k] /\ mem.attempts[k] \in Attempt
      /\ up /\ handler = Idle
  <2>1. k \in DOMAIN mem.attempts /\ k \in DOMAIN disk.attempts /\ mem.attempts[k] \in Attempt
          /\ up /\ handler = Idle
    BY DEF Owns, Accepting, CoreInv, TypeInv, SameKeys, TypeOK, StoreOK
  <2> QED
    BY <2>1, LiveIsDurable DEF AttemptOf
<1>2. id \in CallIds /\ id.kind = kind
  BY NextCallIdType DEF CoreInv, TypeInv
<1>3. /\ mem'.attempts = [mem.attempts EXCEPT ![k] = a]
      /\ disk'.attempts = [disk.attempts EXCEPT ![k] = a]
      /\ mem'.gates = mem.gates /\ disk'.gates = disk.gates
      /\ handler' = [phase |-> "reserved", env |-> e, id |-> id] /\ up'
  BY <1>1 DEF BeginCall, ApplyCallIntent, WithAttempts
<1>4. /\ handler'.phase = "reserved" /\ handler'.env = e /\ handler'.id = id
      /\ handler.phase = "idle" /\ handler' # Idle
  BY <1>1, <1>3 DEF Idle
<1>5. a.inFlight = id /\ a.state = "RUNNING" /\ a.owner = mem.attempts[k].owner
        /\ a.acked = mem.attempts[k].acked
  BY <1>1 DEF Attempt
<1>6. LiveView'
  <2>1. WorksOnAttempt(k)'
    BY <1>2, <1>4 DEF WorksOnAttempt
  <2>2. \A x \in Keys : x # k => ~WorksOnAttempt(x) /\ ~WorksOnAttempt(x)'
    BY <1>4 DEF WorksOnAttempt
  <2>3. \A x \in CallIds : ~WorksOnGate(x) /\ ~WorksOnGate(x)'
    BY <1>2, <1>4 DEF WorksOnGate
  <2> QED
    BY <1>1, <1>3, <2>1, <2>2, <2>3, ReplaceShown
<1>7. SameRest'
  BY <1>1 DEF CoreInv, SameRest, BeginCall, ApplyCallIntent, WithAttempts, OneMoreCall
<1>8. OpenCallShape'
  <2> HIDE DEF a, id
  <2>1. ASSUME NEW x \in InFlight(disk')
        PROVE  /\ disk'.attempts[x].state = "RUNNING"
               /\ \/ disk'.attempts[x].inFlight.kind = "dispatch"
                  \/ disk'.attempts[x].inFlight.kind = "result" /\ disk'.attempts[x].acked
    <3>1. CASE x = k
      BY <1>1, <1>2, <1>3, <1>5, <3>1 DEF AttemptOf
    <3>2. CASE x # k
      BY <1>3, <2>1, <3>2 DEF CoreInv, OpenCallShape, InFlight
    <3> QED
      BY <3>1, <3>2
  <2> QED
    BY <2>1 DEF OpenCallShape
<1>9. HandlerOpen'
  <2>1. mem'.mounts = mem.mounts
    BY DEF BeginCall, ApplyCallIntent, WithAttempts
  <2>2. CallMatches(kind)'
    BY <1>1, <1>2, <1>3, <1>4, <1>5, <2>1 DEF CallMatches, Owns, Mounted, AttemptOf
  <2> QED
    BY <1>3, <2>2 DEF HandlerOpen
<1> QED
  BY <1>6, <1>7, <1>8, <1>9 DEF CoreInv

LEMMA CoreBeginGate ==
  ASSUME CoreInv, TypeInv', NEW e \in Envelopes, BeginGate(e)
  PROVE  CoreInv'
<1> DEFINE id == NextCallId(e, "gate")
           g == [requester |-> e, state |-> "CALLING", ambiguous |-> FALSE]
<1>1. /\ mem'.attempts = mem.attempts /\ disk'.attempts = disk.attempts
      /\ mem'.gates = Put(mem.gates, id, g) /\ disk'.gates = Put(disk.gates, id, g)
      /\ handler' = [phase |-> "reserved", env |-> e, id |-> id]
      /\ up /\ up' /\ handler = Idle /\ Mounted(e) /\ mem'.mounts = mem.mounts
  BY DEF BeginGate, ApplyGateIntent, WithGates, Accepting, GateReady
<1>2. id \in CallIds /\ id.kind = "gate"
  BY NextCallIdType DEF CoreInv, TypeInv
<1>3. /\ handler'.phase = "reserved" /\ handler'.env = e /\ handler'.id = id
      /\ handler.phase = "idle" /\ handler' # Idle
  BY <1>1 DEF Idle
<1>4. mem'.gates[id] = g /\ disk'.gates[id] = g /\ id \in DOMAIN mem'.gates
  BY <1>1 DEF Put
<1>5. g.state = "CALLING" /\ g.requester = e
  OBVIOUS
<1> HIDE DEF id, g
<1>6. \A x \in DOMAIN disk'.attempts : AttemptShown(x)'
  BY <1>1, <1>2, <1>3, AttemptFrame DEF CoreInv, LiveView, WorksOnAttempt
<1>7. ASSUME NEW x \in DOMAIN disk'.gates PROVE GateShown(x)'
  <2>1. CASE x = id
    BY <1>2, <1>3, <1>4, <2>1, GateAgrees DEF WorksOnGate
  <2>2. CASE x # id
    <3>1. /\ x \in DOMAIN disk.gates
          /\ mem'.gates[x] = mem.gates[x] /\ disk'.gates[x] = disk.gates[x]
      BY <1>1, <1>7, <2>2 DEF Put, CoreInv, TypeInv, SameKeys
    <3> QED
      BY <1>1, <1>3, <2>2, <3>1, GateFrame DEF CoreInv, LiveView, WorksOnGate
  <2> QED
    BY <2>1, <2>2
<1>8. SameRest'
  BY <1>1 DEF CoreInv, SameRest, BeginGate, ApplyGateIntent, WithGates, OneMoreCall
<1>9. OpenCallShape'
  BY <1>1 DEF CoreInv, OpenCallShape, InFlight
<1>10. HandlerOpen'
  <2>1. GateMatches'
    BY <1>1, <1>2, <1>3, <1>4, <1>5 DEF GateMatches, Calling, Mounted
  <2> QED
    BY <1>1, <2>1 DEF HandlerOpen
<1> QED
  BY <1>6, <1>7, <1>8, <1>9, <1>10 DEF CoreInv, LiveView

LEMMA CoreDispose ==
  ASSUME CoreInv, TypeInv', NEW e \in Envelopes, NEW d \in Final, DisposeLate(e, d)
  PROVE  CoreInv'
<1> DEFINE k == AttemptKey(e)
           a == [disk.attempts[k] EXCEPT !.state = d, !.inFlight = NoCall, !.ambiguous = FALSE]
<1>1. /\ k \in DOMAIN mem.attempts /\ k \in DOMAIN disk.attempts
      /\ mem.attempts[k] \in Attempt /\ disk.attempts[k] \in Attempt
      /\ up /\ up' /\ handler = Idle /\ handler' = Idle
  BY DEF DisposeLate, Owns, Accepting, CoreInv, TypeInv, SameKeys, TypeOK, StoreOK
<1>2. a = [mem.attempts[k] EXCEPT !.state = d, !.inFlight = NoCall, !.ambiguous = FALSE]
  <2>1. mem.attempts[k] = disk.attempts[k] \/ mem.attempts[k] = Late(disk.attempts[k])
    BY <1>1 DEF CoreInv, LiveView, AttemptShown
  <2> QED
    BY <1>1, <2>1 DEF Late, Attempt
<1>3. /\ mem'.attempts = [mem.attempts EXCEPT ![k] = a]
      /\ disk'.attempts = [disk.attempts EXCEPT ![k] = a]
      /\ mem'.gates = mem.gates /\ disk'.gates = disk.gates
  BY <1>2 DEF DisposeLate, ApplyDisposition, WithAttempts
<1>4. a.inFlight = NoCall
  BY <1>1 DEF Attempt
<1> HIDE DEF a
<1>5. handler.phase = "idle" /\ handler'.phase = "idle"
  BY <1>1 DEF Idle
<1>6. LiveView'
  BY <1>1, <1>3, <1>4, <1>5, ReplaceShown DEF WorksOnAttempt, WorksOnGate
<1>7. SameRest'
  BY DEF CoreInv, SameRest, DisposeLate, ApplyDisposition, WithAttempts
<1>8. OpenCallShape'
  BY <1>3, <1>4 DEF CoreInv, OpenCallShape, InFlight
<1> QED
  BY <1>1, <1>6, <1>7, <1>8 DEF CoreInv, HandlerOpen

LEMMA CoreEngine ==
  ASSUME CoreInv, TypeInv', CallEngine
  PROVE  CoreInv'
<1>1. handler \in Busy /\ handler # Idle
  BY DEF CallEngine, CoreInv, TypeInv, TypeOK, Idle
<1>2. /\ handler'.id = handler.id /\ handler'.env = handler.env
      /\ handler'.phase # "idle" /\ handler.phase # "idle"
      /\ UNCHANGED <<up, mem, disk, counter>>
  BY <1>1 DEF CallEngine, Busy
<1>3. LiveView' /\ SameRest' /\ OpenCallShape'
  <2>1. \A k \in DOMAIN disk.attempts : AttemptShown(k) => AttemptShown(k)'
    BY <1>2 DEF AttemptShown, WorksOnAttempt, InFlight
  <2>2. \A id \in DOMAIN disk.gates : GateShown(id) => GateShown(id)'
    BY <1>2 DEF GateShown, WorksOnGate, Calling
  <2>3. SameRest' /\ OpenCallShape'
    BY <1>2 DEF CoreInv, SameRest, OpenCallShape, InFlight
  <2> QED
    BY <1>2, <2>1, <2>2, <2>3 DEF CoreInv, LiveView
<1>4. HandlerOpen'
  BY <1>1, <1>2 DEF CoreInv, HandlerOpen, GateMatches, CallMatches, Calling, Mounted, Owns, AttemptOf
<1> QED
  BY <1>3, <1>4 DEF CoreInv

(* An answer about the attempt of the handler's call.                      *)
LEMMA CoreAnswerCall ==
  ASSUME CoreInv, TypeInv', up, handler # Idle,
         NEW kind \in {"dispatch", "result"}, CallMatches(kind),
         NEW a, NEW active, NEW active2,
         a.inFlight = NoCall,
         Answer(WithAttempts(mem, [mem.attempts EXCEPT ![AttemptKey(handler.env)] = a],
                             mem.count, active),
                WithAttempts(disk, [disk.attempts EXCEPT ![AttemptKey(handler.env)] = a],
                             disk.count, active2))
  PROVE  CoreInv'
<1> DEFINE e == handler.env
           k == AttemptKey(e)
<1>1. e \in Envelopes /\ k \in DOMAIN disk.attempts /\ handler.id.kind = kind /\ handler.phase # "idle"
  BY HandlerCases DEF CallMatches, Owns, CoreInv, TypeInv, SameKeys, Busy
<1>2. /\ mem'.attempts = [mem.attempts EXCEPT ![k] = a]
      /\ disk'.attempts = [disk.attempts EXCEPT ![k] = a]
      /\ mem'.gates = mem.gates /\ disk'.gates = disk.gates
      /\ handler' = Idle /\ handler'.phase = "idle" /\ up'
  BY DEF Answer, WithAttempts, Idle
<1>3. LiveView'
  <2>1. \A x \in Keys : x # k => ~WorksOnAttempt(x) /\ ~WorksOnAttempt(x)'
    BY <1>2 DEF WorksOnAttempt
  <2>2. \A x \in CallIds : ~WorksOnGate(x) /\ ~WorksOnGate(x)'
    BY <1>1, <1>2 DEF WorksOnGate
  <2> QED
    BY <1>1, <1>2, <2>1, <2>2, ReplaceShown
<1>4. SameRest'
  BY DEF CoreInv, SameRest, Answer, WithAttempts
<1>5. OpenCallShape'
  BY <1>1, <1>2 DEF CoreInv, OpenCallShape, InFlight
<1> QED
  BY <1>2, <1>3, <1>4, <1>5 DEF CoreInv, HandlerOpen

LEMMA HandlerAttempt ==
  ASSUME CoreInv, up, handler # Idle, NEW kind \in {"dispatch", "result"}, CallMatches(kind)
  PROVE  LET k == AttemptKey(handler.env) IN
         /\ handler.env \in Envelopes
         /\ k \in DOMAIN mem.attempts /\ k \in DOMAIN disk.attempts
         /\ mem.attempts[k] = disk.attempts[k]
         /\ mem.attempts[k] \in Attempt
         /\ disk.attempts[k].inFlight = handler.id
         /\ disk.attempts[k].inFlight.kind = kind
         /\ k \in InFlight(disk)
<1> DEFINE k == AttemptKey(handler.env)
<1>1. /\ handler.env \in Envelopes /\ handler.id \in CallIds /\ handler.phase # "idle"
      /\ k \in DOMAIN mem.attempts /\ k \in DOMAIN disk.attempts
      /\ mem.attempts[k] \in Attempt /\ mem.attempts[k].inFlight = handler.id
      /\ handler.id.kind = kind
  BY HandlerCases DEF CoreInv, TypeInv, TypeOK, SameKeys, StoreOK, Busy, CallMatches, Owns, AttemptOf
<1>2. mem.attempts[k] = disk.attempts[k]
  BY <1>1 DEF CoreInv, LiveView, AttemptShown, WorksOnAttempt
<1> QED
  BY <1>1, <1>2, NoCallAssumption DEF InFlight

LEMMA CoreAcknowledge ==
  ASSUME CoreInv, TypeInv', AcknowledgeDispatch
  PROVE  CoreInv'
<1> DEFINE k == AttemptKey(handler.env)
           a == [mem.attempts[k] EXCEPT !.inFlight = NoCall, !.acked = TRUE, !.state = "RUNNING"]
<1>1. up /\ handler # Idle /\ CallMatches("dispatch")
  BY DEF AcknowledgeDispatch, Idle
<1>2. mem.attempts[k] = disk.attempts[k] /\ a.inFlight = NoCall
  BY <1>1, HandlerAttempt DEF Attempt
<1>3. Answer(WithAttempts(mem, [mem.attempts EXCEPT ![k] = a], mem.count, mem.active),
             WithAttempts(disk, [disk.attempts EXCEPT ![k] = a], disk.count, disk.active))
  BY <1>2 DEF AcknowledgeDispatch, ApplyDispatchAck
<1> HIDE DEF a
<1> QED
  BY <1>1, <1>2, <1>3, CoreAnswerCall

LEMMA CoreSettle ==
  ASSUME CoreInv, TypeInv', up, handler # Idle,
         NEW kind \in {"dispatch", "result"}, CallMatches(kind), NEW state,
         Answer(ApplySettled(mem, handler.env, state), ApplySettled(disk, handler.env, state))
  PROVE  CoreInv'
<1> DEFINE k == AttemptKey(handler.env)
           a == [mem.attempts[k] EXCEPT !.inFlight = NoCall, !.state = state]
<1>1. mem.attempts[k] = disk.attempts[k] /\ a.inFlight = NoCall
  BY HandlerAttempt DEF Attempt
<1>2. Answer(WithAttempts(mem, [mem.attempts EXCEPT ![k] = a], mem.count, Decrement(mem.active)),
             WithAttempts(disk, [disk.attempts EXCEPT ![k] = a], disk.count, Decrement(disk.active)))
  BY <1>1 DEF ApplySettled
<1> HIDE DEF a
<1> QED
  BY <1>1, <1>2, CoreAnswerCall

LEMMA CoreSettleGate ==
  ASSUME CoreInv, TypeInv', up, handler # Idle, GateMatches, NEW state \in {"RESULT", "STRANDED"},
         Answer(ApplyGateSettled(mem, handler.id, state), ApplyGateSettled(disk, handler.id, state))
  PROVE  CoreInv'
<1>0. PICK id : id = handler.id
  OBVIOUS
<1>1. /\ id \in DOMAIN mem.gates /\ id \in DOMAIN disk.gates /\ id.kind = "gate"
      /\ mem.gates[id] \in GateAttempt /\ handler.phase # "idle"
  BY <1>0, HandlerCases DEF CoreInv, TypeInv, TypeOK, SameKeys, StoreOK, GateMatches, Calling
<1>2. mem.gates[id] = disk.gates[id]
  BY <1>0, <1>1 DEF CoreInv, LiveView, GateShown, WorksOnGate
<1>3. /\ mem'.gates = [mem.gates EXCEPT ![id] = [@ EXCEPT !.state = state]]
      /\ disk'.gates = [disk.gates EXCEPT ![id] = [@ EXCEPT !.state = state]]
      /\ mem'.attempts = mem.attempts /\ disk'.attempts = disk.attempts
      /\ handler' = Idle /\ handler'.phase = "idle" /\ up'
  BY <1>0 DEF Answer, ApplyGateSettled, WithGates, Idle
<1>4. GateShown(id)'
  <2>1. mem'.gates[id] = disk'.gates[id] /\ disk'.gates[id].state = state
    BY <1>1, <1>2, <1>3 DEF GateAttempt
  <2> QED
    BY <2>1, GateAgrees
<1>5. ASSUME NEW x \in DOMAIN disk'.gates, x # id PROVE GateShown(x)'
  <2>1. /\ x \in DOMAIN disk.gates
        /\ mem'.gates[x] = mem.gates[x] /\ disk'.gates[x] = disk.gates[x]
    BY <1>1, <1>3, <1>5 DEF CoreInv, TypeInv, SameKeys
  <2> QED
    BY <1>0, <1>3, <1>5, <2>1, GateFrame DEF CoreInv, LiveView, WorksOnGate
<1>6. \A x \in DOMAIN disk'.attempts : AttemptShown(x)'
  BY <1>0, <1>1, <1>3, AttemptFrame DEF CoreInv, LiveView, WorksOnAttempt
<1>7. SameRest' /\ OpenCallShape'
  BY <1>3 DEF CoreInv, SameRest, OpenCallShape, InFlight, Answer, ApplyGateSettled, WithGates
<1> QED
  BY <1>3, <1>4, <1>5, <1>6, <1>7 DEF CoreInv, LiveView, HandlerOpen

LEMMA CoreComplete ==
  ASSUME CoreInv, TypeInv', Complete
  PROVE  CoreInv'
<1>1. up /\ handler # Idle
  BY DEF Complete, AcknowledgeDispatch, CompleteResult, FailCall, CompleteGate, FailGate, Idle
<1> QED
  BY <1>1, CoreAcknowledge, CoreSettle, CoreSettleGate
  DEF Complete, CompleteResult, FailCall, CompleteGate, FailGate

LEMMA CoreRestart ==
  ASSUME CoreInv, TypeInv', Restart
  PROVE  CoreInv'
<1>1. handler = Idle /\ handler' = Idle /\ handler'.phase = "idle" /\ disk' = disk
        /\ mem' = Recover(disk)
  BY DEF CoreInv, HandlerOpen, Restart, Idle
<1>2. SameRest'
  BY <1>1 DEF SameRest, Recover
<1>3. \A k \in DOMAIN disk'.attempts : AttemptShown(k)'
  BY <1>1 DEF AttemptShown, WorksOnAttempt, Recover, InFlight
<1>4. \A id \in DOMAIN disk'.gates : GateShown(id)'
  BY <1>1 DEF GateShown, WorksOnGate, Recover, Calling
<1>5. OpenCallShape'
  BY <1>1 DEF CoreInv, OpenCallShape, InFlight
<1> QED
  BY <1>1, <1>2, <1>3, <1>4, <1>5 DEF CoreInv, LiveView, HandlerOpen

LEMMA CoreStep == CoreInv /\ [Next]_vars => CoreInv'
<1> SUFFICES ASSUME CoreInv, [Next]_vars PROVE CoreInv'
  OBVIOUS
<1>1. TypeInv'
  BY TypeStep DEF CoreInv
<1>2. ASSUME NEW e \in Envelopes, BeginDispatch(e) PROVE CoreInv'
  BY <1>1, <1>2, CoreBeginCall DEF BeginDispatch, DispatchReady
<1>3. ASSUME NEW e \in Envelopes, BeginResult(e) PROVE CoreInv'
  BY <1>1, <1>3, CoreBeginCall DEF BeginResult, ResultReady
<1>4. ASSUME NEW e \in Envelopes, RefuseStaleBegin(e) PROVE CoreInv'
  <2>1. UNCHANGED <<up, mem, disk, handler, tasks, calls>>
    BY <1>4 DEF RefuseStaleBegin
  <2> QED
    BY <1>1, <2>1 DEF CoreInv, LiveView, AttemptShown, GateShown, SameRest, OpenCallShape, HandlerOpen,
       InFlight, Calling, WorksOnAttempt, WorksOnGate, GateMatches, CallMatches, Mounted, Owns, AttemptOf
<1>5. CASE Crash
  BY <1>1, <1>5 DEF Crash, CoreInv, LiveView, SameRest, OpenCallShape, HandlerOpen, InFlight
<1>6. CASE UNCHANGED vars
  BY <1>1, <1>6 DEF vars, CoreInv, LiveView, AttemptShown, GateShown, SameRest, OpenCallShape, HandlerOpen,
       InFlight, Calling, WorksOnAttempt, WorksOnGate, GateMatches, CallMatches, Mounted, Owns, AttemptOf
<1> QED
  BY <1>1, <1>2, <1>3, <1>4, <1>5, <1>6,
     CoreMount, CoreCast, CoreBeginGate, CoreDispose, CoreEngine, CoreComplete, CoreRestart
  DEF Next, Request

LEMMA CoreInvariant == Spec => []CoreInv
BY CoreInit, CoreStep, PTL DEF Spec

LEMMA ShownIsExposed == CoreInv => AmbiguityExposed
<1> SUFFICES ASSUME CoreInv, up PROVE AmbiguityExposed
  BY DEF AmbiguityExposed
<1>1. DOMAIN mem.attempts = DOMAIN disk.attempts /\ DOMAIN mem.gates = DOMAIN disk.gates
  BY DEF CoreInv, TypeInv, SameKeys
<1>2. ASSUME NEW k \in DOMAIN mem.attempts
      PROVE  /\ disk.attempts[k] \in Attempt
             /\ Late(disk.attempts[k]).state = "PENDING_LATE" /\ Late(disk.attempts[k]).ambiguous
  BY <1>1, <1>2 DEF Late, CoreInv, TypeInv, TypeOK, StoreOK, Attempt
<1>3. ASSUME NEW id \in DOMAIN mem.gates
      PROVE  Late(disk.gates[id]).state = "PENDING_LATE" /\ Late(disk.gates[id]).ambiguous
  BY <1>1, <1>3 DEF Late, CoreInv, TypeInv, TypeOK, StoreOK, GateAttempt
<1> QED
  BY <1>1, <1>2, <1>3 DEF AmbiguityExposed, CoreInv, LiveView, AttemptShown, GateShown

(* A call that was open when the process died is always shown as late and  *)
(* ambiguous, and the live maps say of everything else what the journal    *)
(* says: replay and the running process never disagree.                    *)
THEOREM AmbiguityIsExposed == Spec => []AmbiguityExposed
BY CoreInvariant, ShownIsExposed, PTL

LEMMA OpenIsAccepted == CoreInv => AnswerNeverRefused
BY DEF CoreInv, HandlerOpen, AnswerNeverRefused, Idle

(* Whatever the engine answered, the organ can journal it: the guards of   *)
(* the acknowledging operations hold whenever their handler reaches them.  *)
THEOREM AnswersAreAccepted == Spec => []AnswerNeverRefused
BY CoreInvariant, OpenIsAccepted, PTL

-----------------------------------------------------------------------------
(* Slots.                                                                  *)

Covered(s) == Cardinality(Occupied(s)) <= s.active

(* A slot counter never falls below the slots in use; and the attempts that *)
(* a restart would still count as running are within the cap.              *)
SlotInv ==
  /\ Covered(disk)
  /\ up => Covered(mem) /\ Cardinality(Occupied(mem)) <= MaxConcurrent
  /\ Cardinality(Occupied(disk) \ InFlight(disk)) <= MaxConcurrent

LEMMA StoreSetsFinite ==
  ASSUME NEW s, StoreOK(s)
  PROVE  /\ IsFiniteSet(Occupied(s)) /\ Cardinality(Occupied(s)) \in Nat
         /\ IsFiniteSet(InFlight(s)) /\ Cardinality(InFlight(s)) \in Nat
         /\ \A T \in SUBSET Occupied(s) :
              IsFiniteSet(T) /\ Cardinality(T) \in Nat /\ Cardinality(T) <= Cardinality(Occupied(s))
<1>1. Occupied(s) \in SUBSET Keys /\ InFlight(s) \in SUBSET Keys
  BY DEF Occupied, InFlight, StoreOK
<1>2. IsFiniteSet(Occupied(s)) /\ IsFiniteSet(InFlight(s))
  BY <1>1, KeysFinite, FS_Subset
<1> QED
  BY <1>2, FS_Subset, FS_CardinalityType

LEMMA OccupiedReplace ==
  ASSUME NEW s, NEW k \in DOMAIN s.attempts, NEW a, NEW count, NEW active, NEW t,
         t = WithAttempts(s, [s.attempts EXCEPT ![k] = a], count, active)
  PROVE  /\ t.active = active
         /\ a.state = "RUNNING" => Occupied(t) = Occupied(s) \cup {k}
         /\ a.state # "RUNNING" => Occupied(t) = Occupied(s) \ {k}
<1>1. t.active = active /\ t.attempts = [s.attempts EXCEPT ![k] = a]
  BY DEF WithAttempts
<1>2. \A x : x \in Occupied(t) <=> \/ x = k /\ a.state = "RUNNING"
                                   \/ x # k /\ x \in Occupied(s)
  BY <1>1 DEF Occupied
<1> QED
  BY <1>1, <1>2

LEMMA SlotsCast ==
  ASSUME NEW s, StoreOK(s), NEW e \in Envelopes, AttemptKey(e) \notin DOMAIN s.attempts
  PROVE  Occupied(ApplyCast(s, e)) = Occupied(s) /\ ApplyCast(s, e).active = s.active
BY DEF Occupied, ApplyCast, WithAttempts, Put

LEMMA SlotsIntent ==
  ASSUME NEW s, StoreOK(s), Covered(s), NEW e \in Envelopes, NEW id \in CallIds,
         AttemptKey(e) \in DOMAIN s.attempts,
         id.kind = "dispatch" \/ AttemptKey(e) \in Occupied(s)
  PROVE  LET t == ApplyCallIntent(s, e, id) IN
         /\ Covered(t)
         /\ Occupied(t) = Occupied(s) \cup {AttemptKey(e)}
         /\ t.active = IF id.kind = "dispatch" THEN s.active + 1 ELSE s.active
<1> DEFINE k == AttemptKey(e)
           a == [s.attempts[k] EXCEPT !.inFlight = id, !.state = "RUNNING"]
           t == ApplyCallIntent(s, e, id)
<1>1. a.state = "RUNNING"
  BY DEF StoreOK, Attempt
<1>2. t = WithAttempts(s, [s.attempts EXCEPT ![k] = a], OneMoreCall(s, e),
                       IF id.kind = "dispatch" THEN s.active + 1 ELSE s.active)
  BY DEF ApplyCallIntent
<1> HIDE DEF a, t
<1>3. /\ Occupied(t) = Occupied(s) \cup {k}
      /\ t.active = IF id.kind = "dispatch" THEN s.active + 1 ELSE s.active
  <2> DEFINE n == IF id.kind = "dispatch" THEN s.active + 1 ELSE s.active
  <2>1. t = WithAttempts(s, [s.attempts EXCEPT ![k] = a], OneMoreCall(s, e), n)
    BY <1>2
  <2> HIDE DEF n
  <2>2. t.active = n /\ Occupied(t) = Occupied(s) \cup {k}
    BY <1>1, <2>1, OccupiedReplace
  <2> QED
    BY <2>2 DEF n
<1>4. Cardinality(Occupied(s) \cup {k}) =
        IF k \in Occupied(s) THEN Cardinality(Occupied(s)) ELSE Cardinality(Occupied(s)) + 1
  BY StoreSetsFinite, FS_AddElement
<1>5. Covered(t)
  BY <1>3, <1>4, StoreSetsFinite DEF Covered, StoreOK
<1> QED
  BY <1>3, <1>5 DEF t

LEMMA SlotsAck ==
  ASSUME NEW s, StoreOK(s), NEW e \in Envelopes, AttemptKey(e) \in Occupied(s)
  PROVE  LET t == ApplyDispatchAck(s, e) IN
         Occupied(t) = Occupied(s) /\ t.active = s.active
<1> DEFINE k == AttemptKey(e)
           a == [s.attempts[k] EXCEPT !.inFlight = NoCall, !.acked = TRUE, !.state = "RUNNING"]
<1>1. k \in DOMAIN s.attempts /\ a.state = "RUNNING"
  BY DEF StoreOK, Attempt, Occupied
<1>2. ApplyDispatchAck(s, e) = WithAttempts(s, [s.attempts EXCEPT ![k] = a], s.count, s.active)
  BY DEF ApplyDispatchAck
<1> HIDE DEF a
<1>3. /\ Occupied(ApplyDispatchAck(s, e)) = Occupied(s) \cup {k}
      /\ ApplyDispatchAck(s, e).active = s.active
  BY <1>1, <1>2, OccupiedReplace
<1>4. Occupied(s) \cup {k} = Occupied(s)
  OBVIOUS
<1> QED
  BY <1>3, <1>4

LEMMA SlotsSettled ==
  ASSUME NEW s, StoreOK(s), Covered(s), NEW e \in Envelopes, AttemptKey(e) \in Occupied(s),
         NEW state \in {"RESULT", "STRANDED"}
  PROVE  LET t == ApplySettled(s, e, state) IN
         Covered(t) /\ Occupied(t) = Occupied(s) \ {AttemptKey(e)}
<1> DEFINE k == AttemptKey(e)
           a == [s.attempts[k] EXCEPT !.inFlight = NoCall, !.state = state]
           t == ApplySettled(s, e, state)
<1>1. k \in DOMAIN s.attempts /\ a.state = state
  BY DEF StoreOK, Attempt, Occupied
<1>2. t = WithAttempts(s, [s.attempts EXCEPT ![k] = a], s.count, Decrement(s.active))
  BY DEF ApplySettled
<1> HIDE DEF a, t
<1>3. Occupied(t) = Occupied(s) \ {k} /\ t.active = Decrement(s.active)
  BY <1>1, <1>2, OccupiedReplace
<1>4. Cardinality(Occupied(s) \ {k}) = Cardinality(Occupied(s)) - 1
  BY StoreSetsFinite, FS_RemoveElement
<1>5. Covered(t)
  BY <1>3, <1>4, StoreSetsFinite DEF Covered, StoreOK, Decrement
<1> QED
  BY <1>3, <1>5 DEF t

LEMMA SlotsDisposed ==
  ASSUME NEW s, StoreOK(s), NEW e \in Envelopes, AttemptKey(e) \in DOMAIN s.attempts, NEW d \in Final
  PROVE  LET t == ApplyDisposition(s, e, d) IN
         Occupied(t) = Occupied(s) \ {AttemptKey(e)} /\ t.active = s.active
<1> DEFINE k == AttemptKey(e)
           a == [s.attempts[k] EXCEPT !.state = d, !.inFlight = NoCall, !.ambiguous = FALSE]
<1>1. a.state # "RUNNING"
  BY DEF StoreOK, Attempt, Final
<1>2. ApplyDisposition(s, e, d) = WithAttempts(s, [s.attempts EXCEPT ![k] = a], s.count, s.active)
  BY DEF ApplyDisposition
<1> HIDE DEF a
<1> QED
  BY <1>1, <1>2, OccupiedReplace

(* Replay gives back one slot for every attempt it turns late: all of them *)
(* were running, so what is left still covers the attempts that are.       *)
LEMMA SlotsRecover ==
  ASSUME NEW s, StoreOK(s), Covered(s), InFlight(s) \subseteq Occupied(s)
  PROVE  Covered(Recover(s)) /\ Occupied(Recover(s)) = Occupied(s) \ InFlight(s)
<1>1. \A k \in DOMAIN s.attempts : Late(s.attempts[k]).state = "PENDING_LATE"
  BY DEF Late, StoreOK, Attempt
<1>2. Occupied(Recover(s)) = Occupied(s) \ InFlight(s)
  BY <1>1 DEF Occupied, Recover, InFlight
<1>3. Occupied(s) \ InFlight(s) \in SUBSET Occupied(s)
  OBVIOUS
<1>4. Cardinality(Occupied(s)) = Cardinality(Occupied(s) \ InFlight(s)) + Cardinality(InFlight(s))
  <2>1. /\ IsFiniteSet(Occupied(s) \ InFlight(s)) /\ IsFiniteSet(InFlight(s))
        /\ Cardinality(Occupied(s) \ InFlight(s)) \in Nat /\ Cardinality(InFlight(s)) \in Nat
    BY <1>3, StoreSetsFinite
  <2>2. (Occupied(s) \ InFlight(s)) \cap InFlight(s) = {}
          /\ (Occupied(s) \ InFlight(s)) \cup InFlight(s) = Occupied(s)
    OBVIOUS
  <2> QED
    BY <2>1, <2>2, FS_Union, FS_EmptySet
<1>5. Cardinality(Occupied(s) \ InFlight(s)) \in Nat /\ Cardinality(InFlight(s)) \in Nat
  BY <1>3, StoreSetsFinite
<1>6. Recover(s).active >= s.active - Cardinality(InFlight(s))
  BY <1>5 DEF Recover, StoreOK
<1>7. Recover(s).active \in Nat /\ s.active \in Nat
  BY <1>5 DEF Recover, StoreOK
<1>8. Cardinality(Occupied(Recover(s))) <= Recover(s).active
  BY <1>2, <1>4, <1>5, <1>6, <1>7 DEF Covered
<1> QED
  BY <1>2, <1>8 DEF Covered

(* What the journal alone would count as running is live and running.      *)
LEMMA DurableRunning ==
  CoreInv /\ up /\ Cardinality(Occupied(mem)) <= MaxConcurrent
    => Cardinality(Occupied(disk) \ InFlight(disk)) <= MaxConcurrent
<1> SUFFICES ASSUME CoreInv, up, Cardinality(Occupied(mem)) <= MaxConcurrent
             PROVE  Cardinality(Occupied(disk) \ InFlight(disk)) <= MaxConcurrent
  OBVIOUS
<1>1. Occupied(disk) \ InFlight(disk) \in SUBSET Occupied(mem)
  BY DEF CoreInv, TypeInv, SameKeys, LiveView, AttemptShown, Occupied
<1>2. Cardinality(Occupied(disk) \ InFlight(disk)) <= Cardinality(Occupied(mem))
        /\ Cardinality(Occupied(mem)) \in Nat /\ Cardinality(Occupied(disk) \ InFlight(disk)) \in Nat
  BY <1>1, StoreSetsFinite DEF CoreInv, TypeInv, TypeOK
<1> QED
  BY <1>2, PolicyAssumption

(* The handler's attempt holds a slot in both stores.                      *)
LEMMA HandlerOccupies ==
  ASSUME CoreInv, up, handler # Idle, NEW kind \in {"dispatch", "result"}, CallMatches(kind)
  PROVE  /\ handler.env \in Envelopes
         /\ AttemptKey(handler.env) \in Occupied(mem)
         /\ AttemptKey(handler.env) \in Occupied(disk)
BY HandlerAttempt DEF CoreInv, OpenCallShape, Occupied

LEMMA SlotStep == CoreInv /\ CoreInv' /\ SlotInv /\ [Next]_vars => SlotInv'
<1> SUFFICES ASSUME CoreInv, CoreInv', SlotInv, [Next]_vars PROVE SlotInv'
  OBVIOUS
<1>1. StoreOK(mem) /\ StoreOK(disk)
  BY DEF CoreInv, TypeInv, TypeOK
<1>2. /\ Cardinality(Occupied(mem)) \in Nat /\ Cardinality(Occupied(disk)) \in Nat
      /\ mem.active \in Nat /\ disk.active \in Nat
  BY <1>1, StoreSetsFinite DEF StoreOK
<1>3. ASSUME up', Covered(mem'), Covered(disk'), Cardinality(Occupied(mem')) <= MaxConcurrent
      PROVE  SlotInv'
  <2>1. (CoreInv /\ up /\ Cardinality(Occupied(mem)) <= MaxConcurrent
           => Cardinality(Occupied(disk) \ InFlight(disk)) <= MaxConcurrent)'
    BY DurableRunning, PTL
  <2> QED
    BY <1>3, <2>1 DEF SlotInv, Covered
<1>4. ASSUME up, up', Occupied(mem') = Occupied(mem), mem'.active = mem.active,
             Occupied(disk') = Occupied(disk), disk'.active = disk.active
      PROVE  SlotInv'
  BY <1>3, <1>4 DEF SlotInv, Covered
<1>5. ASSUME NEW e \in Envelopes, Mount(e) PROVE SlotInv'
  BY <1>4, <1>5 DEF Mount, Accepting, ApplyMounted, WithMounts, Occupied
<1>6. ASSUME NEW e \in Envelopes, Cast(e) PROVE SlotInv'
  <2>1. AttemptKey(e) \notin DOMAIN mem.attempts /\ AttemptKey(e) \notin DOMAIN disk.attempts
    BY <1>6 DEF Cast, Accepting, CoreInv, TypeInv, SameKeys
  <2> QED
    BY <1>1, <1>4, <1>6, <2>1, SlotsCast DEF Cast, Accepting
<1>7. ASSUME NEW e \in Envelopes, BeginDispatch(e) PROVE SlotInv'
  <2> DEFINE id == NextCallId(e, "dispatch")
             k == AttemptKey(e)
  <2>1. /\ id \in CallIds /\ id.kind = "dispatch" /\ up /\ up' /\ mem.active < MaxConcurrent
        /\ k \in DOMAIN mem.attempts /\ k \in DOMAIN disk.attempts
        /\ mem' = ApplyCallIntent(mem, e, id) /\ disk' = ApplyCallIntent(disk, e, id)
    BY <1>7, NextCallIdType
    DEF BeginDispatch, DispatchReady, BeginCall, Accepting, Owns, CoreInv, TypeInv, SameKeys
  <2> HIDE DEF id
  <2>2. Covered(mem) /\ Covered(disk)
    BY <2>1 DEF SlotInv
  <2>3. Covered(mem') /\ Covered(disk') /\ mem'.active = mem.active + 1
    BY <1>1, <2>1, <2>2, SlotsIntent
  <2>4. Cardinality(Occupied(mem')) \in Nat
    BY StoreSetsFinite DEF CoreInv, TypeInv, TypeOK
  <2>5. Cardinality(Occupied(mem')) <= MaxConcurrent
    BY <1>2, <2>1, <2>3, <2>4, PolicyAssumption DEF Covered
  <2> QED
    BY <1>3, <2>1, <2>3, <2>5
<1>8. ASSUME NEW e \in Envelopes, BeginResult(e) PROVE SlotInv'
  <2> DEFINE id == NextCallId(e, "result")
             k == AttemptKey(e)
  <2>1. /\ id \in CallIds /\ id.kind = "result" /\ up /\ up'
        /\ k \in DOMAIN mem.attempts /\ k \in DOMAIN disk.attempts
        /\ mem.attempts[k].state = "RUNNING"
        /\ mem' = ApplyCallIntent(mem, e, id) /\ disk' = ApplyCallIntent(disk, e, id)
    BY <1>8, NextCallIdType
    DEF BeginResult, ResultReady, BeginCall, Accepting, Owns, AttemptOf, CoreInv, TypeInv, SameKeys
  <2> HIDE DEF id
  <2>2. k \in Occupied(mem) /\ k \in Occupied(disk)
    BY <2>1, LiveIsDurable DEF Occupied
  <2>3. Covered(mem) /\ Covered(disk)
    BY <2>1 DEF SlotInv
  <2>4. /\ Occupied(mem') = Occupied(mem) \cup {k} /\ mem'.active = mem.active
        /\ Occupied(disk') = Occupied(disk) \cup {k} /\ disk'.active = disk.active
    BY <1>1, <2>1, <2>2, <2>3, SlotsIntent
  <2>5. Occupied(mem') = Occupied(mem) /\ Occupied(disk') = Occupied(disk)
    BY <2>2, <2>4
  <2> QED
    BY <1>4, <2>1, <2>4, <2>5
<1>9. ASSUME NEW e \in Envelopes, BeginGate(e) PROVE SlotInv'
  BY <1>4, <1>9 DEF BeginGate, Accepting, ApplyGateIntent, WithGates, Occupied
<1>10. ASSUME NEW e \in Envelopes, RefuseStaleBegin(e) PROVE SlotInv'
  BY <1>4, <1>10 DEF RefuseStaleBegin, Accepting
<1>11. ASSUME NEW e \in Envelopes, NEW d \in Final, DisposeLate(e, d) PROVE SlotInv'
  <2> DEFINE k == AttemptKey(e)
  <2>1. /\ k \in DOMAIN mem.attempts /\ k \in DOMAIN disk.attempts /\ up /\ up'
        /\ mem' = ApplyDisposition(mem, e, d) /\ disk' = ApplyDisposition(disk, e, d)
    BY <1>11 DEF DisposeLate, Accepting, Owns, CoreInv, TypeInv, SameKeys
  <2>2. /\ Occupied(mem') = Occupied(mem) \ {k} /\ mem'.active = mem.active
        /\ Occupied(disk') = Occupied(disk) \ {k} /\ disk'.active = disk.active
    BY <1>1, <2>1, SlotsDisposed
  <2>3. /\ Cardinality(Occupied(mem) \ {k}) <= Cardinality(Occupied(mem))
        /\ Cardinality(Occupied(disk) \ {k}) <= Cardinality(Occupied(disk))
        /\ Cardinality(Occupied(mem) \ {k}) \in Nat /\ Cardinality(Occupied(disk) \ {k}) \in Nat
    BY <1>1, StoreSetsFinite
  <2> QED
    BY <1>2, <1>3, <2>1, <2>2, <2>3, PolicyAssumption DEF SlotInv, Covered
<1>12. ASSUME CallEngine PROVE SlotInv'
  BY <1>4, <1>12 DEF CallEngine
<1>13. ASSUME AcknowledgeDispatch PROVE SlotInv'
  <2>1. up /\ up' /\ handler # Idle /\ CallMatches("dispatch")
    BY <1>13 DEF AcknowledgeDispatch, Answer, Idle
  <2>2. /\ handler.env \in Envelopes
        /\ AttemptKey(handler.env) \in Occupied(mem) /\ AttemptKey(handler.env) \in Occupied(disk)
    BY <2>1, HandlerOccupies
  <2> QED
    BY <1>1, <1>4, <1>13, <2>1, <2>2, SlotsAck DEF AcknowledgeDispatch, Answer
<1>14. ASSUME NEW kind \in {"dispatch", "result"}, up, handler # Idle, CallMatches(kind),
              NEW state \in {"RESULT", "STRANDED"},
              Answer(ApplySettled(mem, handler.env, state), ApplySettled(disk, handler.env, state))
       PROVE  SlotInv'
  <2> DEFINE k == AttemptKey(handler.env)
  <2>1. handler.env \in Envelopes /\ k \in Occupied(mem) /\ k \in Occupied(disk)
    BY <1>14, HandlerOccupies
  <2>2. /\ up' /\ Covered(mem) /\ Covered(disk)
        /\ mem' = ApplySettled(mem, handler.env, state) /\ disk' = ApplySettled(disk, handler.env, state)
    BY <1>14 DEF Answer, SlotInv
  <2>3. Covered(mem') /\ Covered(disk') /\ Occupied(mem') = Occupied(mem) \ {k}
    BY <1>1, <2>1, <2>2, SlotsSettled
  <2>4. Cardinality(Occupied(mem) \ {k}) <= Cardinality(Occupied(mem))
          /\ Cardinality(Occupied(mem) \ {k}) \in Nat
    BY <1>1, StoreSetsFinite
  <2>5. Cardinality(Occupied(mem')) <= MaxConcurrent
    BY <1>2, <1>14, <2>3, <2>4, PolicyAssumption DEF SlotInv
  <2> QED
    BY <1>3, <2>2, <2>3, <2>5
<1>15. ASSUME NEW state, up, Answer(ApplyGateSettled(mem, handler.id, state),
                                    ApplyGateSettled(disk, handler.id, state))
       PROVE  SlotInv'
  BY <1>4, <1>15 DEF Answer, ApplyGateSettled, WithGates, Occupied
<1>16. ASSUME Complete PROVE SlotInv'
  <2>1. up /\ handler # Idle
    BY <1>16 DEF Complete, AcknowledgeDispatch, CompleteResult, FailCall, CompleteGate, FailGate, Idle
  <2> QED
    BY <1>13, <1>14, <1>15, <1>16, <2>1 DEF Complete, CompleteResult, FailCall, CompleteGate, FailGate
<1>17. ASSUME Crash PROVE SlotInv'
  BY <1>17 DEF Crash, SlotInv, Covered
<1>18. ASSUME Restart PROVE SlotInv'
  <2>1. InFlight(disk) \subseteq Occupied(disk)
    BY DEF CoreInv, OpenCallShape, InFlight, Occupied
  <2>2. mem' = Recover(disk) /\ disk' = disk /\ up' /\ Covered(disk)
    BY <1>18 DEF Restart, SlotInv
  <2>3. Covered(mem') /\ Occupied(mem') = Occupied(disk) \ InFlight(disk)
    BY <1>1, <2>1, <2>2, SlotsRecover
  <2> QED
    BY <1>3, <2>2, <2>3 DEF SlotInv
<1>19. CASE UNCHANGED vars
  BY <1>19 DEF vars, SlotInv, Covered
<1> QED
  BY <1>5, <1>6, <1>7, <1>8, <1>9, <1>10, <1>11, <1>12, <1>16, <1>17, <1>18, <1>19 DEF Next, Request

LEMMA SlotInit == Init => SlotInv
<1> SUFFICES ASSUME Init PROVE SlotInv
  OBVIOUS
<1>1. Occupied(mem) = {} /\ Occupied(disk) = {} /\ mem.active = 0 /\ disk.active = 0
  BY DEF Init, EmptyStore, EmptyMap, Occupied
<1> QED
  BY <1>1, FS_EmptySet, PolicyAssumption DEF SlotInv, Covered

(* However often the organ dies and replays its journal, the attempts that *)
(* hold a dispatch slot never exceed max_concurrent_dispatches.            *)
THEOREM CapIsRespected == Spec => []CapRespected
<1>1. SlotInv => CapRespected
  BY DEF SlotInv, CapRespected
<1> QED
  BY <1>1, SlotInit, CoreInvariant, SlotStep, PTL DEF Spec

-----------------------------------------------------------------------------
(* Tasks and calls that the engine received.                               *)

TaskOf(k) ==
  /\ tasks[k] <= 1
  /\ k \notin DOMAIN disk.attempts => tasks[k] = 0
  /\ k \in DOMAIN disk.attempts =>
       /\ disk.attempts[k].state = "CAST" => tasks[k] = 0
       /\ disk.attempts[k].acked \/ disk.attempts[k].state = "RESULT" => tasks[k] = 1

(* The engine has an attempt's task once at most, not before the intent is *)
(* journaled, and surely when an acknowledgement or a result is.           *)
TaskInv ==
  /\ \A k \in Keys : TaskOf(k)
  /\ handler.phase # "idle" /\ handler.id.kind = "dispatch" =>
       /\ handler.phase = "reserved" => tasks[AttemptKey(handler.env)] = 0
       /\ handler.phase = "answered" => tasks[AttemptKey(handler.env)] = 1

LEMMA TaskFrame ==
  ASSUME NEW k, TaskOf(k), tasks'[k] = tasks[k],
         k \in DOMAIN disk'.attempts <=> k \in DOMAIN disk.attempts,
         k \in DOMAIN disk.attempts => disk'.attempts[k] = disk.attempts[k]
  PROVE  TaskOf(k)'
BY DEF TaskOf

(* A record that changes the attempt of e, and no task is sent meanwhile.  *)
LEMMA TaskReplace ==
  ASSUME CoreInv, TaskInv, tasks' = tasks, NEW e \in Envelopes, NEW a,
         AttemptKey(e) \in DOMAIN disk.attempts,
         disk'.attempts = [disk.attempts EXCEPT ![AttemptKey(e)] = a],
         a.state # "CAST",
         a.acked \/ a.state = "RESULT" => tasks[AttemptKey(e)] = 1
  PROVE  \A k \in Keys : TaskOf(k)'
<1> TAKE k \in Keys
<1>1. CASE k = AttemptKey(e)
  BY <1>1 DEF TaskInv, TaskOf
<1>2. CASE k # AttemptKey(e)
  BY <1>2, TaskFrame DEF TaskInv
<1> QED
  BY <1>1, <1>2

LEMMA TaskStep == CoreInv /\ CoreInv' /\ TaskInv /\ [Next]_vars => TaskInv'
<1> SUFFICES ASSUME CoreInv, CoreInv', TaskInv, [Next]_vars PROVE TaskInv'
  OBVIOUS
<1>1. tasks \in [Keys -> Nat] /\ StoreOK(disk) /\ StoreOK(mem)
  BY DEF CoreInv, TypeInv, TypeOK
<1>2. ASSUME UNCHANGED <<tasks, handler>>, disk'.attempts = disk.attempts PROVE TaskInv'
  BY <1>2 DEF TaskInv, TaskOf
<1>3. ASSUME NEW e \in Envelopes, Mount(e) PROVE TaskInv'
  BY <1>2, <1>3 DEF Mount, ApplyMounted, WithMounts
<1>4. ASSUME NEW e \in Envelopes, Cast(e) PROVE TaskInv'
  <2> DEFINE k == AttemptKey(e)
  <2>1. k \in Keys /\ k \notin DOMAIN disk.attempts
    BY <1>4, KeyInKeys DEF Cast, Accepting, CoreInv, TypeInv, SameKeys
  <2>2. TaskOf(k)'
    BY <1>4, <2>1 DEF TaskInv, TaskOf, Cast, ApplyCast, WithAttempts, Put
  <2>3. ASSUME NEW x \in Keys, x # k PROVE TaskOf(x)'
    BY <1>4, <2>3, TaskFrame DEF TaskInv, Cast, ApplyCast, WithAttempts, Put
  <2> QED
    BY <1>4, <2>2, <2>3 DEF TaskInv, Cast, Accepting
<1>5. ASSUME NEW e \in Envelopes, NEW kind \in {"dispatch", "result"}, Accepting, Owns(e),
             BeginCall(e, kind), AttemptOf(e).state \in {"CAST", "RUNNING"},
             kind = "dispatch" => AttemptOf(e).state = "CAST"
      PROVE  TaskInv'
  <2> DEFINE k == AttemptKey(e)
             a == [disk.attempts[k] EXCEPT !.inFlight = NextCallId(e, kind), !.state = "RUNNING"]
  <2>1. /\ k \in DOMAIN disk.attempts /\ mem.attempts[k] = disk.attempts[k]
        /\ disk.attempts[k] \in Attempt /\ k \in Keys
    BY <1>1, <1>5, LiveIsDurable, KeyInKeys
    DEF Accepting, Owns, AttemptOf, CoreInv, TypeInv, SameKeys, StoreOK
  <2>2. a.state = "RUNNING" /\ a.acked = disk.attempts[k].acked
    BY <2>1 DEF Attempt
  <2>3. disk'.attempts = [disk.attempts EXCEPT ![k] = a] /\ tasks' = tasks
    BY <1>5 DEF BeginCall, ApplyCallIntent, WithAttempts
  <2>4. a.acked => tasks[k] = 1
    BY <2>1, <2>2 DEF TaskInv, TaskOf
  <2> HIDE DEF a
  <2>5. \A x \in Keys : TaskOf(x)'
    BY <2>1, <2>2, <2>3, <2>4, TaskReplace
  <2>6. kind = "dispatch" => tasks[k] = 0
    BY <1>5, <2>1 DEF AttemptOf, TaskInv, TaskOf
  <2>7. /\ handler'.phase = "reserved" /\ handler'.env = e /\ handler'.id.kind = kind
    BY <1>5, NextCallIdType DEF BeginCall, CoreInv, TypeInv
  <2> QED
    BY <2>3, <2>5, <2>6, <2>7 DEF TaskInv
<1>6. ASSUME NEW e \in Envelopes, BeginGate(e) PROVE TaskInv'
  <2>1. handler'.id.kind = "gate"
    BY <1>6, NextCallIdType DEF BeginGate, CoreInv, TypeInv
  <2>2. \A x \in Keys : TaskOf(x)'
    BY <1>6 DEF BeginGate, ApplyGateIntent, WithGates, TaskInv, TaskOf
  <2> QED
    BY <2>1, <2>2 DEF TaskInv
<1>7. ASSUME NEW e \in Envelopes, NEW d \in Final, DisposeLate(e, d) PROVE TaskInv'
  <2> DEFINE k == AttemptKey(e)
             a == [disk.attempts[k] EXCEPT !.state = d, !.inFlight = NoCall, !.ambiguous = FALSE]
  <2>1. k \in DOMAIN disk.attempts /\ disk.attempts[k] \in Attempt /\ k \in Keys
    BY <1>1, <1>7, KeyInKeys DEF DisposeLate, Accepting, Owns, CoreInv, TypeInv, SameKeys, StoreOK
  <2>2. a.state = d /\ a.acked = disk.attempts[k].acked /\ d # "CAST" /\ d # "RESULT"
    BY <2>1 DEF Attempt, Final
  <2>3. disk'.attempts = [disk.attempts EXCEPT ![k] = a] /\ tasks' = tasks /\ handler' = handler
          /\ handler.phase = "idle"
    BY <1>7 DEF DisposeLate, ApplyDisposition, WithAttempts, Accepting, Idle
  <2>4. a.acked => tasks[k] = 1
    BY <2>1, <2>2 DEF TaskInv, TaskOf
  <2> HIDE DEF a
  <2>5. \A x \in Keys : TaskOf(x)'
    BY <2>1, <2>2, <2>3, <2>4, TaskReplace
  <2> QED
    BY <2>3, <2>5 DEF TaskInv
<1>8. ASSUME CallEngine PROVE TaskInv'
  <2>0. PICK k : k = AttemptKey(handler.env)
    OBVIOUS
  <2>1. handler \in Busy /\ handler # Idle /\ handler.phase = "reserved" /\ up /\ disk' = disk
    BY <1>8 DEF CallEngine, CoreInv, TypeInv, TypeOK, Idle
  <2>2. handler'.id = handler.id /\ handler'.env = handler.env
    BY <1>8, <2>1 DEF CallEngine, Busy
  <2>3. CASE handler.id.kind = "dispatch"
    <3>1. CallMatches("dispatch")
      BY <2>1, <2>3 DEF CoreInv, HandlerOpen, GateMatches, CallMatches
    <3>2. k \in Keys /\ k \in InFlight(disk) /\ disk.attempts[k].state = "RUNNING" /\ tasks[k] = 0
      BY <1>1, <2>0, <2>1, <2>3, <3>1, HandlerAttempt, KeyInKeys DEF CoreInv, OpenCallShape, TaskInv
    <3>3. PICK reached \in BOOLEAN, answered \in BOOLEAN :
            /\ answered => reached
            /\ handler' = [handler EXCEPT !.phase = IF answered THEN "answered" ELSE "failed"]
            /\ tasks' = IF reached THEN [tasks EXCEPT ![k] = @ + 1] ELSE tasks
      BY <1>8, <2>0, <2>3 DEF CallEngine
    <3>4. /\ handler'.phase \in {"answered", "failed"}
          /\ handler'.phase = "answered" => reached
      BY <2>1, <3>3 DEF Busy
    <3>5. tasks'[k] = IF reached THEN 1 ELSE 0
      BY <1>1, <3>2, <3>3
    <3>6. TaskOf(k)'
      BY <2>1, <3>2, <3>5 DEF TaskInv, TaskOf, InFlight
    <3>7. ASSUME NEW x \in Keys, x # k PROVE TaskOf(x)'
      BY <1>1, <2>1, <3>3, <3>7, TaskFrame DEF TaskInv
    <3> QED
      BY <2>0, <2>2, <3>4, <3>5, <3>6, <3>7 DEF TaskInv
  <2>4. CASE handler.id.kind # "dispatch"
    BY <1>8, <2>1, <2>2, <2>4 DEF CallEngine, TaskInv, TaskOf
  <2> QED
    BY <2>3, <2>4
<1>9. ASSUME NEW kind \in {"dispatch", "result"}, up, handler # Idle, CallMatches(kind),
             NEW a, NEW count, NEW active, NEW m,
             Answer(m, WithAttempts(disk, [disk.attempts EXCEPT ![AttemptKey(handler.env)] = a],
                                    count, active)),
             a.state # "CAST",
             a.acked \/ a.state = "RESULT" => tasks[AttemptKey(handler.env)] = 1
      PROVE  TaskInv'
  <2>1. handler.env \in Envelopes /\ AttemptKey(handler.env) \in DOMAIN disk.attempts
    BY <1>9, HandlerAttempt
  <2>2. /\ disk'.attempts = [disk.attempts EXCEPT ![AttemptKey(handler.env)] = a]
        /\ tasks' = tasks /\ handler'.phase = "idle"
    BY <1>9 DEF Answer, WithAttempts, Idle
  <2>3. \A x \in Keys : TaskOf(x)'
    BY <1>9, <2>1, <2>2, TaskReplace
  <2> QED
    BY <2>2, <2>3 DEF TaskInv
<1>10. ASSUME AcknowledgeDispatch PROVE TaskInv'
  <2> DEFINE k == AttemptKey(handler.env)
             a == [disk.attempts[k] EXCEPT !.inFlight = NoCall, !.acked = TRUE, !.state = "RUNNING"]
  <2>1. up /\ handler # Idle /\ CallMatches("dispatch") /\ handler.phase = "answered"
    BY <1>10 DEF AcknowledgeDispatch, Idle
  <2>2. disk.attempts[k] \in Attempt /\ tasks[k] = 1
    BY <2>1, HandlerAttempt DEF TaskInv, CallMatches
  <2>3. a.state = "RUNNING"
    BY <2>2 DEF Attempt
  <2>4. Answer(ApplyDispatchAck(mem, handler.env),
               WithAttempts(disk, [disk.attempts EXCEPT ![k] = a], disk.count, disk.active))
    BY <1>10 DEF AcknowledgeDispatch, ApplyDispatchAck
  <2> HIDE DEF a
  <2> QED
    BY <1>9, <2>1, <2>2, <2>3, <2>4
<1>11. ASSUME NEW kind \in {"dispatch", "result"}, up, handler # Idle, CallMatches(kind),
              NEW state \in {"RESULT", "STRANDED"}, state = "RESULT" => kind = "result",
              Answer(ApplySettled(mem, handler.env, state), ApplySettled(disk, handler.env, state))
       PROVE  TaskInv'
  <2> DEFINE k == AttemptKey(handler.env)
             a == [disk.attempts[k] EXCEPT !.inFlight = NoCall, !.state = state]
  <2>1. /\ disk.attempts[k] \in Attempt /\ k \in InFlight(disk) /\ k \in DOMAIN disk.attempts
        /\ disk.attempts[k].inFlight.kind = kind /\ k \in Keys
    BY <1>11, HandlerAttempt, KeyInKeys
  <2>2. a.state = state /\ a.acked = disk.attempts[k].acked
    BY <2>1 DEF Attempt
  <2>3. state = "RESULT" => disk.attempts[k].acked
    BY <1>11, <2>1 DEF CoreInv, OpenCallShape
  <2>4. a.acked \/ a.state = "RESULT" => tasks[k] = 1
    BY <2>1, <2>2, <2>3 DEF TaskInv, TaskOf
  <2>5. Answer(ApplySettled(mem, handler.env, state),
               WithAttempts(disk, [disk.attempts EXCEPT ![k] = a], disk.count, Decrement(disk.active)))
    BY <1>11 DEF ApplySettled
  <2> HIDE DEF a
  <2> QED
    BY <1>9, <1>11, <2>2, <2>4, <2>5
<1>12. ASSUME NEW state, Answer(ApplyGateSettled(mem, handler.id, state),
                                ApplyGateSettled(disk, handler.id, state))
       PROVE  TaskInv'
  BY <1>12 DEF Answer, ApplyGateSettled, WithGates, TaskInv, TaskOf, Idle
<1>13. ASSUME Complete PROVE TaskInv'
  <2>1. up /\ handler # Idle
    BY <1>13 DEF Complete, AcknowledgeDispatch, CompleteResult, FailCall, CompleteGate, FailGate, Idle
  <2> QED
    BY <1>10, <1>11, <1>12, <1>13, <2>1 DEF Complete, CompleteResult, FailCall, CompleteGate, FailGate
<1>14. CASE Crash
  BY <1>14 DEF Crash, TaskInv, TaskOf, Idle
<1>15. ASSUME NEW e \in Envelopes, RefuseStaleBegin(e) PROVE TaskInv'
  BY <1>2, <1>15 DEF RefuseStaleBegin
<1>16. CASE Restart
  BY <1>2, <1>16 DEF Restart
<1>17. CASE UNCHANGED vars
  BY <1>2, <1>17 DEF vars
<1>18. ASSUME NEW e \in Envelopes, BeginDispatch(e) \/ BeginResult(e) PROVE TaskInv'
  BY <1>5, <1>18 DEF BeginDispatch, BeginResult, DispatchReady, ResultReady
<1> QED
  BY <1>3, <1>4, <1>6, <1>7, <1>8, <1>13, <1>14, <1>15, <1>16, <1>17, <1>18 DEF Next, Request

LEMMA TaskInit == Init => TaskInv
BY DEF Init, TaskInv, TaskOf, EmptyStore, EmptyMap, Idle

LEMMA TaskInvariant == Spec => []TaskInv
BY TaskInit, CoreInvariant, TaskStep, PTL DEF Spec

(* The engine never holds a task whose intent a crash could forget.        *)
THEOREM IntentPrecedesCall == Spec => []IntentBeforeCall
<1>1. CoreInv /\ TaskInv => IntentBeforeCall
  BY DEF CoreInv, TypeInv, TypeOK, TaskInv, TaskOf, IntentBeforeCall
<1> QED
  BY <1>1, CoreInvariant, TaskInvariant, PTL

(* No sequence of requests, crashes and recoveries dispatches an attempt   *)
(* a second time.                                                          *)
THEOREM DispatchIsNotRepeated == Spec => []DispatchedAtMostOnce
<1>1. TaskInv => DispatchedAtMostOnce
  BY DEF TaskInv, TaskOf, DispatchedAtMostOnce
<1> QED
  BY <1>1, TaskInvariant, PTL

(* A result in the journal belongs to a task the engine did receive.       *)
THEOREM ResultsHaveCalls == Spec => []EvidenceHasCall
<1>1. CoreInv /\ TaskInv => EvidenceHasCall
  BY DEF CoreInv, TypeInv, TypeOK, StoreOK, TaskInv, TaskOf, EvidenceHasCall
<1> QED
  BY <1>1, CoreInvariant, TaskInvariant, PTL

-----------------------------------------------------------------------------
(* Calls of any kind.                                                      *)

(* The call that the handler has reserved and not yet made.                *)
Reserved(j) == IF handler.phase = "reserved" /\ handler.env.job = j THEN 1 ELSE 0

(* The journal counts every call the engine got and the reserved one: the  *)
(* count is what the guard compares with the cap, and it is never reset.   *)
CallInv == \A j \in Jobs : calls[j] + Reserved(j) <= disk.count[j] /\ disk.count[j] <= MaxCalls

LEMMA CallIntent ==
  ASSUME CoreInv, CallInv, Accepting, NEW e \in Envelopes, mem.count[e.job] < MaxCalls,
         disk'.count = OneMoreCall(disk, e), calls' = calls,
         handler'.phase = "reserved", handler'.env = e
  PROVE  CallInv'
<1>1. /\ disk.count \in [Jobs -> Nat] /\ calls \in [Jobs -> Nat]
      /\ mem.count = disk.count /\ e.job \in Jobs
  BY KeyInKeys DEF CoreInv, TypeInv, TypeOK, StoreOK, SameRest, Accepting
<1>2. \A j \in Jobs : Reserved(j) = 0
  BY DEF Accepting, Idle, Reserved
<1> SUFFICES ASSUME NEW j \in Jobs
             PROVE  calls'[j] + Reserved(j)' <= disk'.count[j] /\ disk'.count[j] <= MaxCalls
  BY DEF CallInv
<1>3. CASE j = e.job
  <2>1. Reserved(j)' = 1 /\ disk'.count[j] = disk.count[j] + 1
    BY <1>1, <1>3 DEF Reserved, OneMoreCall
  <2> QED
    BY <1>1, <1>2, <1>3, <2>1, PolicyAssumption DEF CallInv
<1>4. CASE j # e.job
  <2>1. Reserved(j)' = 0 /\ disk'.count[j] = disk.count[j]
    BY <1>1, <1>4 DEF Reserved, OneMoreCall
  <2> QED
    BY <1>1, <1>2, <1>4, <2>1 DEF CallInv
<1> QED
  BY <1>3, <1>4

LEMMA CallStep == CoreInv /\ CallInv /\ [Next]_vars => CallInv'
<1> SUFFICES ASSUME CoreInv, CallInv, [Next]_vars PROVE CallInv'
  OBVIOUS
<1>1. /\ disk.count \in [Jobs -> Nat] /\ calls \in [Jobs -> Nat]
      /\ \A j \in Jobs : Reserved(j) \in {0, 1}
  BY DEF CoreInv, TypeInv, TypeOK, StoreOK, Reserved
<1>2. ASSUME calls' = calls, disk'.count = disk.count, handler' = handler \/ handler'.phase # "reserved"
      PROVE  CallInv'
  <2>1. ASSUME NEW j \in Jobs PROVE Reserved(j)' = Reserved(j) \/ Reserved(j)' = 0
    BY <1>2 DEF Reserved
  <2> QED
    BY <1>1, <1>2, <2>1 DEF CallInv
<1>3. ASSUME NEW e \in Envelopes, BeginDispatch(e) \/ BeginResult(e) PROVE CallInv'
  <2>1. PICK kind : Accepting /\ mem.count[e.job] < MaxCalls /\ BeginCall(e, kind)
    BY <1>3 DEF BeginDispatch, BeginResult, DispatchReady, ResultReady
  <2> QED
    BY <2>1, CallIntent DEF BeginCall, ApplyCallIntent, WithAttempts
<1>4. ASSUME NEW e \in Envelopes, BeginGate(e) PROVE CallInv'
  BY <1>4, CallIntent DEF BeginGate, GateReady, ApplyGateIntent, WithGates
<1>5. CASE CallEngine
  <2>1. handler \in Busy /\ handler.phase = "reserved" /\ disk' = disk
    BY <1>5 DEF CallEngine, CoreInv, TypeInv, TypeOK, Idle
  <2>2. PICK reached \in BOOLEAN, answered \in BOOLEAN :
          /\ handler' = [handler EXCEPT !.phase = IF answered THEN "answered" ELSE "failed"]
          /\ calls' = IF reached THEN [calls EXCEPT ![handler.env.job] = @ + 1] ELSE calls
    BY <1>5 DEF CallEngine
  <2>3. handler'.phase # "reserved" /\ handler.env.job \in Jobs
    BY <2>1, <2>2, KeyInKeys DEF Busy
  <2>4. ASSUME NEW j \in Jobs PROVE calls'[j] <= calls[j] + Reserved(j) /\ Reserved(j)' = 0
    BY <1>1, <2>1, <2>2, <2>3 DEF Reserved
  <2>5. calls' \in [Jobs -> Nat]
    BY <1>1, <2>2, <2>3
  <2> QED
    BY <1>1, <2>1, <2>4, <2>5 DEF CallInv
<1>6. CASE Complete
  BY <1>2, <1>6
  DEF Complete, AcknowledgeDispatch, CompleteResult, FailCall, CompleteGate, FailGate, Answer, Idle,
      ApplyDispatchAck, ApplySettled, ApplyGateSettled, WithAttempts, WithGates
<1>7. ASSUME NEW e \in Envelopes, NEW d \in Final,
             Mount(e) \/ Cast(e) \/ RefuseStaleBegin(e) \/ DisposeLate(e, d)
      PROVE  CallInv'
  BY <1>2, <1>7 DEF Mount, Cast, RefuseStaleBegin, DisposeLate, ApplyMounted, ApplyCast,
                    ApplyDisposition, WithMounts, WithAttempts
<1>8. CASE Crash \/ Restart \/ UNCHANGED vars
  BY <1>2, <1>8 DEF Crash, Restart, vars, Idle
<1> QED
  BY <1>3, <1>4, <1>5, <1>6, <1>7, <1>8 DEF Next, Request, Final

LEMMA CallInit == Init => CallInv
BY PolicyAssumption DEF Init, EmptyStore, CallInv, Reserved, Idle

LEMMA CallsAreCapped == CoreInv /\ CallInv => CallCapRespected
<1> SUFFICES ASSUME CoreInv, CallInv, NEW j \in Jobs
             PROVE  calls[j] <= disk.count[j] /\ disk.count[j] <= MaxCalls
  BY DEF CallCapRespected
<1>1. calls[j] \in Nat /\ disk.count[j] \in Nat /\ Reserved(j) \in {0, 1}
  BY DEF CoreInv, TypeInv, TypeOK, StoreOK, Reserved
<1> QED
  BY <1>1 DEF CallInv

(* All the lives of the process together give the engine no more calls for *)
(* a job than max_calls_per_job.                                           *)
THEOREM CallCapIsRespected == Spec => []CallCapRespected
BY CallInit, CallsAreCapped, CoreInvariant, CallStep, PTL DEF Spec

-----------------------------------------------------------------------------
(* The abstract life of an attempt.                                        *)

(* No record says PENDING_LATE: only replay does, in memory.               *)
LateIsLive == \A k \in DOMAIN disk.attempts : disk.attempts[k].state # "PENDING_LATE"

LEMMA LateStep == CoreInv /\ LateIsLive /\ [Next]_vars => LateIsLive'
<1> SUFFICES ASSUME CoreInv, LateIsLive, [Next]_vars PROVE LateIsLive'
  OBVIOUS
<1>1. \A k \in DOMAIN disk.attempts : disk.attempts[k] \in Attempt
  BY DEF CoreInv, TypeInv, TypeOK, StoreOK
<1>2. ASSUME NEW k, NEW a, a.state # "PENDING_LATE",
             disk'.attempts = [disk.attempts EXCEPT ![k] = a]
      PROVE  LateIsLive'
  BY <1>2 DEF LateIsLive
<1>3. ASSUME disk'.attempts = disk.attempts PROVE LateIsLive'
  BY <1>3 DEF LateIsLive
<1>4. ASSUME NEW e, Cast(e) PROVE LateIsLive'
  BY <1>4 DEF Cast, ApplyCast, WithAttempts, Put, LateIsLive
<1>5. ASSUME NEW e, BeginDispatch(e) \/ BeginResult(e) PROVE LateIsLive'
  <2>1. PICK kind : AttemptKey(e) \in DOMAIN disk.attempts /\ BeginCall(e, kind)
    BY <1>5 DEF BeginDispatch, BeginResult, DispatchReady, ResultReady, Accepting, Owns,
                CoreInv, TypeInv, SameKeys
  <2>2. [disk.attempts[AttemptKey(e)] EXCEPT !.inFlight = NextCallId(e, kind),
                                             !.state = "RUNNING"].state = "RUNNING"
    BY <1>1, <2>1 DEF Attempt
  <2> QED
    BY <1>2, <2>1, <2>2 DEF BeginCall, ApplyCallIntent, WithAttempts
<1>6. ASSUME NEW e, NEW d \in Final, DisposeLate(e, d) PROVE LateIsLive'
  <2>1. AttemptKey(e) \in DOMAIN disk.attempts /\ d # "PENDING_LATE"
    BY <1>6 DEF DisposeLate, Accepting, Owns, CoreInv, TypeInv, SameKeys, Final
  <2>2. [disk.attempts[AttemptKey(e)] EXCEPT !.state = d, !.inFlight = NoCall,
                                             !.ambiguous = FALSE].state = d
    BY <1>1, <2>1 DEF Attempt
  <2> QED
    BY <1>2, <1>6, <2>1, <2>2 DEF DisposeLate, ApplyDisposition, WithAttempts
<1>7. CASE Complete
  <2> DEFINE k == AttemptKey(handler.env)
  <2>1. up /\ handler # Idle
    BY <1>7 DEF Complete, AcknowledgeDispatch, CompleteResult, FailCall, CompleteGate, FailGate, Idle
  <2>2. CASE AcknowledgeDispatch
    <3>1. disk.attempts[k] \in Attempt
      BY <1>1, <2>1, <2>2, HandlerAttempt DEF AcknowledgeDispatch
    <3>2. [disk.attempts[k] EXCEPT !.inFlight = NoCall, !.acked = TRUE,
                                   !.state = "RUNNING"].state = "RUNNING"
      BY <3>1 DEF Attempt
    <3> QED
      BY <1>2, <2>2, <3>2 DEF AcknowledgeDispatch, Answer, ApplyDispatchAck, WithAttempts
  <2>3. ASSUME NEW state \in {"RESULT", "STRANDED"}, NEW kind \in {"dispatch", "result"},
               CallMatches(kind), NEW m, Answer(m, ApplySettled(disk, handler.env, state))
        PROVE  LateIsLive'
    <3>1. disk.attempts[k] \in Attempt
      BY <1>1, <2>1, <2>3, HandlerAttempt
    <3>2. [disk.attempts[k] EXCEPT !.inFlight = NoCall, !.state = state].state # "PENDING_LATE"
      BY <3>1 DEF Attempt
    <3> QED
      BY <1>2, <2>3, <3>2 DEF Answer, ApplySettled, WithAttempts
  <2>4. CASE CompleteGate \/ FailGate
    BY <1>3, <2>4 DEF CompleteGate, FailGate, Answer, ApplyGateSettled, WithGates
  <2> QED
    BY <1>7, <2>2, <2>3, <2>4 DEF Complete, CompleteResult, FailCall
<1>8. ASSUME NEW e, Mount(e) \/ BeginGate(e) \/ RefuseStaleBegin(e) PROVE LateIsLive'
  BY <1>3, <1>8 DEF Mount, BeginGate, RefuseStaleBegin, ApplyMounted, ApplyGateIntent, WithMounts,
                    WithGates
<1>9. CASE CallEngine \/ Crash \/ Restart \/ UNCHANGED vars
  BY <1>3, <1>9 DEF CallEngine, Crash, Restart, vars
<1> QED
  BY <1>4, <1>5, <1>6, <1>7, <1>8, <1>9 DEF Next, Request

(* A record that replaces the attempt of e moves its life, and no other.   *)
LEMMA LifeReplace ==
  ASSUME CoreInv, NEW e \in Envelopes, NEW a, NEW to, AttemptKey(e) \in DOMAIN disk.attempts,
         disk'.attempts = [disk.attempts EXCEPT ![AttemptKey(e)] = a],
         to = IF a.inFlight # NoCall THEN "OPEN" ELSE a.state
  PROVE  [k \in Keys |-> DurableLife(k)']
           = [[k \in Keys |-> DurableLife(k)] EXCEPT ![AttemptKey(e)] = to]
<1>1. ASSUME NEW k \in Keys
      PROVE  DurableLife(k)' = IF k = AttemptKey(e) THEN to ELSE DurableLife(k)
  BY DEF DurableLife, InFlight
<1> QED
  BY <1>1

(* What an attempt in the journal shows of its life.                       *)
LEMMA LifeOf ==
  ASSUME NEW k \in DOMAIN disk.attempts, k \in Keys
  PROVE  DurableLife(k) = IF k \in InFlight(disk) THEN "OPEN" ELSE disk.attempts[k].state
BY DEF DurableLife

LEMMA LifeStep ==
  CoreInv /\ TaskInv /\ LateIsLive /\ [Next]_vars => [Life!Next]_(Life!lifeVars)
<1> SUFFICES ASSUME CoreInv, TaskInv, LateIsLive, [Next]_vars
             PROVE  Life!Next \/ UNCHANGED Life!lifeVars
  OBVIOUS
<1> DEFINE life == [k \in Keys |-> DurableLife(k)]
<1>1. /\ tasks \in [Keys -> Nat]
      /\ \A k \in DOMAIN disk.attempts : k \in Keys /\ disk.attempts[k] \in Attempt
  BY DEF CoreInv, TypeInv, TypeOK, StoreOK
<1>2. ASSUME disk'.attempts = disk.attempts, tasks' = tasks PROVE UNCHANGED Life!lifeVars
  BY <1>2 DEF Life!lifeVars, DurableLife, InFlight
<1>3. ASSUME NEW k \in Keys, Life!Step(k) PROVE Life!Next
  BY <1>3 DEF Life!Next
<1>4. ASSUME NEW e \in Envelopes, Cast(e) PROVE Life!Next
  <2> DEFINE k == AttemptKey(e)
  <2>1. k \in Keys /\ k \notin DOMAIN disk.attempts /\ tasks' = tasks
    BY <1>4, KeyInKeys DEF Cast, Accepting, CoreInv, TypeInv, SameKeys
  <2>2. DurableLife(k) = "NONE"
    BY <2>1 DEF DurableLife, InFlight
  <2>3. ASSUME NEW x \in Keys PROVE DurableLife(x)' = IF x = k THEN "CAST" ELSE DurableLife(x)
    BY <1>4 DEF Cast, ApplyCast, WithAttempts, Put, DurableLife, InFlight
  <2>4. Life!Cast(k)
    BY <2>1, <2>2, <2>3 DEF Life!Cast, Life!Move
  <2> QED
    BY <1>3, <2>1, <2>4 DEF Life!Step
<1>5. ASSUME NEW e \in Envelopes, BeginDispatch(e) \/ BeginResult(e) PROVE Life!Next
  <2> DEFINE k == AttemptKey(e)
  <2>1. PICK kind \in {"dispatch", "result"} :
          /\ Accepting /\ Owns(e) /\ BeginCall(e, kind)
          /\ AttemptOf(e).state \in {"CAST", "RUNNING"} /\ AttemptOf(e).inFlight = NoCall
    BY <1>5 DEF BeginDispatch, BeginResult, DispatchReady, ResultReady
  <2> DEFINE id == NextCallId(e, kind)
             a == [disk.attempts[k] EXCEPT !.inFlight = id, !.state = "RUNNING"]
  <2>2. /\ k \in DOMAIN disk.attempts /\ mem.attempts[k] = disk.attempts[k] /\ tasks' = tasks
        /\ disk'.attempts = [disk.attempts EXCEPT ![k] = a]
    <3>1. up /\ k \in DOMAIN mem.attempts /\ mem.attempts[k].state \in {"CAST", "RUNNING"}
      BY <2>1 DEF Accepting, Owns, AttemptOf
    <3>2. k \in DOMAIN disk.attempts
      BY <3>1 DEF CoreInv, TypeInv, SameKeys
    <3> QED
      BY <2>1, <3>1, <3>2, LiveIsDurable DEF BeginCall, ApplyCallIntent, WithAttempts
  <2>3. a.inFlight = id /\ id # NoCall
    <3>1. id \in CallIds
      BY NextCallIdType DEF CoreInv, TypeInv
    <3> HIDE DEF id
    <3> QED
      BY <1>1, <2>2, <3>1, NoCallAssumption DEF Attempt
  <2>4. k \in Keys /\ life[k] \in {"CAST", "RUNNING"}
    BY <1>1, <2>1, <2>2, LifeOf DEF AttemptOf, InFlight
  <2> HIDE DEF a
  <2>5. [x \in Keys |-> DurableLife(x)'] = [life EXCEPT ![k] = "OPEN"]
    BY <2>2, <2>3, LifeReplace
  <2>6. Life!Intend(k)
    BY <2>2, <2>4, <2>5 DEF Life!Intend, Life!Move
  <2> QED
    BY <1>3, <2>4, <2>6 DEF Life!Step
<1>6. ASSUME NEW e \in Envelopes, NEW d \in Final, DisposeLate(e, d) PROVE Life!Next
  <2> DEFINE k == AttemptKey(e)
             a == [disk.attempts[k] EXCEPT !.state = d, !.inFlight = NoCall, !.ambiguous = FALSE]
  <2>1. /\ up /\ handler = Idle /\ tasks' = tasks
        /\ k \in DOMAIN disk.attempts /\ mem.attempts[k].state \in {"PENDING_LATE", "STRANDED"}
        /\ disk'.attempts = [disk.attempts EXCEPT ![k] = a]
    BY <1>6 DEF DisposeLate, Accepting, Owns, AttemptOf, ApplyDisposition, WithAttempts, CoreInv,
                TypeInv, SameKeys
  <2>2. a.inFlight = NoCall /\ a.state = d
    BY <1>1, <2>1 DEF Attempt
  <2>3. k \in InFlight(disk) \/ disk.attempts[k].state = "STRANDED"
    BY <2>1 DEF CoreInv, LiveView, AttemptShown, LateIsLive
  <2>4. k \in Keys /\ life[k] \in {"OPEN", "STRANDED"}
    BY <1>1, <2>1, <2>3, LifeOf
  <2> HIDE DEF a
  <2>5. [x \in Keys |-> DurableLife(x)'] = [life EXCEPT ![k] = d]
    BY <2>1, <2>2, LifeReplace
  <2>6. Life!Dispose(k)
    BY <2>1, <2>4, <2>5 DEF Life!Dispose, Life!Move, Life!Closed, Final
  <2> QED
    BY <1>3, <2>4, <2>6 DEF Life!Step
<1>7. CASE CallEngine
  <2> DEFINE k == AttemptKey(handler.env)
  <2>1. handler \in Busy /\ handler # Idle /\ handler.phase = "reserved" /\ up /\ disk' = disk
    BY <1>7 DEF CallEngine, CoreInv, TypeInv, TypeOK, Idle
  <2>2. CASE tasks' = tasks
    BY <1>2, <2>1, <2>2
  <2>3. CASE tasks' # tasks
    <3>1. handler.id.kind = "dispatch" /\ tasks' = [tasks EXCEPT ![k] = @ + 1]
      BY <1>7, <2>3 DEF CallEngine
    <3>2. CallMatches("dispatch")
      BY <2>1, <3>1 DEF CoreInv, HandlerOpen, GateMatches, CallMatches
    <3>3. /\ k \in Keys /\ k \in DOMAIN disk.attempts /\ k \in InFlight(disk) /\ tasks[k] = 0
      BY <2>1, <3>1, <3>2, HandlerAttempt, KeyInKeys DEF TaskInv
    <3>4. life[k] = "OPEN" /\ [x \in Keys |-> DurableLife(x)'] = life
      BY <2>1, <3>3, LifeOf DEF DurableLife
    <3>5. Life!Send(k)
      BY <1>1, <3>1, <3>3, <3>4 DEF Life!Send
    <3> QED
      BY <1>3, <3>3, <3>5 DEF Life!Step
  <2> QED
    BY <2>2, <2>3
<1>8. ASSUME NEW kind \in {"dispatch", "result"}, up, handler # Idle, CallMatches(kind),
             NEW a, NEW m, NEW count, NEW active,
             Answer(m, WithAttempts(disk, [disk.attempts EXCEPT ![AttemptKey(handler.env)] = a],
                                    count, active)),
             a.inFlight = NoCall,
             \/ a.state = "STRANDED"
             \/ a.state \in {"RUNNING", "RESULT"} /\ tasks[AttemptKey(handler.env)] = 1
      PROVE  Life!Next
  <2> DEFINE k == AttemptKey(handler.env)
  <2>1. /\ handler.env \in Envelopes /\ k \in Keys /\ k \in DOMAIN disk.attempts
        /\ k \in InFlight(disk)
    BY <1>8, HandlerAttempt, KeyInKeys
  <2>2. disk'.attempts = [disk.attempts EXCEPT ![k] = a] /\ tasks' = tasks
    BY <1>8 DEF Answer, WithAttempts
  <2>3. life[k] = "OPEN"
    BY <2>1, LifeOf
  <2>4. [x \in Keys |-> DurableLife(x)'] = [life EXCEPT ![k] = a.state]
    BY <1>8, <2>1, <2>2, LifeReplace
  <2>5. CASE a.state = "STRANDED"
    <3>1. Life!Strand(k)
      BY <2>1, <2>2, <2>3, <2>4, <2>5 DEF Life!Strand, Life!Move
    <3> QED
      BY <1>3, <2>1, <3>1 DEF Life!Step
  <2>6. CASE a.state \in {"RUNNING", "RESULT"} /\ tasks[k] = 1
    <3>1. Life!Answered(k, a.state)
      BY <2>1, <2>2, <2>3, <2>4, <2>6 DEF Life!Answered, Life!Move
    <3> QED
      BY <1>3, <2>1, <2>6, <3>1 DEF Life!Step
  <2> QED
    BY <1>8, <2>5, <2>6
<1>9. CASE AcknowledgeDispatch
  <2> DEFINE k == AttemptKey(handler.env)
             a == [disk.attempts[k] EXCEPT !.inFlight = NoCall, !.acked = TRUE, !.state = "RUNNING"]
  <2>1. up /\ handler # Idle /\ CallMatches("dispatch") /\ tasks[k] = 1
    BY <1>9 DEF AcknowledgeDispatch, CallMatches, Idle, TaskInv
  <2>2. a.inFlight = NoCall /\ a.state = "RUNNING"
    BY <1>1, <2>1, HandlerAttempt DEF Attempt
  <2>3. Answer(ApplyDispatchAck(mem, handler.env),
               WithAttempts(disk, [disk.attempts EXCEPT ![k] = a], disk.count, disk.active))
    BY <1>9 DEF AcknowledgeDispatch, ApplyDispatchAck
  <2> HIDE DEF a
  <2> QED
    BY <1>8, <2>1, <2>2, <2>3
<1>10. ASSUME NEW kind \in {"dispatch", "result"}, up, handler # Idle, CallMatches(kind),
              NEW state \in {"RESULT", "STRANDED"}, state = "RESULT" => kind = "result",
              Answer(ApplySettled(mem, handler.env, state), ApplySettled(disk, handler.env, state))
       PROVE  Life!Next
  <2> DEFINE k == AttemptKey(handler.env)
             a == [disk.attempts[k] EXCEPT !.inFlight = NoCall, !.state = state]
  <2>1. k \in InFlight(disk) /\ k \in DOMAIN disk.attempts /\ disk.attempts[k].inFlight.kind = kind
    BY <1>10, HandlerAttempt
  <2>2. a.inFlight = NoCall /\ a.state = state
    BY <1>1, <2>1 DEF Attempt
  <2>3. state = "RESULT" => tasks[k] = 1
    BY <1>1, <1>10, <2>1 DEF CoreInv, OpenCallShape, TaskInv, TaskOf
  <2>4. Answer(ApplySettled(mem, handler.env, state),
               WithAttempts(disk, [disk.attempts EXCEPT ![k] = a], disk.count, Decrement(disk.active)))
    BY <1>10 DEF ApplySettled
  <2> HIDE DEF a
  <2> QED
    BY <1>8, <1>10, <2>2, <2>3, <2>4
<1>11. CASE Complete
  <2>1. up /\ handler # Idle
    BY <1>11 DEF Complete, AcknowledgeDispatch, CompleteResult, FailCall, CompleteGate, FailGate, Idle
  <2>2. CASE CompleteGate \/ FailGate
    BY <1>2, <2>2 DEF CompleteGate, FailGate, Answer, ApplyGateSettled, WithGates
  <2> QED
    BY <1>9, <1>10, <1>11, <2>1, <2>2 DEF Complete, CompleteResult, FailCall
<1>12. ASSUME NEW e, Mount(e) \/ BeginGate(e) \/ RefuseStaleBegin(e) PROVE UNCHANGED Life!lifeVars
  BY <1>2, <1>12 DEF Mount, BeginGate, RefuseStaleBegin, ApplyMounted, ApplyGateIntent, WithMounts,
                     WithGates
<1>13. CASE Crash \/ Restart \/ UNCHANGED vars
  BY <1>2, <1>13 DEF Crash, Restart, vars
<1> QED
  BY <1>4, <1>5, <1>6, <1>7, <1>11, <1>12, <1>13 DEF Next, Request

LEMMA LateInit == Init => LateIsLive
BY DEF Init, EmptyStore, EmptyMap, LateIsLive

LEMMA LifeInit == Init => Life!Init
BY DEF Init, EmptyStore, EmptyMap, Life!Init, DurableLife, InFlight

(* Seen through the journal, the core implements the life of an attempt:   *)
(* every request, answer, crash and recovery is one step of it or none.    *)
THEOREM CoreImplementsLife == Spec => ImplementsLife
BY LateInit, LifeInit, CoreInvariant, TaskInvariant, LateStep, LifeStep, PTL
DEF Spec, ImplementsLife, Life!Spec

-----------------------------------------------------------------------------
(* Where two of the findings end: what keeps the journal replayable, and   *)
(* the receipts of gates in it.                                            *)

(* The mounts of a job agree on its epoch.                                 *)
OneEpochEach == \A e, f \in Envelopes : e.job = f.job => e.epoch = f.epoch

EpochInv ==
  /\ disk.ok
  /\ \A e \in Envelopes : e.job \in DOMAIN disk.epochs => disk.epochs[e.job] = e.epoch

LEMMA EpochStep == OneEpochEach /\ EpochInv /\ [Next]_vars => EpochInv'
<1> SUFFICES ASSUME OneEpochEach, EpochInv, [Next]_vars PROVE EpochInv'
  OBVIOUS
<1>1. ASSUME disk'.ok = disk.ok, disk'.epochs = disk.epochs PROVE EpochInv'
  BY <1>1 DEF EpochInv
<1>2. ASSUME NEW e \in Envelopes, Mount(e) PROVE EpochInv'
  BY <1>2 DEF Mount, ApplyMounted, WithMounts, Put, EpochInv, OneEpochEach
<1>3. ASSUME NEW e \in Envelopes, NEW d \in Final,
             \/ Cast(e) \/ BeginDispatch(e) \/ BeginResult(e) \/ BeginGate(e)
             \/ RefuseStaleBegin(e) \/ DisposeLate(e, d)
      PROVE  EpochInv'
  BY <1>1, <1>3
  DEF Cast, BeginDispatch, BeginResult, BeginCall, BeginGate, RefuseStaleBegin, DisposeLate,
      ApplyCast, ApplyCallIntent, ApplyGateIntent, ApplyDisposition, WithAttempts, WithGates
<1>4. CASE Complete
  BY <1>1, <1>4
  DEF Complete, AcknowledgeDispatch, CompleteResult, FailCall, CompleteGate, FailGate, Answer,
      ApplyDispatchAck, ApplySettled, ApplyGateSettled, WithAttempts, WithGates
<1>5. CASE CallEngine \/ Crash \/ Restart \/ UNCHANGED vars
  BY <1>1, <1>5 DEF CallEngine, Crash, Restart, vars
<1> QED
  BY <1>2, <1>3, <1>4, <1>5 DEF Next, Request, Final

(* When the mounts of a job agree on its epoch, every process can replay   *)
(* the journal.  The run PoisonedMount shows that the hypothesis is needed.*)
THEOREM JournalStaysReplayable == ASSUME OneEpochEach PROVE Spec => []JournalReplayable
<1>1. Init => EpochInv
  BY DEF Init, EmptyStore, EmptyMap, EpochInv
<1>2. EpochInv => JournalReplayable
  BY DEF EpochInv, JournalReplayable
<1> QED
  BY <1>1, <1>2, EpochStep, PTL DEF Spec

(* When no refused request draws a number, a gate's number is no greater   *)
(* than the counter that the next one exceeds, in this process and in any  *)
(* that replays the journal.                                               *)
NumberInv ==
  /\ \A id \in DOMAIN disk.gates : id.num <= disk.seq
  /\ up => counter <= disk.seq /\ \A id \in DOMAIN disk.gates : id.num <= counter

LEMMA NumberTypes ==
  ASSUME CoreInv
  PROVE  /\ disk.seq \in Nat /\ counter \in Nat /\ (up => mem.seq = disk.seq)
         /\ \A id \in DOMAIN disk.gates : id.num \in Nat
<1>1. \A id \in CallIds : id.num \in Nat
  BY DEF CallIds
<1> QED
  BY <1>1 DEF CoreInv, TypeInv, TypeOK, StoreOK, SameRest

(* A record that adds no gate, and moves the counter as append_event does. *)
LEMMA NumberKept ==
  ASSUME CoreInv, NumberInv, up, DOMAIN disk'.gates = DOMAIN disk.gates,
         disk'.seq = disk.seq + 1,
         counter' = counter \/ counter' = CounterAfterAppend(counter)
  PROVE  NumberInv'
BY NumberTypes DEF NumberInv, CounterAfterAppend

LEMMA NumberStep == MaxDrift = 0 /\ CoreInv /\ NumberInv /\ [Next]_vars => NumberInv'
<1> SUFFICES ASSUME MaxDrift = 0, CoreInv, NumberInv, [Next]_vars PROVE NumberInv'
  OBVIOUS
<1>1. ASSUME NEW e \in Envelopes, NEW d \in Final, Mount(e) \/ Cast(e) \/ DisposeLate(e, d)
      PROVE  NumberInv'
  BY <1>1, NumberKept
  DEF Mount, Cast, DisposeLate, Accepting, ApplyMounted, ApplyCast, ApplyDisposition,
      WithMounts, WithAttempts
<1>2. ASSUME NEW e \in Envelopes, BeginDispatch(e) \/ BeginResult(e) PROVE NumberInv'
  <2>1. PICK kind : up /\ BeginCall(e, kind)
    BY <1>2 DEF BeginDispatch, BeginResult, Accepting
  <2>2. /\ disk'.gates = disk.gates /\ disk'.seq = disk.seq + 1 /\ up' = up
        /\ counter' = CounterAfterAppend(counter + 1)
    BY <2>1 DEF BeginCall, ApplyCallIntent, WithAttempts
  <2> QED
    BY <2>1, <2>2, NumberTypes DEF NumberInv, CounterAfterAppend
<1>3. ASSUME NEW e \in Envelopes, BeginGate(e) PROVE NumberInv'
  <2>1. PICK id : id = NextCallId(e, "gate")
    OBVIOUS
  <2>2. id.num = counter + 1
    BY <2>1 DEF NextCallId
  <2>3. /\ DOMAIN disk'.gates = DOMAIN disk.gates \cup {id} /\ disk'.seq = disk.seq + 1
        /\ up /\ up' = up /\ counter' = CounterAfterAppend(counter + 1)
    BY <1>3, <2>1 DEF BeginGate, Accepting, ApplyGateIntent, WithGates, Put
  <2> QED
    BY <2>2, <2>3, NumberTypes DEF NumberInv, CounterAfterAppend
<1>4. ASSUME NEW e \in Envelopes, RefuseStaleBegin(e) PROVE NumberInv'
  BY <1>4, NumberTypes DEF RefuseStaleBegin, Accepting, NumberInv
<1>5. CASE Complete
  <2>1. /\ up /\ disk'.seq = disk.seq + 1 /\ counter' = CounterAfterAppend(counter)
        /\ DOMAIN disk'.gates = DOMAIN disk.gates
    BY <1>5
    DEF Complete, AcknowledgeDispatch, CompleteResult, FailCall, CompleteGate, FailGate, Answer,
        ApplyDispatchAck, ApplySettled, ApplyGateSettled, WithAttempts, WithGates
  <2> QED
    BY <2>1, NumberKept
<1>6. CASE CallEngine \/ UNCHANGED vars
  BY <1>6 DEF CallEngine, vars, NumberInv
<1>7. CASE Crash \/ Restart
  BY <1>7, NumberTypes DEF Crash, Restart, NumberInv
<1> QED
  BY <1>1, <1>2, <1>3, <1>4, <1>5, <1>6, <1>7 DEF Next, Request, Final

LEMMA ReceiptStep ==
  CoreInv /\ NumberInv /\ [Next]_vars =>
    \A id \in DOMAIN disk.gates :
      disk.gates[id].state = "RESULT" => disk'.gates[id].state = "RESULT"
<1> SUFFICES ASSUME CoreInv, NumberInv, [Next]_vars,
                    NEW id \in DOMAIN disk.gates, disk.gates[id].state = "RESULT"
             PROVE  disk'.gates[id].state = "RESULT"
  OBVIOUS
<1>1. ASSUME NEW e \in Envelopes, BeginGate(e) PROVE disk'.gates[id] = disk.gates[id]
  <2>1. PICK new : new = NextCallId(e, "gate")
    OBVIOUS
  <2>2. new.num = counter + 1 /\ new # id
    BY <1>1, <2>1, NumberTypes DEF NextCallId, NumberInv, BeginGate, Accepting
  <2> QED
    BY <1>1, <2>1, <2>2 DEF BeginGate, ApplyGateIntent, WithGates, Put
<1>2. ASSUME NEW state, GateMatches, up, handler # Idle,
             NEW m, Answer(m, ApplyGateSettled(disk, handler.id, state))
      PROVE  disk'.gates[id] = disk.gates[id]
  <2>1. PICK open : open = handler.id
    OBVIOUS
  <2>2. open \in DOMAIN disk.gates /\ disk.gates[open].state = "CALLING"
    <3>1. /\ open \in DOMAIN mem.gates /\ mem.gates[open].state = "CALLING"
          /\ open \in DOMAIN disk.gates /\ disk.gates[open] \in GateAttempt
          /\ GateShown(open) /\ handler.phase # "idle" /\ open.kind = "gate"
      BY <1>2, <2>1, HandlerCases
      DEF GateMatches, Calling, CoreInv, TypeInv, TypeOK, StoreOK, SameKeys, LiveView
    <3>2. mem.gates[open] = disk.gates[open]
      BY <2>1, <3>1 DEF GateShown, WorksOnGate
    <3> QED
      BY <3>1, <3>2
  <2> QED
    BY <1>2, <2>1, <2>2 DEF Answer, ApplyGateSettled, WithGates
<1>3. CASE CompleteGate \/ FailGate
  BY <1>2, <1>3 DEF CompleteGate, FailGate, Idle
<1>4. ASSUME NEW e \in Envelopes, NEW d \in Final,
             \/ Mount(e) \/ Cast(e) \/ BeginDispatch(e) \/ BeginResult(e)
             \/ RefuseStaleBegin(e) \/ DisposeLate(e, d)
      PROVE  disk'.gates = disk.gates
  BY <1>4
  DEF Mount, Cast, BeginDispatch, BeginResult, BeginCall, RefuseStaleBegin, DisposeLate,
      ApplyMounted, ApplyCast, ApplyCallIntent, ApplyDisposition, WithMounts, WithAttempts
<1>5. CASE AcknowledgeDispatch \/ CompleteResult \/ FailCall
  BY <1>5
  DEF AcknowledgeDispatch, CompleteResult, FailCall, Answer, ApplyDispatchAck, ApplySettled,
      WithAttempts
<1>6. CASE CallEngine \/ Crash \/ Restart \/ UNCHANGED vars
  BY <1>6 DEF CallEngine, Crash, Restart, vars
<1> QED
  BY <1>1, <1>3, <1>4, <1>5, <1>6 DEF Next, Request, Complete, Final

(* When no refused request draws a number, a retained gate receipt stays.  *)
(* The run GateOverwrite shows that the hypothesis is needed.              *)
THEOREM ReceiptsAreRetained == ASSUME MaxDrift = 0 PROVE Spec => GateReceiptRetained
<1>1. Init => NumberInv
  BY DEF Init, EmptyStore, EmptyMap, NumberInv
<1>2. NumberInv /\ [Next]_vars /\ CoreInv => NumberInv'
  BY NumberStep
<1> QED
  BY <1>1, <1>2, CoreInvariant, ReceiptStep, PTL DEF Spec, GateReceiptRetained
=============================================================================
