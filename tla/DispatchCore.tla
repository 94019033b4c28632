---------------------------- MODULE DispatchCore ----------------------------
(***************************************************************************)
(* The Dispatch Organ's core: mounts, casts, external calls and their      *)
(* recovery (src/src/core.cpp), driven by the single-threaded request loop *)
(* of src/src/main.cpp, with a crash possible between any two steps.       *)
(*                                                                         *)
(* An append writes and fsyncs one journal record, then applies it in      *)
(* memory.  Both effects are the same function of a store, so the journal  *)
(* is represented by `disk', the store its records yield when they are     *)
(* applied to the empty one, and the process by `mem'.  They differ only   *)
(* by what replay adds after the last record (Recover).                    *)
(***************************************************************************)
EXTENDS Integers, FiniteSets

CONSTANTS
  Envelopes,      \* the identity envelopes operators may present
  MaxConcurrent,  \* policy.max_concurrent_dispatches
  MaxCalls,       \* policy.max_calls_per_job
  NoCall,         \* an empty std::optional<std::string>
  MaxSeq,         \* bound: no request is admitted past this sequence number
  MaxDrift        \* bound: lead of call_counter_ over the journal sequence

Roles == {"builder", "scout", "adversary", "verifier"}

(* The tools of a role that some operation of this module asks about.      *)
RoleTools(role) == IF role = "verifier" THEN {"request_gate"} ELSE {}

Jobs == {e.job : e \in Envelopes}
Runs == {e.run : e \in Envelopes}
Mounts == {e.mount : e \in Envelopes}

(* attempt_key(envelope): task ids are scoped by their job.                *)
AttemptKey(e) == <<e.job, e.task>>
Keys == {AttemptKey(e) : e \in Envelopes}

CallIds == [run : Runs, kind : {"dispatch", "result", "gate"}, num : Nat]

ASSUME EnvelopeAssumption ==
  /\ IsFiniteSet(Envelopes)
  /\ \A e \in Envelopes : e.role \in Roles /\ e.epoch \in Nat \ {0}

ASSUME PolicyAssumption ==
  MaxConcurrent \in Nat \ {0} /\ MaxCalls \in Nat \ {0}

ASSUME BoundAssumption == MaxSeq \in Nat /\ MaxDrift \in Nat

ASSUME NoCallAssumption == NoCall \notin CallIds

VARIABLES
  up,        \* the organ process is running
  mem,       \* the maps and counters of the live Core object
  disk,      \* the store that the fsynced journal records yield
  counter,   \* call_counter_
  handler,   \* the external call the request loop is in the middle of
  tasks,     \* external: dispatch_task requests the engine got, per attempt
  calls      \* external: tool calls of any kind the engine got, per job

vars == <<up, mem, disk, counter, handler, tasks, calls>>

-----------------------------------------------------------------------------
(* Stores: the state that apply_event maintains.                           *)

Put(f, k, v) == [x \in DOMAIN f \cup {k} |-> IF x = k THEN v ELSE f[x]]

EmptyMap == [x \in {} |-> x]

Final == {"HARVESTED", "SUPERSEDED", "ABANDONED"}
AttemptStates == {"CAST", "RUNNING", "RESULT", "STRANDED", "PENDING_LATE"} \cup Final
GateStates == {"CALLING", "RESULT", "STRANDED", "PENDING_LATE"}

Attempt == [owner : Envelopes, state : AttemptStates,
            inFlight : CallIds \cup {NoCall}, acked : BOOLEAN, ambiguous : BOOLEAN]
GateAttempt == [requester : Envelopes, state : GateStates, ambiguous : BOOLEAN]

EmptyStore ==
  [seq |-> 0, ok |-> TRUE, mounts |-> EmptyMap, epochs |-> EmptyMap,
   attempts |-> EmptyMap, count |-> [j \in Jobs |-> 0], active |-> 0,
   gates |-> EmptyMap]

Decrement(n) == IF n > 0 THEN n - 1 ELSE 0

(* What a record leaves behind: the next sequence number, and the maps it  *)
(* changes; one operator for each group of maps that change together.      *)
WithMounts(s, mounts, epochs, ok) ==
  [seq |-> s.seq + 1, ok |-> ok, mounts |-> mounts, epochs |-> epochs,
   attempts |-> s.attempts, count |-> s.count, active |-> s.active, gates |-> s.gates]

WithAttempts(s, attempts, count, active) ==
  [seq |-> s.seq + 1, ok |-> s.ok, mounts |-> s.mounts, epochs |-> s.epochs,
   attempts |-> attempts, count |-> count, active |-> active, gates |-> s.gates]

WithGates(s, gates, count) ==
  [seq |-> s.seq + 1, ok |-> s.ok, mounts |-> s.mounts, epochs |-> s.epochs,
   attempts |-> s.attempts, count |-> count, active |-> s.active, gates |-> gates]

OneMoreCall(s, e) == [s.count EXCEPT ![e.job] = @ + 1]

(* `ok' turns false when applying the record threw: the record is already  *)
(* in the journal, and every later replay throws at it again.              *)
ApplyMounted(s, e) ==
  WithMounts(s,
    Put(s.mounts, e.mount, e),
    IF e.job \in DOMAIN s.epochs THEN s.epochs ELSE Put(s.epochs, e.job, e.epoch),
    s.ok /\ (e.job \in DOMAIN s.epochs => s.epochs[e.job] = e.epoch))

ApplyCast(s, e) ==
  WithAttempts(s,
    Put(s.attempts, AttemptKey(e),
        [owner |-> e, state |-> "CAST", inFlight |-> NoCall,
         acked |-> FALSE, ambiguous |-> FALSE]),
    s.count, s.active)

(* Mutant: only a dispatch enters its call id as in flight.                *)
ApplyCallIntent_ResultNotReserved(s, e, id) ==
  WithAttempts(s,
    [s.attempts EXCEPT ![AttemptKey(e)] =
       [@ EXCEPT !.inFlight = IF id.kind = "dispatch" THEN id ELSE NoCall, !.state = "RUNNING"]],
    OneMoreCall(s, e),
    IF id.kind = "dispatch" THEN s.active + 1 ELSE s.active)

ApplyCallIntent(s, e, id) ==
  WithAttempts(s,
    [s.attempts EXCEPT ![AttemptKey(e)] = [@ EXCEPT !.inFlight = id, !.state = "RUNNING"]],
    OneMoreCall(s, e),
    IF id.kind = "dispatch" THEN s.active + 1 ELSE s.active)

ApplyDispatchAck(s, e) ==
  WithAttempts(s,
    [s.attempts EXCEPT ![AttemptKey(e)] =
        [@ EXCEPT !.inFlight = NoCall, !.acked = TRUE, !.state = "RUNNING"]],
    s.count, s.active)

(* RESULT and CALL_FAILED: the call is settled and its slot given back.    *)
ApplySettled(s, e, state) ==
  WithAttempts(s,
    [s.attempts EXCEPT ![AttemptKey(e)] = [@ EXCEPT !.inFlight = NoCall, !.state = state]],
    s.count, Decrement(s.active))

(* Mutant: a disposition gives a slot back, though recovery already did.   *)
ApplyDisposition_Releases(s, e, disposition) ==
  WithAttempts(s,
    [s.attempts EXCEPT ![AttemptKey(e)] =
        [@ EXCEPT !.state = disposition, !.inFlight = NoCall, !.ambiguous = FALSE]],
    s.count, s.active - 1)

ApplyDisposition(s, e, disposition) ==
  WithAttempts(s,
    [s.attempts EXCEPT ![AttemptKey(e)] =
        [@ EXCEPT !.state = disposition, !.inFlight = NoCall, !.ambiguous = FALSE]],
    s.count, s.active)

ApplyGateIntent(s, e, id) ==
  WithGates(s,
    Put(s.gates, id, [requester |-> e, state |-> "CALLING", ambiguous |-> FALSE]),
    OneMoreCall(s, e))

ApplyGateSettled(s, id, state) ==
  WithGates(s, [s.gates EXCEPT ![id] = [@ EXCEPT !.state = state]], s.count)

InFlight(s) == {k \in DOMAIN s.attempts : s.attempts[k].inFlight # NoCall}
Calling(s) == {id \in DOMAIN s.gates : s.gates[id].state = "CALLING"}

(* Mutants of Late: the call is not flagged; it still counts as running.   *)
Late_Unflagged(attempt) == [attempt EXCEPT !.state = "PENDING_LATE"]
Late_StillRunning(attempt) == [attempt EXCEPT !.ambiguous = TRUE]

(* What replay does after the last record: a call that was in flight when  *)
(* the process died has an unknown outcome.  None of this is journaled.    *)
Late(attempt) == [attempt EXCEPT !.state = "PENDING_LATE", !.ambiguous = TRUE]

Recover(s) ==
  [seq |-> s.seq, ok |-> s.ok, mounts |-> s.mounts, epochs |-> s.epochs, count |-> s.count,
   attempts |-> [k \in DOMAIN s.attempts |->
     IF k \in InFlight(s) THEN Late(s.attempts[k]) ELSE s.attempts[k]],
   active |-> IF s.active >= Cardinality(InFlight(s))
              THEN s.active - Cardinality(InFlight(s)) ELSE 0,
   gates |-> [id \in DOMAIN s.gates |->
     IF id \in Calling(s) THEN Late(s.gates[id]) ELSE s.gates[id]]]

-----------------------------------------------------------------------------
(* The request loop.                                                       *)

Idle == [phase |-> "idle"]
Busy == [phase : {"reserved", "answered", "failed"}, env : Envelopes, id : CallIds]

Init ==
  /\ up = TRUE
  /\ mem = EmptyStore
  /\ disk = EmptyStore
  /\ counter = 0
  /\ handler = Idle
  /\ tasks = [k \in Keys |-> 0]
  /\ calls = [j \in Jobs |-> 0]

(* A new request is read only when the previous one has been answered.     *)
Accepting == up /\ handler = Idle /\ mem.seq < MaxSeq

Mounted(e) == e.mount \in DOMAIN mem.mounts /\ mem.mounts[e.mount] = e

(* require_attempt: the mount, the cast, and the caller is the one who cast. *)
Owns(e) ==
  /\ Mounted(e)
  /\ AttemptKey(e) \in DOMAIN mem.attempts
  /\ mem.attempts[AttemptKey(e)].owner = e

AttemptOf(e) == mem.attempts[AttemptKey(e)]

CounterAfterAppend(c) == IF c > mem.seq + 1 THEN c ELSE mem.seq + 1

NextCallId(e, kind) == [run |-> e.run, kind |-> kind, num |-> counter + 1]

(* When the job's committed epoch differs, apply_event throws before it    *)
(* reaches the counter, after the mount and the sequence have changed.     *)
Mount(e) ==
  /\ Accepting
  /\ e.mount \notin DOMAIN mem.mounts
  /\ mem' = ApplyMounted(mem, e)
  /\ disk' = ApplyMounted(disk, e)
  /\ counter' = IF e.job \in DOMAIN mem.epochs /\ mem.epochs[e.job] # e.epoch
                THEN counter ELSE CounterAfterAppend(counter)
  /\ UNCHANGED <<up, handler, tasks, calls>>

Cast(e) ==
  /\ Accepting
  /\ Mounted(e)
  /\ AttemptKey(e) \notin DOMAIN mem.attempts
  /\ mem' = ApplyCast(mem, e)
  /\ disk' = ApplyCast(disk, e)
  /\ counter' = CounterAfterAppend(counter)
  /\ UNCHANGED <<up, handler, tasks, calls>>

(* Mutants: the cap admits one more; a stranded dispatch may be retried.   *)
DispatchReady_OneMore(e) ==
  /\ Owns(e)
  /\ AttemptOf(e).state = "CAST" /\ AttemptOf(e).inFlight = NoCall
  /\ mem.active <= MaxConcurrent
  /\ mem.count[e.job] < MaxCalls

DispatchReady_Retry(e) ==
  /\ Owns(e)
  /\ AttemptOf(e).state \in {"CAST", "STRANDED"} /\ AttemptOf(e).inFlight = NoCall
  /\ mem.active < MaxConcurrent
  /\ mem.count[e.job] < MaxCalls

DispatchReady(e) ==
  /\ Owns(e)
  /\ AttemptOf(e).state = "CAST" /\ AttemptOf(e).inFlight = NoCall
  /\ mem.active < MaxConcurrent
  /\ mem.count[e.job] < MaxCalls

(* Mutant: the call cap is compared one off.                               *)
ResultReady_OneMore(e) ==
  /\ Owns(e)
  /\ AttemptOf(e).state = "RUNNING" /\ AttemptOf(e).acked /\ AttemptOf(e).inFlight = NoCall
  /\ mem.count[e.job] <= MaxCalls

ResultReady(e) ==
  /\ Owns(e)
  /\ AttemptOf(e).state = "RUNNING" /\ AttemptOf(e).acked /\ AttemptOf(e).inFlight = NoCall
  /\ mem.count[e.job] < MaxCalls

GateReady(e) ==
  /\ Mounted(e)
  /\ "request_gate" \in RoleTools(e.role)
  /\ mem.count[e.job] < MaxCalls

BeginCall(e, kind) ==
  LET id == NextCallId(e, kind) IN
  /\ mem' = ApplyCallIntent(mem, e, id)
  /\ disk' = ApplyCallIntent(disk, e, id)
  /\ counter' = CounterAfterAppend(counter + 1)
  /\ handler' = [phase |-> "reserved", env |-> e, id |-> id]
  /\ UNCHANGED <<up, tasks, calls>>

BeginDispatch(e) == Accepting /\ DispatchReady(e) /\ BeginCall(e, "dispatch")

BeginResult(e) == Accepting /\ ResultReady(e) /\ BeginCall(e, "result")

BeginGate(e) ==
  LET id == NextCallId(e, "gate") IN
  /\ Accepting
  /\ GateReady(e)
  /\ mem' = ApplyGateIntent(mem, e, id)
  /\ disk' = ApplyGateIntent(disk, e, id)
  /\ counter' = CounterAfterAppend(counter + 1)
  /\ handler' = [phase |-> "reserved", env |-> e, id |-> id]
  /\ UNCHANGED <<up, tasks, calls>>

(* The request names an outdated expected_version: the append is refused,  *)
(* but next_call_id has already drawn a number.                            *)
RefuseStaleBegin(e) ==
  /\ Accepting
  /\ DispatchReady(e) \/ ResultReady(e) \/ GateReady(e)
  /\ counter < mem.seq + MaxDrift
  /\ counter' = counter + 1
  /\ UNCHANGED <<up, mem, disk, handler, tasks, calls>>

(* harness->call_tool.  It answers, or throws: before the request is sent  *)
(* (malformed arguments, dead child), or after (timeout, engine error).    *)
CallEngine ==
  /\ up
  /\ handler.phase = "reserved"
  /\ \E reached, answered \in BOOLEAN :
       /\ answered => reached
       /\ handler' = [handler EXCEPT !.phase = IF answered THEN "answered" ELSE "failed"]
       /\ tasks' = IF reached /\ handler.id.kind = "dispatch"
                   THEN [tasks EXCEPT ![AttemptKey(handler.env)] = @ + 1] ELSE tasks
       /\ calls' = IF reached THEN [calls EXCEPT ![handler.env.job] = @ + 1] ELSE calls
  /\ UNCHANGED <<up, mem, disk, counter>>

(* The guards of acknowledge_dispatch, complete_result and fail_call.      *)
CallMatches(kind) ==
  /\ handler.id.kind = kind
  /\ Owns(handler.env)
  /\ AttemptOf(handler.env).inFlight = handler.id

(* The guards of complete_gate and fail_gate.                              *)
GateMatches ==
  /\ handler.id.kind = "gate"
  /\ Mounted(handler.env)
  /\ handler.id \in Calling(mem)
  /\ mem.gates[handler.id].requester = handler.env

Answer(m, d) ==
  /\ mem' = m
  /\ disk' = d
  /\ counter' = CounterAfterAppend(counter)
  /\ handler' = Idle
  /\ UNCHANGED <<up, tasks, calls>>

AcknowledgeDispatch ==
  /\ up /\ handler.phase = "answered"
  /\ CallMatches("dispatch")
  /\ Answer(ApplyDispatchAck(mem, handler.env), ApplyDispatchAck(disk, handler.env))

(* The answer carried terminal, well-formed evidence.                      *)
CompleteResult ==
  /\ up /\ handler.phase = "answered"
  /\ CallMatches("result")
  /\ Answer(ApplySettled(mem, handler.env, "RESULT"), ApplySettled(disk, handler.env, "RESULT"))

(* Mutant: a failed dispatch goes back to CAST, to be tried again.         *)
FailCall_BackToCast ==
  /\ up
  /\ handler.phase = "failed" /\ \E kind \in {"dispatch", "result"} : CallMatches(kind)
  /\ Answer(ApplySettled(mem, handler.env, "CAST"), ApplySettled(disk, handler.env, "CAST"))

(* call_tool threw, or complete_result refused the evidence it returned.   *)
FailCall ==
  /\ up
  /\ \/ handler.phase = "failed" /\ \E kind \in {"dispatch", "result"} : CallMatches(kind)
     \/ handler.phase = "answered" /\ CallMatches("result")
  /\ Answer(ApplySettled(mem, handler.env, "STRANDED"), ApplySettled(disk, handler.env, "STRANDED"))

CompleteGate ==
  /\ up /\ handler.phase = "answered"
  /\ GateMatches
  /\ Answer(ApplyGateSettled(mem, handler.id, "RESULT"), ApplyGateSettled(disk, handler.id, "RESULT"))

(* call_tool threw, or its receipt does not prove the requested gate.      *)
FailGate ==
  /\ up /\ handler.phase \in {"answered", "failed"}
  /\ GateMatches
  /\ Answer(ApplyGateSettled(mem, handler.id, "STRANDED"), ApplyGateSettled(disk, handler.id, "STRANDED"))

DisposeLate(e, disposition) ==
  /\ Accepting
  /\ Owns(e)
  /\ AttemptOf(e).state \in {"PENDING_LATE", "STRANDED"}
  /\ mem' = ApplyDisposition(mem, e, disposition)
  /\ disk' = ApplyDisposition(disk, e, disposition)
  /\ counter' = CounterAfterAppend(counter)
  /\ UNCHANGED <<up, handler, tasks, calls>>

(* The process dies between two steps: memory is lost, the journal stays.  *)
Crash ==
  /\ up
  /\ up' = FALSE
  /\ mem' = EmptyStore
  /\ counter' = 0
  /\ handler' = Idle
  /\ UNCHANGED <<disk, tasks, calls>>

(* A new process replays the journal; when a record throws, it exits.      *)
Restart ==
  /\ ~up
  /\ disk.ok
  /\ up' = TRUE
  /\ mem' = Recover(disk)
  /\ counter' = disk.seq
  /\ UNCHANGED <<disk, handler, tasks, calls>>

Request ==
  \E e \in Envelopes :
    \/ Mount(e) \/ Cast(e)
    \/ BeginDispatch(e) \/ BeginResult(e) \/ BeginGate(e) \/ RefuseStaleBegin(e)
    \/ \E disposition \in Final : DisposeLate(e, disposition)

Complete ==
  AcknowledgeDispatch \/ CompleteResult \/ FailCall \/ CompleteGate \/ FailGate

Next == Request \/ CallEngine \/ Complete \/ Crash \/ Restart

Spec == Init /\ [][Next]_vars

(* The read of the engine's answer is bounded by call_timeout_ms, so an    *)
(* open request runs to its end; operators restart an organ that died.     *)
FairSpec ==
  /\ Spec
  /\ WF_vars(CallEngine) /\ WF_vars(Complete) /\ WF_vars(Restart)

-----------------------------------------------------------------------------
(* Properties.                                                             *)

StoreOK(s) ==
  /\ s.seq \in Nat /\ s.ok \in BOOLEAN /\ s.active \in Nat
  /\ s.count \in [Jobs -> Nat]
  /\ DOMAIN s.mounts \subseteq Mounts
  /\ \A m \in DOMAIN s.mounts : s.mounts[m] \in Envelopes /\ s.mounts[m].mount = m
  /\ DOMAIN s.epochs \subseteq Jobs
  /\ \A j \in DOMAIN s.epochs : s.epochs[j] \in Nat \ {0}
  /\ DOMAIN s.attempts \subseteq Keys
  /\ \A k \in DOMAIN s.attempts : s.attempts[k] \in Attempt
  /\ DOMAIN s.gates \subseteq CallIds
  /\ \A id \in DOMAIN s.gates : s.gates[id] \in GateAttempt

(* The type of every variable.                                             *)
TypeOK ==
  /\ up \in BOOLEAN
  /\ StoreOK(mem) /\ StoreOK(disk)
  /\ counter \in Nat
  /\ handler \in {Idle} \cup Busy
  /\ tasks \in [Keys -> Nat]
  /\ calls \in [Jobs -> Nat]

Occupied(s) == {k \in DOMAIN s.attempts : s.attempts[k].state = "RUNNING"}

(* max_concurrent_dispatches bounds the attempts that hold a slot, through *)
(* any number of crashes: replay's give-back never undercounts them.       *)
CapRespected == up => Cardinality(Occupied(mem)) <= MaxConcurrent

(* The engine never sees a dispatch whose intent a crash could forget: the *)
(* journal already shows that the attempt has left CAST.                   *)
IntentBeforeCall ==
  \A k \in Keys : tasks[k] > 0 =>
    k \in DOMAIN disk.attempts /\ disk.attempts[k].state # "CAST"

(* An attempt is dispatched at most once, whatever crashes come between:   *)
(* an ambiguous call is exposed and never sent again.                      *)
DispatchedAtMostOnce == \A k \in Keys : tasks[k] <= 1

(* Evidence of an attempt exists only if the engine did receive its task.  *)
EvidenceHasCall ==
  \A k \in DOMAIN disk.attempts : disk.attempts[k].state = "RESULT" => tasks[k] = 1

(* max_calls_per_job bounds the calls the engine receives for a job over   *)
(* all the lives of the process.                                           *)
CallCapRespected == \A j \in Jobs : calls[j] <= disk.count[j] /\ disk.count[j] <= MaxCalls

(* A request that has its answer can always journal it: no acknowledgement,*)
(* result, gate receipt or failure is refused once the call was made.      *)
AnswerNeverRefused ==
  handler.phase \in {"answered", "failed"} =>
    GateMatches \/ \E kind \in {"dispatch", "result"} : CallMatches(kind)

WorksOnAttempt(k) ==
  handler.phase # "idle" /\ handler.id.kind # "gate" /\ AttemptKey(handler.env) = k

WorksOnGate(id) ==
  handler.phase # "idle" /\ handler.id.kind = "gate" /\ handler.id = id

(* The live process shows every call that the journal leaves open and that *)
(* no handler is working on as late and ambiguous; all the rest of its     *)
(* attempts and gates are exactly what the journal says.                   *)
AmbiguityExposed ==
  up =>
    /\ DOMAIN mem.attempts = DOMAIN disk.attempts
    /\ \A k \in DOMAIN mem.attempts :
         IF k \in InFlight(disk) /\ ~WorksOnAttempt(k)
         THEN mem.attempts[k].state = "PENDING_LATE" /\ mem.attempts[k].ambiguous
         ELSE mem.attempts[k] = disk.attempts[k]
    /\ DOMAIN mem.gates = DOMAIN disk.gates
    /\ \A id \in DOMAIN mem.gates :
         IF id \in Calling(disk) /\ ~WorksOnGate(id)
         THEN mem.gates[id].state = "PENDING_LATE" /\ mem.gates[id].ambiguous
         ELSE mem.gates[id] = disk.gates[id]

(* Every open call is settled or exposed as late, if the journal can be    *)
(* replayed at all: no crash leaves a call open that nobody is told of.    *)
OpenCallsSurface ==
  \A k \in Keys :
    (k \in InFlight(disk) /\ disk.ok) ~>
      \/ ~disk.ok
      \/ k \notin InFlight(disk)
      \/ up /\ mem.attempts[k].state = "PENDING_LATE"

(* The attempt as the journal shows it.                                    *)
DurableLife(k) ==
  CASE k \notin DOMAIN disk.attempts -> "NONE"
    [] k \in InFlight(disk) -> "OPEN"
    [] OTHER -> disk.attempts[k].state

Life == INSTANCE AttemptLife
          WITH Attempts <- Keys, life <- [k \in Keys |-> DurableLife(k)], sent <- tasks

(* The core implements the abstract life of its attempts: seen through the *)
(* journal, every request, answer, crash and recovery is a step of it.     *)
ImplementsLife == Life!Spec

(* While fewer attempts than the cap hold a slot, the cap refuses none of   *)
(* them: the slot counter never counts a slot that no attempt holds.       *)
SlotsAccounted ==
  (up /\ handler = Idle /\ Cardinality(Occupied(mem)) < MaxConcurrent)
    => mem.active < MaxConcurrent

(* A retained gate receipt stays: RESULT is the last state of a gate call. *)
GateReceiptRetained ==
  [][\A id \in DOMAIN disk.gates :
       disk.gates[id].state = "RESULT" => disk'.gates[id].state = "RESULT"]_vars

(* The journal can always be replayed by the next process.                 *)
JournalReplayable == disk.ok
=============================================================================
