------------------------------ MODULE RequestLoop ------------------------------
(***************************************************************************)
(* The request loop (src/src/main.cpp): one line in, one answer out, while *)
(* the organ may die between the append and the answer, and a client that  *)
(* was not answered sends the line again, or asks for the state version    *)
(* and sends the request anew.  An organ is started with a command line    *)
(* that decides which operations it offers; its journal is what remains    *)
(* from one organ to the next.                                             *)
(***************************************************************************)
EXTENDS Integers, Sequences, FiniteSets

CONSTANTS
  Requests,      \* what clients ask for: records [op, name]
  Modes,         \* the command lines with which organs are started
  MaxLearnings,  \* max_learnings of the ledger policy
  MaxSeq,        \* bound: no line is taken past this length of the journal
  MaxLines,      \* bound: lines that are ever sent
  MaxPending     \* bound: lines in the pipe to the organ

(* --workroom-policy adds to the core's operations, --ledger-policy to     *)
(* those; --ledger-policy without --workroom-policy is refused.            *)
Surfaces == {"core", "workroom", "ledger"}

WorkroomOps ==
  {"bump_job_epoch", "gate_evidence_view", "prove_adapter", "revoke_mount",
   "set_group_tags", "set_member_execution", "workroom_commutative_observation",
   "workroom_post", "workroom_read", "workroom_status"}

LedgerOps ==
  {"ledger_create_candidate", "ledger_feedback", "ledger_injection",
   "ledger_protected_namespace_write", "ledger_reconcile", "ledger_review", "ledger_status",
   "harness_gate"}

CoreOps ==
  {"status", "mount", "cast", "tools", "authorize_tool", "finish_job", "dispatch", "result",
   "dispose_late"}

Offered(mode) ==
  CASE mode = "core" -> CoreOps
    [] mode = "workroom" -> CoreOps \cup WorkroomOps
    [] mode = "ledger" -> CoreOps \cup WorkroomOps \cup LedgerOps

(* Operations that append nothing, whatever they answer.                   *)
Views ==
  {"status", "tools", "authorize_tool", "finish_job", "workroom_status", "gate_evidence_view",
   "ledger_status", "ledger_protected_namespace_write"}

(* Operations that append an intent, call the engine, append the outcome.  *)
External == {"dispatch", "result", "harness_gate"}

(* Operations that are refused once their name was claimed.                *)
Claiming ==
  {"mount", "cast", "dispatch", "revoke_mount", "prove_adapter", "ledger_create_candidate"}

ChatterLane == {"workroom_post", "workroom_read", "workroom_commutative_observation"}

Unversioned == {"workroom_commutative_observation"}

ASSUME RequestAssumption ==
  \A r \in Requests : DOMAIN r = {"op", "name"} /\ r.op \in CoreOps \cup WorkroomOps \cup LedgerOps
ASSUME ModeAssumption == Modes \subseteq Surfaces /\ Modes # {}
ASSUME BoundAssumption ==
  MaxLearnings \in Nat /\ MaxSeq \in Nat /\ MaxLines \in Nat /\ MaxPending \in Nat

VARIABLES
  journal,  \* the records: the line that caused each, and its part in it
  mode,     \* the surface of the live organ, or "down"
  stdin,    \* lines the organ has not read
  work,     \* what the loop is doing with the line it read
  stdout,   \* answers printed, by all organs
  lost      \* lines that an organ took with it when it died (history)

vars == <<journal, mode, stdin, work, stdout, lost>>

Lines == [request : Requests, version : 0 .. MaxSeq]

Idle == [phase |-> "idle"]

Init ==
  /\ journal = <<>> /\ mode \in Modes /\ stdin = <<>> /\ work = Idle
  /\ stdout = <<>> /\ lost = 0

Up == mode # "down"
Version == Len(journal)
OpAt(i) == journal[i].line.request.op

-----------------------------------------------------------------------------
(* What the operations check.                                              *)

(* The part of a line's records that claims its name.                      *)
Claims == {"whole", "intent", "poison"}

(* Mutant: only a finished call claims its name.                           *)
Taken_WhenFinished(request) ==
  \E i \in DOMAIN journal :
    journal[i].line.request = request /\ journal[i].part \in {"whole", "outcome", "poison"}

Taken(request) ==
  \E i \in DOMAIN journal :
    journal[i].line.request = request /\ journal[i].part \in Claims

Learnings == {i \in DOMAIN journal : OpAt(i) = "ledger_create_candidate"}

RoomFor(request) ==
  request.op = "ledger_create_candidate" => Cardinality(Learnings) < MaxLearnings

(* Mutant: the first record after the version that was read is skipped.    *)
Fresh_OffByOne(line) ==
  \/ line.request.op \in Unversioned
  \/ line.version = Version
  \/ /\ line.request.op \notin ChatterLane
     /\ line.version < Version
     /\ \A i \in line.version + 2 .. Version : OpAt(i) \in Unversioned

(* The precondition of append_event: nothing, or in the authority lane     *)
(* nothing but commutative observations, came after the version.           *)
Fresh(line) ==
  \/ line.request.op \in Unversioned
  \/ line.version = Version
  \/ /\ line.request.op \notin ChatterLane
     /\ line.version < Version
     /\ \A i \in line.version + 1 .. Version : OpAt(i) \in Unversioned

Admitted(line) ==
  /\ line.request.op \in Offered(mode) \ Views
  /\ line.request.op \in Claiming => ~Taken(line.request)
  /\ RoomFor(line.request)
  /\ Fresh(line)

Record(line, part) == [line |-> line, part |-> part]

-----------------------------------------------------------------------------
(* The loop.                                                               *)

Answering(line, outcome, version) ==
  [phase |-> "answering",
   answer |-> [line |-> line, outcome |-> outcome, version |-> version]]

Reading == Up /\ work = Idle /\ stdin # <<>> /\ Version < MaxSeq

Send(line) ==
  /\ Up /\ Len(stdin) < MaxPending
  /\ Len(stdout) + lost + Len(stdin) + (IF work = Idle THEN 0 ELSE 1) < MaxLines
  /\ line.version <= Version
  /\ stdin' = Append(stdin, line)
  /\ UNCHANGED <<journal, mode, work, stdout, lost>>

Commit ==
  /\ Reading
  /\ LET line == Head(stdin) IN
     /\ Admitted(line) /\ line.request.op \notin External
     /\ journal' = Append(journal, Record(line, "whole"))
     /\ work' = Answering(line, "COMMITTED", Version + 1)
  /\ stdin' = Tail(stdin)
  /\ UNCHANGED <<mode, stdout, lost>>

Intent(line) ==
  /\ journal' = Append(journal, Record(line, "intent"))
  /\ work' = [phase |-> "calling", line |-> line]

WithPacket(line) == mode = "ledger" /\ line.request.op = "dispatch"

Reserve ==
  /\ Reading
  /\ LET line == Head(stdin) IN
     /\ Admitted(line) /\ line.request.op \in External /\ ~WithPacket(line)
     /\ Intent(line)
  /\ stdin' = Tail(stdin)
  /\ UNCHANGED <<mode, stdout, lost>>

(* With a ledger, a dispatch first appends the receipt of its injection    *)
(* and begins at the version of that.                                      *)
Inject ==
  /\ Reading
  /\ LET line == Head(stdin) IN
     /\ Admitted(line) /\ WithPacket(line)
     /\ journal' = Append(journal, Record(line, "injection"))
     /\ work' = [phase |-> "injected", line |-> line]
  /\ stdin' = Tail(stdin)
  /\ UNCHANGED <<mode, stdout, lost>>

(* begin_dispatch reserves the call, or a cap of the core refuses it: the  *)
(* receipt stays.                                                          *)
ReserveInjected ==
  /\ Up /\ work.phase = "injected"
  /\ \/ Intent(work.line)
     \/ journal' = journal /\ work' = Answering(work.line, "REFUSED", Version)
  /\ UNCHANGED <<mode, stdin, stdout, lost>>

(* Mutant: the answer names the version of the intent.                     *)
Outcome_NamesIntent ==
  /\ Up /\ work.phase = "calling"
  /\ journal' = Append(journal, Record(work.line, "outcome"))
  /\ \E outcome \in {"COMMITTED", "REFUSED"} :
       work' = Answering(work.line, outcome, Version)
  /\ UNCHANGED <<mode, stdin, stdout, lost>>

(* The call was answered, or it failed: EXTERNAL_CALL_FAILED.              *)
Outcome ==
  /\ Up /\ work.phase = "calling"
  /\ journal' = Append(journal, Record(work.line, "outcome"))
  /\ \E outcome \in {"COMMITTED", "REFUSED"} :
       work' = Answering(work.line, outcome, Version + 1)
  /\ UNCHANGED <<mode, stdin, stdout, lost>>

(* Mutant: a refusal leaves the loop and ends the organ.                   *)
Refuse_Exits ==
  /\ Reading
  /\ mode' = "down" /\ stdin' = <<>>
  /\ UNCHANGED <<journal, work, stdout, lost>>

(* A mount that names another epoch than its job has, by an earlier mount: *)
(* the record is written and the mount entered before apply_event throws,  *)
(* so the client is told of a refusal; no later organ replays the journal. *)
RefuseAppended ==
  /\ Reading
  /\ LET line == Head(stdin) IN
     /\ Admitted(line) /\ line.request.op = "mount"
     /\ \E i \in DOMAIN journal : OpAt(i) = "mount"
     /\ journal' = Append(journal, Record(line, "poison"))
     /\ work' = Answering(line, "REFUSED", Version + 1)
  /\ stdin' = Tail(stdin)
  /\ UNCHANGED <<mode, stdout, lost>>

(* Any line may be refused, by the guards that DispatchCore, Workroom and  *)
(* Ledger model, before anything is appended.                              *)
Refuse ==
  /\ Reading
  /\ work' = Answering(Head(stdin), "REFUSED", Version)
  /\ stdin' = Tail(stdin)
  /\ UNCHANGED <<journal, mode, stdout, lost>>

View ==
  /\ Reading
  /\ Head(stdin).request.op \in Views \cap Offered(mode)
  /\ work' = Answering(Head(stdin), "VIEW", Version)
  /\ stdin' = Tail(stdin)
  /\ UNCHANGED <<journal, mode, stdout, lost>>

PrintAnswer ==
  /\ Up /\ work.phase = "answering"
  /\ stdout' = Append(stdout, work.answer)
  /\ work' = Idle
  /\ UNCHANGED <<journal, mode, stdin, lost>>

(* Mutant: the next organ reads on from the pipe of the one that died.     *)
Crash_KeepsInput ==
  /\ Up
  /\ mode' = "down" /\ work' = Idle
  /\ lost' = lost + (IF work = Idle THEN 0 ELSE 1)
  /\ UNCHANGED <<journal, stdin, stdout>>

(* The organ dies, and the pipes with it.                                  *)
Crash ==
  /\ Up
  /\ mode' = "down" /\ stdin' = <<>> /\ work' = Idle
  /\ lost' = lost + Len(stdin) + (IF work = Idle THEN 0 ELSE 1)
  /\ UNCHANGED <<journal, stdout>>

Poisoned == \E i \in DOMAIN journal : journal[i].part = "poison"

Opens(m) == ~Poisoned /\ (m = "ledger" => Cardinality(Learnings) <= MaxLearnings)

(* main: the journal is replayed and the policies are mounted.             *)
Start(m) ==
  /\ ~Up
  /\ Opens(m)
  /\ mode' = m
  /\ UNCHANGED <<journal, stdin, work, stdout, lost>>

Answer ==
  \/ Commit \/ Inject \/ ReserveInjected \/ Reserve \/ Outcome
  \/ RefuseAppended \/ Refuse \/ View \/ PrintAnswer

Next ==
  \/ \E line \in Lines : Send(line)
  \/ Answer
  \/ Crash
  \/ \E m \in Modes : Start(m)

Spec == Init /\ [][Next]_vars

(* The loop runs as long as there are lines, and every call returns; an    *)
(* organ need not be started again.                                        *)
FairSpec == Spec /\ WF_vars(Answer)

-----------------------------------------------------------------------------
(* Properties.                                                             *)

(* The records that one line leaves, in their order.                       *)
Parts == {"injection", "intent", "outcome", "whole", "poison"}
Precedes == {<<"injection", "intent">>, <<"injection", "outcome">>, <<"intent", "outcome">>}

Records == [line : Lines, part : Parts]

Answers ==
  [line : Lines, outcome : {"COMMITTED", "REFUSED", "VIEW"}, version : Nat]

(* The type of every variable; an organ that died holds no line.           *)
TypeOK ==
  /\ journal \in Seq(Records) /\ mode \in Modes \cup {"down"} /\ stdin \in Seq(Lines)
  /\ \/ work = Idle
     \/ work.phase \in {"injected", "calling"} /\ work.line \in Lines
     \/ work.phase = "answering" /\ work.answer \in Answers
  /\ mode = "down" => work = Idle /\ stdin = <<>>
  /\ stdout \in Seq(Answers) /\ lost \in Nat

(* A line that names a state version takes effect at most once, however    *)
(* often it is sent again after a crash that left it without an answer:    *)
(* rebasing over observations never lets a line pass its own record.       *)
SameLineOnce ==
  \A i, j \in DOMAIN journal :
    i < j /\ journal[i].line = journal[j].line /\ OpAt(i) \notin Unversioned
      => <<journal[i].part, journal[j].part>> \in Precedes

(* What claims a name, a dispatch among them, takes effect at most once    *)
(* even when the client sends it anew at the state version it asked for,   *)
(* to an organ of any command line.                                        *)
NameOnce ==
  \A i, j \in DOMAIN journal :
    /\ OpAt(i) \in Claiming /\ journal[i].line.request = journal[j].line.request
    /\ journal[i].part \in Claims /\ journal[j].part \in Claims
    => i = j

(* An answer that says COMMITTED names the record of its own line, in the  *)
(* journal that all later organs replay.                                   *)
ToldIsTrue ==
  \A k \in DOMAIN stdout :
    stdout[k].outcome = "COMMITTED" =>
      /\ stdout[k].version \in DOMAIN journal
      /\ journal[stdout[k].version].line = stdout[k].line
      /\ journal[stdout[k].version].part \in {"whole", "outcome"}

(* Every line that was sent is answered, or was lost with its organ.       *)
EveryLineIsAnswered ==
  \A n \in 1 .. MaxLines :
    (Len(stdout) + lost + Len(stdin) + (IF work = Idle THEN 0 ELSE 1) >= n)
      ~> (Len(stdout) + lost >= n \/ Version >= MaxSeq)
=============================================================================
