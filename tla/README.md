# Dispatch Organ: TLA+ models and proofs

The Dispatch Organ is a C++20 process that stands between operators and a
language-model engine.  Operators send it one JSON request per line; it decides,
writes what it decided to an append-only journal, calls the engine
(`swarm-harness`, a subprocess that speaks JSON-RPC over pipes), and answers.  A
restart replays the journal.  This directory holds TLA+ modules of the organ, the
TLC runs that check them on small instances, and TLAPS proofs about every
component: each safety property of the runs that pass is a theorem, for every
value of the constants.

    tlc -workers 2 -config CoreDispatch.cfg MCDispatchCore   # one run
    tlapm DispatchCoreProofs.tla                             # the proofs of a module

`PROJECT.json` maps every definition to the lines it translates, and lists the
runs, the mutants that show each property can fail, the findings, the hazards and
the theorems.

## 1. The system

| component | source | state | operations | module |
|---|---|---|---|---|
| core | `src/src/core.cpp`, `core.hpp` | `mounts_`, `current_job_epoch_`, `attempts_`, `gate_attempts_`, `calls_by_job_`, `active_dispatches_`, `call_counter_` | mount, cast, begin / acknowledge / complete / fail of dispatch, result and gate, dispose_late, replay | `DispatchCore`, `AttemptLife`; with revocations, epochs and injections, `CoreRoster` |
| append authority | `append_event` | `writer_active_`, `waiting_authority_writers_`, `state_version_`, `events_` | conditional append in the authority or the chatter lane | `AppendGate`, `ConditionalLog` |
| journal file | constructor, `replay`, `append_event` | the file, what of it is synced, the flock | open, replay, write, fsync, apply | `JournalFile` |
| engine link | `harness_client.cpp` | `next_id_`, the pipes, `buffered_output_`, the child process | handshake, call_tool with a timeout, stop | `HarnessLink`, `EngineCall` |
| workroom | `workroom.cpp` | `mount_live_`, `room_records_`, `member_watermark_`, counters, groups, execution states, `proven_adapters_` | revoke, bump epoch, prove adapter, set execution / groups, post, observe, read | `Workroom` |
| experience ledger | `ledger.cpp`, dispatch in `main.cpp` | `learnings_`, receipts, reconciliations | candidate, review, reconcile, inject, feedback | `Ledger` |
| request loop | `main.cpp` | the command line's surface, the line it works on | read a line, dispatch it, print an answer; begin, call, complete or fail | `RequestLoop`; the three external calls in `DispatchCore`, the injection in `Ledger` |

**How they interact.**  Every operation of the core, the workroom and the ledger
reads maps of the one `Core` object, evaluates its guard, and calls
`append_event` with a record whose `read_set` names the state version that the
operator brought.  `append_event` admits one writer, refuses the record if
anything but commutative observations was appended since that version, writes and
fsyncs a line, and calls `apply_event`, which is also what replay calls for every
line.  Three requests (dispatch, result, harness_gate) append twice with a call to
the engine in between: an intent before it, an outcome after it.  A dispatch with
the ledger mounted appends a third record, the injection receipt, before them.

**What is hard about it.**

* A crash between intent and outcome: was the engine called?  Replay cannot know,
  so it must show the call as late and ambiguous, and never send it again.
* What replay adds (state `PENDING_LATE`, the slot it gives back) is not in the
  journal.  The next replay starts from the records alone.
* Guards are evaluated outside the gate of `append_event`; only the version that
  the caller brought protects them.
* The engine is slow, refuses, hangs and dies; answers arrive after their timeout.
* An answer is printed after its record is durable; a client that died or saw the
  organ die sends its line again, perhaps to an organ with another command line.
* Writes stop short and syncs fail; another organ is started on the same journal.
* Room records are numbered by the journal's sequence, shared by all rooms;
  receivers keep one watermark; epochs cancel what is queued.
* Maturities are computed before the append that stores them.

`PROJECT.json` lists these hazards at their lines with the properties that would
catch them, including those that no property covers yet, with the reason.

**What makes each component correct.**  Core: caps hold over crashes, an intent
precedes its call, a task is dispatched once, evidence has a call, open calls are
exposed, an answer that was obtained can be journaled, outcomes are final.  Append
authority: it is one atomic conditional append, in two lanes, and it returns.
Journal: it can be opened again, and what was acknowledged stays.  Link: an answer
belongs to its call, a call ends, and the engine ends with its organ.  Request
loop: a line takes effect once and its answer is true.  Workroom: records are
delivered once, in their epoch, none is passed over, and what waits is shown.  Ledger: no contradiction is lost, nobody
verifies their own claim, a prompt contains what its receipt says.

## 2. The modules

### `DispatchCore`

`append_event` has the same effect on the journal and on the maps: both change by
`apply_event`.  The journal is therefore represented by `disk`, *the store its
records yield*, and the process by `mem`.  The `Apply...` operators are the
branches of `apply_event`; an action applies one of them to both.  They differ
only by `Recover`, what replay does after the last record.  `Restart` sets `mem`
to `Recover(disk)`; `Crash` is possible between any two steps.

The request loop handles one request at a time, so a `handler` variable holds the
call that the loop is in the middle of, with its phase: `reserved` (the intent is
journaled), `answered` or `failed` (an exception was thrown, before or after the
engine got the call).  `Accepting` is the loop waiting for a request.  `tasks` and `calls` count
what the engine was given; they are what the organ cannot see after a crash.

* A request comes with the version the operator expects.  One with the current
  version passes; any other is refused with nothing changed, except that
  `next_call_id` has advanced `call_counter_` before the append could refuse:
  `RefuseStaleBegin`.  The counter is bounded by `MaxDrift` ahead of the journal.
* A mount whose epoch differs from its job's is written and *then* found
  impossible (`ApplyMounted` clears `ok`): the store cannot be replayed any more.
* Call ids keep their run, kind and number: their uniqueness is the question.
* Prompts, receipts, hashes and round numbers are left out, except that answers
  which `complete_result` and `complete_gate` reject become failures.

`AttemptLife` is the abstract specification: what a reader of the journal sees of
an attempt (`NONE`, `CAST`, `OPEN`, `RUNNING`, `RESULT`, `STRANDED`, a disposition)
and how often the engine got its task.  `ImplementsLife` states that the core
implements it, crashes and recoveries included.

### `CoreRoster`

`DispatchCore` with what other components do to its mounts: `RevokeMount` and
`BumpJobEpoch` append between the steps of attempts that are cast, called, crashed
and recovered; `Inject` is the receipt that a dispatch with a ledger appends before
`begin_dispatch`, which names the receipt's version (`DispatchInjected`).  The core
never asks whether a mount is live; `Live` is `require_live_room_mount`, which the
workroom and the ledger ask.  `Restart` may choose another command line.  The
module adds to the core and replaces nothing, so its actions are the core's; with
the ledger a dispatch is refused at its injection, before a number is drawn, so
`RefuseStaleBegin` is then left to results and gates.

### `RequestLoop`

`main`: a line is read, admitted by the surface of the command line (`Offered`),
turned into no record (a view, a refusal), one, or the two or three of an external
call, and answered.  The journal keeps for each record the line that caused it,
and which part of it the record is: that is all that the guards and the properties
tell apart.  `Taken` is the guard of every operation that claims a name (mount id,
attempt key, learning id, adapter), `Fresh` the precondition of `append_event`,
`RoomFor` and `Opens` the cap on learnings when a candidate is made and when
`enable_ledger` replays them.  A crash takes the lines in the pipe and the answer
with it (`lost`); `Start` replays, with any command line.  `Send` is external: a
client names any version that was ever current, and may repeat any line.
Any line may be refused (`Refuse`): the checks of its fields stand behind it.  A
mount may also be refused *after* its record was written (`RefuseAppended`, an
epoch that conflicts with its job's): the record claims its name in the running
organ, and no later organ replays it (`Poisoned`).

### `AppendGate` and `ConditionalLog`

`append_event` line by line, under threads of both lanes that call operations with
a guard.  `Start` reads the version, `CheckGuard` the maps, without a lock; `Enter`
to `Leave` are the gate, the validation, the write with the publication of the
version, and the application to the maps, in the order of the code.  A thread that
wakes goes back to the predicate.  `Start` brings any version that was ever
current: that of an answer, however old, or what `version()` returns at any
moment, in the middle of an `apply_event` too, as the threaded test does
(workroom_tests.cpp:457).  `early` is history: the callers of the last kind.
`ConditionalLog` is what a caller relies on: one log, extended in one step by
records that are admissible.  Claimed names stand for mount ids, tasks and
learnings: what an operation finds free and its record takes.

### `JournalFile`

Two organs and one file.  A line is whole, lacks its newline, or is torn; the
record hash is folded into that shape, and a line after one without newline
continues it.  `synced` lines survive a power loss; where the file system asks for
the directory to be synced as well, which the code never does, the whole file may
go (`EntryLost`).  A kill may fall between two writes of one line (`KillInWrite`).
`FaultSets` are the environments: which faults (kill, line in pieces, failed write,
failed sync, power loss, lost directory entry) may occur together.  What a line
says is not asked here: that a record which replay refuses can be written is
`DispatchCore`'s `JournalReplayable`.  `committed` is history: the records that were acknowledged, or shown by
a replay.

### `HarnessLink`

`request` / `call_tool` against an engine that serves lines in order, may take
longer than the timeout, refuse before or after the effect, hang (it takes no
step) or die.  The first two calls are the handshake; whatever fails there makes
the constructor stop the engine and throw.  Writes block on a full pipe, and with a line
longer than the pipe even on an empty one (`feeding`), without a timeout, as in the
code; a write to a dead engine raises SIGPIPE, which nobody
ignores.  At the end of input `stop` closes the pipes, polls the child, sends
SIGTERM after twenty polls and waits.  The engine's actions are external.

Time is discrete (`Tick`) and counts three things: how long the poll has lasted,
how long the engine has worked on a call, and how long the task of a result call
still needs.  `result` asks the engine to wait for `call_timeout_ms`; the engine
cuts that to a cap of its own (`Wait`) and then answers that the task still runs,
which `complete_result` rejects.  `slow` is history: the engine let time pass with
something to do.

`EngineCall` is what the organ relies on: calls are made one at a time, one that
returns was carried out, none is carried out twice, and after a timeout none
returns.  A call that comes back with an unfinished task maps to one that returned.

### `Workroom`

Every operation is one append, and replay rebuilds its state exactly, so crashes
add nothing and are left out.  A `room_seq` is the position of a record among all
rooms' records, (thread, job) is one room.  Mounts with an epoch that conflicts
with their job's are left to `DispatchCore`.  `latest` is the mount with the
greatest `mount_version_`, which `workroom_status` shows for a member, and
`ShownUnread` the records it counts.  `delivered` is history.  Payloads,
replies and rounds are checks on one request.

### `Ledger`

`Begin` evaluates the guard of an operation and computes its record; the other
actions append it if it is `Fresh`, that is, if the version it read is not older
than the last record that does not commute (`firm`; `AppendGate` justifies this
atomic view).  Two callers overlap in all ways that `append_event` admits; the
request loop is the case of one caller.  With the ledger (`mounted`) a dispatch is
`Inject` followed by `BeginDispatch` at the version of the receipt.  `Restart`
replays with or without `--ledger-policy`; without it the operations of the ledger
are refused and a dispatch is `BeginBare` followed by `BeginDispatch`, with no
injection, whatever receipts the attempt has.  `sent` keeps what the prompt
contained and which kind of organ built it.  Which eligible learnings are
selected (keys, byte budgets, omissions) is any subset; that is what a caller can
bring about with omissions.  `since` and `verdict` are history.

## 3. The runs

| run | what it asks | instance | states |
|---|---|---|---|
| `CoreDispatch` | caps, write-ahead, at-most-once, exposure, `AttemptLife` | 2 builders and a verifier of one job, of which two share a task, 1 slot, 3 calls | 1 080 000 |
| `CoreGates` | gates, revocations, an epoch bump and injections beside dispatches; open calls surface | `CoreRoster`: a builder and a verifier of one epoch, a builder of the next, 1 slot, with and without ledger | 430 000 |
| `AppendGate` | atomicity, exclusion, priority, progress | 2 authority threads, 1 chatter thread, 4 operations among them, any version | 91 000 |
| `JournalFile` | can the journal be opened, does it keep what it acknowledged | 2 organs, 6 lines, five environments | 57 000 |
| `HarnessLink` | late answers, hangs, death, the end of the engine, `EngineCall` | 5 calls, a pipe of 2 lines, timeouts at and above the engine's cap | 196 000 |
| `RequestLoop` | lines sent again, lost answers, changing command lines | 8 requests, 3 lines, 5 records, 3 surfaces | 527 000 |
| `Workroom` | once, in its epoch, nothing passed over | a sender, a receiver mounted in 2 epochs, 1 group | 1 550 000 |
| `Ledger` | contradictions, reviewers, receipts | a verifier and a builder, 3 learnings of which 2 fit, threshold 2, organs with and without the ledger | 1 780 000 |
| `SlotLeak`, `GateOverwrite`, `PoisonedMount`, `TwoRooms` | the findings of section 6 | small | |

All properties are commented where they are defined.  Those that carry most:

* `AmbiguityExposed`: the live process shows every call that the journal leaves
  open, and that nobody is working on, as late and ambiguous, and is otherwise
  exactly what the journal says.  `OpenCallsSurface` is the liveness of it.
* `AnswerNeverRefused`: a call that was made can always be completed or failed.
  If a guard of `acknowledge_dispatch`, `complete_*` or `fail_*` could refuse it,
  the loop would answer an error and the call would stay open for good.
* `CallCapRespected`: the engine never gets more calls than the journal counted.
* `ImplementsLife`: an intent precedes its call, evidence has a call, an outcome is
  final, whatever crashes come in between.
* `ImplementsLog` with `ClaimedAgainOnlyEarly`: guards outside the gate are safe for
  a caller that brings the version of an answer.  One that calls `version()` between
  the publication of a record and its application can claim the same name again;
  the property says that nothing else can, and that nobody can a third time.
* `ImplementsCalls`: a call that returned was carried out, and one timeout shifts answers against calls for the
  rest of the process.  The id check keeps every later answer from being taken
  for another call's, at the price that no later call returns.
* `LinkInStep`: when the cap is below the timeout and the engine is never slow,
  no task is long enough to cause a timeout.  `EveryCallEnds`: a call ends, or it
  is a write behind a full pipe, or of a line longer than the pipe, to a live engine
  that does not read.
* `DispatchedWasLive`, `LateCanBeDisposed`: with a ledger a revoked mount, or one
  of an old epoch, gets no new task, and revoking a mount never takes away the
  means to settle what it left open.
* `SentIsReceipted`: what an organ with the ledger dispatched is what the last
  receipt says, whatever crashes, other injections and organs without the ledger
  came before.
* `SameLineOnce`, `NameOnce`, `ToldIsTrue`: the version in a line and the names in
  the journal make retries safe, over crashes and organs without the ledger.
* `LagIsVisible`: `workroom_status` chooses a mount by its version, and a
  revocation gives it the newest one; the unread count is right all the same.
* `QueuedUntilRead`: the watermark moves only over what was delivered or is not
  addressed to the mount.
* `ThresholdQuarantines`, `DispatchedWasVerified`: what was computed from the maps
  is still true when it is stored.

**Bounds.**  `MaxSeq` ends the admission of requests (the outcome of a call
that is open still appends, and an injection leaves room for its dispatch), so that TLC's graph is finite: 10 records are enough
for two attempts to be mounted and cast, for one of them to take the slot, get its
result or crash and be disposed of, and for a gate in between; every shorter
history is included.  `MaxDrift` bounds how often a refused request
draws a number; one suffices for a number to be redrawn after a restart, two for
it to meet a completed gate.  `MaxOps` 4, for all threads together, lets every thread come to the gate and one
come back after it has lost once.  `MaxWrites` 6 lets both organs write, fail and write
again.  `MaxId` 5 with two lines in the pipe lets the pipe fill behind a hung
engine and late answers pile up; `EngineCap` 1, `CallTimeouts` 1 and 2 and
`MaxNeed` 2 are the cases of a timeout at the cap and above it, and of a task that
ends before, at and after either.  `MaxLines` 3 and `MaxSeq` 5 let a line be sent,
committed, lost and sent again beside another client's; an external call with its
injection takes three of the five records; the second mount is the one that may
conflict.  `MaxRecords` 2, `MaxEpoch` 2, `MaxPosts` 1 and
`MaxReads` 2 give a record before and after a bump, a batch that is cut and one
that is not, and a read after the last one.  `MaxVersion` 5 lets a learning be
written, verified and contradicted twice, or injected and dispatched, by callers
that overlap.  The verifier and the builder's mount belong to one member in two
runs, so that a review turns on the role and the run, and one by
`independent_verification` is refused; a third caller, needed for one that
succeeds, does not fit into the time of a run.  Such a review has the effect of a
mechanical one, and the theorems hold for any callers.

**Fairness.**  `DispatchCore!FairSpec`: the call to the engine, the completion of
the request and the restart happen eventually.  The loop is single-threaded and
the read of an answer is bounded by `call_timeout_ms` (`harness_client.cpp:143`);
that an operator restarts a dead organ is an assumption.  A blocked `write_line`
is excluded by it.  `AppendGate!FairSpec`: a thread in the middle of an operation
is scheduled; weak fairness per thread suffices, because `notify_all` wakes every
sleeper and operations are finitely many.  `CoreRoster!FairSpecRoster`: as in the core.
`HarnessLink!FairSpec`: time passes, the poll ends, a closed pipe reads as closed,
`stop` goes on, and SIGTERM, for which the engine has no handler, ends it; nothing
else is assumed of the engine.  `RequestLoop!FairSpec`: the loop goes on with the
line it has read; a restart is not assumed.

**Deadlock** is checked in `CoreDispatch`, `AppendGate`, `SlotLeak`
and `GateOverwrite`.  The other configurations say why their system may rest: the
bounds, a dead organ, or a journal that does not replay.

**Mutants.**  Beside a definition there may be a variant `Name_Variation`: the
definition with a plausible bug.  `PROJECT.json` pairs each property with one that
TLC must find when the variant takes the definition's place.

## 4. What is proved

Every invariant, every action property and every refinement of the passing runs
is a theorem of its specification, for every value of the constants that meets the
named assumptions of its module (`EnvelopeAssumption`, `CapAssumption`, ...: types,
positive caps, natural bounds, a `No...` value that is none of its kind).  The
bounds are constants like the others, so the theorems hold for any length of
history.  Three theorems have a hypothesis beyond these; it is written in the
theorem, and section 6 shows what happens without it.

| module | theorem | property |
|---|---|---|
| `DispatchCoreProofs` | `TypeCorrect` | `TypeOK` |
| | `AmbiguityIsExposed` | `AmbiguityExposed` |
| | `AnswersAreAccepted` | `AnswerNeverRefused` |
| | `CapIsRespected`, `CallCapIsRespected` | `CapRespected`, `CallCapRespected` |
| | `DispatchIsNotRepeated` | `DispatchedAtMostOnce` |
| | `IntentPrecedesCall`, `ResultsHaveCalls` | `IntentBeforeCall`, `EvidenceHasCall` (no run repeats them: `ImplementsLife` implies them) |
| | `CoreImplementsLife` | `ImplementsLife` |
| | `JournalStaysReplayable`, if `OneEpochEach` | `JournalReplayable` |
| | `ReceiptsAreRetained`, if `MaxDrift = 0` | `GateReceiptRetained` |
| `CoreRosterProofs` | `RosterKeepsCore` | the core's invariants, under `SpecRoster` |
| | `RosterImplementsLife` | `ImplementsLife`, under `SpecRoster` |
| | `LateIsDisposable`, `InjectedDispatchIsLive` | `LateCanBeDisposed`, `DispatchedWasLive` |
| `AppendGateProofs` | `TypeCorrect` | `TypeOK` |
| | `GateImplementsLog` | `ImplementsLog` |
| | `NamesAreClaimedAgainOnlyEarly` | `ClaimedAgainOnlyEarly` |
| | `ChatterGivesWay` | `ChatterOvertakesOnce` |
| `JournalFileProofs` | `TypeCorrect` | `TypeOK` |
| | `JournalReplays`, `CommittedIsKept` | `JournalOpens`, `CommittedStays` |
| `HarnessLinkProofs` | `TypeCorrect` | `TypeOK` |
| | `StoppedMeansGone`, `ShortWaitsKeepStep` | `NoEngineLeft`, `LinkInStep` |
| | `LinkImplementsCalls` | `ImplementsCalls` |
| `RequestLoopProofs` | `TypeCorrect` | `TypeOK` |
| | `LinesTakeEffectOnce`, `NamesAreClaimedOnce` | `SameLineOnce`, `NameOnce` |
| | `ToldAnswersAreTrue` | `ToldIsTrue` |
| `WorkroomProofs` | `TypeCorrect` | `TypeOK` |
| | `NothingIsDeliveredTwice`, `NoEpochReturns` | `DeliveredOnce`, `EpochsInOrder` |
| | `ViewsTellTheLag`, `TheOldIsCancelled` | `LagIsVisible`, `DeliveredWereCurrent` |
| | `QueuesAreKept`, if `OneJobEach` | `QueuedUntilRead` |
| `LedgerProofs` | `TypeCorrect` | `TypeOK` |
| | `ContradictionsQuarantine`, `AuthorsDoNotVerify` | `ThresholdQuarantines`, `VerifiedByAnother` |
| | `ReceiptsAreTrue`, `PromptsAreVerified` | `SentIsReceipted`, `DispatchedWasVerified` |

### The core: layers of invariants

Each layer is inductive given the ones before it.

1. `TypeInv`: `TypeOK`, and the live maps have the keys of the journal's while the
   process is up (`SameKeys`).  Without the second, types are not inductive: a
   record is applied to both stores, and `attempts_.at` could throw in one of them.
2. `CoreInv` adds the relation between the process and its journal.  `LiveView` is
   the strong form of `AmbiguityExposed`: every attempt and gate of the process is
   the journal's, or what replay makes of it.  `SameRest`: sequence, mounts and
   call counts are equal.  `OpenCallShape`: an attempt with a call in flight is
   `RUNNING` in the journal, and a result is only asked for an acknowledged
   dispatch.  `HandlerOpen`: the call that the loop works on is the one in flight.
   Neither `AmbiguityExposed` nor `AnswerNeverRefused` is inductive alone: that a
   completion changes both stores alike needs `HandlerOpen`, and that a crash turns
   the handler's call into a late one needs `OpenCallShape`.
3. `SlotInv` counts: in the journal and in the process the attempts that hold a
   slot are covered by the counter; in the process, and in what a replay of the
   journal would leave running, they are within the cap.  The counter saturates at
   zero in two places and leaks (`SlotLeak`), so covering, and not equality, is the
   invariant.
4. `TaskInv` relates `tasks` to the journal: none before the intent, at most one
   after it, exactly one once an acknowledgement or a result is journaled.
   `CallInv` does the same for calls of any kind: those made and the one that the
   handler has reserved are within the journal's count, which is within the cap.
5. `LifeStep` maps each action to a step of `AttemptLife`, from the four layers and
   `LateIsLive`: `PENDING_LATE` is never in the journal, only in memory.

`EpochInv` and `NumberInv` carry the two conditional theorems.  They say where two
of the findings end: if the mounts of a job agree on its epoch, every process can
replay the journal; if no refused request draws a number, the number of every gate
call is at most the counter, in this process and in any that replays, so a
retained receipt is never overwritten.

`CoreRosterProofs` shows that a step of `CoreRoster` is a step of the core, or one
that appends beside it (`Aside`: no attempt, gate, count or slot changes), and
that all layers above survive such steps.  `OwnerInv` says that the mount which
cast an attempt is in the roster of the core as it was then; `InjectedLive`, that
a mount which was injected, and whose dispatch comes next, is live: the loop is
still at its request, so nothing was revoked or bumped since.

### Append authority

1. `TypeInv`: `GateInv` says that a thread inside the gate is alone there and that
   `waiting` is the number of authority threads in the queue.  That equality is
   what types need (`waiting` is an unsigned counter that `Pass` decrements), and
   what makes the predicate of the wait mean that chatter gives way.  `OpInv` says
   that callers bring committed versions and that the record being applied is the
   last one.
2. `FreshInv`: what was validated is admissible until it is published, because by
   exclusion nobody else publishes.  A publication is then a `Commit` of
   `ConditionalLog`, and every other step leaves the log alone.
3. `NameInv`: a name in the log is in the maps unless its record is the one being
   applied; a caller whose guard is still to be checked has then read an older
   version, or is one of `early`; so a name that passed its guard is in the part of
   the log which its caller had seen only as the last record of it, and then the
   caller is early (`SeenOnlyEarly`).  The validation covers the rest of the log,
   whose records claim nothing.
4. `OvertakeInv`: before a queued authority writer no chatter record went, or one,
   and then no chatter thread is left between the gate and the log.

### Journal file

`OneOrgan`: an organ that is up holds the flock and has acknowledged exactly what
is committed; what it is about to acknowledge is the last line.  For `JournalOpens`
the invariant is `Replayable`: without faults beyond kills between steps, line i is whole and has
number i, and at most one line is not acknowledged.  For `CommittedStays` it is
`Kept`: a file that would replay holds what is committed, and so does its synced
part when no organ is killed; a lost directory entry takes all of it.  Both are conditional on the set of faults, as the
properties are, and neither is inductive without `OneOrgan`.

### Engine link

`LinkInv`: the ids in the pipe to the organ, in the engine and in the pipe to the
engine ascend in this order (`InOrder`); what is not yet served is not carried
out (`Carried`); calls are settled one after the other (`Settled`).  `TimeInv` is
for links that keep step: between calls the pipes and the engine are empty, and
during one the poll has not lasted longer than the engine's wait.  `Behind` is for
the others: once a call timed out, an answer to it or to a later one comes before
the answer of the call in flight, so that one is never read as its own.  These two
make every step of the link a step of `EngineCall`.

### Request loop

`OnceInv`: every record of a line comes after the version that the line names
(`VersionBefore`), and the records of the line at work are those that its phase
says (`LineAtWork`).  A line that is sent again is then stale, or its name is
taken.  `ToldInv` adds the answer that is about to be printed.

### Workroom

`RoomInv` adds to the types and `EpochsInOrder` that the newest mount of a member
is its own (`Newest`), that no member has posted in an epoch which its job has not
reached (`Reached`), and that what was delivered was delivered once and is at or
before the watermark (`Consumed`).  `DeliveredOnce` is not inductive without the
last: a second delivery is excluded by the watermark only.

What a read does is one lemma (`ReadMoves`): the new watermark is at least the old
one and every record of the batch, and every unread record up to it is in the
batch.  It rests on `FirstIs`, that the first n members of a set of numbers have
no gap and are all of it when there are fewer than n, and on `MaxIs` and `LeastOf`,
the existence of greatest and least elements (from the well-foundedness of `Nat`).

`QueueStep` holds without a hypothesis: a record leaves the queue of a live mount
when it is delivered, or when the member reads *in another job*.  `QueuesAreKept`
follows for rosters that mount no member in two jobs; `TwoRooms` is the other case.

### Ledger

`Admitted` is the reason why guards outside the gate suffice: if an operation's
record is still fresh, its guard holds of the ledger as it is now.  `Counted` says
that the contradictions since the last review are among those the learning counts.
An intent that is still fresh has the last receipt as its prompt if the organ has
the ledger: its version is that receipt's, and a restart ends every operation.
`SentIsRunning` says that only running attempts have a prompt.  The properties are
conjuncts of the inductive `LedgerInv`.

### Only model-checked

* Liveness: `OpenCallsSurface`, `EveryAppendReturns`, `EveryCallEnds`, `StopEnds`,
  `EveryLineIsAnswered`.  The prover has no rules for fairness and `ENABLED`.
* That the properties of section 6 *are* violated: a counterexample is TLC's.
* `CapRespected` and its companions under recovery are proved of `Recover` as it is
  written; that replaying the records one by one yields `Recover(disk)` is part of
  how `disk` is defined (section 2), not a theorem.

## 5. What is not modelled

* Strict JSON, envelopes and policy files: one value at a time, no state.  Their
  verdicts are requests that are refused.
* The views (`status`, `gate_evidence_view`, `ledger_status`, and what
  `workroom_status` shows beside the representative mount and its unread count):
  they copy state into JSON.  In `RequestLoop` they are answers without a record.
* `max_rounds_per_job`, payload caps, replies, scopes, byte budgets, confidence,
  origins: checks on the arguments of one request.
* Appends that fail for the core's own records: `JournalFile` has the faults and
  `DispatchCore` does not.  Their product (an outcome whose append fails, and a
  `fail_call` that fails after it, main.cpp:236) is a listed hazard without a
  property.
* That a poll which is woken by a piece of a line starts again with the whole
  timeout (harness_client.cpp:140): lines arrive whole in `HarnessLink`.
* The engine, the JSON library (both vendored), the demo and proof scripts.
* Arithmetic overflow: versions and counters are 64 bits wide and grow by one.

## 6. Findings

Each is a run whose property TLC violates; `PROJECT.json` quotes the document.

* `SlotLeak`: a slot that replay gives back in memory is lost for good when the
  attempt is disposed of and the process restarts (core.cpp:331, 504).
* `GateOverwrite`: a refused request draws a call number that a restart draws
  again; a gate's retained receipt is replaced (core.cpp:589).
* `PoisonedMount`: a mount with a conflicting epoch is refused after it was
  written; the journal does not replay any more (core.cpp:444).
* `TwoRooms`: a member of two jobs has one watermark for both; a read in one
  passes over the queue of the other (workroom.cpp:594).

Observed with these models and kept out of the runs, because no document speaks of
them or because another finding was more worth a run:

* A revoked mount still has calls made for it.  `require_mount` looks for the mount
  in `mounts_`, where a revocation leaves it; its message (core.cpp:288) is
  "mount_id is not live".  In `CoreRoster`, "no call is reserved for a mount in
  `revoked`" is violated.
* An append whose fsync fails leaves its line behind with the sequence unchanged
  (core.cpp:415).  In `JournalFile` with the fault `sync`, "the file replays" is
  violated by the next append, which repeats the number.
* A task that ends after the engine's cap (30 s, the `maximum` in the schema of
  `get_result`, third_party/swarm-harness/src/core.cpp:765) and before
  `call_timeout_ms` (300 s in config/local_qwen.json:5) is stranded by the first
  request for its result, since an unfinished snapshot is no evidence and no second
  request is admitted.  scripts/integrated_proof.py:306 asks once and expects
  success.  With `call_timeout_ms` at or below the cap, the same task makes the
  organ time out before the engine answers, and the link stays out of step.
* A write to an engine that hangs, behind a full pipe or of a line longer than the
  pipe, lasts for ever (harness_client.cpp:123).  tests/test_phase_a.py:207 expects
  "EXTERNAL_CALL_FAILED" of an engine that does not answer; it tests the read.
* A member with a live mount may be shown as not live by `workroom_status`, and its
  groups left out of `derived_groups`, when a mount of it was revoked later
  (workroom.cpp:557); `LagIsVisible` is about the unread count only; a member of two jobs is shown with one queue only.
* README.md:112 of the repository calls the journal hash-chained; a record's hash
  covers that record only (core.cpp:397-407), and order rests on the sequence.

* A name can be claimed twice by threads: the version is published before the maps
  change (core.cpp:433), and `version()` is an atomic load (core.cpp:275), so a
  caller that takes it in between checks its guard on the old maps and brings a
  version that is current.  In `AppendGate`, "no two records claim a name" is
  violated by just these callers (`ClaimedAgainOnlyEarly`).  The mount of
  workroom_tests.cpp:457 is such a caller, beside threads that claim no name; the
  request loop has one thread, where this cannot happen.
* After an injection that was not dispatched (the operation `ledger_injection`, or a
  crash before the intent), an organ restarted without the ledger dispatches the
  bare prompt (main.cpp:170, 176), and the last receipt of the attempt names
  learnings that the engine did not see.  `SentIsReceipted` is about dispatches with
  the ledger.
* The first append creates the journal and never syncs its directory (core.cpp:411):
  where a file system needs that, a power loss takes every acknowledged record.
  `CommittedStays` then says that all are lost or none.
* A read through one mount delivers while another mount of the member is in an
  opaque call, as execution states are kept per mount (workroom.cpp:390).
  `DeliveredOnce` says only that nothing arrives twice.
* A line that was written and not synced when its organ was killed is replayed as
  committed; a power loss then withdraws it.  `CommittedStays` excludes exactly
  this combination of faults.
* A torn line makes the journal unreadable for later organs; nothing truncates it.
  A kill between two writes of one line (core.cpp:71) is enough; `JournalOpens` is
  about a kernel that takes a line in one piece.
* A gate call that replay finds open stays `PENDING_LATE`: no operation disposes
  of gates.
* A learning that was verified again after a quarantine is quarantined by any
  feedback, `USED` included: the count is never reset (ledger.cpp:525).
  `ThresholdQuarantines` counts from the last review and does not exclude this.

## 7. Plan

Done: models of all components that keep state and of the loop that drives them;
proofs of every safety property and refinement that the passing runs check.

Next:

1. What `AttemptLife`, `EngineCall` and `ConditionalLog` promise, as theorems about
   them: a final outcome is final, a task is given at most once, calls end in
   order, a log keeps its prefix.  The refinements carry these to the components.
2. `JournalStaysReplayable` for `CoreRoster`: with epoch bumps the hypothesis is
   about the epochs a job comes to, not about its first one.
3. A hypothesis under which the slot counter is exact (`SlotsAccounted`), as for
   the other findings.
4. The safety half of the liveness properties: which step is possible in every
   state that they leave.
