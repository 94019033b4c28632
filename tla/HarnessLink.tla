------------------------------ MODULE HarnessLink ------------------------------
(***************************************************************************)
(* The link to the engine (src/src/harness_client.cpp) from the handshake  *)
(* to the end of the child process: one JSON-RPC line out, one line in,    *)
(* and a timeout after which the caller goes on while the answer may still *)
(* come.  The engine, an external process, serves the lines in order; it   *)
(* may be slow, hang, refuse a call, or die.  A result is asked for with   *)
(* wait_ms = call_timeout_ms (src/src/main.cpp), which the engine cuts to  *)
(* a cap of its own before it answers that the task still runs.            *)
(***************************************************************************)
EXTENDS Integers, Sequences, FiniteSets

CONSTANTS
  MaxId,         \* bound: requests that the organ makes, the handshake's among them
  PipeLines,     \* lines the pipe to the engine takes before a write blocks
  CallTimeouts,  \* values of policy.call_timeout_ms
  EngineCap,     \* the engine's upper bound of wait_ms
  MaxNeed        \* bound: the time a task needs after its result is asked for

ASSUME BoundAssumption == MaxId \in Nat \ {0, 1} /\ PipeLines \in Nat \ {0} /\ MaxNeed \in Nat
ASSUME TimeAssumption == CallTimeouts \subseteq Nat \ {0} /\ EngineCap \in Nat

(* initialize and tools/list, which the constructor requests.              *)
Handshake == {1, 2}

Calls == 1 .. MaxId
Replies == {"ok", "error", "running"}

VARIABLES
  nextId,     \* next_id_
  phase,      \* of call nextId - 1, or of stop(), or the organ is dead
  outcome,    \* what call_tool did: it returned, or why it threw
  toEngine,   \* lines the engine has not read
  toOrgan,    \* answers in the pipe or in buffered_output_
  serving,    \* external: the call the engine works on, 0 for none
  executed,   \* external: how often the engine carried a call out
  alive,      \* external: the engine process runs
  closed,     \* the organ closed its ends of both pipes
  signalled,  \* the organ sent SIGTERM
  timeout,    \* call_timeout_ms of this organ
  polled,     \* the time that read_line has polled for
  need,       \* external: the time until the engine can answer a call to the end
  waited,     \* external: the time that the engine has worked on the call it serves
  slow        \* external: the engine left something undone that was due (history)

engine == <<serving, executed, alive>>
ending == <<closed, signalled>>
clock == <<timeout, polled, need, waited, slow>>
vars == <<nextId, phase, outcome, toEngine, toOrgan, engine, ending, clock>>

(* Of a line that the pipe can hold, or of a longer one.                   *)
Writing == {"writing", "feeding"}

Phases ==
  {"idle", "writing", "feeding", "reading", "closing", "polling", "waiting", "gone", "dead"}
Outcomes == {"none", "returned", "running", "refused", "timeout", "mismatch", "closed"}

(* The engine was forked.                                                  *)
Init ==
  /\ nextId = 1 /\ phase = "idle"
  /\ outcome = [i \in Calls |-> "none"]
  /\ toEngine = <<>> /\ toOrgan = <<>> /\ serving = 0
  /\ executed = [i \in Calls |-> 0]
  /\ alive = TRUE
  /\ closed = FALSE /\ signalled = FALSE
  /\ timeout \in CallTimeouts /\ polled = 0 /\ waited = 0 /\ slow = FALSE
  /\ need = [i \in Calls |-> 0]

Current == nextId - 1

(* Mutant: the engine does not cut what it is asked.                       *)
Wait_Uncapped == timeout

(* wait_ms = call_timeout_ms, and what the engine makes of it.             *)
Wait == IF timeout < EngineCap THEN timeout ELSE EngineCap

(* request draws the id.  A result's task may need time; when another call *)
(* takes long, the engine is slow.                                         *)
Call ==
  /\ phase = "idle" /\ nextId <= MaxId
  /\ nextId' = nextId + 1
  /\ phase' \in Writing /\ (nextId \in Handshake => phase' = "writing")
  /\ polled' = 0
  /\ \E time \in 0 .. MaxNeed :
       /\ nextId \in Handshake => time = 0
       /\ need' = [need EXCEPT ![nextId] = time]
  /\ UNCHANGED <<outcome, toEngine, toOrgan, engine, ending, timeout, waited, slow>>

(* Mutant: a line is written again when the first write was not confirmed. *)
WriteLine_Twice ==
  /\ phase = "writing" /\ alive /\ Len(toEngine) < PipeLines
  /\ toEngine' = Append(toEngine, Current)
  /\ phase' \in {"writing", "reading"}
  /\ UNCHANGED <<nextId, outcome, toOrgan, engine, ending, clock>>

Written ==
  /\ toEngine' = Append(toEngine, Current)
  /\ phase' = "reading"
  /\ UNCHANGED <<nextId, outcome, toOrgan, engine, ending, clock>>

(* write_line blocks, without a timeout, while the pipe is full.           *)
WriteLine ==
  /\ phase = "writing" /\ alive /\ Len(toEngine) < PipeLines
  /\ Written

(* A line longer than the pipe is written when the engine, done with all   *)
(* before it, reads its beginning; it need never do so.                    *)
WriteLong ==
  /\ phase = "feeding" /\ alive /\ toEngine = <<>> /\ serving = 0
  /\ Written

(* Writing to an engine that is gone raises SIGPIPE, which ends the organ. *)
WriteToDead ==
  /\ phase \in Writing /\ ~alive
  /\ phase' = "dead"
  /\ UNCHANGED <<nextId, outcome, toEngine, toOrgan, engine, ending, clock>>

(* In the handshake whatever goes wrong, an answer of another engine too,  *)
(* makes the constructor stop the engine and throw.                        *)
Settle(how) ==
  /\ outcome' = [outcome EXCEPT ![Current] = how]
  /\ \/ phase' = "idle" /\ (Current \in Handshake => how = "returned")
     \/ phase' = "closing" /\ Current \in Handshake
  /\ UNCHANGED <<nextId, toEngine, engine, ending, clock>>

(* complete_result takes a snapshot of a task that still runs for no       *)
(* evidence, and the attempt is failed as if the call had been refused.    *)
Taken(reply) ==
  CASE reply = "ok" -> "returned" [] reply = "running" -> "running" [] reply = "error" -> "refused"

(* Mutant: the id of the answer is not compared.                           *)
Receive_AnyId ==
  /\ phase = "reading" /\ toOrgan # <<>>
  /\ toOrgan' = Tail(toOrgan)
  /\ Settle(Taken(Head(toOrgan).reply))

(* read_line takes the first line there is, whoever it answers.            *)
Receive ==
  /\ phase = "reading" /\ toOrgan # <<>>
  /\ toOrgan' = Tail(toOrgan)
  /\ LET answer == Head(toOrgan) IN
     Settle(IF answer.id # Current THEN "mismatch" ELSE Taken(answer.reply))

(* Mutant: the poll waits for as long as it takes.                         *)
Timeout_Never == FALSE /\ UNCHANGED vars

(* poll saw nothing for call_timeout_ms.                                   *)
Timeout ==
  /\ phase = "reading" /\ toOrgan = <<>> /\ alive /\ polled = timeout
  /\ Settle("timeout")
  /\ UNCHANGED toOrgan

(* The engine is gone and the pipe is drained: read returns 0.             *)
Closed ==
  /\ phase = "reading" /\ toOrgan = <<>> /\ ~alive
  /\ Settle("closed")
  /\ UNCHANGED toOrgan

(* Standard input ended: main returns and the destructor stops the engine. *)
EndOfInput ==
  /\ phase = "idle" /\ nextId > 2
  /\ phase' = "closing"
  /\ UNCHANGED <<nextId, outcome, toEngine, toOrgan, engine, ending, clock>>

ClosePipes ==
  /\ phase = "closing"
  /\ closed' = TRUE
  /\ phase' = "polling"
  /\ UNCHANGED <<nextId, outcome, toEngine, toOrgan, engine, signalled, clock>>

(* One of the waitpid(WNOHANG), or the last waitpid, finds it gone.        *)
Reap ==
  /\ phase \in {"polling", "waiting"} /\ ~alive
  /\ phase' = "gone"
  /\ UNCHANGED <<nextId, outcome, toEngine, toOrgan, engine, ending, clock>>

(* Mutants: no signal is sent; the organ does not wait for its effect.     *)
GiveUp_NoSignal ==
  /\ phase = "polling" /\ alive
  /\ phase' = "waiting"
  /\ UNCHANGED <<nextId, outcome, toEngine, toOrgan, engine, ending, clock>>

GiveUp_NoWait ==
  /\ phase = "polling" /\ alive
  /\ signalled' = TRUE
  /\ phase' = "gone"
  /\ UNCHANGED <<nextId, outcome, toEngine, toOrgan, engine, closed, clock>>

(* Twenty polls, 50 ms apart, found it running.                            *)
GiveUp ==
  /\ phase = "polling" /\ alive
  /\ signalled' = TRUE
  /\ phase' = "waiting"
  /\ UNCHANGED <<nextId, outcome, toEngine, toOrgan, engine, closed, clock>>

MayServe == alive /\ serving = 0 /\ toEngine # <<>>

Serve ==
  /\ MayServe
  /\ serving' = Head(toEngine)
  /\ toEngine' = Tail(toEngine)
  /\ waited' = 0
  /\ UNCHANGED <<nextId, phase, outcome, toOrgan, executed, alive, ending,
                 timeout, polled, need, slow>>

(* The task ended, or the engine waited for it as long as it does.         *)
Due == alive /\ serving # 0 /\ (need[serving] = 0 \/ waited = Wait)

(* A refused call may have been refused before or after it took effect.    *)
Reply ==
  /\ alive /\ serving # 0 /\ ~closed
  /\ \E reply \in Replies, effect \in {0, 1} :
       /\ reply # "error" => effect = 1 /\ Due /\ (reply = "ok" <=> need[serving] = 0)
       /\ executed' = [executed EXCEPT ![serving] = @ + effect]
       /\ toOrgan' = Append(toOrgan, [id |-> serving, reply |-> reply])
  /\ serving' = 0
  /\ UNCHANGED <<nextId, phase, outcome, toEngine, alive, ending, clock>>

(* It crashes, reads the end of its input, writes an answer nobody reads,  *)
(* or is terminated.                                                       *)
Die ==
  /\ alive /\ alive' = FALSE
  /\ serving' = 0
  /\ \E effect \in {0, 1} :
       executed' = IF serving # 0 THEN [executed EXCEPT ![serving] = @ + effect] ELSE executed
  /\ UNCHANGED <<nextId, phase, outcome, toEngine, toOrgan, ending, clock>>

(* Time passes for the poll, for the engine and for every task.            *)
Tick ==
  /\ IF phase = "reading" THEN polled < timeout ELSE serving # 0
  /\ polled' = IF phase = "reading" THEN polled + 1 ELSE polled
  /\ waited' = IF serving # 0 /\ waited < Wait THEN waited + 1 ELSE waited
  /\ need' = [i \in Calls |-> IF need[i] > 0 THEN need[i] - 1 ELSE 0]
  /\ slow' = (slow \/ MayServe \/ Due)
  /\ UNCHANGED <<nextId, phase, outcome, toEngine, toOrgan, engine, ending, timeout>>

Stop == ClosePipes \/ Reap \/ GiveUp

Next ==
  \/ Call \/ WriteLine \/ WriteLong \/ WriteToDead \/ Receive \/ Timeout \/ Closed
  \/ EndOfInput \/ Stop
  \/ Serve \/ Reply \/ Die
  \/ Tick

Spec == Init /\ [][Next]_vars

(* The organ takes its steps: the poll is bounded, a read of a closed pipe *)
(* returns, a write goes on when there is room, and time passes.  Nothing  *)
(* is assumed of the engine but that SIGTERM, for which it has no handler, *)
(* ends it.                                                                *)
FairSpec ==
  /\ Spec
  /\ WF_vars(WriteLine \/ WriteToDead)
  /\ WF_vars(Receive \/ Timeout \/ Closed)
  /\ WF_vars(Stop) /\ WF_vars(Tick)
  /\ WF_vars(signalled /\ Die)

-----------------------------------------------------------------------------
(* Properties.                                                             *)

(* The type of every variable.  The engine carries a call out at most once *)
(* because the organ never writes one twice.                               *)
TypeOK ==
  /\ nextId \in 1 .. MaxId + 1 /\ phase \in Phases
  /\ outcome \in [Calls -> Outcomes]
  /\ toEngine \in Seq(Calls) /\ toOrgan \in Seq([id : Calls, reply : Replies])
  /\ serving \in {0} \cup Calls /\ executed \in [Calls -> 0 .. 1]
  /\ alive \in BOOLEAN /\ closed \in BOOLEAN /\ signalled \in BOOLEAN
  /\ timeout \in CallTimeouts /\ polled \in 0 .. timeout /\ waited \in 0 .. Wait
  /\ need \in [Calls -> 0 .. MaxNeed] /\ slow \in BOOLEAN

(* When the engine gives up waiting for a task before the organ does, and  *)
(* leaves nothing undone that it could do, no task is too long for the     *)
(* link: no call times out and no answer is left for the call after it.    *)
LinkInStep ==
  EngineCap < timeout /\ ~slow => \A i \in Calls : outcome[i] \notin {"timeout", "mismatch"}

(* A call ends, whether the engine answers, hangs or dies; only a write    *)
(* behind a full pipe, or of a line longer than the pipe, lasts for as     *)
(* long as a live engine does not read.                                    *)
EveryCallEnds ==
  \A i \in Calls :
    (phase \in Writing \cup {"reading"} /\ Current = i)
      ~> \/ ~(phase \in Writing \cup {"reading"} /\ Current = i)
         \/ phase = "writing" /\ alive /\ Len(toEngine) = PipeLines
         \/ phase = "feeding" /\ alive

(* An organ whose input ended, or whose handshake failed, comes to an end  *)
(* however its engine behaves.                                             *)
StopEnds == phase = "closing" ~> phase = "gone"

(* An organ that came to its end leaves no engine process behind, which    *)
(* could still be working on a call that the next organ shows as late.     *)
NoEngineLeft == phase = "gone" => ~alive /\ serving = 0

(* The link implements what the organ relies on of calls: one that comes   *)
(* back with an unfinished task is a call that returned.                   *)
Promise == INSTANCE EngineCall WITH
  outcome <- [i \in Calls |-> IF outcome[i] = "running" THEN "returned" ELSE outcome[i]]
ImplementsCalls == Promise!Spec
=============================================================================
