----------------------------- MODULE AttemptLife -----------------------------
(***************************************************************************)
(* What the Dispatch Organ promises about each attempt, as a reader of the *)
(* journal sees it: one dispatch at most, an outcome only for a dispatch   *)
(* that took place, and no way back from an outcome.  Crashes, recovery    *)
(* and the live process do not appear.                                     *)
(***************************************************************************)
EXTENDS Naturals

CONSTANT Attempts

Closed == {"HARVESTED", "SUPERSEDED", "ABANDONED"}

VARIABLES
  life,   \* the journaled state of each attempt; OPEN has a call in flight
  sent    \* how many times the engine was given the attempt's task

lifeVars == <<life, sent>>

Init ==
  /\ life = [a \in Attempts |-> "NONE"]
  /\ sent = [a \in Attempts |-> 0]

Move(a, from, to) == life[a] \in from /\ life' = [life EXCEPT ![a] = to]

Cast(a) == Move(a, {"NONE"}, "CAST") /\ UNCHANGED sent

(* An intent is recorded before the call it announces.                     *)
Intend(a) == Move(a, {"CAST", "RUNNING"}, "OPEN") /\ UNCHANGED sent

Send(a) ==
  /\ life[a] = "OPEN"
  /\ sent[a] = 0
  /\ sent' = [sent EXCEPT ![a] = 1]
  /\ UNCHANGED life

(* The engine answered: the task runs, or its result is evidence.          *)
Answered(a, outcome) ==
  Move(a, {"OPEN"}, outcome) /\ sent[a] = 1 /\ UNCHANGED sent

Strand(a) == Move(a, {"OPEN"}, "STRANDED") /\ UNCHANGED sent

Dispose(a) ==
  \E to \in Closed : Move(a, {"OPEN", "STRANDED"}, to) /\ UNCHANGED sent

Step(a) ==
  \/ Cast(a) \/ Intend(a) \/ Send(a)
  \/ Answered(a, "RUNNING") \/ Answered(a, "RESULT")
  \/ Strand(a) \/ Dispose(a)

Next == \E a \in Attempts : Step(a)

Spec == Init /\ [][Next]_lifeVars
=============================================================================
