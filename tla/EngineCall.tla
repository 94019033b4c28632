------------------------------ MODULE EngineCall ------------------------------
(***************************************************************************)
(* What the organ may rely on of the calls it makes to the engine, in the  *)
(* order in which it makes them: a call that returns was carried out, a    *)
(* call that throws may have been, or may still be, and none is carried    *)
(* out twice.  After a call that timed out no other ever returns.          *)
(***************************************************************************)
EXTENDS Naturals

CONSTANTS
  Calls  \* an interval of the natural numbers

VARIABLES
  outcome,  \* what the caller saw
  executed  \* how often the engine carried the call out

vars == <<outcome, executed>>

Failures == {"refused", "timeout", "mismatch", "closed"}

Init ==
  /\ outcome = [i \in Calls |-> "none"]
  /\ executed = [i \in Calls |-> 0]

(* Calls are made one at a time.                                           *)
IsNext(i) == outcome[i] = "none" /\ \A j \in Calls : j < i => outcome[j] # "none"

(* Whether or not its caller still waits; but never before earlier calls   *)
(* ended.                                                                  *)
Execute(i) ==
  /\ executed[i] = 0
  /\ \A j \in Calls : j < i => outcome[j] # "none"
  /\ executed' = [executed EXCEPT ![i] = 1]
  /\ UNCHANGED outcome

Return(i) ==
  /\ IsNext(i) /\ executed[i] = 1
  /\ \A j \in Calls : outcome[j] # "timeout"
  /\ outcome' = [outcome EXCEPT ![i] = "returned"]
  /\ UNCHANGED executed

Throw(i) ==
  /\ IsNext(i)
  /\ \E how \in Failures : outcome' = [outcome EXCEPT ![i] = how]
  /\ UNCHANGED executed

Next == \E i \in Calls : Execute(i) \/ Return(i) \/ Throw(i)

Spec == Init /\ [][Next]_vars
=============================================================================
