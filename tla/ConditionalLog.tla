---------------------------- MODULE ConditionalLog ----------------------------
(***************************************************************************)
(* What the append authority promises to its callers: one log, to which a  *)
(* record is added in one step, and only if nothing its author had not     *)
(* seen can have changed what the author decided on.                       *)
(***************************************************************************)
EXTENDS Naturals, Sequences

CONSTANT None   \* the reads of a record that depends on nothing

VARIABLE log    \* records [kind, reads, ...]; reads is the version its author saw

Commutes(r) == r.reads = None

(* A chatter record must find the head its author saw; an authority record *)
(* may be rebased over records that commute.                               *)
Admissible(r) ==
  \/ Commutes(r)
  \/ r.reads = Len(log)
  \/ /\ r.kind = "authority"
     /\ r.reads < Len(log)
     /\ \A i \in r.reads + 1 .. Len(log) : Commutes(log[i])

Init == log = <<>>

Commit(r) == Admissible(r) /\ log' = Append(log, r)

Next == \E i \in DOMAIN log' : Commit(log'[i])

Spec == Init /\ [][Next]_log
=============================================================================
