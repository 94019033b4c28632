-------------------------------- MODULE MCLedger --------------------------------
(* A small instance of Ledger for TLC.                                     *)
EXTENDS Ledger

Caller(mount, member, run, role) ==
  [mount |-> mount, member |-> member, run |-> run, role |-> role]

(* A verifier, and a builder's mount of the same member in another run.    *)
TwoCallers ==
  {Caller("mount_v", "member_v", "run_v", "verifier"),
   Caller("mount_b", "member_v", "run_b", "builder")}

(* One learning is due for review early, one never.                        *)
Due == [l \in Learnings |-> IF l = "claim_a" THEN 4 ELSE 0]
=============================================================================
