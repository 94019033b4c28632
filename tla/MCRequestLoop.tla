----------------------------- MODULE MCRequestLoop -----------------------------
(* Small instances of RequestLoop for TLC.                                 *)
EXTENDS RequestLoop

Request(op, name) == [op |-> op, name |-> name]

(* Two mounts, a call to the engine, an observation, a post, two learnings *)
(* for one place, and a view.                                              *)
EightRequests ==
  {Request("dispatch", "task_a"), Request("workroom_commutative_observation", "room"),
   Request("workroom_post", "room"), Request("mount", "mount_a"), Request("mount", "mount_b"),
   Request("ledger_create_candidate", "learning_a"),
   Request("ledger_create_candidate", "learning_b"), Request("status", "organ")}
=============================================================================
