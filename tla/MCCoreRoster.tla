------------------------------ MODULE MCCoreRoster ------------------------------
(* Small instances of CoreRoster for TLC.                                  *)
EXTENDS CoreRoster

Envelope(mount, task, role, epoch) ==
  [mount |-> mount, job |-> "job_a", task |-> task,
   run |-> task, role |-> role, epoch |-> epoch]

(* A builder and a verifier of one job, and a builder of its next epoch.   *)
TwoEpochs ==
  {Envelope("mount_a", "task_a", "builder", 1),
   Envelope("mount_b", "task_b", "verifier", 1),
   Envelope("mount_c", "task_c", "builder", 2)}

OneEpoch == {e \in TwoEpochs : e.epoch = 1}
=============================================================================
