-------------------------- MODULE MCDispatchCore --------------------------
(* Small instances of DispatchCore for TLC.                                *)
EXTENDS DispatchCore

Envelope(mount, job, task, role, epoch) ==
  [mount |-> mount, job |-> job, task |-> task,
   run |-> task, role |-> role, epoch |-> epoch]

(* Two builders of one job, and a verifier that may cast the task of one   *)
(* of them and request gates.                                              *)
ThreeWorkers ==
  {Envelope("mount_a", "job_a", "task_a", "builder", 1),
   Envelope("mount_b", "job_a", "task_b", "builder", 1),
   Envelope("mount_c", "job_a", "task_a", "verifier", 1)}

TwoBuilders == {e \in ThreeWorkers : e.role = "builder"}

(* A verifier and a builder cast the same task; a third mount of the job   *)
(* carries an epoch of its own.                                            *)
VerifierAndRival ==
  {Envelope("mount_a", "job_a", "task_a", "verifier", 1),
   Envelope("mount_b", "job_a", "task_a", "builder", 1),
   Envelope("mount_c", "job_a", "task_c", "scout", 2)}

OneVerifier == {Envelope("mount_a", "job_a", "task_a", "verifier", 1)}
=============================================================================
