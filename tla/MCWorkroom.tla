------------------------------- MODULE MCWorkroom -------------------------------
(* Small instances of Workroom for TLC.                                    *)
EXTENDS Workroom

Envelope(mount, member, job, epoch) ==
  [mount |-> mount, member |-> member, job |-> job, epoch |-> epoch]

(* A sender, and a receiver with a mount in each of two epochs.            *)
OneRoom ==
  {Envelope("mount_s", "sender", "job_a", 1),
   Envelope("mount_r", "receiver", "job_a", 1),
   Envelope("mount_t", "receiver", "job_a", 2)}

(* A receiver that is mounted in two jobs.                                 *)
TwoRooms ==
  {Envelope("mount_s", "sender", "job_a", 1),
   Envelope("mount_r", "receiver", "job_a", 1),
   Envelope("mount_t", "receiver", "job_b", 1)}
=============================================================================
