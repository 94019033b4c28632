-------------------------------- MODULE Workroom --------------------------------
(***************************************************************************)
(* The workroom (src/src/workroom.cpp): mounted members post records to    *)
(* the room of their job and read, at safe boundaries, what the others     *)
(* posted, up to a watermark.  Every operation is one append; replay       *)
(* rebuilds this state from the journal, so a restart changes none of it.  *)
(* A room_seq is the position of its record among the room's records, and  *)
(* (thread, job) is one room.                                              *)
(***************************************************************************)
EXTENDS Integers, Sequences, FiniteSets, FiniteSetsExt

CONSTANTS
  Envelopes,   \* mounts that may be made: [mount, member, job, epoch]
  System,      \* member_id of commutative observations
  Tags,        \* group tags
  MaxPosts,    \* max_posts_per_member
  MaxReads,    \* max_reads_per_member
  MaxUnread,   \* max_unread_per_member
  MaxBatch,    \* max_delivery_batch
  MaxEpoch,    \* bound: the last epoch of a job
  MaxRecords   \* bound: records in the room

Members == {e.member : e \in Envelopes}
Jobs == {e.job : e \in Envelopes}
Epochs == 1 .. MaxEpoch
RoomSeqs == 1 .. MaxRecords

ASSUME EnvelopeAssumption ==
  /\ Envelopes \subseteq [mount : {e.mount : e \in Envelopes}, member : Members, job : Jobs, epoch : Epochs]
  /\ System \notin Members
  /\ \A e, f \in Envelopes : e.mount = f.mount => e = f
ASSUME CapAssumption == \A cap \in {MaxPosts, MaxReads, MaxUnread, MaxBatch} : cap \in Nat \ {0}
ASSUME BoundAssumption == MaxEpoch \in Nat /\ MaxRecords \in Nat

VARIABLES
  mounts,     \* mounts_
  revoked,    \* mounts whose mount_live_ is false
  latest,     \* of each member, the mount with the greatest mount_version_
  epochs,     \* current_job_epoch_, 0 for none
  proven,     \* the adapter is in proven_adapters_
  boundary,   \* mounts whose member_execution_ is SAFE_BOUNDARY
  tags,       \* member_group_tags_
  records,    \* room_records_
  posts,      \* member_posts_
  reads,      \* member_reads_
  watermark,  \* member_watermark_
  skipped,    \* members whose member_skipped_ is true
  delivered   \* how often each record was delivered to each member (history)

vars == <<mounts, revoked, latest, epochs, proven, boundary, tags, records,
          posts, reads, watermark, skipped, delivered>>

roster == <<mounts, revoked, latest, epochs, proven, boundary, tags>>
room == <<records, posts, reads, watermark, skipped, delivered>>

Records == [job : Jobs, epoch : Epochs, member : Members \cup {System}, groups : SUBSET Tags]

Init ==
  /\ mounts = {} /\ revoked = {} /\ proven = FALSE /\ boundary = {}
  /\ epochs = [j \in Jobs |-> 0] /\ latest = <<>>
  /\ tags = [m \in Members |-> {}]
  /\ records = <<>> /\ skipped = {}
  /\ posts = [m \in Members |-> 0] /\ reads = [m \in Members |-> 0]
  /\ watermark = [m \in Members |-> 0]
  /\ delivered = [m \in Members |-> [i \in RoomSeqs |-> 0]]

(* Mutant: the epoch of the mount is not compared with the job's.          *)
LiveMount_AnyEpoch(e) == e \in mounts \ revoked

(* require_live_room_mount.                                                *)
LiveMount(e) == e \in mounts \ revoked /\ epochs[e.job] = e.epoch

(* No group means everyone.                                                *)
Reaches(groups, member) == groups = {} \/ groups \cap tags[member] # {}

(* Mutant: records of earlier epochs are addressed, too.                   *)
AddressedTo_AnyEpoch(e, r) ==
  r.job = e.job /\ r.member # e.member /\ Reaches(r.groups, e.member)

AddressedTo(e, r) ==
  /\ r.job = e.job /\ r.epoch = e.epoch
  /\ r.member # e.member
  /\ Reaches(r.groups, e.member)

(* Mutant: the record at the watermark is scanned again.                   *)
Behind_Inclusive(e) ==
  {i \in 1 .. Len(records) : i >= watermark[e.member] /\ records[i].job = e.job}

(* The records of e's room after the member's watermark.                   *)
Behind(e) == {i \in watermark[e.member] + 1 .. Len(records) : records[i].job = e.job}

Unread(e) == {i \in Behind(e) : AddressedTo(e, records[i])}

(* Mutant: the view counts in the epoch of the mount that it shows.        *)
ShownUnread_MountEpoch(m) == Unread(latest[m])

(* The unread records that workroom_status shows for a member: those for   *)
(* its newest mount, live or revoked, in the epoch its job is in.          *)
ShownUnread(m) ==
  LET shown == latest[m] IN
  {i \in Behind(shown) : AddressedTo([shown EXCEPT !.epoch = epochs[shown.job]], records[i])}

-----------------------------------------------------------------------------

(* The newest mount_version_ of e's member is now e's.                     *)
BecomesLatest(e) ==
  latest' = [m \in DOMAIN latest \cup {e.member} |-> IF m = e.member THEN e ELSE latest[m]]

(* A mount with an epoch other than the job's ends in DispatchCore's       *)
(* poisoned journal; it is left out here.                                  *)
Mount(e) ==
  /\ \A f \in mounts : f.mount # e.mount
  /\ epochs[e.job] \in {0, e.epoch}
  /\ mounts' = mounts \cup {e}
  /\ epochs' = [epochs EXCEPT ![e.job] = e.epoch]
  /\ BecomesLatest(e)
  /\ UNCHANGED <<revoked, proven, boundary, tags, room>>

RevokeMount(e) ==
  /\ e \in mounts \ revoked
  /\ revoked' = revoked \cup {e}
  /\ BecomesLatest(e)
  /\ UNCHANGED <<mounts, epochs, proven, boundary, tags, room>>

BumpJobEpoch(j) ==
  /\ epochs[j] \in 1 .. MaxEpoch - 1
  /\ epochs' = [epochs EXCEPT ![j] = @ + 1]
  /\ UNCHANGED <<mounts, revoked, latest, proven, boundary, tags, room>>

(* The conformance fixture passes, and no proof exists yet.                *)
ProveAdapter ==
  /\ ~proven /\ proven' = TRUE
  /\ UNCHANGED <<mounts, revoked, latest, epochs, boundary, tags, room>>

SetMemberExecution(e) ==
  /\ LiveMount(e)
  /\ boundary' \in {boundary \cup {e}, boundary \ {e}}
  /\ UNCHANGED <<mounts, revoked, latest, epochs, proven, tags, room>>

SetGroupTags(e, groups) ==
  /\ LiveMount(e)
  /\ tags' = [tags EXCEPT ![e.member] = groups]
  /\ UNCHANGED <<mounts, revoked, latest, epochs, proven, boundary, room>>

(* Receivers whose queue the new record fills are flagged, not waited for. *)
SkippedBy(e, groups) ==
  {f.member : f \in {g \in mounts \ revoked :
     /\ g.member # e.member /\ g.job = e.job
     /\ Reaches(groups, g.member)
     /\ Cardinality(Unread(g)) + 1 >= MaxUnread}}

Add(job, epoch, member, groups) ==
  records' = Append(records, [job |-> job, epoch |-> epoch, member |-> member, groups |-> groups])

(* Mutant: one post too many.                                              *)
MayPost_OneMore(e) == LiveMount(e) /\ posts[e.member] <= MaxPosts

MayPost(e) == LiveMount(e) /\ posts[e.member] < MaxPosts

Post(e, groups) ==
  /\ Len(records) < MaxRecords
  /\ MayPost(e)
  /\ groups \subseteq tags[e.member]
  /\ Add(e.job, e.epoch, e.member, groups)
  /\ posts' = [posts EXCEPT ![e.member] = @ + 1]
  /\ skipped' = skipped \cup SkippedBy(e, groups)
  /\ UNCHANGED <<roster, reads, watermark, delivered>>

(* A commutative observation carries whatever job and epoch it is given.   *)
Observe(j, n) ==
  /\ Len(records) < MaxRecords
  /\ Add(j, n, System, {})
  /\ UNCHANGED <<roster, posts, reads, watermark, skipped, delivered>>

(* A read delivers the first records that are addressed to its mount.      *)
Batch(e, limit) == {i \in Unread(e) : Cardinality({j \in Unread(e) : j < i}) < limit}

(* Mutant: the watermark moves to the end of the room.                     *)
NewWatermark_AtEnd(e, limit) == Len(records)

(* The scan stops at the record that fills the batch; otherwise it passes  *)
(* over everything in the room.                                            *)
NewWatermark(e, limit) ==
  IF Cardinality(Batch(e, limit)) = limit
  THEN Max(Batch(e, limit))
  ELSE Max(Behind(e) \cup {watermark[e.member]})

Read(e, limit) ==
  /\ LiveMount(e) /\ proven /\ e \in boundary
  /\ limit \in 1 .. MaxBatch
  /\ reads[e.member] < MaxReads
  /\ delivered' = [delivered EXCEPT ![e.member] =
       [i \in RoomSeqs |-> @[i] + (IF i \in Batch(e, limit) THEN 1 ELSE 0)]]
  /\ watermark' = [watermark EXCEPT ![e.member] = NewWatermark(e, limit)]
  /\ reads' = [reads EXCEPT ![e.member] = @ + 1]
  /\ skipped' = skipped \ {e.member}
  /\ UNCHANGED <<roster, records, posts>>

Next ==
  \/ \E e \in Envelopes :
       \/ Mount(e) \/ RevokeMount(e) \/ SetMemberExecution(e)
       \/ \E groups \in SUBSET Tags : SetGroupTags(e, groups) \/ Post(e, groups)
       \/ \E limit \in 1 .. MaxBatch : Read(e, limit)
  \/ \E j \in Jobs : BumpJobEpoch(j) \/ \E n \in Epochs : Observe(j, n)
  \/ ProveAdapter

Spec == Init /\ [][Next]_vars

-----------------------------------------------------------------------------
(* Properties.                                                             *)

(* The type of every variable, and the caps on posts and reads.            *)
TypeOK ==
  /\ mounts \subseteq Envelopes /\ revoked \subseteq mounts /\ boundary \subseteq mounts
  /\ epochs \in [Jobs -> 0 .. MaxEpoch] /\ proven \in BOOLEAN
  /\ tags \in [Members -> SUBSET Tags]
  /\ DOMAIN latest = {e.member : e \in mounts} /\ \A m \in DOMAIN latest : latest[m] \in mounts
  /\ records \in Seq(Records) /\ Len(records) <= MaxRecords
  /\ posts \in [Members -> 0 .. MaxPosts] /\ reads \in [Members -> 0 .. MaxReads]
  /\ watermark \in [Members -> 0 .. Len(records)]
  /\ skipped \subseteq Members
  /\ delivered \in [Members -> [RoomSeqs -> Nat]]

(* No member gets a record twice, through whichever of its mounts, rooms   *)
(* and batch sizes it reads.                                               *)
DeliveredOnce == \A m \in Members, i \in RoomSeqs : delivered[m][i] <= 1

(* After a bump nothing of an earlier epoch is posted by a member: a room  *)
(* never goes back to an epoch it left, whatever mounts are still live.    *)
EpochsInOrder ==
  \A i, j \in DOMAIN records :
    i < j /\ records[i].job = records[j].job /\ System \notin {records[i].member, records[j].member}
      => records[i].epoch <= records[j].epoch

(* A lag is visible: what a member could read through a live mount is      *)
(* exactly what workroom_status counts for it, although the view may have  *)
(* chosen a mount of the same job that is revoked or of an old epoch.      *)
LagIsVisible ==
  \A e \in mounts :
    LiveMount(e) /\ latest[e.member].job = e.job => ShownUnread(e.member) = Unread(e)

(* A read delivers records of the epoch its job is in: what was queued     *)
(* before a bump is cancelled.                                             *)
DeliveredWereCurrent ==
  [][\A m \in Members, i \in RoomSeqs :
       delivered'[m][i] # delivered[m][i] => records[i].epoch = epochs[records[i].job]]_vars

(* What is unread at a mount stays unread until it is delivered to the     *)
(* member, as long as the member keeps its groups and the mount is live:   *)
(* no read passes over a record that it did not deliver.                   *)
QueuedUntilRead ==
  [][\A e \in Envelopes :
       LiveMount(e) /\ tags'[e.member] = tags[e.member] =>
         \A i \in Unread(e) \ Unread(e)' : delivered'[e.member][i] > delivered[e.member][i]]_vars
=============================================================================
