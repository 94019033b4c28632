----------------------------- MODULE WorkroomProofs -----------------------------
(* Theorems about Workroom, for every roster, cap and size of the room.    *)
EXTENDS Workroom, FiniteSetTheorems, WellFoundedInduction, TLAPS

-----------------------------------------------------------------------------
(* Sets of numbers.                                                        *)

LEMMA LeastOf ==
  ASSUME NEW T, T \subseteq Nat, T # {}
  PROVE  \E x \in T : \A y \in T : x <= y
<1> DEFINE Less == {p \in Nat \X Nat : p[1] < p[2]}
<1>1. IsWellFoundedOn(Less, Nat)
  BY NatLessThanWellFounded DEF OpToRel
<1>2. PICK x \in T : \A y \in T : <<y, x>> \notin Less
  <2> HIDE DEF Less
  <2> QED
    BY <1>1, WFMin
<1>3. \A y \in T : ~ (y < x)
  BY <1>2
<1> QED
  BY <1>3

LEMMA MaxIs ==
  ASSUME NEW S, S \subseteq Int, S # {}, NEW hi \in Int, \A y \in S : y <= hi
  PROVE  Max(S) \in S /\ \A y \in S : Max(S) >= y
<1> DEFINE T == {hi - x : x \in S}
<1>1. T \subseteq Nat
  OBVIOUS
<1>2. T # {}
  OBVIOUS
<1>3. PICK d \in T : \A y \in T : d <= y
  <2> HIDE DEF T
  <2> QED
    BY <1>1, <1>2, LeastOf
<1>4. PICK x \in S : d = hi - x
  OBVIOUS
<1>5. \A y \in S : hi - x <= hi - y
  BY <1>3, <1>4
<1>6. \A y \in S : x >= y
  BY <1>4, <1>5
<1> QED
  BY <1>6 DEF Max

(* The first n members of a set of numbers: those with fewer than n members *)
(* below them.                                                             *)
First(S, n) == {i \in S : Cardinality({j \in S : j < i}) < n}

(* Nothing is left out between the first members, and if fewer than n are  *)
(* found, nothing is left out at all.                                      *)
LEMMA FirstIs ==
  ASSUME NEW S, S \subseteq Nat, IsFiniteSet(S), NEW n \in Nat
  PROVE  /\ \A i \in S, b \in First(S, n) : i < b => i \in First(S, n)
         /\ Cardinality(First(S, n)) # n => First(S, n) = S
<1> DEFINE Below(a) == {j \in S : j < a}
           F == First(S, n)
<1>1. \A a \in S : IsFiniteSet(Below(a)) /\ Cardinality(Below(a)) \in Nat
  <2> TAKE a \in S
  <2>1. Below(a) \in SUBSET S
    OBVIOUS
  <2> HIDE DEF Below
  <2> QED
    BY <2>1, FS_Subset, FS_CardinalityType
<1>2. \A a \in S : a \in F <=> Cardinality(Below(a)) < n
  BY DEF First
<1>3. ASSUME NEW i \in S, NEW b \in F, i < b PROVE i \in F
  <2>1. b \in S
    BY DEF First
  <2>2. Below(i) \in SUBSET Below(b)
    <3>1. \A j \in S : j < i => j < b
      BY <1>3, <2>1
    <3> QED
      BY <3>1
  <2>3. Cardinality(Below(i)) <= Cardinality(Below(b))
    <3> HIDE DEF Below
    <3> QED
      BY <1>1, <2>1, <2>2, FS_Subset
  <2> HIDE DEF Below, F
  <2> QED
    BY <1>1, <1>2, <2>1, <2>3
<1>4. F \in SUBSET S /\ IsFiniteSet(F) /\ Cardinality(F) \in Nat
  <2>1. F \in SUBSET S
    BY DEF First
  <2> HIDE DEF F
  <2> QED
    BY <2>1, FS_Subset, FS_CardinalityType
<1>5. ASSUME F # S PROVE Cardinality(F) = n
  <2> DEFINE Rest == S \ F
  <2>1. Rest \subseteq Nat /\ Rest # {}
    BY <1>4, <1>5
  <2>2. PICK i \in Rest : \A y \in Rest : i <= y
    <3> HIDE DEF Rest
    <3> QED
      BY <2>1, LeastOf
  <2>3. i \in S /\ i \notin F /\ \A y \in S : y < i => y \in F
    <3> HIDE DEF F
    <3>1. \A y \in S : y < i => y \notin Rest
      BY <2>1, <2>2
    <3> QED
      BY <3>1
  <2>4. \A b \in F : b < i
    <3> HIDE DEF F
    <3> QED
      BY <1>3, <1>4, <2>3
  <2>5. Below(i) = F
    <3> HIDE DEF F
    <3> QED
      BY <1>4, <2>3, <2>4
  <2>6. Cardinality(F) >= n
    <3> HIDE DEF F, Below
    <3> QED
      BY <1>1, <1>2, <2>3, <2>5
  <2>7. CASE F = {}
    BY <2>6, <2>7, <1>4, FS_EmptySet
  <2>8. CASE F # {}
    <3>1. PICK b \in F : \A y \in F : b >= y
      <4>1. F \subseteq Int /\ i \in Int /\ \A y \in F : y <= i
        <5> HIDE DEF F
        <5> QED
          BY <1>4, <2>3, <2>4
      <4> HIDE DEF F
      <4> QED
        BY <2>8, <4>1, MaxIs
    <3>2. b \in S /\ Below(b) = F \ {b}
      <4> HIDE DEF F
      <4>1. b \in S /\ \A j \in S : j < b => j \in F \ {b}
        BY <1>3, <1>4, <3>1
      <4>2. \A j \in F \ {b} : j \in S /\ j < b
        BY <1>4, <3>1
      <4> QED
        BY <4>1, <4>2
    <3>3. Cardinality(F \ {b}) = Cardinality(F) - 1
      <4> HIDE DEF F
      <4> QED
        BY <1>4, FS_RemoveElement
    <3>4. Cardinality(F) - 1 < n
      <4> HIDE DEF F, Below
      <4> QED
        BY <1>2, <3>2, <3>3
    <3> HIDE DEF F
    <3> QED
      BY <1>4, <2>6, <3>4
  <2> QED
    BY <2>7, <2>8
<1> QED
  BY <1>3, <1>5

LEMMA AppendIs ==
  ASSUME NEW S, NEW s \in Seq(S), NEW x \in S, NEW t, t = Append(s, x)
  PROVE  /\ t \in Seq(S) /\ Len(t) = Len(s) + 1 /\ Len(s) \in Nat
         /\ \A k \in 1 .. Len(s) : t[k] = s[k] /\ k \in 1 .. Len(t)
         /\ t[Len(s) + 1] = x
         /\ \A k \in 1 .. Len(t) : k \in 1 .. Len(s) \/ k = Len(s) + 1
OBVIOUS

LEMMA Elements ==
  ASSUME NEW S, NEW s \in Seq(S)
  PROVE  Len(s) \in Nat /\ DOMAIN s = 1 .. Len(s) /\ \A k \in 1 .. Len(s) : s[k] \in S
OBVIOUS

-----------------------------------------------------------------------------
(* The invariant.                                                          *)

(* The newest mount of a member is a mount of that member.                 *)
Newest == \A m \in DOMAIN latest : latest[m].member = m

(* No member has posted in an epoch that its job has not reached.          *)
Reached ==
  \A i \in 1 .. Len(records) :
    records[i].member # System => records[i].epoch <= epochs[records[i].job]

(* What was delivered was delivered once and is at or before the watermark.*)
Consumed ==
  \A m \in Members, i \in RoomSeqs :
    delivered[m][i] <= 1 /\ (delivered[m][i] # 0 => i <= watermark[m])

RoomInv == TypeOK /\ Newest /\ Reached /\ EpochsInOrder /\ Consumed

LEMMA Fields ==
  ASSUME NEW e \in Envelopes
  PROVE  /\ e.member \in Members /\ e.job \in Jobs /\ e.epoch \in Epochs
         /\ e.epoch \in Nat \ {0} /\ e.epoch <= MaxEpoch
         /\ e.member # System
<1>1. e \in [mount : {f.mount : f \in Envelopes}, member : Members, job : Jobs, epoch : Epochs]
  BY EnvelopeAssumption
<1>2. e.member \in Members /\ e.job \in Jobs /\ e.epoch \in Epochs
  BY <1>1
<1> QED
  BY <1>2, EnvelopeAssumption, BoundAssumption DEF Epochs

(* The record of a mount with another epoch.                               *)
LEMMA InEpoch ==
  ASSUME NEW e \in Envelopes, NEW n, NEW f, f = [e EXCEPT !.epoch = n]
  PROVE  f.job = e.job /\ f.member = e.member /\ f.epoch = n
<1>1. e \in [mount : {g.mount : g \in Envelopes}, member : Members, job : Jobs, epoch : Epochs]
  BY EnvelopeAssumption
<1> HIDE DEF Members, Jobs, Epochs
<1> QED
  BY <1>1

LEMMA RecordAt ==
  ASSUME TypeOK
  PROVE  /\ records \in Seq(Records) /\ Len(records) \in Nat
         /\ DOMAIN records = 1 .. Len(records)
         /\ \A i \in 1 .. Len(records) :
              /\ records[i] \in Records
              /\ records[i].job \in Jobs /\ records[i].epoch \in Nat
              /\ i \in RoomSeqs
<1>1. records \in Seq(Records) /\ Len(records) <= MaxRecords
  BY DEF TypeOK
<1>2. /\ Len(records) \in Nat /\ DOMAIN records = 1 .. Len(records)
      /\ \A i \in 1 .. Len(records) : records[i] \in Records
  <2> HIDE DEF Records
  <2> QED
    BY <1>1, Elements
<1>3. \A r \in Records : r.job \in Jobs /\ r.epoch \in Nat
  BY BoundAssumption DEF Records, Epochs
<1> QED
  BY <1>1, <1>2, <1>3, BoundAssumption DEF RoomSeqs

LEMMA EpochIs ==
  ASSUME TypeOK, NEW j \in Jobs
  PROVE  epochs[j] \in Nat /\ epochs[j] <= MaxEpoch
<1> HIDE DEF Jobs
<1> QED
  BY BoundAssumption DEF TypeOK

LEMMA WatermarkIs ==
  ASSUME TypeOK, NEW m \in Members
  PROVE  watermark[m] \in Nat /\ watermark[m] <= Len(records)
<1> HIDE DEF Members
<1> QED
  BY RecordAt DEF TypeOK

LEMMA UnreadIs ==
  ASSUME TypeOK, NEW e \in Envelopes
  PROVE  /\ Unread(e) \subseteq Behind(e)
         /\ Behind(e) \subseteq 1 .. Len(records)
         /\ \A i \in Behind(e) : i > watermark[e.member] /\ i <= Len(records) /\ i \in Nat
         /\ Unread(e) \subseteq Nat /\ IsFiniteSet(Unread(e))
<1>1. Unread(e) \subseteq Behind(e)
  BY DEF Unread
<1>2. Behind(e) \subseteq 1 .. Len(records) /\ Len(records) \in Nat
  BY RecordAt, WatermarkIs, Fields DEF Behind
<1>3. \A i \in Behind(e) : i > watermark[e.member] /\ i <= Len(records) /\ i \in Nat
  BY RecordAt, WatermarkIs, Fields DEF Behind
<1>4. IsFiniteSet(1 .. Len(records)) /\ Unread(e) \in SUBSET (1 .. Len(records))
  BY <1>1, <1>2, FS_Interval
<1>5. IsFiniteSet(Unread(e))
  BY <1>4, FS_Subset
<1> QED
  BY <1>1, <1>2, <1>3, <1>5

(* A read moves the watermark forward, past every record of its batch and  *)
(* past no other record that is unread at its mount.                       *)
LEMMA ReadMoves ==
  ASSUME TypeOK, NEW e \in Envelopes, NEW limit \in Nat \ {0}
  PROVE  /\ NewWatermark(e, limit) \in Nat
         /\ NewWatermark(e, limit) >= watermark[e.member]
         /\ NewWatermark(e, limit) <= Len(records)
         /\ \A i \in Batch(e, limit) : i \in Unread(e) /\ i <= NewWatermark(e, limit)
         /\ \A i \in Unread(e) : i <= NewWatermark(e, limit) => i \in Batch(e, limit)
<1> DEFINE U == Unread(e)
           B == Batch(e, limit)
           w == watermark[e.member]
           P == Behind(e) \cup {w}
<1>1. /\ U \subseteq Behind(e) /\ U \subseteq Nat /\ IsFiniteSet(U)
      /\ \A i \in Behind(e) : i > w /\ i <= Len(records) /\ i \in Nat
  BY UnreadIs
<1>2. w \in Nat /\ w <= Len(records) /\ Len(records) \in Int
  BY Fields, WatermarkIs, RecordAt
<1>3. B = First(U, limit)
  BY DEF Batch, First
<1>4. B \subseteq U
  BY DEF Batch
<1>5. /\ \A i \in U, b \in B : i < b => i \in B
      /\ Cardinality(B) # limit => B = U
  <2> HIDE DEF U, B
  <2> QED
    BY <1>1, <1>3, FirstIs
<1>6. CASE Cardinality(B) = limit
  <2>1. B # {}
    <3> HIDE DEF B
    <3> QED
      BY <1>6, FS_EmptySet
  <2>2. Max(B) \in B /\ \A i \in B : Max(B) >= i
    <3>1. B \subseteq Int /\ \A i \in B : i <= Len(records)
      BY <1>1, <1>4
    <3> HIDE DEF B
    <3> QED
      BY <1>2, <2>1, <3>1, MaxIs
  <2>3. NewWatermark(e, limit) = Max(B)
    BY <1>6 DEF NewWatermark
  <2>4. Max(B) \in Nat /\ Max(B) > w /\ Max(B) <= Len(records)
    BY <1>1, <1>4, <2>2
  <2>5. \A i \in U : i <= Max(B) => i \in B
    <3> HIDE DEF U, B
    <3> QED
      BY <1>1, <1>5, <2>2, <2>4
  <2> QED
    BY <1>2, <1>4, <2>2, <2>3, <2>4, <2>5
<1>7. CASE Cardinality(B) # limit
  <2>1. P \subseteq Int /\ P # {} /\ \A i \in P : i <= Len(records)
    BY <1>1, <1>2
  <2>2. Max(P) \in P /\ \A i \in P : Max(P) >= i
    <3> HIDE DEF P
    <3> QED
      BY <1>2, <2>1, MaxIs
  <2>3. NewWatermark(e, limit) = Max(P)
    BY <1>7 DEF NewWatermark
  <2>4. Max(P) \in Nat /\ Max(P) >= w /\ Max(P) <= Len(records)
    BY <1>1, <1>2, <2>2
  <2>5. \A i \in B : i \in P
    BY <1>1, <1>4
  <2> QED
    BY <1>4, <1>5, <1>7, <2>2, <2>3, <2>4, <2>5
<1> QED
  BY <1>6, <1>7

-----------------------------------------------------------------------------
(* What the steps preserve.                                                *)

LEMMA BecomesLatestIs ==
  ASSUME NEW e \in Envelopes, BecomesLatest(e)
  PROVE  /\ DOMAIN latest' = DOMAIN latest \cup {e.member} /\ latest'[e.member] = e
         /\ \A m \in DOMAIN latest : m # e.member => latest'[m] = latest[m]
BY DEF BecomesLatest

LEMMA RoomInit == Init => RoomInv
<1> SUFFICES ASSUME Init PROVE RoomInv
  OBVIOUS
<1>1. Len(records) = 0 /\ DOMAIN records = {} /\ records \in Seq(Records)
  BY DEF Init
<1>2. TypeOK
  <2>1. /\ 0 \in 0 .. MaxPosts /\ 0 \in 0 .. MaxReads /\ 0 \in 0 .. MaxEpoch
        /\ 0 \in 0 .. Len(records) /\ 0 \in Nat /\ Len(records) <= MaxRecords
    BY <1>1, CapAssumption, BoundAssumption
  <2>2. DOMAIN latest = {}
    BY DEF Init
  <2>3. /\ epochs \in [Jobs -> 0 .. MaxEpoch] /\ tags \in [Members -> SUBSET Tags]
        /\ posts \in [Members -> 0 .. MaxPosts] /\ reads \in [Members -> 0 .. MaxReads]
        /\ watermark \in [Members -> 0 .. Len(records)]
        /\ delivered \in [Members -> [RoomSeqs -> Nat]]
    <3> HIDE DEF Members, Jobs, RoomSeqs
    <3> QED
      BY <2>1 DEF Init
  <2> HIDE DEF Members, Jobs, RoomSeqs, Records
  <2> QED
    BY <1>1, <2>1, <2>2, <2>3 DEF Init, TypeOK
<1>3. Newest
  BY DEF Init, Newest
<1>4. Reached /\ EpochsInOrder
  BY <1>1 DEF Reached, EpochsInOrder
<1>5. Consumed
  <2> HIDE DEF Members, RoomSeqs
  <2> QED
    BY DEF Init, Consumed
<1> QED
  BY <1>2, <1>3, <1>4, <1>5 DEF RoomInv

(* A step that adds no record, delivers nothing and lets no epoch go back. *)
LEMMA RosterKeeps ==
  ASSUME RoomInv, TypeOK', Newest', UNCHANGED <<records, delivered, watermark>>,
         \A j \in Jobs : epochs'[j] >= epochs[j]
  PROVE  RoomInv'
<1>1. Reached'
  <2> SUFFICES ASSUME NEW i \in 1 .. Len(records), records[i].member # System
               PROVE  records[i].epoch <= epochs'[records[i].job]
    BY DEF Reached
  <2>1. PICK j : j = records[i].job
    OBVIOUS
  <2>2. j \in Jobs /\ records[i].epoch \in Nat /\ epochs[j] \in Nat /\ epochs'[j] \in Nat
    <3>1. j \in Jobs /\ records[i].epoch \in Nat
      BY <2>1, RecordAt DEF RoomInv
    <3>2. epochs[j] \in Nat
      BY <3>1, EpochIs DEF RoomInv
    <3>3. epochs'[j] \in Nat
      <4> HIDE DEF Jobs
      <4> QED
        BY <3>1, BoundAssumption DEF TypeOK
    <3> QED
      BY <3>1, <3>2, <3>3
  <2>3. records[i].epoch <= epochs[j]
    BY <2>1 DEF RoomInv, Reached
  <2> QED
    BY <2>1, <2>2, <2>3
<1>2. EpochsInOrder' /\ Consumed'
  BY DEF RoomInv, EpochsInOrder, Consumed
<1> QED
  BY <1>1, <1>2 DEF RoomInv

LEMMA MountStep == \A e \in Envelopes : RoomInv /\ Mount(e) => RoomInv'
<1> SUFFICES ASSUME NEW e \in Envelopes, RoomInv, Mount(e) PROVE RoomInv'
  OBVIOUS
<1> USE DEF RoomInv
<1>1. e.member \in Members /\ e.job \in Jobs /\ e.epoch \in Nat /\ e.epoch <= MaxEpoch
  BY Fields
<1>2. /\ DOMAIN latest' = DOMAIN latest \cup {e.member} /\ latest'[e.member] = e
      /\ \A m \in DOMAIN latest : m # e.member => latest'[m] = latest[m]
  BY BecomesLatestIs DEF Mount
<1>3. /\ epochs' \in [Jobs -> 0 .. MaxEpoch]
      /\ epochs'[e.job] = e.epoch /\ \A j \in Jobs : j # e.job => epochs'[j] = epochs[j]
  <2> HIDE DEF Jobs
  <2> QED
    BY <1>1, BoundAssumption DEF Mount, TypeOK
<1>4. \A j \in Jobs : epochs'[j] >= epochs[j]
  <2> TAKE j \in Jobs
  <2>1. epochs[j] \in Nat
    BY EpochIs
  <2> QED
    BY <1>1, <1>3, <2>1 DEF Mount
<1>5. TypeOK'
  <2>1. DOMAIN latest' = {f.member : f \in mounts'} /\ \A m \in DOMAIN latest' : latest'[m] \in mounts'
    BY <1>2 DEF Mount, TypeOK
  <2>2. mounts' \subseteq Envelopes /\ revoked' \subseteq mounts' /\ boundary' \subseteq mounts'
    BY DEF Mount, TypeOK
  <2> HIDE DEF Members, Jobs, RoomSeqs, Records
  <2> QED
    BY <1>3, <2>1, <2>2 DEF Mount, TypeOK, room
<1>6. Newest'
  BY <1>2 DEF Newest
<1> QED
  BY <1>4, <1>5, <1>6, RosterKeeps DEF Mount, room

LEMMA RevokeStep == \A e \in Envelopes : RoomInv /\ RevokeMount(e) => RoomInv'
<1> SUFFICES ASSUME NEW e \in Envelopes, RoomInv, RevokeMount(e) PROVE RoomInv'
  OBVIOUS
<1> USE DEF RoomInv
<1>1. /\ DOMAIN latest' = DOMAIN latest \cup {e.member} /\ latest'[e.member] = e
      /\ \A m \in DOMAIN latest : m # e.member => latest'[m] = latest[m]
  BY BecomesLatestIs DEF RevokeMount
<1>2. TypeOK'
  <2>1. DOMAIN latest' = {f.member : f \in mounts'} /\ \A m \in DOMAIN latest' : latest'[m] \in mounts'
    BY <1>1 DEF RevokeMount, TypeOK
  <2>2. revoked' \subseteq mounts'
    BY DEF RevokeMount, TypeOK
  <2> HIDE DEF Members, Jobs, RoomSeqs, Records
  <2> QED
    BY <2>1, <2>2 DEF RevokeMount, TypeOK, room
<1>3. Newest'
  BY <1>1 DEF Newest
<1>4. \A j \in Jobs : epochs'[j] >= epochs[j]
  BY EpochIs DEF RevokeMount
<1> QED
  BY <1>2, <1>3, <1>4, RosterKeeps DEF RevokeMount, room

LEMMA BumpStep == \A j \in Jobs : RoomInv /\ BumpJobEpoch(j) => RoomInv'
<1> SUFFICES ASSUME NEW j \in Jobs, RoomInv, BumpJobEpoch(j) PROVE RoomInv'
  OBVIOUS
<1> USE DEF RoomInv
<1>1. /\ epochs' \in [Jobs -> 0 .. MaxEpoch]
      /\ epochs'[j] = epochs[j] + 1 /\ \A k \in Jobs : k # j => epochs'[k] = epochs[k]
  <2> HIDE DEF Jobs
  <2> QED
    BY BoundAssumption DEF BumpJobEpoch, TypeOK
<1>2. \A k \in Jobs : epochs'[k] >= epochs[k]
  <2> TAKE k \in Jobs
  <2>1. epochs[k] \in Nat
    BY EpochIs
  <2> QED
    BY <1>1, <2>1
<1>3. TypeOK'
  <2> HIDE DEF Members, Jobs, RoomSeqs, Records
  <2> QED
    BY <1>1 DEF BumpJobEpoch, TypeOK, room
<1>4. Newest'
  BY DEF Newest, BumpJobEpoch
<1> QED
  BY <1>2, <1>3, <1>4, RosterKeeps DEF BumpJobEpoch, room

LEMMA ProveStep == RoomInv /\ ProveAdapter => RoomInv'
<1> SUFFICES ASSUME RoomInv, ProveAdapter PROVE RoomInv'
  OBVIOUS
<1> USE DEF RoomInv
<1>1. TypeOK'
  <2> HIDE DEF Members, Jobs, RoomSeqs, Records
  <2> QED
    BY DEF ProveAdapter, TypeOK, room
<1>2. Newest' /\ \A k \in Jobs : epochs'[k] >= epochs[k]
  BY EpochIs DEF Newest, ProveAdapter
<1> QED
  BY <1>1, <1>2, RosterKeeps DEF ProveAdapter, room

LEMMA ExecutionStep == \A e \in Envelopes : RoomInv /\ SetMemberExecution(e) => RoomInv'
<1> SUFFICES ASSUME NEW e \in Envelopes, RoomInv, SetMemberExecution(e) PROVE RoomInv'
  OBVIOUS
<1> USE DEF RoomInv
<1>1. TypeOK'
  <2>1. boundary' \subseteq mounts'
    BY DEF SetMemberExecution, TypeOK, LiveMount
  <2> HIDE DEF Members, Jobs, RoomSeqs, Records
  <2> QED
    BY <2>1 DEF SetMemberExecution, TypeOK, room
<1>2. Newest' /\ \A k \in Jobs : epochs'[k] >= epochs[k]
  BY EpochIs DEF Newest, SetMemberExecution
<1> QED
  BY <1>1, <1>2, RosterKeeps DEF SetMemberExecution, room

LEMMA TagStep ==
  \A e \in Envelopes, groups \in SUBSET Tags : RoomInv /\ SetGroupTags(e, groups) => RoomInv'
<1> SUFFICES ASSUME NEW e \in Envelopes, NEW groups \in SUBSET Tags, RoomInv,
                    SetGroupTags(e, groups)
             PROVE  RoomInv'
  OBVIOUS
<1> USE DEF RoomInv
<1>1. TypeOK'
  <2> HIDE DEF Members, Jobs, RoomSeqs, Records
  <2>1. tags' \in [Members -> SUBSET Tags]
    BY DEF SetGroupTags, TypeOK
  <2> QED
    BY <2>1 DEF SetGroupTags, TypeOK, room
<1>2. Newest' /\ \A k \in Jobs : epochs'[k] >= epochs[k]
  BY EpochIs DEF Newest, SetGroupTags
<1> QED
  BY <1>1, <1>2, RosterKeeps DEF SetGroupTags, room

(* A record added, by the system or in the epoch its job is in, keeps the  *)
(* order of the epochs, and nothing that was delivered is affected.        *)
LEMMA AddKeeps ==
  ASSUME RoomInv, TypeOK', NEW r \in Records, records' = Append(records, r),
         r.member # System => r.epoch = epochs[r.job],
         UNCHANGED <<roster, delivered, watermark>>
  PROVE  RoomInv'
<1> USE DEF RoomInv
<1>1. /\ Len(records') = Len(records) + 1 /\ Len(records) \in Nat
      /\ \A i \in 1 .. Len(records) : records'[i] = records[i]
      /\ records'[Len(records) + 1] = r
      /\ \A i \in 1 .. Len(records') : i \in 1 .. Len(records) \/ i = Len(records) + 1
  <2> HIDE DEF Records
  <2> QED
    BY RecordAt, AppendIs
<1>2. DOMAIN records = 1 .. Len(records) /\ DOMAIN records' = 1 .. Len(records')
  <2>1. records' \in Seq(Records)
    BY DEF TypeOK
  <2> HIDE DEF Records
  <2> QED
    BY <2>1, RecordAt, Elements
<1>3. r.job \in Jobs /\ epochs[r.job] \in Nat /\ r.epoch \in Nat
  BY EpochIs, BoundAssumption DEF Records, Epochs
<1>4. Reached'
  <2> SUFFICES ASSUME NEW i \in 1 .. Len(records'), records'[i].member # System
               PROVE  records'[i].epoch <= epochs[records'[i].job]
    BY DEF Reached, roster
  <2>1. CASE i \in 1 .. Len(records)
    BY <1>1, <2>1 DEF Reached
  <2>2. CASE i = Len(records) + 1
    BY <1>1, <1>3, <2>2
  <2> QED
    BY <1>1, <2>1, <2>2
<1>5. EpochsInOrder'
  <2> SUFFICES ASSUME NEW i \in 1 .. Len(records'), NEW j \in 1 .. Len(records'), i < j,
                      records'[i].job = records'[j].job,
                      records'[i].member # System, records'[j].member # System
               PROVE  records'[i].epoch <= records'[j].epoch
    BY <1>2 DEF EpochsInOrder
  <2>1. i \in 1 .. Len(records)
    BY <1>1
  <2>2. CASE j \in 1 .. Len(records)
    BY <1>1, <1>2, <2>1, <2>2 DEF EpochsInOrder
  <2>3. CASE j = Len(records) + 1
    <3>1. records[i].epoch <= epochs[records[i].job]
      BY <1>1, <2>1 DEF Reached
    <3> QED
      BY <1>1, <2>1, <2>3, <3>1
  <2> QED
    BY <1>1, <2>2, <2>3
<1>6. Newest' /\ Consumed'
  BY DEF Newest, Consumed, roster
<1> QED
  BY <1>4, <1>5, <1>6

LEMMA PostStep ==
  \A e \in Envelopes, groups \in SUBSET Tags : RoomInv /\ Post(e, groups) => RoomInv'
<1> SUFFICES ASSUME NEW e \in Envelopes, NEW groups \in SUBSET Tags, RoomInv, Post(e, groups)
             PROVE  RoomInv'
  OBVIOUS
<1> USE DEF RoomInv
<1> DEFINE r == [job |-> e.job, epoch |-> e.epoch, member |-> e.member, groups |-> groups]
<1>1. r \in Records /\ r.member # System /\ r.job = e.job /\ r.epoch = e.epoch
  BY Fields DEF Records
<1>2. records' = Append(records, r) /\ r.epoch = epochs[r.job]
  BY <1>1 DEF Post, Add, MayPost, LiveMount
<1>3. TypeOK'
  <2>1. records' \in Seq(Records) /\ Len(records') = Len(records) + 1 /\ Len(records) \in Nat
    <3> HIDE DEF Records, r
    <3> QED
      BY <1>1, <1>2, RecordAt, AppendIs
  <2>2. posts' \in [Members -> 0 .. MaxPosts]
    <3>1. e.member \in Members /\ posts[e.member] + 1 \in 0 .. MaxPosts
      <4>1. e.member \in Members /\ posts[e.member] \in 0 .. MaxPosts
        BY Fields DEF TypeOK
      <4> QED
        BY <4>1, CapAssumption DEF Post, MayPost
    <3> HIDE DEF Members
    <3> QED
      BY <3>1 DEF Post, TypeOK
  <2>3. skipped' \subseteq Members
    BY Fields DEF Post, TypeOK, SkippedBy
  <2>4. watermark' \in [Members -> 0 .. Len(records')]
    <3>1. 0 .. Len(records) \subseteq 0 .. Len(records')
      BY <2>1
    <3>2. watermark' \in [Members -> 0 .. Len(records)]
      BY DEF Post, TypeOK
    <3> HIDE DEF Members
    <3> QED
      BY <3>1, <3>2
  <2>5. Len(records') <= MaxRecords
    BY <2>1, BoundAssumption DEF Post
  <2> HIDE DEF Members, Jobs, RoomSeqs, Records
  <2> QED
    BY <2>1, <2>2, <2>3, <2>4, <2>5 DEF Post, TypeOK, roster
<1> HIDE DEF r
<1> QED
  BY <1>1, <1>2, <1>3, AddKeeps DEF Post

LEMMA ObserveStep == \A j \in Jobs, n \in Epochs : RoomInv /\ Observe(j, n) => RoomInv'
<1> SUFFICES ASSUME NEW j \in Jobs, NEW n \in Epochs, RoomInv, Observe(j, n)
             PROVE  RoomInv'
  OBVIOUS
<1> USE DEF RoomInv
<1> DEFINE r == [job |-> j, epoch |-> n, member |-> System, groups |-> {}]
<1>1. r \in Records /\ r.member = System
  BY DEF Records
<1>2. records' = Append(records, r)
  BY DEF Observe, Add
<1>3. TypeOK'
  <2>1. records' \in Seq(Records) /\ Len(records') = Len(records) + 1 /\ Len(records) \in Nat
    <3> HIDE DEF Records, r
    <3> QED
      BY <1>1, <1>2, RecordAt, AppendIs
  <2>2. watermark' \in [Members -> 0 .. Len(records')]
    <3>1. 0 .. Len(records) \subseteq 0 .. Len(records')
      BY <2>1
    <3>2. watermark' \in [Members -> 0 .. Len(records)]
      BY DEF Observe, TypeOK
    <3> HIDE DEF Members
    <3> QED
      BY <3>1, <3>2
  <2>3. Len(records') <= MaxRecords
    BY <2>1, BoundAssumption DEF Observe
  <2> HIDE DEF Members, Jobs, RoomSeqs, Records
  <2> QED
    BY <2>1, <2>2, <2>3 DEF Observe, TypeOK, roster
<1> HIDE DEF r
<1> QED
  BY <1>1, <1>2, <1>3, AddKeeps DEF Observe

LEMMA ReadStep ==
  \A e \in Envelopes, limit \in 1 .. MaxBatch : RoomInv /\ Read(e, limit) => RoomInv'
<1> SUFFICES ASSUME NEW e \in Envelopes, NEW limit \in 1 .. MaxBatch, RoomInv, Read(e, limit)
             PROVE  RoomInv'
  OBVIOUS
<1> USE DEF RoomInv
<1>1. limit \in Nat \ {0}
  BY CapAssumption
<1>2. PICK n : n = NewWatermark(e, limit)
  OBVIOUS
<1>3. /\ n \in Nat /\ n >= watermark[e.member] /\ n <= Len(records)
      /\ \A i \in Batch(e, limit) : i > watermark[e.member] /\ i <= n /\ i \in Nat
  BY <1>1, <1>2, ReadMoves, UnreadIs
<1>4. /\ e.member \in Members /\ watermark[e.member] \in Nat /\ Len(records) \in Nat
  BY Fields, WatermarkIs, RecordAt
<1>5. /\ watermark' \in [Members -> 0 .. Len(records)]
      /\ watermark'[e.member] = n
      /\ \A m \in Members : m # e.member => watermark'[m] = watermark[m]
  <2> HIDE DEF Members
  <2>1. watermark' = [watermark EXCEPT ![e.member] = n]
    BY <1>2 DEF Read
  <2>2. n \in 0 .. Len(records) /\ watermark \in [Members -> 0 .. Len(records)]
    BY <1>3, <1>4 DEF TypeOK
  <2> QED
    BY <1>4, <2>1, <2>2
<1>6. \A m \in Members, i \in RoomSeqs :
        /\ delivered[m][i] \in Nat /\ delivered'[m][i] \in Nat
        /\ delivered'[m][i] # delivered[m][i] =>
             m = e.member /\ i \in Batch(e, limit) /\ delivered'[m][i] = delivered[m][i] + 1
  <2> HIDE DEF Members, RoomSeqs
  <2> QED
    BY <1>4 DEF TypeOK, Read
<1>7. delivered' \in [Members -> [RoomSeqs -> Nat]]
  <2>1. delivered \in [Members -> [RoomSeqs -> Nat]]
    BY DEF TypeOK
  <2> DEFINE row == [i \in RoomSeqs |->
                       delivered[e.member][i] + (IF i \in Batch(e, limit) THEN 1 ELSE 0)]
  <2>2. row \in [RoomSeqs -> Nat]
    <3> HIDE DEF Members, RoomSeqs
    <3> QED
      BY <1>4, <2>1
  <2>3. delivered' = [delivered EXCEPT ![e.member] = row]
    BY DEF Read
  <2> HIDE DEF Members, RoomSeqs, row
  <2> QED
    BY <1>4, <2>1, <2>2, <2>3
<1>8. TypeOK'
  <2>1. reads' \in [Members -> 0 .. MaxReads]
    <3>1. reads[e.member] + 1 \in 0 .. MaxReads
      <4>1. reads[e.member] \in 0 .. MaxReads
        BY <1>4 DEF TypeOK
      <4> QED
        BY <4>1, CapAssumption DEF Read
    <3> HIDE DEF Members
    <3> QED
      BY <1>4, <3>1 DEF Read, TypeOK
  <2>2. skipped' \subseteq Members
    BY DEF Read, TypeOK
  <2> HIDE DEF Members, Jobs, RoomSeqs, Records
  <2> QED
    BY <1>5, <1>7, <2>1, <2>2 DEF Read, TypeOK, roster
<1>9. Consumed'
  <2> SUFFICES ASSUME NEW m \in Members, NEW i \in RoomSeqs
               PROVE  delivered'[m][i] <= 1 /\ (delivered'[m][i] # 0 => i <= watermark'[m])
    BY DEF Consumed
  <2>1. delivered[m][i] <= 1 /\ (delivered[m][i] # 0 => i <= watermark[m]) /\ i \in Nat
    BY BoundAssumption DEF Consumed, RoomSeqs
  <2>2. CASE delivered'[m][i] # delivered[m][i]
    <3>1. m = e.member /\ i \in Batch(e, limit) /\ delivered'[m][i] = delivered[m][i] + 1
      BY <1>6, <2>2
    <3>2. i > watermark[m] /\ i <= n
      BY <1>3, <3>1
    <3>3. delivered[m][i] = 0
      BY <1>4, <2>1, <3>1, <3>2
    <3> QED
      BY <1>5, <3>1, <3>2, <3>3
  <2>3. CASE delivered'[m][i] = delivered[m][i]
    <3>1. watermark'[m] >= watermark[m] /\ watermark[m] \in Nat /\ watermark'[m] \in Nat
      BY <1>3, <1>4, <1>5, WatermarkIs
    <3> QED
      BY <2>1, <2>3, <3>1
  <2> QED
    BY <2>2, <2>3
<1>10. Newest' /\ Reached' /\ EpochsInOrder'
  BY DEF Read, roster, Newest, Reached, EpochsInOrder
<1> QED
  BY <1>8, <1>9, <1>10

LEMMA RoomStep == RoomInv /\ [Next]_vars => RoomInv'
<1> SUFFICES ASSUME RoomInv, [Next]_vars PROVE RoomInv'
  OBVIOUS
<1>1. ASSUME NEW e \in Envelopes, Mount(e) \/ RevokeMount(e) \/ SetMemberExecution(e)
      PROVE  RoomInv'
  BY <1>1, MountStep, RevokeStep, ExecutionStep
<1>2. ASSUME NEW e \in Envelopes, NEW groups \in SUBSET Tags,
             SetGroupTags(e, groups) \/ Post(e, groups)
      PROVE  RoomInv'
  BY <1>2, TagStep, PostStep
<1>3. ASSUME NEW e \in Envelopes, NEW limit \in 1 .. MaxBatch, Read(e, limit) PROVE RoomInv'
  BY <1>3, ReadStep
<1>4. ASSUME NEW j \in Jobs, BumpJobEpoch(j) \/ \E n \in Epochs : Observe(j, n) PROVE RoomInv'
  BY <1>4, BumpStep, ObserveStep
<1>5. CASE UNCHANGED vars
  BY <1>5 DEF RoomInv, TypeOK, Newest, Reached, EpochsInOrder, Consumed, vars
<1> QED
  BY <1>1, <1>2, <1>3, <1>4, <1>5, ProveStep DEF Next

-----------------------------------------------------------------------------
(* The theorems.                                                           *)

(* RoomInv holds of every behaviour.                                       *)
THEOREM RoomInvariant == Spec => []RoomInv
BY RoomInit, RoomStep, PTL DEF Spec

(* Every variable keeps its type, and no member posts or reads more often  *)
(* than its caps allow.                                                    *)
THEOREM TypeCorrect == Spec => []TypeOK
BY RoomInvariant, PTL DEF RoomInv

(* No record reaches a member twice, whatever mounts, groups and batch     *)
(* sizes it reads with: every delivery is at or before the watermark.      *)
THEOREM NothingIsDeliveredTwice == Spec => []DeliveredOnce
<1>1. Consumed => DeliveredOnce
  BY DEF Consumed, DeliveredOnce
<1> QED
  BY <1>1, RoomInvariant, PTL DEF RoomInv

(* No member posts in an epoch that its room has left.                     *)
THEOREM NoEpochReturns == Spec => []EpochsInOrder
BY RoomInvariant, PTL DEF RoomInv

(* The view counts, for the mount it chose, exactly what any live mount of *)
(* the member in that job can read.                                        *)
THEOREM ViewsTellTheLag == Spec => []LagIsVisible
<1>1. RoomInv => LagIsVisible
  <2> SUFFICES ASSUME RoomInv, NEW e \in mounts, LiveMount(e), latest[e.member].job = e.job
               PROVE  ShownUnread(e.member) = Unread(e)
    BY DEF LagIsVisible
  <2> USE DEF RoomInv
  <2>1. e \in Envelopes /\ e.member \in DOMAIN latest
    BY DEF TypeOK
  <2> DEFINE shown == latest[e.member]
             f == [shown EXCEPT !.epoch = epochs[shown.job]]
  <2>2. shown \in Envelopes /\ shown.member = e.member /\ shown.job = e.job
    BY <2>1 DEF TypeOK, Newest
  <2>3. epochs[shown.job] = e.epoch
    BY <2>2 DEF LiveMount
  <2>4. f.job = e.job /\ f.member = e.member /\ f.epoch = e.epoch
    <3> HIDE DEF shown
    <3> QED
      BY <2>2, <2>3, InEpoch
  <2>5. Behind(shown) = Behind(e)
    BY <2>2 DEF Behind
  <2>6. \A i \in Behind(e) : AddressedTo(f, records[i]) <=> AddressedTo(e, records[i])
    <3> HIDE DEF f
    <3> QED
      BY <2>4 DEF AddressedTo
  <2>7. ShownUnread(e.member) = {i \in Behind(shown) : AddressedTo(f, records[i])}
    BY DEF ShownUnread
  <2> HIDE DEF f, shown
  <2> QED
    BY <2>5, <2>6, <2>7 DEF Unread
<1> QED
  BY <1>1, RoomInvariant, PTL

-----------------------------------------------------------------------------
(* What a step does to the queue of a mount.                               *)

(* Only a read moves a watermark or delivers, and no step changes a record.*)
LEMMA OnlyReadsConsume ==
  ASSUME RoomInv, [Next]_vars
  PROVE  \/ \E e \in Envelopes, limit \in 1 .. MaxBatch : Read(e, limit)
         \/ /\ UNCHANGED <<watermark, delivered>>
            /\ \A i \in 1 .. Len(records) : i \in 1 .. Len(records') /\ records'[i] = records[i]
<1> USE DEF RoomInv
<1>1. ASSUME NEW e \in Envelopes, NEW groups \in SUBSET Tags, Post(e, groups)
      PROVE  /\ UNCHANGED <<watermark, delivered>>
             /\ \A i \in 1 .. Len(records) : i \in 1 .. Len(records') /\ records'[i] = records[i]
  <2> DEFINE r == [job |-> e.job, epoch |-> e.epoch, member |-> e.member, groups |-> groups]
  <2>1. r \in Records /\ records' = Append(records, r)
    BY <1>1, Fields DEF Records, Post, Add
  <2> HIDE DEF Records, r
  <2> QED
    BY <1>1, <2>1, RecordAt, AppendIs DEF Post
<1>2. ASSUME NEW j \in Jobs, NEW n \in Epochs, Observe(j, n)
      PROVE  /\ UNCHANGED <<watermark, delivered>>
             /\ \A i \in 1 .. Len(records) : i \in 1 .. Len(records') /\ records'[i] = records[i]
  <2> DEFINE r == [job |-> j, epoch |-> n, member |-> System, groups |-> {}]
  <2>1. r \in Records /\ records' = Append(records, r)
    BY <1>2 DEF Records, Observe, Add
  <2> HIDE DEF Records, r
  <2> QED
    BY <1>2, <2>1, RecordAt, AppendIs DEF Observe
<1>3. ASSUME \/ \E e \in Envelopes : \/ Mount(e) \/ RevokeMount(e) \/ SetMemberExecution(e)
                                     \/ \E groups \in SUBSET Tags : SetGroupTags(e, groups)
             \/ \E j \in Jobs : BumpJobEpoch(j)
             \/ ProveAdapter
             \/ UNCHANGED vars
      PROVE  UNCHANGED <<watermark, delivered, records>>
  BY <1>3 DEF Mount, RevokeMount, SetMemberExecution, SetGroupTags, BumpJobEpoch, ProveAdapter,
             vars, room
<1> QED
  BY <1>1, <1>2, <1>3 DEF Next

LEMMA CurrentStep ==
  RoomInv /\ [Next]_vars =>
    \A m \in Members, i \in RoomSeqs :
      delivered'[m][i] # delivered[m][i] => records[i].epoch = epochs[records[i].job]
<1> SUFFICES ASSUME RoomInv, [Next]_vars, NEW m \in Members, NEW i \in RoomSeqs,
                    delivered'[m][i] # delivered[m][i]
             PROVE  records[i].epoch = epochs[records[i].job]
  OBVIOUS
<1>1. PICK e \in Envelopes, limit \in 1 .. MaxBatch : Read(e, limit)
  BY OnlyReadsConsume
<1>2. i \in Batch(e, limit)
  <2>1. e.member \in Members
    BY Fields
  <2> HIDE DEF Members, RoomSeqs
  <2> QED
    BY <1>1, <2>1 DEF RoomInv, TypeOK, Read
<1>3. AddressedTo(e, records[i])
  BY <1>2 DEF Batch, Unread
<1> QED
  BY <1>1, <1>3 DEF Read, LiveMount, AddressedTo

(* What was queued in an epoch is never delivered in a later one.          *)
THEOREM TheOldIsCancelled == Spec => DeliveredWereCurrent
BY CurrentStep, RoomInvariant, PTL DEF Spec, DeliveredWereCurrent

(* A record leaves the queue of a live mount when it is delivered to the   *)
(* member, or when the member reads in another job.                        *)
LEMMA QueueStep ==
  ASSUME RoomInv, [Next]_vars, NEW e \in Envelopes, LiveMount(e),
         tags'[e.member] = tags[e.member], NEW i \in Unread(e), i \notin Unread(e)'
  PROVE  \/ delivered'[e.member][i] > delivered[e.member][i]
         \/ \E f \in Envelopes, limit \in 1 .. MaxBatch :
              f.member = e.member /\ f.job # e.job /\ Read(f, limit)
<1> USE DEF RoomInv
<1>1. /\ i \in 1 .. Len(records) /\ i > watermark[e.member] /\ i \in Nat /\ i \in RoomSeqs
      /\ records[i].job = e.job /\ AddressedTo(e, records[i])
  BY UnreadIs, RecordAt DEF Unread, Behind
<1>2. e.member \in Members /\ watermark[e.member] \in Nat /\ Len(records) \in Nat
  BY Fields, WatermarkIs, RecordAt
<1>3. ASSUME i \in 1 .. Len(records'), records'[i] = records[i], i > watermark'[e.member],
             watermark'[e.member] \in Nat, Len(records') \in Nat
      PROVE  FALSE
  <2>1. AddressedTo(e, records[i])'
    BY <1>1, <1>3 DEF AddressedTo, Reaches
  <2>2. i \in Behind(e)'
    BY <1>1, <1>3 DEF Behind
  <2> QED
    BY <2>1, <2>2 DEF Unread
<1>4. RoomInv'
  BY RoomStep
<1>5. Len(records') \in Nat /\ watermark'[e.member] \in Nat
  <2>1. records' \in Seq(Records) /\ watermark' \in [Members -> 0 .. Len(records')]
    BY <1>4 DEF TypeOK
  <2>2. Len(records') \in Nat
    <3> HIDE DEF Records
    <3> QED
      BY <2>1, Elements
  <2>3. watermark'[e.member] \in 0 .. Len(records')
    <3> HIDE DEF Members
    <3> QED
      BY <1>2, <2>1
  <2> QED
    BY <2>2, <2>3
<1>6. PICK f \in Envelopes, limit \in 1 .. MaxBatch : Read(f, limit)
  <2>1. ASSUME UNCHANGED watermark, i \in 1 .. Len(records') /\ records'[i] = records[i]
        PROVE  FALSE
    BY <1>1, <1>3, <1>5, <2>1
  <2> QED
    BY <1>1, <2>1, OnlyReadsConsume
<1>7. UNCHANGED <<records, tags>>
  BY <1>6 DEF Read, roster
<1>8. CASE f.member # e.member
  <2>1. watermark'[e.member] = watermark[e.member]
    <3> HIDE DEF Members
    <3> QED
      BY <1>2, <1>6, <1>8 DEF Read, TypeOK
  <2> QED
    BY <1>1, <1>3, <1>5, <1>7, <2>1
<1>9. CASE f.member = e.member /\ f.job = e.job
  <2>1. f.epoch = e.epoch
    BY <1>6, <1>9 DEF Read, LiveMount
  <2>2. Unread(f) = Unread(e)
    BY <1>9, <2>1 DEF Unread, Behind, AddressedTo
  <2>3. PICK n : n = NewWatermark(f, limit)
    OBVIOUS
  <2>4. limit \in Nat \ {0}
    BY CapAssumption
  <2>5. n \in Nat /\ (i <= n => i \in Batch(f, limit))
    BY <2>2, <2>3, <2>4, ReadMoves
  <2>6. watermark'[e.member] = n
    <3> HIDE DEF Members
    <3> QED
      BY <1>2, <1>6, <1>9, <2>3 DEF Read, TypeOK
  <2>7. i \in Batch(f, limit)
    BY <1>1, <1>3, <1>5, <1>7, <2>5, <2>6
  <2>8. delivered[e.member][i] \in Nat /\ delivered'[e.member][i] = delivered[e.member][i] + 1
    <3> HIDE DEF Members, RoomSeqs
    <3> QED
      BY <1>1, <1>2, <1>6, <1>9, <2>7 DEF Read, TypeOK
  <2> QED
    BY <2>8
<1> QED
  BY <1>6, <1>8, <1>9

(* Every member is mounted in one job.                                     *)
OneJobEach == \A e, f \in Envelopes : e.member = f.member => e.job = f.job

(* When no member is mounted in two jobs, what is unread at a live mount   *)
(* stays unread until it is delivered.  The run TwoRooms shows that the    *)
(* hypothesis is needed.                                                   *)
THEOREM QueuesAreKept == ASSUME OneJobEach PROVE Spec => QueuedUntilRead
<1>1. RoomInv /\ [Next]_vars =>
        \A e \in Envelopes :
          LiveMount(e) /\ tags'[e.member] = tags[e.member] =>
            \A i \in Unread(e) \ Unread(e)' : delivered'[e.member][i] > delivered[e.member][i]
  BY QueueStep DEF OneJobEach
<1> QED
  BY <1>1, RoomInvariant, PTL DEF Spec, QueuedUntilRead
=============================================================================
