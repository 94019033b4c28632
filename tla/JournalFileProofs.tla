--------------------------- MODULE JournalFileProofs ---------------------------
(* Theorems about JournalFile, for every set of organs, every environment  *)
(* of faults and every number of writes.                                   *)
EXTENDS JournalFile, TLAPS

-----------------------------------------------------------------------------
(* Sequences.                                                              *)

LEMMA AppendIs ==
  ASSUME NEW S, NEW s \in Seq(S), NEW e \in S, NEW t, t = Append(s, e)
  PROVE  /\ t \in Seq(S) /\ Len(t) = Len(s) + 1 /\ Len(s) \in Nat
         /\ \A i \in 1 .. Len(s) : t[i] = s[i]
         /\ t[Len(s) + 1] = e
         /\ \A i \in 1 .. Len(t) : i \in 1 .. Len(s) \/ i = Len(s) + 1
OBVIOUS

LEMMA CutIs ==
  ASSUME NEW S, NEW s \in Seq(S), NEW n \in 0 .. Len(s), NEW t, t = SubSeq(s, 1, n)
  PROVE  /\ t \in Seq(S) /\ Len(t) = n /\ \A i \in 1 .. n : t[i] = s[i]
OBVIOUS

LEMMA Elements ==
  ASSUME NEW S, NEW s \in Seq(S)
  PROVE  Len(s) \in Nat /\ DOMAIN s = 1 .. Len(s) /\ \A i \in 1 .. Len(s) : s[i] \in S
OBVIOUS

LEMMA PrefixIs ==
  ASSUME NEW S, NEW s \in Seq(S), NEW t \in Seq(S), Len(s) <= Len(t),
         \A i \in 1 .. Len(s) : s[i] = t[i]
  PROVE  IsPrefix(s, t)
<1>1. SubSeq(s, 1, Len(s)) = SubSeq(t, 1, Len(s))
  OBVIOUS
<1> QED
  BY <1>1 DEF IsPrefix

(* The ids of a file, one for each line.                                   *)
LEMMA IdsAre ==
  ASSUME NEW f \in Seq(Lines)
  PROVE  /\ Ids(f) \in Seq(Nat) /\ Len(Ids(f)) = Len(f)
         /\ \A i \in 1 .. Len(f) : Ids(f)[i] = f[i].id
<1>1. Len(f) \in Nat /\ DOMAIN f = 1 .. Len(f) /\ \A i \in 1 .. Len(f) : f[i] \in Lines
  BY Elements
<1>2. \A i \in 1 .. Len(f) : f[i].id \in Nat
  BY <1>1 DEF Lines
<1>3. Ids(f) = [i \in 1 .. Len(f) |-> f[i].id]
  BY <1>1 DEF Ids
<1> QED
  BY <1>1, <1>2, <1>3

-----------------------------------------------------------------------------
(* One organ at a time.                                                    *)

Phases == {"down", "ready", "written", "synced"}

(* An organ that is up holds the lock, and its counter is what it          *)
(* acknowledged; what it is about to acknowledge is the last line.         *)
OneOrgan ==
  /\ \A p \in Organs : organ[p].phase # "down" => holder = p /\ organ[p].seq = Len(committed)
  /\ \A p \in Organs :
       organ[p].phase \in {"written", "synced"} =>
         /\ file # <<>> /\ file[Len(file)].seq = organ[p].seq + 1
         /\ organ[p].phase = "synced" => synced = Len(file)

JournalInv == TypeOK /\ OneOrgan

LEMMA OrganType ==
  ASSUME TypeOK, NEW p \in Organs
  PROVE  organ[p].phase \in Phases /\ organ[p].seq \in Nat
BY DEF TypeOK, Phases

LEMMA OrganChanged ==
  ASSUME TypeOK, NEW p \in Organs, NEW r,
         NEW phase \in Phases, NEW seq \in Nat, r = [phase |-> phase, seq |-> seq],
         organ' = [organ EXCEPT ![p] = r]
  PROVE  /\ organ' \in [Organs -> [phase : Phases, seq : Nat]]
         /\ organ'[p].phase = phase /\ organ'[p].seq = seq
         /\ \A q \in Organs : q # p => organ'[q] = organ[q]
BY DEF TypeOK, Phases

LEMMA PhaseChanged ==
  ASSUME TypeOK, NEW p \in Organs, NEW phase \in Phases,
         organ' = [organ EXCEPT ![p].phase = phase]
  PROVE  /\ organ' \in [Organs -> [phase : Phases, seq : Nat]]
         /\ organ'[p].phase = phase /\ organ'[p].seq = organ[p].seq
         /\ \A q \in Organs : q # p => organ'[q] = organ[q]
BY DEF TypeOK, Phases

LEMMA JournalInit == Init => JournalInv
<1> SUFFICES ASSUME Init PROVE JournalInv
  OBVIOUS
<1>1. file \in Seq(Lines) /\ committed \in Seq(Nat) /\ Len(file) = 0
  BY DEF Init
<1>2. organ \in [Organs -> [phase : {"down", "ready", "written", "synced"}, seq : Nat]]
  BY DEF Init, Down
<1> QED
  BY <1>1, <1>2 DEF Init, JournalInv, TypeOK, OneOrgan, Down

(* The file after a write of any form.                                     *)
LEMMA WrittenIs ==
  ASSUME TypeOK, NEW p \in Organs, NEW form \in Forms, WriteAs(p, form)
  PROVE  /\ file' \in Seq(Lines) /\ Len(file) \in Nat /\ Len(file') = Len(file) + 1
         /\ \A i \in 1 .. Len(file) : file'[i] = file[i]
         /\ file'[Len(file')].seq = organ[p].seq + 1 /\ file'[Len(file')].form = form
         /\ writes' \in Nat /\ synced \in 0 .. Len(file')
<1>1. organ[p].seq + 1 \in Nat /\ writes \in Nat /\ writes + 1 \in Nat
  BY OrganType DEF TypeOK
<1>2. PICK r : r = [seq |-> organ[p].seq + 1, id |-> writes + 1, form |-> form]
  OBVIOUS
<1>3. r \in Lines /\ r.seq = organ[p].seq + 1 /\ r.form = form
  BY <1>1, <1>2 DEF Lines
<1>4. file' = Append(file, r) /\ writes' = writes + 1 /\ file \in Seq(Lines) /\ synced \in 0 .. Len(file)
  BY <1>2 DEF WriteAs, TypeOK
<1>5. /\ file' \in Seq(Lines) /\ Len(file) \in Nat /\ Len(file') = Len(file) + 1
      /\ \A i \in 1 .. Len(file) : file'[i] = file[i]
      /\ file'[Len(file) + 1] = r
  <2> HIDE DEF Lines
  <2> QED
    BY <1>3, <1>4, AppendIs
<1> QED
  BY <1>1, <1>3, <1>4, <1>5

(* What a power loss leaves: a part of the file that holds all that was    *)
(* synced, of which the last line may have changed if it was not.          *)
LEMMA LeftIs ==
  ASSUME TypeOK, PowerLoss \/ EntryLost
  PROVE  /\ file' \in Seq(Lines)
         /\ PowerLoss =>
              /\ Len(file') \in synced .. Len(file)
              /\ \A i \in 1 .. Len(file') : i < Len(file') \/ i <= synced => file'[i] = file[i]
         /\ synced' = Len(file') /\ synced \in Nat /\ Len(file) \in Nat
<1> SUFFICES ASSUME PowerLoss
             PROVE  /\ file' \in Seq(Lines) /\ Len(file') \in synced .. Len(file)
                    /\ \A i \in 1 .. Len(file') : i < Len(file') \/ i <= synced => file'[i] = file[i]
                    /\ synced' = Len(file') /\ synced \in Nat /\ Len(file) \in Nat
  <2>1. synced \in Nat /\ Len(file) \in Nat
    BY DEF TypeOK
  <2>2. synced' = Len(file')
    BY DEF PowerLoss, EntryLost, MachineStops
  <2>3. EntryLost => file' \in Seq(Lines)
    BY DEF EntryLost
  <2> QED
    BY <2>1, <2>2, <2>3
<1>1. file \in Seq(Lines) /\ synced \in 0 .. Len(file) /\ Len(file) \in Nat
  BY DEF TypeOK
<1>2. PICK n \in synced .. Len(file) :
        \/ file' = SubSeq(file, 1, n)
        \/ /\ n > synced
           /\ \E form \in {"unended", "torn"} :
                file' = [SubSeq(file, 1, n) EXCEPT ![n].form = form]
  BY DEF PowerLoss
<1>3. PICK f : f = SubSeq(file, 1, n)
  OBVIOUS
<1>4. f \in Seq(Lines) /\ Len(f) = n /\ n \in Nat /\ \A i \in 1 .. n : f[i] = file[i]
  <2>1. n \in 0 .. Len(file)
    BY <1>1
  <2> HIDE DEF Lines
  <2> QED
    BY <1>1, <1>3, <2>1, CutIs
<1>5. CASE file' = f
  BY <1>1, <1>4, <1>5 DEF PowerLoss, MachineStops
<1>6. ASSUME NEW form \in {"unended", "torn"}, n > synced,
             file' = [f EXCEPT ![n].form = form]
      PROVE  /\ file' \in Seq(Lines) /\ Len(file') = n
             /\ \A i \in 1 .. n : i # n => file'[i] = file[i]
  <2>1. n \in 1 .. n /\ f[n] \in Lines
    BY <1>1, <1>4, <1>6, Elements
  <2>2. PICK r \in Lines : r = [f[n] EXCEPT !.form = form]
    BY <2>1 DEF Lines, Forms
  <2>3. file' = [f EXCEPT ![n] = r]
    BY <1>6, <2>2
  <2> HIDE DEF Lines
  <2> QED
    BY <1>4, <2>1, <2>2, <2>3
<1> QED
  BY <1>1, <1>2, <1>3, <1>4, <1>5, <1>6 DEF PowerLoss, MachineStops

-----------------------------------------------------------------------------

LEMMA StartStep == \A p \in Organs : JournalInv /\ Start(p) => JournalInv'
<1> SUFFICES ASSUME NEW p \in Organs, JournalInv, Start(p) PROVE JournalInv'
  OBVIOUS
<1>1. /\ TypeOK /\ file \in Seq(Lines) /\ Len(file) \in Nat
      /\ organ[p].phase = "down" /\ holder = NoOrgan /\ holder' = p
  BY DEF JournalInv, TypeOK, Start
<1>2. /\ organ' \in [Organs -> [phase : Phases, seq : Nat]]
      /\ organ'[p].phase = "ready" /\ organ'[p].seq = Len(file)
      /\ \A q \in Organs : q # p => organ'[q] = organ[q]
  BY <1>1, OrganChanged DEF Start, Ready, Phases
<1>3. committed' \in Seq(Nat) /\ Len(committed') = Len(file)
  BY <1>1, IdsAre DEF Start
<1>4. TypeOK'
  BY <1>1, <1>2, <1>3 DEF Start, TypeOK, Phases
<1>5. \A q \in Organs : organ[q].phase = "down"
  BY <1>1, OrganAssumption DEF JournalInv, OneOrgan
<1> QED
  BY <1>1, <1>2, <1>3, <1>4, <1>5 DEF JournalInv, OneOrgan

(* The other organs are down while one is up.                              *)
LEMMA Alone ==
  ASSUME JournalInv, NEW p \in Organs, organ[p].phase # "down"
  PROVE  /\ holder = p /\ organ[p].seq = Len(committed)
         /\ \A q \in Organs : q # p => organ[q].phase = "down"
BY DEF JournalInv, OneOrgan

LEMMA WriteStep == \A p \in Organs : JournalInv /\ (Write(p) \/ WriteStops(p)) => JournalInv'
<1> SUFFICES ASSUME NEW p \in Organs, JournalInv, Write(p) \/ WriteStops(p) PROVE JournalInv'
  OBVIOUS
<1>1. TypeOK /\ organ[p].phase = "ready"
  BY DEF JournalInv, Write, WriteStops
<1>2. PICK form \in Forms : WriteAs(p, form)
  BY DEF Write, WriteStops, Forms
<1>3. /\ file' \in Seq(Lines) /\ Len(file) \in Nat /\ Len(file') = Len(file) + 1
      /\ file'[Len(file')].seq = organ[p].seq + 1
      /\ writes' \in Nat /\ synced \in 0 .. Len(file')
  BY <1>1, <1>2, WrittenIs
<1>4. file' # <<>>
  BY <1>3
<1>5. /\ organ' \in [Organs -> [phase : Phases, seq : Nat]]
      /\ organ'[p].phase \in {"ready", "written"} /\ organ'[p].seq = organ[p].seq
      /\ \A q \in Organs : q # p => organ'[q] = organ[q]
  <2>1. CASE Write(p)
    BY <1>1, <2>1, PhaseChanged DEF Write, Phases
  <2>2. CASE WriteStops(p)
    BY <1>1, <2>2 DEF WriteStops, TypeOK, Phases
  <2> QED
    BY <2>1, <2>2
<1>6. TypeOK'
  BY <1>1, <1>2, <1>3, <1>5 DEF Write, WriteStops, WriteAs, TypeOK, Phases
<1>7. /\ holder = p /\ organ[p].seq = Len(committed) /\ UNCHANGED <<holder, committed>>
      /\ \A q \in Organs : q # p => organ[q].phase = "down"
  BY <1>1, <1>2, Alone DEF Write, WriteStops, WriteAs
<1> QED
  BY <1>3, <1>4, <1>5, <1>6, <1>7 DEF JournalInv, OneOrgan

LEMMA SyncStep == \A p \in Organs : JournalInv /\ (Sync(p) \/ SyncFails(p)) => JournalInv'
<1> SUFFICES ASSUME NEW p \in Organs, JournalInv, Sync(p) \/ SyncFails(p) PROVE JournalInv'
  OBVIOUS
<1>1. /\ TypeOK /\ organ[p].phase = "written" /\ UNCHANGED <<faults, file, holder, committed, writes>>
      /\ file \in Seq(Lines) /\ Len(file) \in Nat
  BY DEF JournalInv, TypeOK, Sync, SyncFails
<1>2. PICK phase \in {"synced", "ready"} :
        /\ organ' = [organ EXCEPT ![p].phase = phase]
        /\ phase = "synced" => synced' = Len(file)
        /\ synced' \in {synced, Len(file)}
  BY DEF Sync, SyncFails
<1>3. /\ organ' \in [Organs -> [phase : Phases, seq : Nat]]
      /\ organ'[p].phase = phase /\ organ'[p].seq = organ[p].seq
      /\ \A q \in Organs : q # p => organ'[q] = organ[q]
  BY <1>1, <1>2, PhaseChanged DEF Phases
<1>4. TypeOK'
  BY <1>1, <1>2, <1>3 DEF TypeOK, Phases
<1>5. /\ holder = p /\ organ[p].seq = Len(committed)
      /\ \A q \in Organs : q # p => organ[q].phase = "down"
  BY <1>1, Alone
<1> QED
  BY <1>1, <1>2, <1>3, <1>4, <1>5 DEF JournalInv, OneOrgan

LEMMA AcknowledgeIs ==
  ASSUME JournalInv, NEW p \in Organs, Acknowledge(p)
  PROVE  /\ file \in Seq(Lines) /\ Len(file) \in Nat \ {0} /\ synced = Len(file)
         /\ file[Len(file)].seq = Len(committed) + 1
         /\ committed' \in Seq(Nat) /\ Len(committed) \in Nat
         /\ Len(committed') = Len(committed) + 1
         /\ \A i \in 1 .. Len(committed) : committed'[i] = committed[i]
         /\ committed'[Len(committed) + 1] = file[Len(file)].id
         /\ \A i \in 1 .. Len(committed') : i \in 1 .. Len(committed) \/ i = Len(committed) + 1
<1>1. file \in Seq(Lines) /\ committed \in Seq(Nat) /\ Len(file) \in Nat
  BY DEF JournalInv, TypeOK
<1>2. file # <<>> /\ file[Len(file)].seq = Len(committed) + 1 /\ synced = Len(file)
  BY DEF JournalInv, OneOrgan, Acknowledge
<1>3. Len(file) # 0
  BY <1>1, <1>2
<1>4. file[Len(file)].id \in Nat
  <2>1. file[Len(file)] \in Lines
    BY <1>1, <1>3, Elements
  <2> QED
    BY <2>1 DEF Lines
<1>5. committed' = Append(committed, file[Len(file)].id)
  BY DEF Acknowledge
<1> QED
  BY <1>1, <1>2, <1>3, <1>4, <1>5, AppendIs

LEMMA AcknowledgeStep == \A p \in Organs : JournalInv /\ Acknowledge(p) => JournalInv'
<1> SUFFICES ASSUME NEW p \in Organs, JournalInv, Acknowledge(p) PROVE JournalInv'
  OBVIOUS
<1>1. TypeOK /\ organ[p].phase = "synced"
  BY DEF JournalInv, Acknowledge
<1>2. /\ organ' \in [Organs -> [phase : Phases, seq : Nat]]
      /\ organ'[p].phase = "ready" /\ organ'[p].seq = organ[p].seq + 1
      /\ \A q \in Organs : q # p => organ'[q] = organ[q]
  <2>1. PICK n \in Nat : n = organ[p].seq + 1
    BY <1>1, OrganType
  <2>2. organ' = [organ EXCEPT ![p] = [phase |-> "ready", seq |-> n]]
    BY <2>1 DEF Acknowledge, Ready
  <2> QED
    BY <1>1, <2>1, <2>2, OrganChanged DEF Phases
<1>3. TypeOK'
  BY <1>1, <1>2, AcknowledgeIs DEF Acknowledge, TypeOK, Phases
<1>4. /\ holder = p /\ organ[p].seq = Len(committed)
      /\ \A q \in Organs : q # p => organ[q].phase = "down"
  BY <1>1, Alone
<1> QED
  BY <1>2, <1>3, <1>4, AcknowledgeIs DEF Acknowledge, JournalInv, OneOrgan

LEMMA KillStep == \A p \in Organs : JournalInv /\ Kill(p) => JournalInv'
<1> SUFFICES ASSUME NEW p \in Organs, JournalInv, Kill(p) PROVE JournalInv'
  OBVIOUS
<1>1. TypeOK /\ organ[p].phase # "down"
  BY DEF JournalInv, Kill
<1>2. /\ organ' \in [Organs -> [phase : Phases, seq : Nat]]
      /\ organ'[p].phase = "down"
      /\ \A q \in Organs : q # p => organ'[q] = organ[q]
  BY <1>1, OrganChanged DEF Kill, Down, Phases
<1>3. TypeOK'
  BY <1>1, <1>2 DEF Kill, TypeOK, Phases
<1>4. \A q \in Organs : q # p => organ[q].phase = "down"
  BY <1>1, Alone
<1> QED
  BY <1>2, <1>3, <1>4 DEF JournalInv, OneOrgan

LEMMA KillInWriteStep == \A p \in Organs : JournalInv /\ KillInWrite(p) => JournalInv'
<1> SUFFICES ASSUME NEW p \in Organs, JournalInv, KillInWrite(p) PROVE JournalInv'
  OBVIOUS
<1>1. TypeOK /\ organ[p].phase # "down"
  BY DEF JournalInv, KillInWrite
<1>2. PICK form \in Forms : WriteAs(p, form)
  BY DEF KillInWrite, Forms
<1>3. /\ organ' \in [Organs -> [phase : Phases, seq : Nat]]
      /\ organ'[p].phase = "down"
      /\ \A q \in Organs : q # p => organ'[q] = organ[q]
  BY <1>1, OrganChanged DEF KillInWrite, Down, Phases
<1>4. TypeOK'
  <2>1. file' \in Seq(Lines) /\ writes' \in Nat /\ synced \in 0 .. Len(file')
    BY <1>1, <1>2, WrittenIs
  <2> QED
    BY <1>1, <1>2, <1>3, <2>1 DEF KillInWrite, WriteAs, TypeOK, Phases
<1>5. \A q \in Organs : q # p => organ[q].phase = "down"
  BY <1>1, Alone
<1> QED
  BY <1>3, <1>4, <1>5 DEF JournalInv, OneOrgan

LEMMA PowerStep == JournalInv /\ (PowerLoss \/ EntryLost) => JournalInv'
<1> SUFFICES ASSUME JournalInv, PowerLoss \/ EntryLost PROVE JournalInv'
  OBVIOUS
<1>1. TypeOK
  BY DEF JournalInv
<1>2. /\ organ' \in [Organs -> [phase : Phases, seq : Nat]]
      /\ \A q \in Organs : organ'[q].phase = "down"
  BY DEF PowerLoss, EntryLost, MachineStops, Down, Phases
<1>3. TypeOK'
  <2>1. file' \in Seq(Lines) /\ synced' \in 0 .. Len(file')
    BY <1>1, LeftIs
  <2>2. UNCHANGED <<faults, committed, writes>> /\ holder' = NoOrgan
    BY DEF PowerLoss, EntryLost, MachineStops
  <2> QED
    BY <1>1, <1>2, <2>1, <2>2 DEF TypeOK, Phases
<1> QED
  BY <1>2, <1>3 DEF JournalInv, OneOrgan

LEMMA JournalStep == JournalInv /\ [Next]_vars => JournalInv'
<1>1. JournalInv /\ UNCHANGED vars => JournalInv'
  BY DEF vars, JournalInv, TypeOK, OneOrgan
<1> QED
  BY <1>1, StartStep, WriteStep, SyncStep, AcknowledgeStep, KillStep, KillInWriteStep, PowerStep DEF Next

THEOREM JournalInvariant == Spec => []JournalInv
BY JournalInit, JournalStep, PTL DEF Spec

(* Every variable keeps its type.                                          *)
THEOREM TypeCorrect == Spec => []TypeOK
<1>1. JournalInv => TypeOK
  BY DEF JournalInv
<1> QED
  BY <1>1, JournalInvariant, PTL

-----------------------------------------------------------------------------
(* The journal opens again.                                                *)

(* Where the file system does what it is told, the file is its lines in    *)
(* order, and at most the last of them is not acknowledged.                *)
Replayable ==
  faults \subseteq {"kill"} =>
    /\ \A i \in 1 .. Len(file) : file[i].seq = i /\ file[i].form = "whole"
    /\ \A p \in Organs :
         /\ organ[p].phase = "ready" => organ[p].seq = Len(file)
         /\ organ[p].phase \in {"written", "synced"} => organ[p].seq + 1 = Len(file)

LEMMA ReplayableStep == JournalInv /\ Replayable /\ [Next]_vars => Replayable'
<1> SUFFICES ASSUME JournalInv, Replayable, [Next]_vars, faults' \subseteq {"kill"}
             PROVE  /\ \A i \in 1 .. Len(file') : file'[i].seq = i /\ file'[i].form = "whole"
                    /\ \A p \in Organs :
                         /\ organ'[p].phase = "ready" => organ'[p].seq = Len(file')
                         /\ organ'[p].phase \in {"written", "synced"} =>
                              organ'[p].seq + 1 = Len(file')
  BY DEF Replayable
<1>1. /\ TypeOK /\ faults \subseteq {"kill"} /\ Len(file) \in Nat
      /\ \A i \in 1 .. Len(file) : file[i].seq = i /\ file[i].form = "whole"
      /\ \A p \in Organs :
           /\ organ[p].phase = "ready" => organ[p].seq = Len(file)
           /\ organ[p].phase \in {"written", "synced"} => organ[p].seq + 1 = Len(file)
  <2>1. UNCHANGED faults
    BY DEF Next, Start, Write, WriteStops, WriteAs, Sync, SyncFails, Acknowledge, Kill, KillInWrite,
           PowerLoss, EntryLost, MachineStops, vars
  <2> QED
    BY <2>1 DEF Replayable, JournalInv, TypeOK
<1>2. ASSUME NEW p \in Organs, Start(p) PROVE Replayable'
  <2>1. organ' = [organ EXCEPT ![p] = [phase |-> "ready", seq |-> Len(file)]] /\ UNCHANGED file
    BY <1>2 DEF Start, Ready
  <2>2. /\ organ'[p].phase = "ready" /\ organ'[p].seq = Len(file)
        /\ \A q \in Organs : q # p => organ'[q] = organ[q]
    BY <1>1, <2>1, OrganChanged DEF Phases
  <2> QED
    BY <1>1, <2>1, <2>2 DEF Replayable
<1>3. ASSUME NEW p \in Organs, Write(p) PROVE Replayable'
  <2>1. /\ organ[p].phase = "ready" /\ organ[p].seq = Len(file)
        /\ organ' = [organ EXCEPT ![p].phase = "written"] /\ WriteAs(p, "whole")
    BY <1>1, <1>3 DEF Write
  <2>2. /\ organ'[p].phase = "written" /\ organ'[p].seq = Len(file)
        /\ \A q \in Organs : q # p => organ'[q] = organ[q]
    BY <1>1, <2>1, PhaseChanged DEF Phases
  <2>3. /\ Len(file') = Len(file) + 1
        /\ \A i \in 1 .. Len(file) : file'[i] = file[i]
        /\ file'[Len(file')].seq = Len(file') /\ file'[Len(file')].form = "whole"
    BY <1>1, <2>1, WrittenIs DEF Forms
  <2>4. \A i \in 1 .. Len(file') : i \in 1 .. Len(file) \/ i = Len(file')
    BY <1>1, <2>3
  <2>5. \A q \in Organs : q # p => organ[q].phase = "down"
    BY <2>1, Alone
  <2> QED
    BY <1>1, <2>2, <2>3, <2>4, <2>5 DEF Replayable
<1>4. ASSUME NEW p \in Organs, Sync(p) PROVE Replayable'
  <2>1. organ' = [organ EXCEPT ![p].phase = "synced"] /\ UNCHANGED file /\ organ[p].phase = "written"
    BY <1>4 DEF Sync
  <2>2. /\ organ'[p].phase = "synced" /\ organ'[p].seq = organ[p].seq
        /\ \A q \in Organs : q # p => organ'[q] = organ[q]
    BY <1>1, <2>1, PhaseChanged DEF Phases
  <2> QED
    BY <1>1, <2>1, <2>2 DEF Replayable
<1>5. ASSUME NEW p \in Organs, Acknowledge(p) PROVE Replayable'
  <2>1. PICK n \in Nat : n = organ[p].seq + 1 /\ n = Len(file)
    BY <1>1, <1>5, OrganType DEF Acknowledge
  <2>2. organ' = [organ EXCEPT ![p] = [phase |-> "ready", seq |-> n]] /\ UNCHANGED file
    BY <1>5, <2>1 DEF Acknowledge, Ready
  <2>3. /\ organ'[p].phase = "ready" /\ organ'[p].seq = n
        /\ \A q \in Organs : q # p => organ'[q] = organ[q]
    BY <1>1, <2>2, OrganChanged DEF Phases
  <2> QED
    BY <1>1, <2>1, <2>2, <2>3 DEF Replayable
<1>6. ASSUME NEW p \in Organs, Kill(p) PROVE Replayable'
  <2>1. organ' = [organ EXCEPT ![p] = [phase |-> "down", seq |-> 0]] /\ UNCHANGED file
    BY <1>6 DEF Kill, Down
  <2>2. organ'[p].phase = "down" /\ \A q \in Organs : q # p => organ'[q] = organ[q]
    BY <1>1, <2>1, OrganChanged DEF Phases
  <2> QED
    BY <1>1, <2>1, <2>2 DEF Replayable
<1>7. ~PowerLoss /\ ~EntryLost /\ \A p \in Organs : ~WriteStops(p) /\ ~SyncFails(p) /\ ~KillInWrite(p)
  BY <1>1 DEF PowerLoss, EntryLost, WriteStops, SyncFails, KillInWrite
<1>8. CASE UNCHANGED vars
  BY <1>1, <1>8 DEF vars, Replayable
<1> QED
  BY <1>2, <1>3, <1>4, <1>5, <1>6, <1>7, <1>8 DEF Next, Replayable

(* Where the file system does what it is told and takes a line in one      *)
(* piece, the lines can be replayed, whenever the present organ ends or is *)
(* killed.                                                                 *)
THEOREM JournalReplays == Spec => []JournalOpens
<1>1. Init => Replayable
  BY DEF Init, Replayable, Down
<1>2. Replayable /\ JournalInv => JournalOpens
  BY Elements DEF Replayable, JournalOpens, Replays, JournalInv, TypeOK
<1> QED
  BY <1>1, <1>2, ReplayableStep, JournalInvariant, PTL DEF Spec

-----------------------------------------------------------------------------
(* What is committed stays.                                                *)

(* The first n lines would replay.                                         *)
Clean(n) ==
  \A i \in 1 .. n :
    /\ file[i].seq = i
    /\ file[i].form = "whole" \/ (file[i].form = "unended" /\ i = n)

(* They begin with what is committed.                                      *)
Holds(n) == Len(committed) <= n /\ \A i \in 1 .. Len(committed) : committed[i] = file[i].id

(* The entry of the file was lost, and nobody opened a new one.            *)
Gone == "entry" \in faults /\ holder = NoOrgan /\ file = <<>>

(* A file that would replay holds what is committed, or is gone; where the *)
(* power may fail, and no organ is killed, so does the part that was       *)
(* synced.                                                                 *)
Kept ==
  ~({"kill", "power"} \subseteq faults) =>
    /\ \A n \in Nat : n = Len(file) /\ Clean(n) => Holds(n) \/ Gone
    /\ "kill" \notin faults =>
         /\ \A n \in Nat : n = synced /\ Clean(n) => Holds(n) \/ Gone
         /\ holder = NoOrgan => synced = Len(file)

LEMMA KeptStep == JournalInv /\ Kept /\ [Next]_vars => Kept'
<1> SUFFICES ASSUME JournalInv, Kept, [Next]_vars, ~({"kill", "power"} \subseteq faults')
             PROVE  Kept'
  BY DEF Kept
<1>1. UNCHANGED faults
  BY DEF Next, Start, Write, WriteStops, WriteAs, Sync, SyncFails, Acknowledge, Kill, KillInWrite,
           PowerLoss, EntryLost, MachineStops, vars
<1>2. /\ TypeOK /\ file \in Seq(Lines) /\ committed \in Seq(Nat)
      /\ Len(file) \in Nat /\ Len(committed) \in Nat /\ synced \in 0 .. Len(file)
      /\ \A n \in Nat : n = Len(file) /\ Clean(n) => Holds(n) \/ Gone
      /\ "kill" \notin faults =>
           /\ \A n \in Nat : n = synced /\ Clean(n) => Holds(n) \/ Gone
           /\ holder = NoOrgan => synced = Len(file)
  BY <1>1 DEF Kept, JournalInv, TypeOK
<1>3. ASSUME NEW p \in Organs, Start(p) PROVE Kept'
  <2>1. /\ Len(committed') = Len(file) /\ \A i \in 1 .. Len(file) : committed'[i] = file[i].id
        /\ UNCHANGED <<file, synced>> /\ holder = NoOrgan /\ holder' = p
    BY <1>2, <1>3, IdsAre DEF Start
  <2>2. \A n \in Nat : n = Len(file) => Holds(n)'
    BY <1>2, <2>1 DEF Holds
  <2> QED
    BY <1>1, <1>2, <2>1, <2>2, OrganAssumption DEF Kept
<1>4. ASSUME NEW p \in Organs, Write(p) \/ WriteStops(p) \/ KillInWrite(p) PROVE Kept'
  <2>1. PICK form \in Forms : WriteAs(p, form)
    BY <1>4 DEF Write, WriteStops, KillInWrite, Forms
  <2>2. /\ Len(file') = Len(file) + 1 /\ UNCHANGED <<synced, committed>>
        /\ \A i \in 1 .. Len(file) : file'[i] = file[i]
    BY <1>2, <2>1, WrittenIs DEF WriteAs
  <2>3. \A n \in Nat : n <= Len(file) => (Clean(n)' <=> Clean(n)) /\ (Holds(n) => Holds(n)')
    <3> SUFFICES ASSUME NEW n \in Nat, n <= Len(file)
                 PROVE  (Clean(n)' <=> Clean(n)) /\ (Holds(n) => Holds(n)')
      OBVIOUS
    <3>1. \A i \in 1 .. n : file'[i] = file[i]
      BY <1>2, <2>2
    <3>2. Clean(n)' <=> Clean(n)
      BY <3>1 DEF Clean
    <3>3. Len(committed) <= n => \A i \in 1 .. Len(committed) : i \in 1 .. n
      BY <1>2
    <3> QED
      BY <2>2, <3>1, <3>2, <3>3 DEF Holds
  <2>4. holder # NoOrgan /\ ~Gone /\ (holder' = holder \/ "kill" \in faults)
    BY <1>4, Alone, OrganAssumption DEF Write, WriteStops, KillInWrite, Gone
  <2>5. ASSUME NEW n \in Nat, n = Len(file'), Clean(n)' PROVE Holds(n)'
    <3>1. PICK m \in Nat : m = Len(file) /\ n = m + 1
      BY <1>2, <2>2, <2>5
    <3>2. Clean(m)
      BY <2>2, <2>5, <3>1 DEF Clean
    <3>3. Holds(m)
      BY <1>2, <2>4, <3>1, <3>2
    <3> QED
      BY <1>2, <2>2, <3>1, <3>3 DEF Holds
  <2> QED
    BY <1>1, <1>2, <2>2, <2>3, <2>5, <2>4 DEF Kept
<1>5. ASSUME NEW p \in Organs, Sync(p) \/ SyncFails(p) PROVE Kept'
  <2>1. UNCHANGED <<file, committed, holder>> /\ synced' \in {synced, Len(file)}
    BY <1>5 DEF Sync, SyncFails
  <2>2. \A n \in Nat : (Clean(n)' <=> Clean(n)) /\ (Holds(n)' <=> Holds(n))
    BY <2>1 DEF Clean, Holds
  <2>3. holder # NoOrgan /\ ~Gone
    BY <1>5, Alone, OrganAssumption DEF Sync, SyncFails, Gone
  <2> QED
    BY <1>1, <1>2, <2>1, <2>2, <2>3 DEF Kept
<1>6. ASSUME NEW p \in Organs, Acknowledge(p) PROVE Kept'
  <2>1. UNCHANGED <<file, synced, holder>> /\ synced = Len(file) /\ holder # NoOrgan /\ ~Gone
    BY <1>6, Alone, AcknowledgeIs, OrganAssumption DEF Acknowledge, Gone
  <2>2. ASSUME NEW n \in Nat, n = Len(file), Clean(n)' PROVE Holds(n)'
    <3>1. Clean(n)
      BY <2>1, <2>2 DEF Clean
    <3>2. n \in 1 .. n /\ file[n].seq = n /\ file[n].seq = Len(committed) + 1
      BY <1>6, <2>2, <3>1, AcknowledgeIs DEF Clean
    <3>3. n = Len(committed')
      BY <1>6, <3>2, AcknowledgeIs
    <3>4. Holds(n)
      BY <1>2, <2>1, <2>2, <3>1
    <3> QED
      BY <1>6, <2>1, <2>2, <3>2, <3>3, <3>4, AcknowledgeIs DEF Holds
  <2> QED
    BY <1>1, <2>1, <2>2 DEF Kept
<1>7. ASSUME NEW p \in Organs, Kill(p) PROVE Kept'
  <2>1. "kill" \in faults /\ UNCHANGED <<file, synced, committed>>
    BY <1>7 DEF Kill
  <2>2. \A n \in Nat : (Clean(n)' <=> Clean(n)) /\ (Holds(n)' <=> Holds(n))
    BY <2>1 DEF Clean, Holds
  <2>3. Gone => Gone'
    BY <1>1, <1>7, <2>1 DEF Kill, Gone
  <2> QED
    BY <1>1, <1>2, <2>1, <2>2, <2>3 DEF Kept
<1>8. CASE PowerLoss
  <2>1. /\ Len(file') \in synced .. Len(file) /\ synced' = Len(file') /\ synced \in Nat
        /\ \A i \in 1 .. Len(file') : i < Len(file') \/ i <= synced => file'[i] = file[i]
        /\ "power" \in faults /\ "kill" \notin faults /\ UNCHANGED committed
    BY <1>1, <1>2, <1>8, LeftIs DEF PowerLoss, MachineStops
  <2>2. Gone => Gone'
    <3>1. Gone => Len(file') = 0
      BY <1>2, <2>1 DEF Gone
    <3>2. file' \in Seq(Lines) /\ holder' = NoOrgan
      BY <1>2, <1>8, LeftIs DEF PowerLoss, MachineStops
    <3> QED
      BY <1>1, <3>1, <3>2 DEF Gone
  <2>3. ASSUME NEW n \in Nat, n = Len(file'), Clean(n)' PROVE Holds(n)' \/ Gone'
    <3>1. PICK m \in Nat : m = synced /\ m <= n
      BY <1>2, <2>1, <2>3
    <3>2. Clean(m)
      BY <2>1, <2>3, <3>1 DEF Clean
    <3>3. Holds(m) \/ Gone
      BY <1>2, <2>1, <3>1, <3>2
    <3>4. Holds(m) => Holds(n)'
      BY <1>2, <2>1, <2>3, <3>1 DEF Holds
    <3> QED
      BY <2>2, <3>3, <3>4
  <2> QED
    BY <1>1, <2>1, <2>3 DEF Kept
<1>9. CASE UNCHANGED vars
  <2>1. \A n \in Nat : (Clean(n)' <=> Clean(n)) /\ (Holds(n)' <=> Holds(n))
    BY <1>9 DEF vars, Clean, Holds
  <2>2. Gone' <=> Gone
    BY <1>9 DEF vars, Gone
  <2> QED
    BY <1>1, <1>2, <1>9, <2>1, <2>2 DEF vars, Kept
<1>10. CASE EntryLost
  <2>1. Gone' /\ synced' = Len(file')
    BY <1>1, <1>10 DEF EntryLost, MachineStops, Gone
  <2> QED
    BY <2>1 DEF Kept
<1> QED
  BY <1>3, <1>4, <1>5, <1>6, <1>7, <1>8, <1>9, <1>10 DEF Next

(* Only a start and an acknowledgement change what is committed: the first *)
(* to the ids of a file that replays, the second by adding one.            *)
LEMMA CommitStep ==
  JournalInv /\ Kept /\ [Next]_vars =>
    (~({"kill", "power"} \subseteq faults) =>
       IsPrefix(committed, committed') \/ ("entry" \in faults /\ committed' = <<>>))
<1> DEFINE Stays == IsPrefix(committed, committed') \/ ("entry" \in faults /\ committed' = <<>>)
<1> SUFFICES ASSUME JournalInv, Kept, [Next]_vars, ~({"kill", "power"} \subseteq faults)
             PROVE  Stays
  OBVIOUS
<1>1. committed \in Seq(Nat) /\ file \in Seq(Lines) /\ Len(committed) \in Nat /\ Len(file) \in Nat
  BY DEF JournalInv, TypeOK
<1>2. ASSUME NEW p \in Organs, Start(p) PROVE Stays
  <2>0. Gone => "entry" \in faults /\ committed' = <<>>
    BY <1>2 DEF Start, Gone, Ids
  <2>1. PICK n \in Nat : n = Len(file) /\ DOMAIN file = 1 .. n
    BY <1>1
  <2>2. Clean(n)
    BY <1>2, <2>1 DEF Start, Replays, Clean
  <2>3. Holds(n) \/ Gone
    BY <2>1, <2>2 DEF Kept
  <2>4. /\ committed' \in Seq(Nat) /\ Len(committed') = n
        /\ \A i \in 1 .. n : committed'[i] = file[i].id
    BY <1>1, <1>2, <2>1, IdsAre DEF Start
  <2>5. Holds(n) => Len(committed) <= Len(committed') /\ \A i \in 1 .. Len(committed) : committed[i] = committed'[i]
    <3> SUFFICES ASSUME Holds(n)
                 PROVE  /\ Len(committed) <= Len(committed')
                        /\ \A i \in 1 .. Len(committed) : committed[i] = committed'[i]
      OBVIOUS
    <3>1. Len(committed) <= n /\ \A i \in 1 .. Len(committed) : committed[i] = file[i].id
      BY DEF Holds
    <3>2. \A i \in 1 .. Len(committed) : i \in 1 .. n
      BY <1>1, <3>1
    <3> QED
      BY <2>4, <3>1, <3>2
  <2> QED
    BY <1>1, <2>0, <2>3, <2>4, <2>5, PrefixIs
<1>3. ASSUME NEW p \in Organs, Acknowledge(p) PROVE IsPrefix(committed, committed')
  <2>1. /\ committed' \in Seq(Nat) /\ Len(committed) <= Len(committed')
        /\ \A i \in 1 .. Len(committed) : committed[i] = committed'[i]
    BY <1>3, AcknowledgeIs
  <2> QED
    BY <1>1, <2>1, PrefixIs
<1>4. CASE UNCHANGED committed
  BY <1>1, <1>4, PrefixIs
<1>5. \/ \E p \in Organs : Start(p) \/ Acknowledge(p)
      \/ UNCHANGED committed
  BY DEF Next, Write, WriteStops, WriteAs, Sync, SyncFails, Kill, KillInWrite,
         PowerLoss, EntryLost, MachineStops, vars
<1> QED
  BY <1>2, <1>3, <1>4, <1>5

(* No record that was acknowledged, or shown by a replay, is ever lost or  *)
(* reordered, unless organs are killed and the power fails as well; or all *)
(* of them are lost, where the file's directory entry need not survive.    *)
THEOREM CommittedIsKept == Spec => CommittedStays
<1>1. Init => Kept
  BY DEF Init, Kept, Holds
<1> QED
  BY <1>1, KeptStep, CommitStep, JournalInvariant, PTL DEF Spec, CommittedStays
=============================================================================
