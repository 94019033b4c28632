------------------------------ MODULE JournalFile ------------------------------
(***************************************************************************)
(* The journal file under faults (src/src/core.cpp).  An organ takes the   *)
(* writer lock, replays the file and then appends one line per committed   *)
(* record: it writes, fsyncs, and only then applies and acknowledges.  A   *)
(* write may stop short, an fsync may fail, an organ may be killed, the    *)
(* machine may lose power and with it what was not synced.  The directory  *)
(* in which the first append creates the file is never synced: a file      *)
(* system that asks for that may lose the whole file.                      *)
(***************************************************************************)
EXTENDS Integers, Sequences, SequencesExt

CONSTANTS
  Organs,    \* organ processes, started on the same journal path
  NoOrgan,   \* nobody holds the lock
  FaultSets, \* the environments: sets of faults that may happen together
  MaxWrites  \* bound: lines that are ever begun

(* kill: organs are killed; short: the kernel may take a line in pieces;   *)
(* power: the machine loses power; entry: fsync of a file leaves its       *)
(* directory entry behind; write, sync: these calls may fail.              *)
Faults == {"kill", "short", "power", "entry", "write", "sync"}

ASSUME FaultAssumption == FaultSets \subseteq SUBSET Faults
ASSUME OrganAssumption == NoOrgan \notin Organs /\ MaxWrites \in Nat

VARIABLES
  faults,     \* external: the faults of this environment
  file,       \* the lines as a reader of the file sees them
  synced,     \* how many of them are on stable storage
  holder,     \* who holds the flock of <journal>.lock
  organ,      \* phase and sequence_ of each process
  committed,  \* ids of the records acknowledged or replayed, in order (history)
  writes      \* lines begun so far; also the id of the last one

vars == <<faults, file, synced, holder, organ, committed, writes>>

(* A line ends in a newline; or it lacks just that; or it is cut short.    *)
Forms == {"whole", "unended", "torn"}
Lines == [seq : Nat, id : Nat, form : Forms]

Down == [phase |-> "down", seq |-> 0]

(* Mutant: the counter is left behind by one.                              *)
Ready_Behind(n) == [phase |-> "ready", seq |-> n - 1]

Ready(n) == [phase |-> "ready", seq |-> n]

Init ==
  /\ faults \in FaultSets
  /\ file = <<>> /\ synced = 0 /\ committed = <<>> /\ writes = 0
  /\ holder = NoOrgan
  /\ organ = [p \in Organs |-> Down]

(* Replay parses every line and compares its sequence number.  What        *)
(* follows a line without newline continues that line.                     *)
Replays(f) ==
  \A i \in DOMAIN f :
    /\ f[i].seq = i
    /\ f[i].form = "whole" \/ (f[i].form = "unended" /\ i = Len(f))

Ids(f) == [i \in DOMAIN f |-> f[i].id]

(* Mutant: the journal is opened without the lock.                         *)
Start_Unlocked(p) ==
  /\ organ[p].phase = "down"
  /\ Replays(file)
  /\ holder' = p
  /\ organ' = [organ EXCEPT ![p] = Ready(Len(file))]
  /\ committed' = Ids(file)
  /\ UNCHANGED <<faults, file, synced, writes>>

(* The constructor: JOURNAL_BUSY, or a record that does not replay, ends   *)
(* the process with nothing changed.                                       *)
Start(p) ==
  /\ organ[p].phase = "down"
  /\ holder = NoOrgan
  /\ Replays(file)
  /\ holder' = p
  /\ organ' = [organ EXCEPT ![p] = Ready(Len(file))]
  /\ committed' = Ids(file)
  /\ UNCHANGED <<faults, file, synced, writes>>

WriteAs(p, form) ==
  /\ file' = Append(file, [seq |-> organ[p].seq + 1, id |-> writes + 1, form |-> form])
  /\ writes' = writes + 1
  /\ UNCHANGED <<faults, synced, committed>>

Write(p) ==
  /\ organ[p].phase = "ready" /\ writes < MaxWrites
  /\ WriteAs(p, "whole")
  /\ organ' = [organ EXCEPT ![p].phase = "written"]
  /\ UNCHANGED holder

(* write_all throws in the middle of a line: the append is refused.        *)
WriteStops(p) ==
  /\ "write" \in faults
  /\ organ[p].phase = "ready" /\ writes < MaxWrites
  /\ \E form \in {"unended", "torn"} : WriteAs(p, form)
  /\ UNCHANGED <<organ, holder>>

Sync(p) ==
  /\ organ[p].phase = "written"
  /\ synced' = Len(file)
  /\ organ' = [organ EXCEPT ![p].phase = "synced"]
  /\ UNCHANGED <<faults, file, holder, committed, writes>>

(* fsync fails: the append is refused, the line stays in the file.         *)
SyncFails(p) ==
  /\ "sync" \in faults
  /\ organ[p].phase = "written"
  /\ organ' = [organ EXCEPT ![p].phase = "ready"]
  /\ UNCHANGED <<faults, file, synced, holder, committed, writes>>

(* Mutant: the record is acknowledged before it is synced.                 *)
Acknowledge_Unsynced(p) ==
  /\ organ[p].phase = "written"
  /\ organ' = [organ EXCEPT ![p] = Ready(organ[p].seq + 1)]
  /\ committed' = Append(committed, file[Len(file)].id)
  /\ UNCHANGED <<faults, file, synced, holder, writes>>

Acknowledge(p) ==
  /\ organ[p].phase = "synced"
  /\ organ' = [organ EXCEPT ![p] = Ready(organ[p].seq + 1)]
  /\ committed' = Append(committed, file[Len(file)].id)
  /\ UNCHANGED <<faults, file, synced, holder, writes>>

(* The kernel releases the lock of a process that died; O_CLOEXEC keeps    *)
(* the engine it forked from inheriting it.                                *)
Kill(p) ==
  /\ "kill" \in faults
  /\ organ[p].phase # "down"
  /\ organ' = [organ EXCEPT ![p] = Down]
  /\ holder' = NoOrgan
  /\ UNCHANGED <<faults, file, synced, committed, writes>>

(* Killed between two of write_all's writes of one line.                   *)
KillInWrite(p) ==
  /\ {"kill", "short"} \subseteq faults
  /\ organ[p].phase = "ready" /\ writes < MaxWrites
  /\ \E form \in {"unended", "torn"} : WriteAs(p, form)
  /\ organ' = [organ EXCEPT ![p] = Down]
  /\ holder' = NoOrgan

MachineStops ==
  /\ synced' = Len(file')
  /\ organ' = [p \in Organs |-> Down]
  /\ holder' = NoOrgan
  /\ \E p \in Organs : organ[p].phase # "down"
  /\ UNCHANGED <<faults, committed, writes>>

(* A prefix of the unsynced lines survives, the last of them perhaps cut.  *)
PowerLoss ==
  /\ "power" \in faults
  /\ \E n \in synced .. Len(file) :
       \/ file' = SubSeq(file, 1, n)
       \/ /\ n > synced
          /\ \E form \in {"unended", "torn"} :
               file' = [SubSeq(file, 1, n) EXCEPT ![n].form = form]
  /\ MachineStops

(* The journal's directory entry does not survive, and so no line of it.   *)
EntryLost ==
  /\ {"power", "entry"} \subseteq faults
  /\ file' = <<>>
  /\ MachineStops

Next ==
  \/ \E p \in Organs :
       \/ Start(p) \/ Write(p) \/ WriteStops(p) \/ Sync(p) \/ SyncFails(p) \/ Acknowledge(p)
       \/ Kill(p) \/ KillInWrite(p)
  \/ PowerLoss \/ EntryLost

Spec == Init /\ [][Next]_vars

-----------------------------------------------------------------------------
(* Properties.                                                             *)

(* The type of every variable.                                             *)
TypeOK ==
  /\ faults \in FaultSets
  /\ file \in Seq(Lines) /\ synced \in 0 .. Len(file)
  /\ holder \in Organs \cup {NoOrgan}
  /\ organ \in [Organs -> [phase : {"down", "ready", "written", "synced"}, seq : Nat]]
  /\ committed \in Seq(Nat) /\ writes \in Nat

(* The lines of the file can be replayed, whenever the present organ ends  *)
(* or is killed, as long as the file system does what it is told and takes *)
(* a line in one piece.  (What the lines say is not asked here: DispatchCore *)
(* has a record that every replay refuses.)                                *)
JournalOpens == faults \subseteq {"kill"} => Replays(file)

(* No record that was acknowledged, or shown by a replay, is ever lost or  *)
(* reordered: what is committed is only added to, or, where the entry of   *)
(* the file may be lost, all of it is gone.  (Not so when the organ is     *)
(* killed between write and sync, the next one replays the line, and the   *)
(* power fails before another sync.)                                       *)
CommittedStays ==
  [][~({"kill", "power"} \subseteq faults) =>
       \/ IsPrefix(committed, committed')
       \/ "entry" \in faults /\ committed' = <<>>]_vars
=============================================================================
