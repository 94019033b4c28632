\* Two organs on one journal, killed between any two steps or in the middle of a line; or
\* short writes, failed syncs and power losses, the loss of the whole file among them.
\* The writes are bounded and a journal that does not replay stops the system, so it may
\* come to rest.
SPECIFICATION Spec
CONSTANTS
  Organs = {p1, p2}
  NoOrgan = NoOrgan
  FaultSets = {{"kill"}, {"kill", "short"}, {"write"}, {"power", "write", "sync"}, {"power", "entry"}}
  MaxWrites = 6
INVARIANTS
  TypeOK
  JournalOpens
PROPERTIES
  CommittedStays
CHECK_DEADLOCK FALSE
