\* Requests of every kind, sent at any version that was ever current and sent again, with
\* crashes before, between and after the appends, to organs of any command line.  The lines
\* are bounded, so the system may come to rest.
SPECIFICATION FairSpec
CONSTANTS
  Requests <- EightRequests
  Modes = {"core", "workroom", "ledger"}
  MaxLearnings = 1
  MaxSeq = 5
  MaxLines = 3
  MaxPending = 1
INVARIANTS
  TypeOK
  SameLineOnce
  NameOnce
  ToldIsTrue
PROPERTIES
  EveryLineIsAnswered
CHECK_DEADLOCK FALSE
