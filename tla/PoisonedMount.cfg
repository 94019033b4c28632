\* A refused mount leaves a record that no replay accepts.
SPECIFICATION Spec
CONSTANTS
  Envelopes <- VerifierAndRival
  MaxConcurrent = 1
  MaxCalls = 3
  NoCall = NoCall
  MaxSeq = 4
  MaxDrift = 0
INVARIANTS
  JournalReplayable
CHECK_DEADLOCK FALSE
