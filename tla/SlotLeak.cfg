\* A late disposition forgets the slot that replay gave back in memory only.
SPECIFICATION Spec
CONSTANTS
  Envelopes <- TwoBuilders
  MaxConcurrent = 1
  MaxCalls = 4
  NoCall = NoCall
  MaxSeq = 6
  MaxDrift = 0
INVARIANTS
  SlotsAccounted
