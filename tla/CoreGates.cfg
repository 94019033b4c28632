\* Gates, revocations and an epoch change among dispatches with and without the ledger.
\* A poisoned mount keeps the journal from being replayed, so the system may come to rest.
SPECIFICATION FairSpecRoster
CONSTANTS
  Envelopes <- TwoEpochs
  MaxConcurrent = 1
  MaxCalls = 2
  NoCall = NoCall
  MaxSeq = 7
  MaxDrift = 1
  LedgerModes = {TRUE, FALSE}
  MaxEpoch = 2
INVARIANTS
  LateCanBeDisposed
PROPERTIES
  DispatchedWasLive
  OpenCallsSurface
CHECK_DEADLOCK FALSE
