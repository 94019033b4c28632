\* A number drawn by a refused request is drawn again after a restart.
SPECIFICATION Spec
CONSTANTS
  Envelopes <- OneVerifier
  MaxConcurrent = 1
  MaxCalls = 3
  NoCall = NoCall
  MaxSeq = 6
  MaxDrift = 2
PROPERTIES
  GateReceiptRetained
