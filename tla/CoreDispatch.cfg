\* Two builders and a verifier compete for two tasks, one slot and three calls, with crashes anywhere.
SPECIFICATION Spec
CONSTANTS
  Envelopes <- ThreeWorkers
  MaxConcurrent = 1
  MaxCalls = 3
  NoCall = NoCall
  MaxSeq = 10
  MaxDrift = 1
INVARIANTS
  TypeOK
  CapRespected
  DispatchedAtMostOnce
  CallCapRespected
  AnswerNeverRefused
  AmbiguityExposed
PROPERTIES
  ImplementsLife
