\* The handshake and three calls over a pipe of two lines, with call_timeout_ms at the engine's cap
\* and above it, and the end of the engine.
\* The calls are bounded and both processes end, so the system comes to rest.
SPECIFICATION FairSpec
CONSTANTS
  MaxId = 5
  PipeLines = 2
  CallTimeouts = {1, 2}
  EngineCap = 1
  MaxNeed = 2
INVARIANTS
  TypeOK
  NoEngineLeft
  LinkInStep
PROPERTIES
  EveryCallEnds
  StopEnds
  ImplementsCalls
CHECK_DEADLOCK FALSE
