\* Two authority threads and a chatter thread, four operations among them, at any version the
\* organ gave out, also in the middle of an apply_event.
SPECIFICATION FairSpec
CONSTANTS
  Authority = {a1, a2}
  Chatter = {c1}
  Names = {m}
  NoVersion = NoVersion
  NoName = NoName
  MaxOps = 4
INVARIANTS
  TypeOK
  ClaimedAgainOnlyEarly
  ChatterOvertakesOnce
PROPERTIES
  ImplementsLog
  EveryAppendReturns
