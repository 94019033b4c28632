\* One room over two epochs: a sender, and a receiver that is mounted again after the bump.
\* The records are bounded and epochs only grow, so the room may come to rest.
SPECIFICATION Spec
CONSTANTS
  Envelopes <- OneRoom
  System = "dispatch_system"
  Tags = {"alpha"}
  MaxPosts = 1
  MaxReads = 2
  MaxUnread = 2
  MaxBatch = 2
  MaxEpoch = 2
  MaxRecords = 2
INVARIANTS
  TypeOK
  DeliveredOnce
  EpochsInOrder
  LagIsVisible
PROPERTIES
  DeliveredWereCurrent
  QueuedUntilRead
CHECK_DEADLOCK FALSE
