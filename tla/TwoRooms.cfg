\* A member of two rooms has one watermark for both.
\* The records are bounded and epochs only grow, so the room may come to rest.
SPECIFICATION Spec
CONSTANTS
  Envelopes <- TwoRooms
  System = "dispatch_system"
  Tags = {}
  MaxPosts = 2
  MaxReads = 2
  MaxUnread = 2
  MaxBatch = 2
  MaxEpoch = 1
  MaxRecords = 2
PROPERTIES
  QueuedUntilRead
CHECK_DEADLOCK FALSE
