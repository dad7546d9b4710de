SPECIFICATION ServicesSpec
CONSTANTS
  capacity = 3
  Messages = {m1, m2}
  ZeroEntry = ZeroEntry
  MaxWrites = 8
  Requests = {q1, q2}
  Rps = 2
  Ticks = 4
  MaxTime = 5
  MaxTicks = 4
  Nodes = {n1, n2, n3}
  NoNode = NoNode
  Replicas = 2
  Size = 7
  Collisions = FALSE
  Names <- MCNames
  Ids <- MCIds
  Generated <- MCGenerated
  RawKeys <- MCRawKeys
  RawValues <- MCRawValues
  b1 = b1
  Bodies = {b1, b2}
  Unreadable = Unreadable
  None = None
CHECK_DEADLOCK FALSE
INVARIANTS EntriesAreRecent BucketEnvelope RatesAddUp LookupIsClockwise
PROPERTIES ImplementsCollections
