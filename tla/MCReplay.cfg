SPECIFICATION ReplayFairSpec
CONSTANTS
  e1 = e1
  v1 = v1
  None = None
  EventIds = {e1}
  Vehicles = {v1}
  Times = {1}
  Payloads <- Mixed
  Workers = {m1, a}
  Members = {m1}
  Operators = {a}
  Partitions = {0, 1}
  PartitionOf <- MCPartitionOf
  MaxLog = 1
  BatchSize = 2
  MaxRetries = 1
  MaxFaults = 3
  Limit = 1
CHECK_DEADLOCK FALSE
INVARIANTS
  ReplayTypeOK
  MarkedAfterRepublish
  CommittedSettled
PROPERTIES
  SinkSpec
  RecordKept
  ReplayedIsApplied
  EventuallyHandled
