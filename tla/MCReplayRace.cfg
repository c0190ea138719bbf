SPECIFICATION ReplaySpec
CONSTANTS
  e1 = e1
  v1 = v1
  None = None
  EventIds = {e1}
  Vehicles = {v1}
  Times = {1}
  Payloads <- Poison
  Workers = {m1, a}
  Members = {m1}
  Operators = {a}
  Partitions = {0}
  PartitionOf <- MCPartitionOf
  MaxLog = 2
  BatchSize = 1
  MaxRetries = 1
  MaxFaults = 0
  Limit = 1
CHECK_DEADLOCK FALSE
INVARIANT
  ReplayedNotStranded
