SPECIFICATION ConsumerSpec
CONSTANTS
  e1 = e1
  e2 = e2
  v1 = v1
  None = None
  EventIds = {e1, e2}
  Vehicles = {v1}
  Times = {1, 2}
  Payloads <- Positions
  Workers = {m1}
  Members = {m1}
  Partitions = {0}
  PartitionOf <- MCPartitionOf
  MaxLog = 2
  BatchSize = 1
  MaxRetries = 1
  MaxFaults = 3
CHECK_DEADLOCK FALSE
INVARIANT
  NothingLost
