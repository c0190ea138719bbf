SPECIFICATION ConsumerSpec
CONSTANTS
  e1 = e1
  e2 = e2
  v1 = v1
  None = None
  EventIds = {e1, e2}
  Vehicles = {v1}
  Times = {1, 2}
  Payloads <- MCPayloads
  Workers = {m1, m2}
  Members = {m1, m2}
  Partitions = {0}
  PartitionOf <- MCPartitionOf
  MaxLog = 2
  BatchSize = 2
  MaxRetries = 1
  MaxFaults = 3
CHECK_DEADLOCK FALSE
SYMMETRY MemberSymmetry
INVARIANTS
  ConsumerTypeOK
  CommittedSettled
  AppliedInOrder
  Traceable
  NoPhantomFrame
  LetterHasCopy
PROPERTY
  CommitsAdvance
