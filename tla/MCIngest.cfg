SPECIFICATION IngestSpec
CONSTANTS
  a = a
  b = b
  e1 = e1
  e2 = e2
  e3 = e3
  v1 = v1
  v2 = v2
  Callers = {a, b}
  Reports <- MCReports
  Ids = {e1, e2, e3}
  NoId = NoId
  Keys = {v1, v2, e1, e2, e3}
  Partitions = {0, 1}
  PartitionOf <- MCPartitionOf
  MaxBatchSize = 2
  MaxFaults = 2
INVARIANTS
  IngestTypeOK
  AcceptedIsLogged
  RetriesAreDuplicates
  VehicleInOrder
