SPECIFICATION PipelineSpec
CONSTANTS
  e1 = e1
  e2 = e2
  v1 = v1
  None = None
  NoId = NoId
  EventIds = {e1, e2}
  Vehicles = {v1}
  Times = {1, 2}
  IdOrder <- MCIdOrder
  EventTs <- MCEventTs
  VehicleOf <- MCVehicleOf
  Payloads <- MCPayloads
  Workers = {m1}
  Members = {m1}
  Partitions = {0}
  PartitionOf <- MCPartitionOf
  MaxLog = 2
  BatchSize = 1
  MaxRetries = 1
  MaxFaults = 1
  Browsers = {b1}
  ClientBuffer = 1
  MaxClients = 1
  ReplayLimit = 2
  BusBuffer = 1
INVARIANT
  MapTracksStore
PROPERTY
  GatewayServed
