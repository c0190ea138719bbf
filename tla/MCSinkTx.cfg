SPECIFICATION TxFairSpec
CONSTANTS
  e1 = e1
  e2 = e2
  v1 = v1
  v2 = v2
  EventIds = {e1, e2}
  Vehicles = {v1, v2}
  Times = {1, 2}
  Payloads <- MCPayloads
  Workers = {w1, w2, w3}
  Partitions = {0}
  MaxLog = 1
INVARIANTS
  LocksHeld
  EffectWhole
  NoDrift
PROPERTIES
  SinkSpec
  CallsReturn
