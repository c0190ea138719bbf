SPECIFICATION GatewayFairSpec
CONSTANTS
  EventIds = {0, 1, 2, 3}
  Earlier = {0}
  IdOrder <- MCIdOrder
  EventTs <- MCEventTs
  Browsers = {b1}
  NoId = NoId
  ClientBuffer = 1
  MaxClients = 1
  ReplayLimit = 2
  BusBuffer = 1
INVARIANTS
  GatewayTypeOK
  ClientsAreOpen
  NoSkippedFrame
  ResumeGapless
  CutIsResumable
PROPERTY
  FeedDrains
