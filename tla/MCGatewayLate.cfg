SPECIFICATION GatewaySpec
CONSTANTS
  EventIds = {1, 2, 3}
  Earlier = {}
  IdOrder <- MCIdOrder
  EventTs <- MCEventTs
  Browsers = {b1}
  NoId = NoId
  ClientBuffer = 1
  MaxClients = 1
  ReplayLimit = 3
  BusBuffer = 2
INVARIANT
  ReconnectGapless
