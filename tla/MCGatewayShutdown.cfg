SPECIFICATION GatewaySpec
CONSTANTS
  EventIds = {1}
  Earlier = {}
  IdOrder <- MCIdOrder
  EventTs <- MCEventTs
  Browsers = {b1}
  NoId = NoId
  ClientBuffer = 1
  MaxClients = 1
  ReplayLimit = 1
  BusBuffer = 1
INVARIANT
  ClosedBeforeListener
