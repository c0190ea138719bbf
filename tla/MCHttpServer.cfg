SPECIFICATION HttpFairSpec
CONSTANTS
  Deps = {postgres, broker}
  Clients = {c1}
  Prober = Prober
INVARIANTS
  HttpTypeOK
  VerdictHonest
  QuietAfterStop
PROPERTIES
  GaugeFollows
  ShutdownReturns
