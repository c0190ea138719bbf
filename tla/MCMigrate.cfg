SPECIFICATION MigrateFairSpec
CONSTANTS
  raw = raw
  dlq = dlq
  Runners = {r1, r2}
  Topics = {raw, dlq}
  Want <- MCWant
  LastVersion = 3
  Rerunnable <- MCRerunnable
  Attempts = 2
  MaxFaults = 1
INVARIANTS
  SuccessMeansReady
  NoMutualDefeat
PROPERTIES
  ClimbsTheLadder
  RunsEnd
