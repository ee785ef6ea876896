SPECIFICATION DaemonSpec
CONSTANTS
  Silos = {s1, s2}
  NoSilo = NoSilo
  NoProof = NoProof
  Ttl = 1
  MaxEnvironments = 2
  MaxSequence = 2
  MaxTime = 2
  MaxFailures = 1
  MaxCrashes = 1
  Clients = {a, b, c}
  Nobody = Nobody
  Limit = 2
  MaxSweep = 1
  Stops = TRUE
INVARIANTS
  ServerHoldsItsLimits
PROPERTIES
  ExpiredIsDestroyed
  MaintenanceRecurs
  ServerFinishes
CHECK_DEADLOCK FALSE
