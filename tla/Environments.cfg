SPECIFICATION EnvironmentsSpec
CONSTANTS
  Silos = {s1, s2}
  NoSilo = NoSilo
  NoProof = NoProof
  Ttl = 1
  MaxEnvironments = 2
  MaxSequence = 3
  MaxTime = 2
  MaxFailures = 1
  MaxCrashes = 1
  Tokens = {t, u}
  Pins = {a, b}
  First = c
  Pin0 = a
  None = None
  MaxCalls = 4
  MaxFaults = 2
  Target = w1
  OtherTarget = w2
  GuestAgents = {g1, g2}
  MaxLeftovers = 1
  Boxes = {e}
  UserOfHost = UserOfHost
  Scripts = {k1, k2}
  Ids = {i1, i2, i3}
  Controllers = {h1, h2}
  MaxCreates = 2
SYMMETRY EnvironmentSymmetry
INVARIANTS
  EnvironmentsTypeOK
  NoUntrackedResource
  ReturnedProofIsDurable
  CreatedOnce
  EnvironmentTracked
  ControlIsConsistent
  GuestsAreTracked
PROPERTIES
  ServesRecovered
  DestroysOnlyDoomed
  NothingComesBack
  GuestsKeepToTheirOwn
CHECK_DEADLOCK FALSE
