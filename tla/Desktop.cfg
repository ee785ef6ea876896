SPECIFICATION DesktopSpec
CONSTANTS
  Silos = {a, b}
  Reservation <- MCReservation
  Locks <- MCLocks
  Rank <- MCRank
  Program <- MCProgram
  Commands <- MCCommands
  Unordered <- MCUnordered
  Managed = {m, n}
  Stock = {s}
  Identities = {i, j}
  None = None
  MaxArtifacts = 1
  MaxFresh = 2
  MaxCalls = 4
  MaxDoubts = 1
  Threads = {t, u}
  a = a
  b = b
  c = c
  Everything = Everything
  Nobody = Nobody
  Legacy = Legacy
  Publisher = p
  Revokers = {r1, r2}
  Unheld = Unheld
SYMMETRY ThreadSymmetry
INVARIANTS
  DesktopTypeOK
  OnlyUnorderedDeadlock
  SlotsAreLimited
PROPERTIES
  SilosAreKept
  IdentitiesStayLocked
  LockRevokes
CHECK_DEADLOCK FALSE
