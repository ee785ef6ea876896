SPECIFICATION Spec
CONSTANTS
  a = a
  b = b
  Silos = {a, b}
  Reservation <- MCReservation
  Locks <- MCLocks
  Rank <- MCRank
  Program <- MCProgram
  Commands <- MCCommands
  Unordered <- MCUnordered
  Threads = {t, u}
  Everything = Everything
  Nobody = Nobody
INVARIANTS
  NoCircularWait
CHECK_DEADLOCK FALSE
