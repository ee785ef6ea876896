SPECIFICATION Spec
CONSTANTS
  a = a
  b = b
  c = c
  Slots <- MCSlot
  Order <- MCOrderOfOne
  Legacy = Legacy
  Limit = 1
  Publishers = {p}
  Revokers = {r1, r2}
  Unheld = Unheld
INVARIANTS
 ActiveIsWatched
CHECK_DEADLOCK FALSE
