SPECIFICATION Spec
CONSTANTS
  Silos = {x, y, z}
  Known = {x, y}
  None = None
  Invalid = Invalid
  Overlaps = TRUE
INVARIANT BrowserIsRecorded
CHECK_DEADLOCK FALSE
