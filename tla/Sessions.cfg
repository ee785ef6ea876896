SPECIFICATION SessionsSpec
CONSTANTS
  Silos = {c, d, m, o}
  Nobody = Nobody
  Camoufox = {c, d}
  Relayed = {c, m, o}
  Required = {c, m}
  Mihomo = {m}
  WslSilos = {x, y, z}
  Known = {x, y}
  None = None
  Invalid = Invalid
  Overlaps = FALSE
  Slot = a
  Legacy = Legacy
  Publisher = p
  OneRevoker = r
  Unheld = Unheld
INVARIANTS
  SessionsTypeOK
  BrowserIsRecorded
PROPERTIES
  RelayIsGuarded
  RuntimeStaysKnown
  BlockIsSound
  LockEndsSessions
  RuntimeIsCorrected
CHECK_DEADLOCK FALSE
