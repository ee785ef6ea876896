SPECIFICATION FilesSpec
CONSTANTS
  Values = {v0, v1, v2}
  Default = v0
  Torn = Torn
  Absent = Absent
  Data = {d0, d1}
  Empty = d0
  Passphrases = {p, q}
  Locked = Locked
  MaxKeys = 2
  MaxCalls = 4
  MaxFailures = 2
  Missing = Missing
  Foreign = Foreign
  MaxRestores = 2
  MaxEdits = 2
  MaxCrashes = 2
  Files = {f, g, lock}
  Excluded = {lock}
  None = None
  MaxDamage = 1
  MaxBackups = 2
  Roots = {x, y}
  Callers = {m, n}
  MaxVersion = 2
  MaxChanges = 2
  MaxEngineFailures = 1
SYMMETRY CallerSymmetry
INVARIANTS
  FilesTypeOK
  NothingTorn
  BackupIsTrue
PROPERTIES
  ImplementsAtomicCell
  FilesImplementCells
  RestoreLosesNothing
  EngineStaysDisabled
  PackagesAreChosen
CHECK_DEADLOCK FALSE
