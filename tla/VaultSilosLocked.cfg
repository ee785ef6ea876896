SPECIFICATION Spec
CONSTANTS
  Managed = {m}
  Stock = {s}
  Identities = {i, j}
  None = None
  MaxArtifacts = 3
  MaxFresh = 1
  MaxCalls = 5
  MaxDoubts = 0
PROPERTY LockedIdentityKept
CHECK_DEADLOCK FALSE
