SPECIFICATION Spec
CONSTANTS
  Missing = Missing
  Foreign = Foreign
  Locked = Locked
  MaxRestores = 2
  MaxEdits = 2
  MaxFailures = 2
  MaxCrashes = 2
INVARIANT OtherSilosUntouched
