SPECIFICATION DSpec
CONSTANTS
  SemTries = 0
  WaitCycles = 1
  WordSize = 4
  NewVolumes <- MCNewVolumes
  Increases <- MCIncreases
INVARIANTS AllOrNothing NoStaleTimeout ResetSound VolumeExact
PROPERTIES CallReturns
