SPECIFICATION Spec
CONSTANTS
  Rate = rate
  Beta = beta
  Calibration = calibration
  Tags <- MCTags
  Values = {v1, v2}
  Size <- MCSize
  Nothing = nothing
  Damaged = damaged
  RegionSize = 3
  MaxPowerLosses = 2
INVARIANTS TypeOK LoadIsSaved CanBeReplaced
