SPECIFICATION Spec
CONSTANTS
  Samples = {1, 3}
  BootSamples = 3
  None = none
  MaxCommands = 4
INVARIANT NoBiasIsMeasured
