SPECIFICATION RSpec
CONSTANTS
  CounterMod = 4
  QueueLimit = 2
  LineLengths = {1}
  MaxLines = 2
  MaxLosses = 0
  MaxInTransit = 2
  MaxZeroRestarts = 0
  MaxPicoReboots = 1
  MaxCut = 0
INVARIANT ConfirmedIsTaken
