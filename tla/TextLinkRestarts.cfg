SPECIFICATION RFairSpec
CONSTANTS
  CounterMod = 3
  QueueLimit = 2
  LineLengths = {1}
  MaxLines = 3
  MaxLosses = 0
  MaxInTransit = 2
  MaxZeroRestarts = 1
  MaxPicoReboots = 1
  MaxCut = 1
INVARIANTS ConfirmedBeforeReboot TwiceOnlyByRestart
PROPERTY EveryLineSettled
