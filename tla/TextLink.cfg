SPECIFICATION FairSpec
CONSTANTS
  CounterMod = 3
  QueueLimit = 2
  LineLengths = {1, 2}
  MaxLines = 3
  MaxLosses = 2
  MaxInTransit = 2
INVARIANTS FileInOrder ReleasedIsAccepted TextNeverJumps
PROPERTIES ImplementsRelay EveryLineArrives PauseEnds
