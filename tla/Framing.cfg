SPECIFICATION Spec
CONSTANTS
  CounterMod = 3
  MaxByte = 7
  Marker1 = 2
  Marker2 = 3
  Text = 4
  Can = 5
  Command = 6
  Message <- MCMessage
  Noise <- MCNoise
  CrcByte <- MCCrcByte
  MaxMessages = 4
  MaxFrames = 4
  MaxDamaged = 1
  MaxLost = 1
INVARIANTS TypeOK NothingMissed ReportsAreRight
PROPERTY ImplementsLine
CHECK_DEADLOCK FALSE
