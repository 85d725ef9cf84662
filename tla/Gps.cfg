SPECIFICATION GpsSpec
CONSTANTS
  MaxByte = 7
  MaxPayload = 3
  Sync1 = 6
  Sync2 = 7
  AckAck = 0
  AckNak = 1
  NavPvt = 2
  Prt = 0
  Rate = 1
  Msg = 2
  Fixes <- MCFixes
  Noise <- MCNoise
  Garbage <- MCGarbage
  Checksum <- MCChecksum
  Retries = 2
  MaxFixes = 2
  MaxDamaged = 1
  MaxFaults = 1
INVARIANTS GpsTypeOK OpenIsRight Recovers
CHECK_DEADLOCK FALSE
