SPECIFICATION FairSpec
CONSTANTS
  RingSize = 3
  Width = 6
  MaxFrames = 10
  MaxErrors = 1
INVARIANT TypeOK
PROPERTIES ImplementsQueue LastFrameArrives
