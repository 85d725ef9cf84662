SPECIFICATION FairSpec
CONSTANTS
  Samples = {1, 3}
  BootSamples = 3
  None = none
  MaxCommands = 3
INVARIANTS TypeOK AnsweredOnce ReliableBusFindsAll SaveOkKeepsFusion
PROPERTIES OkAveragesAll GyroCalEnds
