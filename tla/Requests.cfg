SPECIFICATION FairSpec
CONSTANTS
  BufSize = 2
  LineLens = {1, 3}
  MaxLines = 2
  MaxSessions = 2
  MaxLosses = 1
INVARIANTS TypeOK AnswersInOrder OwnUnlessAbandoned
PROPERTY EveryLineAnswered
CHECK_DEADLOCK FALSE
