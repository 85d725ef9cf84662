SPECIFICATION Spec
CONSTANTS
  Rates = {r1, r2}
  Betas = {b1, b2}
  ConfRate = r1
  ConfBeta = b1
  None = none
  MaxRequests = 3
  MaxLate = 1
INVARIANTS RestartKeepsSettings ImuFollows GpsRateFollows
