CONSTANTS
  Workers = {w1}
  MaxAttempts = 10
  Exits = {"claimed"}
  MaxFaults = 0
  MaxCuts = 0
SPECIFICATION FairSpec
PROPERTY ClaimedReachesRow
CHECK_DEADLOCK FALSE
