CONSTANTS
  Workers = {w1}
  MaxAttempts = 5
  Exits = {"claimed"}
  MaxFaults = 1
  MaxCuts = 1
SPECIFICATION FairSpec
PROPERTY JobEnds
CHECK_DEADLOCK FALSE
CONSTRAINT OneMishap
