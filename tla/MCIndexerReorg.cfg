CONSTANTS
  x1 = x1
  x2 = x2
  c1 = c1
  Scenes = {"blocks"}
  Followers = {x1}
  Claims = {c1}
  MaxHeight = 2
  MaxReorgs = 1
  MaxBreaks = 1
  NumJobs = 3
  Batch = 2
  MaxEntries = 2
  Lifetime = 2
  Doublings = 0
  LongestWait = 1
  Cooldowns = {1, 2}
  MaxTrouble = 1
SPECIFICATION SceneSpec
PROPERTY ReorgIsReplayed
