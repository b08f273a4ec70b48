CONSTANTS
  s1 = s1
  None = None
  Sends = {s1}
  Routes = {"starknet", "evm", "stellar"}
  Attempts = 3
  Requests = {r1}
  Indexers = {x1}
  Quotes = {0}
  MaxRequests = 2
  Cuttable = {x1}
  MaxCuts = 1
SPECIFICATION SceneSpec
INVARIANTS
  BurnHasNote
  HashIsKept
  RecordedIsQueued
PROPERTIES
  FormComesBack
  CatchesUp
CHECK_DEADLOCK FALSE
