CONSTANTS
  Requests = {r1, r2}
  Indexers = {x1, x2}
  Quotes = {0, 1}
  MaxRequests = 2
  Cuttable = {r1, r2}
  MaxCuts = 1
  MaxVersion = 5
SPECIFICATION Spec
SYMMETRY Symmetric
CONSTRAINT WithinBounds
INVARIANTS
  NeverAheadOfChain
  LogIsHistory
PROPERTIES
  OnlyAllowedEdges
