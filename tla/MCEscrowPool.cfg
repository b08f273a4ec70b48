CONSTANTS
  NoHash = NoHash
  NoRecipient = NoRecipient
  ClaimHashes = {h1, h2, h3}
  RefundHashes = {q1, q2}
  Recipients = {alice}
  Denomination = 2
  Transfers = {0, 1, 2, 3}
  Expiries = {1, 2}
  MaxTime = 2
  MaxBalance = 7
  Pools = {p1}
  MaxBuilds = 2
  MaxKills = 1
SPECIFICATION SceneSpec
SYMMETRY Hashes
CONSTRAINT WithinBounds
INVARIANTS
  Solvent
  ExactlyOneExit
  NothingPaidTwice
  VerifiedIsLive
PROPERTY ImplementsLedger
CHECK_DEADLOCK FALSE
