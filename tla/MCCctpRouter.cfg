CONSTANTS
  p1 = p1
  p2 = p2
  h1 = h1
  alice = alice
  i1 = i1
  i2 = i2
  i3 = i3
  Router = Router
  NoHash = NoHash
  NoRecipient = NoRecipient
  Pools = {p1, p2}
  Denom <- TheDenom
  ClaimHashes = {h1}
  RefundHashes = {q1}
  Recipients = {alice}
  Messages <- TheMessages
  PilotDomains = {"base"}
  TestnetDomains = {"ethereum"}
  IsMainnet = TRUE
  Transfers = {1, 2}
  Expiries = {1, 2}
  MaxTime = 1
  MaxHeld = 2
  Jobs <- TheJobs
  Decoded <- TheDecoded
  TokenMessenger = "messenger"
  Usdc = "usdc"
  MaxRequested = 40
  MaxFeeBps = 400
  Inputs <- TheInputs
  Workers = {w1, w2}
  MaxAttempts = 2
  Exits = {}
  MaxFaults = 1
  MaxCuts = 0
  MaxTxs = 2
  MaxVersion = 7
SPECIFICATION SceneSpec
SYMMETRY Symmetric
CONSTRAINT WithinBounds
INVARIANTS
  ValidatedSettles
  OneSettlementPerIntent
  CctpClaimsAreBurns
  FundedMeansSettled
PROPERTIES
  RouterPassesThrough
  PoolsAreEscrows
CHECK_DEADLOCK FALSE
