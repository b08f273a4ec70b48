SPECIFICATION SceneSpec
CONSTANTS
    Mainnet = mainnet
    Testnet = testnet
    Modes = {mainnet, testnet}
    Loads = {l1, l2}
    Connects = {k1, k2}
    Nothing = nothing
    MaxSwitches = 2
    MaxClears = 1
    f1 = f1
    f2 = f2
    v1 = v1
    v2 = v2
    Flows = {f1, f2}
    Copies = {v1, v2}
    Apps <- MCApps
    Margin = 1
    MaxHead = 2
    MaxIdentities = 2
    MaxKeys = 2
    MaxReleases = 2
    MaxProofs = 1
    MaxMishaps = 1
    MaxBlock = 2
    MaxNotes = 2
    MaxPayments = 2
    MaxReloads = 1
    MaxRunning = 2
    PublicFunds = 1
INVARIANTS
    ClearedStaysCleared
    ViewFollowsMode
    KeyIsHeld
    ProofSeesIdentity
    ClaimIsAimed
    ProofSeesWrites
PROPERTY LoadingEnds
CHECK_DEADLOCK FALSE
