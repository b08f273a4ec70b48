CONSTANTS
  e1 = e1
  e2 = e2
  c1 = c1
  c2 = c2
  t1 = t1
  t2 = t2
  EarnPanels = {e1, e2}
  ClaimViews = {c1, c2}
  Tabs = {t1, t2}
  Layouts <- MCLayouts
  Amounts = {1, 2}
  Denomination = 1
  Funds = 2
  Nobody = Nobody
  Masked = Masked
  MaxTxs = 2
  MaxFaults = 1
  Txs <- MCTxs
  InAmounts = {2, 4}
SPECIFICATION Spec
SYMMETRY Symmetric
INVARIANTS
  OnePrompt
  LedgerIsBacked
  LedgerFollows
PROPERTY NoRebroadcast
