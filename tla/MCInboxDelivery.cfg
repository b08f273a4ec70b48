CONSTANTS
  t1 = t1
  t2 = t2
  b1 = b1
  b2 = b2
  Profiles = {p1}
  Wallets = {w1}
  Browsers = {b1, b2}
  Tabs = {t1, t2}
  Intents = {i1}
  BrowserOf <- OneTabEach
  OldKey = OldKey
  ServerKey = ServerKey
  Nothing = Nothing
  MaxRows = 2
  MaxFaults = 1
SPECIFICATION FairSpec
INVARIANTS
  PublishedKeyHeld
  NoteNamesItsKey
PROPERTY PendingArrives
