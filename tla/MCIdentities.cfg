CONSTANTS
  g = g
  x = x
  Persons = {p1, p2}
  Logins = {g, x}
  KindOf <- GoogleAndX
  Addresses = {a1}
  Handles = {h1, h2}
  Unknown = Unknown
  Syncs = {s1, s2}
  MaxChanges = 2
SYMMETRY Symmetric
SPECIFICATION IdentitiesSpec
INVARIANTS
  NameHasOneProfile
  SettledIsTrue
