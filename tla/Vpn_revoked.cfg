\* The server may come to rest with no call left to make within the bounds.
CHECK_DEADLOCK FALSE
SPECIFICATION Spec
SYMMETRY Symmetric
CONSTANTS
  Tenants = {t1}
  Addresses = {a1, a2}
  Keys = {k1, k2}
  Settings = {s1}
  Workers = {w1, w2}
  MaxStamp = 1
  Faults = {}
  NoKey = NoKey
  Nothing = Nothing
INVARIANTS
  RevokedNotServed
