\* The server may come to rest with no call left to make within the bounds.
CHECK_DEADLOCK FALSE
SPECIFICATION Spec
SYMMETRY Symmetric
CONSTANTS
  Tenants = {t1}
  Addresses = {a1}
  Keys = {k1}
  Settings = {s1}
  Workers = {w1}
  MaxStamp = 1
  Faults = {"up"}
  NoKey = NoKey
  Nothing = Nothing
INVARIANTS
  FailureKeepsService
