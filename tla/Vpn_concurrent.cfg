\* The server may come to rest with no call left to make within the bounds.
CHECK_DEADLOCK FALSE
SPECIFICATION Spec
SYMMETRY Symmetric
CONSTANTS
  Tenants = {t1, t2}
  Addresses = {a1}
  Keys = {k1, k2}
  Settings = {s1, s2}
  Workers = {w1, w2}
  MaxStamp = 2
  Faults = {"write", "up", "commit", "crash"}
  NoKey = NoKey
  Nothing = Nothing
INVARIANTS
  TypeOK
  RuntimeIsDatabase
  RevocationHolds
