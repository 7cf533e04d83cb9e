\* The server may come to rest with no call left to make within the bounds.
CHECK_DEADLOCK FALSE
SPECIFICATION Spec
CONSTANTS
  Subjects = {ann, bob}
  Accounts = {i1, i2}
  Profiles = {}
  Codes = {}
  Workers = {w1, w2}
  Lifetime = 1
  MaxTime = 0
  Nobody = Nobody
PROPERTIES
  DeletionKeepsAdmin
