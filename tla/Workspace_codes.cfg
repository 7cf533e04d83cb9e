\* The server may come to rest with no call left to make within the bounds.
CHECK_DEADLOCK FALSE
SPECIFICATION Spec
CONSTANTS
  Subjects = {ann}
  Accounts = {i1}
  Profiles = {f1}
  Codes = {c1, c2}
  Workers = {w1, w2}
  Lifetime = 1
  MaxTime = 2
  Nobody = Nobody
PROPERTIES
  ExpiryCloses
