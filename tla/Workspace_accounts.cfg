\* The server may come to rest with no call left to make within the bounds.
CHECK_DEADLOCK FALSE
SPECIFICATION Spec
SYMMETRY Symmetric
CONSTANTS
  Subjects = {ann, bob}
  Accounts = {i1, i2}
  Profiles = {f1}
  Codes = {}
  Workers = {w1, w2}
  Lifetime = 1
  MaxTime = 0
  Nobody = Nobody
INVARIANTS
  TypeOK
  OneInstallation
  AuditTellsAccount
  EnabledHasTargets
PROPERTIES
  WithdrawnStays
  LoneDeletionKeepsAdmin
