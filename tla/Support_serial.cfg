\* The server may come to rest with nothing left to do within the bounds.
CHECK_DEADLOCK FALSE
SPECIFICATION Spec
CONSTANTS
  home = home
  away = away
  ann = ann
  bob = bob
  Nobody = Nobody
  Tenants <- MCTenants
  Subjects <- MCSubjects
  Principals <- MCPrincipals
  Lifetimes <- MCLifetimes
  Devices = {d1}
  Requests = {r1, r2}
  Workers = {w1}
  MaxTime = 2
INVARIANTS
  TypeOK
PROPERTIES
  KeepsLifecycle
  NewRequestsTargetRegistered
