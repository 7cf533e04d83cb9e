CONSTANTS
  c1 = c1
  c2 = c2
  l1 = l1
  l2 = l2
  share = share
  None = None
  Earlier = Earlier
  Torn = Torn
  NoKey = NoKey
  Elsewhere = Elsewhere
  Logins <- MCLogins
  Calls <- MCLogins
  Logouts <- MCLogouts
  Servers <- MCServers
  Machines <- MCMachines
  Servings <- MCServings
  Scenarios <- MCScenarios
  MaxChanges = 2
SPECIFICATION Spec
INVARIANTS
  TypeOK
  LoggedOutMeansNoTunnel
  KeyFileIsOfConnection
  DashboardHasSession
  DisabledServersStayHidden
  DevicesAreOne
  TunnelIsServed
PROPERTIES
  WindowAnswers
  CloseRemovesTunnel
\* The window may be closed, and the application gone.
CHECK_DEADLOCK FALSE
