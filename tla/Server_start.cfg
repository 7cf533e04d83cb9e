CONSTANTS
  first = first
  second = second
  kept = kept
  older = older
  Unset = Unset
  Known <- MCKnown
  Scripts <- MCScripts
  Users <- MCUsers
  Ports <- MCPorts
  Scenarios <- MCScenarios
  Upgrades <- Releases
  Models <- OrmSchema
  Needed <- MCNeeded
  Origins <- MCOrigins
  AccountTable = "workspace_users"
  MaxFaults = 2
SPECIFICATION Spec
INVARIANTS
  TypeOK
  HeadIsComplete
  SetupDecided
  UninterruptedMirrorsModels
  NeverCreatedTwice
  DeployReaches
  GrantlessIsContained
  CredentialsHold
PROPERTIES
  RestartServes
  DeployConverges
\* A machine stops when its scripts have ended and its containers are stopped.
CHECK_DEADLOCK FALSE
