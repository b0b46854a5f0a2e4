CONSTANTS
  Mutators = {mut}
  Passes = {pass}
  Operators = {admin}
  Tools = {"send", "react"}
  Paths <- MCPaths
  Endpoint <- MCEndpoint
  JIDs <- MCJIDs
  Server <- MCServer
  Deployments <- MCDeployments
  Tables <- MCTables
  Patches <- MCPatches
  None = none
  Null = null
  MaxVersion = 2
  MaxFault = 1
  Keep = 2
  MaxSets = 3
  MaxBad = 1
  MaxDeath = 1
SPECIFICATION MCSpec
INVARIANTS SetsRetained OneCommittedPolicy
PROPERTIES LogoutStands LinkKept VersionsGrow SessionRecovers
CHECK_DEADLOCK FALSE
