CONSTANTS
  L = L
  T = T
  NoItem = NoItem
  NoState = NoState
  Items <- MCItems
  States <- MCStates
  JobSpecs <- MCJobSpecs
  StaticDeps <- MCStaticDeps
  Dependents <- MCDependents
  Requests <- StopRequests
  PlanFor <- MCPlanFor
  HookItem = T
  HookSpec <- ApplyConfParams
  Reports <- MCReports
  MaxJobs = 3
  MaxCommands = 2
  MaxNotifications = 0
  MaxRestarts = 0
SPECIFICATION FairSpec
PROPERTIES
  EveryCommandCompletes
CHECK_DEADLOCK FALSE
