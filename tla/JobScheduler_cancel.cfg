CONSTANTS
  L = L
  T = T
  NoItem = NoItem
  NoState = NoState
  Items <- MCItems
  States <- MCStates
  JobSpecs <- MCJobSpecs
  StaticDeps <- MCStaticDeps
  Dependents <- MCDependents
  Requests <- StopRequests
  PlanFor <- MCPlanFor
  HookItem = T
  HookSpec <- ApplyConfParams
  Reports <- MCReports
  MaxJobs = 2
  MaxCommands = 1
  MaxNotifications = 0
  MaxRestarts = 0
SPECIFICATION FairSpec
PROPERTIES
  CancelReachesWaiters
CHECK_DEADLOCK FALSE
