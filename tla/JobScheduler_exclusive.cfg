CONSTANTS
  L = L
  T = T
  NoItem = NoItem
  NoState = NoState
  Items <- MCItems
  States <- MCStates
  JobSpecs <- MCJobSpecs
  StaticDeps <- MCStaticDeps
  Dependents <- MCDependents
  Requests <- TargetRequests
  PlanFor <- MCPlanFor
  HookItem = T
  HookSpec <- ApplyConfParams
  Reports <- MCReports
  MaxJobs = 3
  MaxCommands = 3
  MaxNotifications = 0
  MaxRestarts = 0
SPECIFICATION Spec
INVARIANTS
  TaskedExclusive
CHECK_DEADLOCK FALSE
