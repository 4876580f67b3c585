CONSTANTS
  L = L
  T = T
  NoItem = NoItem
  NoState = NoState
  Items <- MCItems
  States <- MCStates
  JobSpecs <- MCJobSpecs
  StaticDeps <- MCStaticDeps
  Dependents <- MCDependents
  Requests <- TargetChanges
  PlanFor <- MCPlanFor
  HookItem = T
  HookSpec <- ApplyConfParams
  Reports <- MCReports
  MaxJobs = 2
  MaxCommands = 2
  MaxNotifications = 2
  MaxRestarts = 1
SPECIFICATION Spec
INVARIANTS
  TypeOK
  LocksMatchJobs
  CommandOutcome
  BufferedWhileLocked
PROPERTIES
  StaleReportNeverApplied
  ReportsInOrder
  OutcomeIsFinal
CHECK_DEADLOCK FALSE
