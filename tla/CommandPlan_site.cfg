SPECIFICATION Spec
CONSTANTS
  Objects <- SiteObjects
  Class <- SiteClass
  HostsOf <- SiteHosts
  FilesystemOf <- SiteFilesystem
  MgsOf <- SiteMgs
  Immutable <- NoObjects
  InitialState <- SiteState
  Orders <- SiteOrders
  Gaps <- KnownGaps
  Scenarios <- SiteScenarios
INVARIANT NextJobCanRun
INVARIANT PlansAreSane
INVARIANT RowsMatchMounts
INVARIANT GroundHolds
PROPERTY GoalReached
CHECK_DEADLOCK FALSE
