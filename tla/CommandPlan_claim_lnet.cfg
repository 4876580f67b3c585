SPECIFICATION Spec
CONSTANTS
  Objects <- SiteObjects
  Class <- SiteClass
  HostsOf <- SiteHosts
  FilesystemOf <- SiteFilesystem
  MgsOf <- SiteMgs
  Immutable <- NoObjects
  InitialState <- SiteState
  Orders <- SiteOrders
  Gaps <- KnownGaps
  Scenarios <- StorageOnly
PROPERTY LNetStopsLast
CHECK_DEADLOCK FALSE
