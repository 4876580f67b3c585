SPECIFICATION ServicesSpec
CONSTANTS
  ApiRecords = {host}
  Alerts = {alert}
  Rows = {row}
  Locks = {lock1}
  Users = {user1}
  MaxChanges = 3
  MaxFeedFaults = 1
  Tasks = {one, any}
  SingleRunner = {one}
  ApiTasks = {one}
  Steps <- ActionCount
  Workers = {w1, w2, w3}
  NoHost = NoHost
  POOL_LIMIT = 2
  FID_LIMIT = 1
  ROUNDS = 2
  MaxBatches = 2
  BatchSizes = {1}
  MaxRunnerFaults = 1
  Hosts = {1, 2}
  NoServer = 0
  Disks = {"d1", "d2", "d3", "d4"}
  Sees <- SeenBy
  Pools = {"shared", "local"}
  PoolDisks <- DisksOfPools
  Targets = {"MGS", "MDT", "OST"}
  Mgs = "MGS"
  Mdt0 = {"MDT"}
  Backing <- BackingOf
  FsOf <- OneFilesystem
  Filesystems = {fs}
  MaxReports = 1
  MaxMoves = 1
  MaxScanFaults = 1
INVARIANTS ServicesTypeOK ViewFollowsCache CacheSettles  Accounted OneRunner PoolBounded   
PROPERTIES  Drains
CHECK_DEADLOCK FALSE
