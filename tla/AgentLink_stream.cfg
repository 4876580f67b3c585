SPECIFICATION Spec
CONSTANTS
  Plugins = {device}
  Reporters = {device}
  Answerers = {}
  MaxFaults = 1
  MaxQuiet = 1
  MaxTasks = 2
  MaxStream = 1
INVARIANTS TypeOK OneCallAtATime ActiveWasAnnounced
PROPERTY StreamSpec
