SPECIFICATION LiveSpec
CONSTANTS
  Plugins = {device}
  Reporters = {device}
  Answerers = {}
  MaxFaults = 1
  MaxQuiet = 1
  MaxTasks = 1
  MaxStream = 1
PROPERTY UnknownSessionEnds
