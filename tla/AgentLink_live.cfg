SPECIFICATION LiveSpec
CONSTANTS
  Plugins = {action_runner}
  Reporters = {}
  Answerers = {action_runner}
  MaxFaults = 1
  MaxQuiet = 0
  MaxTasks = 1
  MaxStream = 1
PROPERTY Reconnects
