SPECIFICATION Spec
CONSTANTS
  ClassesUsed = {1}
  MaxTasks = 3
  MaxTicks = 1
  MaxSchedules = 2
  MaxSwitches = 3
  MaxEnqueues = 2
  MaxMisuses = 0
INVARIANTS CurrentCanRun
CHECK_DEADLOCK FALSE
