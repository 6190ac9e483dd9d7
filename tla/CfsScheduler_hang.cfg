SPECIFICATION Spec
CONSTANTS
  ClassesUsed = {1}
  MaxTasks = 4
  MaxTicks = 0
  MaxSchedules = 1
  MaxSwitches = 6
  MaxEnqueues = 3
  MaxMisuses = 0
INVARIANTS NeverHangs
CHECK_DEADLOCK FALSE
