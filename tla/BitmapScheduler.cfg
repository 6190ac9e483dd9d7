SPECIFICATION FairSpec
CONSTANTS
  Threads = {t1, t2}
  TaskIds = {0, 1}
  NPrio = 2
  NoThread = NoThread
  MaxOps = 5
INVARIANTS IInv NoLostTask ExactAlone
PROPERTIES LocksAreReleased
CHECK_DEADLOCK FALSE
