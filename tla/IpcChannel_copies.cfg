SPECIFICATION IpcSpec
CONSTANTS
  IpcThreads = {t1}
  IpcMessages = {m1}
  IpcCapacity = 1
  MaxChannels = 1
  MaxHandles = 2
  MaxSends = 2
INVARIANTS HandlesShareMessages
CHECK_DEADLOCK FALSE
