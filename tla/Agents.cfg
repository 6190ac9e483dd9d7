SPECIFICATION MCSpec
CONSTANTS
  t1 = t1
  t2 = t2
  t3 = t3
  Threads <- PoolThreads
  Slots = {0, 1, 2}
  CountMod = 8
  MaxHandle = 4
  Updaters <- PoolThreads
  MemSizes = {1, 2}
  MemoryLimit = 1
  MaxThreads = 1
  CounterMod = 8
  MaxCount = 2
  Messengers <- CommThreads
  CommHandles = {1, 2, 3}
  MaxMailboxes = 2
  MailboxCapacity = 2
  MaxSubscriptions = 2
  Topics <- CommTopics
  MaxMsgId = 3
  IpcThreads <- PoolThreads
  IpcMessages = {"m1", "m2"}
  IpcCapacity = 2
  MaxChannels = 2
  MaxHandles = 1
  MaxSends = 3
  ResourceTypes = {"File", "Ipc"}
  ResourceIds = {1, 2}
  RightsUsed = {{1}, {1, 2, 4}}
  Caps = {0, 6, 20}
  Bits = {20, 21, 127, 128}
  MaskBits = {0, 63, 64, 127, 128, 255, 256}
  MaxAddressTokens = 1
INVARIANTS TypesOK AgentsKept MessagesInOrder PeakAndInfoSane RightsExact
PROPERTIES ImplementsQueues ChannelsAreQueues LibraryAgrees
CHECK_DEADLOCK FALSE
