SPECIFICATION MCSpec
CONSTANTS
  Tasks <- Three
  Priorities = {1, 2}
  DepLists <- ShortDepLists
  MaxQueued = 2
INVARIANTS ConfidentialStaysLocal
CHECK_DEADLOCK FALSE
