SPECIFICATION MCSpec
CONSTANTS
  Tasks <- Three
  Priorities = {1, 2}
  DepLists <- ShortDepLists
  MaxQueued = 2
INVARIANTS TypesOK NothingForgotten HandedOutOnce RunsInOrder
  ResourcesExact AnswersExact
CHECK_DEADLOCK FALSE
