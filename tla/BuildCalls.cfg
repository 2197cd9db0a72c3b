\* Every sequence of calls on four ids.
CONSTANTS
  Id <- FourIds
  Lists <- ManyLists
SPECIFICATION Spec
INVARIANT BuildTypeOK
INVARIANT FailsFast
PROPERTY NewTasksCloseNoCycle
PROPERTY ChainRunsInOrder
