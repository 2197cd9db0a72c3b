\* All graphs on three ids, registered or not, and all that can be built on four.
CONSTANTS
  Id <- BuiltId
  Workflows <- AllWorkflows
SPECIFICATION Spec
INVARIANT SortInv
INVARIANT RaisesOnCycle
INVARIANT OrderIsTopological
INVARIANT OrderIsLeast
INVARIANT BatchesAreSchedules
