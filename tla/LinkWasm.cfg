\* link() for every reachable option record, both build features.
CONSTANTS
  NoFile = NoFile
SPECIFICATION Spec
INVARIANTS
  StackPointerAtStackTop
  ReturnsLatestGoodModule
PROPERTIES
  OptimizerFailureIsRecovered
CHECK_DEADLOCK FALSE
