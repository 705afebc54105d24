\* One invocation of yul2wasm, any flags, both builds.
CONSTANTS
  NoFile = NoFile
  MaxRuns = 1
SPECIFICATION Spec
INVARIANT
  NoBinaryenOptimizeFollowsFlag
CHECK_DEADLOCK FALSE
