\* One invocation of yul2wasm, any flags, both builds.
CONSTANTS
  NoFile = NoFile
  MaxRuns = 1
SPECIFICATION Spec
PROPERTY
  OutputDirectoryCreated
CHECK_DEADLOCK FALSE
