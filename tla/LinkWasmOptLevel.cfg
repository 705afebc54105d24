\* The optimization level wasm-ld is run at, for every option record.
CONSTANTS
  NoFile = NoFile
SPECIFICATION Spec
INVARIANT LinkerOptLevelFollowsOption
CHECK_DEADLOCK FALSE
