\* Two invocations of yul2wasm on the same output path, any flags, both builds.
CONSTANTS
  NoFile = NoFile
  MaxRuns = 2
SPECIFICATION Spec
INVARIANT
  SuccessfulRunOutputsAgree
CHECK_DEADLOCK FALSE
