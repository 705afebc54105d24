\* The lowered code of every program of MCPrograms refines the structured
\* semantics.  The function returns, so the final state has no successor.
CONSTANTS
  Vars <- MCVars
  Programs <- MCPrograms
  MaxIterations = 11
SPECIFICATION Spec
PROPERTY YulSemantics
CHECK_DEADLOCK FALSE
