SPECIFICATION Spec
CONSTANTS
  Inputs <- MCInputs
  Interactive = TRUE
  MaxStmts = 2
  MaxDecls = 2
  MaxImports = 1
  MaxRejected = 1
  MaxLines = 1
INVARIANTS
  SessionCompiles
 
CHECK_DEADLOCK FALSE
