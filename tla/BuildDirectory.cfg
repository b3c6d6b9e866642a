SPECIFICATION Spec
CONSTANTS
  Builders = {b1, b2}
  Cleaners = {c}
  MaxBuilds = 2
  MaxCrashes = 1
INVARIANTS
  BuildsItsOwn
  
 
CHECK_DEADLOCK FALSE
