SPECIFICATION SpecEither
CONSTANTS
  Names = {a, b}
  MaxChans = 2
  MaxCalls = 1
  Caller = {g1, g2}
  Programs <- SomePrograms
  MaxOpen = 3
SYMMETRY Interchangeable
INVARIANTS
  ContractReachesUses
  
  GuardIsTight
  
CHECK_DEADLOCK FALSE
