SPECIFICATION SpecEither
CONSTANTS
  SumVariants <- PayloadAndLower
  Carriers = {"A", "Some"}
  LowerCase = {"b"}
  Ints = {"1", "2"}
  OtherInt = "9"
  Fresh = "x"
  Subjects <- AllSubjects
  MaxArms = 3
  CellLimit = 4
  MaxDepth = 3
  MaxNodes = 6
INVARIANTS
  RunsFirstMatch
  BuiltIsTotal
  RejectedForCause
  JumpHitsItsLoop
  ReturnLeavesItsFrame
  EffectsInOrder
CHECK_DEADLOCK FALSE
