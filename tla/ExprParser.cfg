CONSTANTS
  MaxNodes = 3
  MaxBroken = 3
  MaxDropped = 2
SPECIFICATION Spec
INVARIANTS
  ReadsBack
  LineBreaksDoNotRegroup
  ReadsWhatIsWritten
CHECK_DEADLOCK FALSE
