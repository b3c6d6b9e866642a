SPECIFICATION FairSpec
CONSTANTS
  Scope = {s1, s2}
  Task = {t1, t2, t3}
  Main = main
  NoScope = noscope
  NoTask = notask
  EarlyReturn = {s1}
  Inheriting = {s2}

  
  
PROPERTIES
  
  
  FailureEndsScope
CHECK_DEADLOCK FALSE
