\* Every program, with failing blocks or not, over a contracted channel with
\* and without a buffer.
SPECIFICATION FanSpec
CONSTANTS
  t1 = t1
  t2 = t2
  Main = Main
  Goroutine = {t1, t2, Main}
  Owner = Main
  Capacities = {0, 2}
  Contracts = {TRUE}
  MaxSends = 1
  Program <- Programs
INVARIANTS
  NeverClosedUnderSender
  CollectedOnce
PROPERTIES
  ShapesTerminate
CHECK_DEADLOCK FALSE
