SPECIFICATION FairSpec
CONSTANTS
  Goroutine = {owner, g1, g2}
  Owner = owner
  Capacities = {0, 1}
  Contracts = {TRUE, FALSE}
  MaxSends = 2
INVARIANTS
  NeverClosedTwice
PROPERTIES
  
  DrainCheckIsHonest
CHECK_DEADLOCK FALSE
