SPECIFICATION Spec
CONSTANTS
  a = a
  b = b
  c = c
  here = here
  there = there
  Checkout = {a, b, c}
  Machine = {here, there}
  Home <- TwoAndOne
  MaxTag = 2
  MaxCrashes = 1
  LocksTravel = TRUE
  GetsOverlap = FALSE
  BuildsOverlap = FALSE
  NoTree = NoTree
  NoLock = NoLock
  Emptied = Emptied
  Torn = Torn
INVARIANTS
  NeverDisturbed
PROPERTIES
  BuildIsPinned
