CONSTANTS
  x = x
  y = y
  Name = {x, y}
  MaxLocals = 2
  MaxUses = 2
  MaxOpen = 2
SYMMETRY Symmetry
SPECIFICATION NamesSpec
INVARIANTS  NoRedeclaration NoneUnread
CHECK_DEADLOCK FALSE
