SPECIFICATION Spec
CONSTANTS
  Publishers = {p1, p2}
  Wares = {a, b}
  Unused = Unused
  MaxEditions = 6
INVARIANT EditionsAreImmutable
CHECK_DEADLOCK FALSE
