CONSTANTS
  Entries <- MCEntries
  MaxEntries = 2
  Filters <- MCTimeless
  Kinds = {"dir"}
SPECIFICATION Spec
INVARIANTS
  StoredUnpacks
CHECK_DEADLOCK FALSE
