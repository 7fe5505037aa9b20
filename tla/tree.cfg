CONSTANTS
  Entries <- MCEntries
  MaxEntries = 4
  Filters <- MCFilters
  Kinds = {"tar", "dir"}
SPECIFICATION Spec
INVARIANTS
  HashIsCanonical
  UnpackedAsHashed
  TarsUnpack
CHECK_DEADLOCK FALSE
