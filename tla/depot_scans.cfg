CONSTANTS
  s1 = s1
  s2 = s2
  Scans = {s1, s2}
  Wares = {a, b}
  CA = {ca}
  Plain = {plain}
  None = None
  Broken = Broken
  Short = Short
  NoId = NoId
  Replaceable = {b}
  EEXISTPossible = FALSE
SPECIFICATION Spec
INVARIANTS
  FiledUnderOwnHash
  StoredWhenDone
PROPERTIES
  KeptWhole
  NothingIsLost
