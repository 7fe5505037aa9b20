CONSTANTS
  c1 = c1
  c2 = c2
  h1 = h1
  h2 = h2
  Calls = {c1, c2}
  Hashes = {h1, h2}
  Corrupt = Corrupt
  None = None
  Partial = Partial
  NoHash = NoHash
  NSilos = 1
  Replaceable = {h2}
SPECIFICATION Spec
INVARIANTS
  TypeOK
  CacheIntegrity
  ServedFromCache
PROPERTIES
  CacheOnlyGrows
  ImplementsStore
