CONSTANTS
  c1 = c1
  c2 = c2
  Calls = {c1, c2}
  project = project
  library = library
  main = main
  lib = lib
  mirror = mirror
  NoHash = NoHash
  None = None
  Partial = Partial
  Stale = Stale
  Commits <- MCCommits
  Repos <- MCRepos
  Heads <- MCHeads
  Subs <- MCSubs
  Url <- MCUrl
  SiloLists <- MCSilos
  EEXISTPossible = TRUE
SPECIFICATION Spec
INVARIANTS
  CheckoutsAreWhole
  NothingIsLeftBehind
PROPERTIES
  ImplementsStore
