CONSTANTS
  Paths <- MCPaths
  Parts = {"base", "script", "nested", "scratch", "library", "tools", "device"}
  Target <- MCTarget
  Writable <- MCWritable
  BareMount <- MCBareMount
  Source <- MCSource
  Blocks = {"base", "script", "scratch"}
  Faults = {"mount", "remount", "props", "umount", "rmlayer"}
SPECIFICATION Spec
INVARIANTS
  InputsIntact
  ReadOnlyHonoured
  DoneIsClean
PROPERTIES
  AssembledIsTornDown
  JobSeesParts
