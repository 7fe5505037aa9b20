CONSTANTS
  f1 = f1
  f2 = f2
  Followers = {f1, f2}
  None = None
  MaxOut = 2
  MaxErr = 1
SPECIFICATION Spec
INVARIANTS
  JournalIsFaithful
  RecordComesLast
  FarSideFollows
PROPERTIES
  FollowedRunEnds
CHECK_DEADLOCK FALSE
