SPECIFICATION Spec
CONSTANTS
  Ids = {1, 2, 3, 4}
  MaxPushes = 4
  Tokens = {t1, t2, t3}
  Commissions = {c1, c2}
  Workers = {w1, w2}
  NoPlan = NoPlan
  NoToken = NoToken
INVARIANTS IndexesAgree InOrder LeasesAreExclusive
PROPERTY OnlyItsHolderRemoves
CHECK_DEADLOCK FALSE
