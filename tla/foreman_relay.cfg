SPECIFICATION Spec
CONSTANTS
  Commissions = {"B", "E"}
  Catalogs = {"A", "B::x", "E::x"}
  Inputs <- RelayInputs
  Outs <- RelayOuts
  Sources = {"A"}
  Preloaded = {}
  MaxEdition = 2
  Capacity = 6
  Outcomes = {"ok", "failed"}
  Ids = {1, 2, 3}
  Tokens = {t1}
  NoPlan = NoPlan
  NoToken = NoToken
INVARIANTS StaleIsPending OnePlanPerCommission
PROPERTIES EditionsArePlanned
CHECK_DEADLOCK FALSE
