SPECIFICATION SSpec
CONSTANTS
  Apps = {a1}
  LevelApps = {}
  ActiveApps = {a1}
  Ids = {t1, t2, t3}
  None = None
  AppRefs = {o1}
  Amounts = {40, 600}
  UsdRate = 600
  DbFails = TRUE
  Crashes = FALSE
  InitialStatuses = {"submitted"}
  Outcomes = {"completed", "expired"}
  PayReqs = {}
  TestPays = {}
  Payouts = {t1, t2}
  AdminPayouts = {t3}
  Refunds = {}
  AdminRefunds = {}
  RefundRefOf <- SameRef
  Deliveries = {d1}
INVARIANTS TypeOK SingleTransfer CountedCompletedIsPaid
PROPERTIES ImplementsLedger 
SYMMETRY PayoutSymmetry
CHECK_DEADLOCK FALSE
