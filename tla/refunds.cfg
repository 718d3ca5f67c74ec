SPECIFICATION FairSpec
CONSTANTS
  Apps = {a1}
  LevelApps = {}
  ActiveApps = {}
  Ids = {p1, t1, t2}
  None = None
  AppRefs = {o1}
  Amounts = {600}
  UsdRate = 600
  DbFails = FALSE
  Crashes = TRUE
  InitialStatuses = {"pending"}
  Outcomes = {"completed"}
  PayReqs = {p1}
  TestPays = {}
  Payouts = {}
  AdminPayouts = {}
  Refunds = {t2}
  AdminRefunds = {t1}
  RefundRefOf <- SameRef
  Deliveries = {d1}
INVARIANTS SingleTransfer RefundBacked
PROPERTIES EveryRequestAnswered PaidIsRecorded ImplementsLedger
CHECK_DEADLOCK FALSE
