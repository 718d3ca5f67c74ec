SPECIFICATION Spec
CONSTANTS
  Apps = {a1}
  LevelApps = {}
  ActiveApps = {}
  Ids = {t1}
  None = None
  AppRefs = {o1}
  Amounts = {600}
  UsdRate = 600
  DbFails = FALSE
  Crashes = FALSE
  InitialStatuses = {"pending"}
  Outcomes = {"failed"}
  PayReqs = {}
  TestPays = {}
  Payouts = {t1}
  AdminPayouts = {}
  Refunds = {}
  AdminRefunds = {}
  RefundRefOf <- SameRef
  Deliveries = {d1}
INVARIANTS StatusUpToDate
CHECK_DEADLOCK FALSE
