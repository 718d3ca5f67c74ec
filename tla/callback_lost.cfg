SPECIFICATION FairSpec
CONSTANTS
  Apps = {a1}
  LevelApps = {}
  ActiveApps = {}
  Ids = {p1, p2}
  None = None
  AppRefs = {o1}
  Amounts = {600}
  UsdRate = 600
  DbFails = FALSE
  Crashes = FALSE
  InitialStatuses = {"pending"}
  Outcomes = {"completed", "failed"}
  PayReqs = {p1, p2}
  TestPays = {}
  Payouts = {}
  AdminPayouts = {}
  Refunds = {}
  AdminRefunds = {}
  RefundRefOf <- SameRef
  Deliveries = {d1}
PROPERTIES CallbackReachesPayment
CHECK_DEADLOCK FALSE
