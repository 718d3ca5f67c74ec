SPECIFICATION HSpec
CONSTANTS
  Windows = {w1}
  MaxTries = 1
  returnURL = {p1}
  Apps = {a1}
  LevelApps = {}
  ActiveApps = {}
  Ids = {p1}
  None = None
  AppRefs = {o1}
  Amounts = {600}
  UsdRate = 600
  DbFails = FALSE
  Crashes = FALSE
  InitialStatuses = {"pending"}
  Outcomes = {"completed", "failed"}
  PayReqs = {p1}
  TestPays = {}
  Payouts = {}
  AdminPayouts = {}
  Refunds = {}
  AdminRefunds = {}
  RefundRefOf <- SameRef
  Deliveries = {d1}
INVARIANTS CancelIsFinal
CHECK_DEADLOCK FALSE
