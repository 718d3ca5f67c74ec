SPECIFICATION Spec
CONSTANTS
  Apps = {a1, a2}
  LevelApps = {a2}
  ActiveApps = {}
  Ids = {p1, p2}
  None = None
  AppRefs = {o1}
  Amounts = {600, 300000}
  UsdRate = 600
  DbFails = TRUE
  Crashes = TRUE
  InitialStatuses = {"pending"}
  Outcomes = {"completed", "failed"}
  PayReqs = {p1, p2}
  TestPays = {p2}
  Payouts = {}
  AdminPayouts = {}
  Refunds = {}
  AdminRefunds = {}
  RefundRefOf <- SameRef
  Deliveries = {d1}
INVARIANTS NoFalseCompletion SameTransaction LinkProvenance CapRespected ReportFindsItsPayment
PROPERTIES FrozenTerms ImplementsLedger
CHECK_DEADLOCK FALSE
