SPECIFICATION RFairSpec
CONSTANTS
  Relays = {g1, g2}
  MaxAttempts = 1
  Apps = {a1}
  LevelApps = {}
  ActiveApps = {}
  Ids = {p1}
  None = None
  AppRefs = {o1}
  Amounts = {600}
  UsdRate = 600
  DbFails = FALSE
  Crashes = FALSE
  InitialStatuses = {"pending"}
  Outcomes = {"completed", "failed"}
  PayReqs = {p1}
  TestPays = {}
  Payouts = {}
  AdminPayouts = {}
  Refunds = {}
  AdminRefunds = {}
  RefundRefOf <- SameRef
  Deliveries = {d1, d2}
INVARIANTS RelayTypeOK ToldCompletedIsPaid RecordedAsItWent
PROPERTIES CoreUndisturbed OutcomeTraced
CHECK_DEADLOCK FALSE
