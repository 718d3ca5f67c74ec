SPECIFICATION HFairSpec
CONSTANTS
  Windows = {w1}
  MaxTries = 1
  returnURL = {p1}
  Apps = {a1}
  LevelApps = {}
  ActiveApps = {}
  Ids = {p1, p2}
  None = None
  AppRefs = {o1, o2}
  Amounts = {600}
  UsdRate = 600
  DbFails = FALSE
  Crashes = FALSE
  InitialStatuses = {"pending"}
  Outcomes = {"completed"}
  PayReqs = {p1, p2}
  TestPays = {}
  Payouts = {}
  AdminPayouts = {}
  Refunds = {}
  AdminRefunds = {}
  RefundRefOf <- SameRef
  Deliveries = {d1}
INVARIANTS HostedPayTypeOK SuccessIsPaid ShopToldPaid
PROPERTIES PollingEnds WidgetAnswers
CHECK_DEADLOCK FALSE
