SPECIFICATION Spec
CONSTANTS
  Requests = {s1}
  Emails = {"awa@x", "Awa@x"}
  Lower <- LowerCase
  Consoles = {c1, c2}
  Calls = {k1, k2}
  None = None
  DbFails = FALSE
  Crashes = FALSE
INVARIANTS OneAppPerRequest
CHECK_DEADLOCK FALSE
