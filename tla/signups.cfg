SPECIFICATION Spec
CONSTANTS
  Requests = {s1, s2}
  Emails = {"awa@x", "Awa@x", "Awa <awa@x>"}
  Lower <- LowerCase
  Consoles = {c1, c2}
  Calls = {k1, k2, k3}
  None = None
  DbFails = TRUE
  Crashes = TRUE
SYMMETRY Symmetry
INVARIANTS TypeOK ApprovedOwnsApp OrphansExplained ShownKeysOfReviewed
CHECK_DEADLOCK FALSE
