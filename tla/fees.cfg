SPECIFICATION Spec
CONSTANTS
  FirstAmount <- Below
  LastAmount = 260
  Rates <- TestRates
INVARIANTS FeeIsCeiling FeeCountsDollars
PROPERTIES FeeSteps
CHECK_DEADLOCK FALSE
