SPECIFICATION Spec
CONSTANTS
  Accounts = {a, b}
  Cases = {c1, c2}
  Evidence = {e1}
  Calls = {o1}
  MaxProofs = 1
  MaxClock = 6
  MaxVersion = 2
  MaxActive = 1
  None = None
SYMMETRY SwapAccounts
PROPERTY RollbackRestoresTheRecord
CHECK_DEADLOCK FALSE
