SPECIFICATION AuthSpec
CONSTANTS
  People = {p}
  Nobody = Nobody
  InOrder = TRUE
  Serial = TRUE
  MaxOpen = 1
  MaxSessions = 1
  MaxTroubles = 0
INVARIANT SignOutLeavesNothing
CHECK_DEADLOCK FALSE
