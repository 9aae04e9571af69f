SPECIFICATION SignInSpec
CONSTANTS
  Sessions = {s0, a1, a2}
  Requests = {b1, b2}
  Pair1 = {a1, a2}
  Pair2 = {b1, b2}
  Pair3 = {c1, c2}
  Pair4 = {d1, d2}
  Legacy = s0
  None = None
  Nobody = Nobody
  Installation = Installation
  Visitor = Visitor
  IdleSeconds = 2
  AbsoluteSeconds = 3
  SlideThreshold = 0
  RetainSeconds = 1
  MaxClock = 1
  MaxDecisions = 1
  PendingLimit = 1
  MaxWork = 5
  PerClient = 1
  PerInstallation = 2
  Span = 1
  MaxNow = 3
  MaxLost = 1
  MaxChanges = 1
SYMMETRY Swaps
INVARIANTS DecisionsFormAHistory NoSessionWithoutApproval OneLiveSessionPerSignIn LifetimesEnd TransactionsServeOnce OnlyTheEntitled
PROPERTIES ExpiryOnlyGrows IdentityKeepsItsAccount
CHECK_DEADLOCK FALSE
