SPECIFICATION RecordsSpec
CONSTANTS
  Pair1 = {a1, a2}
  Pair2 = {b1, b2}
  Pair3 = {c1, c2}
  None = None
  MergeEvidence = {e1}
  MergeCalls = {o1}
  MaxProofs = 2
  MergeClock = 5
  MaxVersion = 2
  Deleters = {d1}
  MaxEvents = 2
  MaxDeletes = 2
  MaxRuns = 2
  MaxCalls = 3
  Fields = {f}
  Window = 1
  Retain = 0
  DataClock = 2
  MaxFaults = 1
  DataActive = 2
  MergeStarts <- OneKindApart
  MergeEdits = 1
  CopyWork = 2
  ContractSteps = 2
SYMMETRY Swaps
INVARIANTS MergeIsRecoverable ReceiptIsExact ReceiptAnswers CopiesStaySound MergeKeepsValues
PROPERTY FollowsPolicyUnlessOvertaken
CHECK_DEADLOCK FALSE
