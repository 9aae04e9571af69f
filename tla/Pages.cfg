SPECIFICATION PagesSpec
CONSTANTS
  Pair = {a1, a2}
  Nobody = Nobody
  None = None
  MaxOpen = 2
  MaxSessions = 2
  MaxTroubles = 1
  MaxSaveTries = 2
  MaxWork = 1
  MaxSends = 2
  MaxVisits = 3
  MaxFaults = 1
  MaxRow = 3
  PageSize = 1
  MaxChanges = 1
  MaxQueries = 5
  MaxLosses = 1
  Paths = {a, x, g, t}
  Exceptions = {x}
  Generated = {g, t}
  ThemeIndex = t
  MaxRelease = 2
  MaxStops = 1
  MaxEdits = 1
  Credentials = {c}
  Classes = {"completion", "mastery"}
  MaxEvents = 3
  MaxTime = 1
  PanelValues = {0, 1}
  PanelSends = 4
  MaxElsewhere = 2
  MaxLost = 1
SYMMETRY Swaps
INVARIANTS HeaderTellsTheTruth NothingCrosses NothingIsHidden PanelsAreCurrent FinishedIsCurrent
PROPERTY NothingIsTakenBack
CHECK_DEADLOCK FALSE
