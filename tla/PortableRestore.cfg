SPECIFICATION RecordSpec
CONSTANTS
  Devices = {d1}
  Catalogues <- SharedModule
  SameIds = FALSE
  None = None
  MaxWork = 2
INVARIANT RestoresWhileIdsExist
CHECK_DEADLOCK FALSE
