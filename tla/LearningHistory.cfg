SPECIFICATION Spec
CONSTANTS
  Requests = {r1, r2, r3}
  Commands <- LibraryCommands
  Imports <- OneImport
  OldRows <- Before
  MaxTries = 2
  MaxClock = 1
  MaxActive = 2
  Silent = Silent
SYMMETRY AnyOrder
INVARIANTS TypeOK AnsweredIsKept RowFollowsStream
PROPERTIES ImplementsLearnerStream BadgesAreKept
