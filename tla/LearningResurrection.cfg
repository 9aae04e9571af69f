SPECIFICATION Spec
CONSTANTS
  Requests = {r1, r2, r3, r4}
  Commands <- NoCommands
  Imports <- Resaves
  OldRows <- Nothing
  MaxTries = 2
  MaxClock = 2
  MaxActive = 1
  Silent = Silent
SYMMETRY AnyOrder
INVARIANT SupersededStaysSuperseded
