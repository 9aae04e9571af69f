CONSTANTS
    Keys = {k1, k2, k3}
    Runs = {r1, r2}
    None = None
    MaxSecret = 3
    Coarse = FALSE
    MaxRequests = 3
    MaxFaults = 1
    MaxInTurn = 4
SPECIFICATION Spec
SYMMETRY Symmetry
INVARIANTS GateBeforeWrite CurrentSecretIsKept ReadyIsSound
PROPERTIES OutcomesAreFinal
CHECK_DEADLOCK FALSE
