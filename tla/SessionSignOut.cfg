CONSTANTS
    Sessions = {s0, s1, s2}
    Legacy = s0
    Requests = {r1, r2}
    None = None
    IdleSeconds = 2
    AbsoluteSeconds = 4
    SlideThreshold = 1
    RetainSeconds = 1
    MaxClock = 1
    MaxDecisions = 0
SPECIFICATION Spec
PROPERTIES SignOutEndsTheSession
CHECK_DEADLOCK FALSE
