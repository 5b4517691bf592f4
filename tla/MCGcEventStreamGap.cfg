SPECIFICATION SpecOneEffect
CONSTANTS
    Window = 2
    MaxTime = 6
    MaxEvents = 4
INVARIANT NoGapInHeard
CHECK_DEADLOCK FALSE
