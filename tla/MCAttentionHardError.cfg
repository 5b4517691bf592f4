SPECIFICATION Spec
CONSTANTS
    None = None
    TopLimit = 5
    Board = {"agents", "mail"}
    StaleAfter = 3
    Slowest = 1
INVARIANT HardErrorFlips
CHECK_DEADLOCK FALSE
