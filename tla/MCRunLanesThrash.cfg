SPECIFICATION Spec
CONSTANTS
    None = None
    Stages <- TwoStages
    Tokens <- StepTokens
    Attempts <- StepAttempts
    Looped = {}
    Grace = 1
    LatchAfter = 1
    MaxTime = 1
INVARIANT ClimbersThrash
CHECK_DEADLOCK FALSE
