SPECIFICATION PagesSpec
CONSTANTS
    None = None
    Loads = {l1, l2}
    MaxWorld = 3
    Messages = {m1, m2}
    Inbox = {"inbox"}
    MailBoxes = {"inbox", "sent"}
    Selectable = {"inbox"}
    m1 = m1
    Aliases = {"operator", "real", "mayor", "human"}
    Fallback = "operator"
    Real = "real"
    Wire = "human"
    Mayor = "mayor"
    ListRetries = 3
    Sessions = {s1, s2}
    Subs = {u1, u2, u3}
    MaxTurns = 2
    DetailKeys = {k1, k2, k3}
    Complete = {k3}
    MaxReads = 5
    Slingable = {a1, a2}
    Width = 1
    MaxTries = 2
    Board = {"agents", "maintainer"}
    StaleAfter = 2
    Slowest = 1
    TopLimit = 5
    b1 = b1
    b2 = b2
    r1 = r1
    r2 = r2
    ReefBeads <- TwoBeads
    Rigs <- TwoRigs
    Workers = {s1}
    RigOf <- HomeRig
    P0 <- Urgent
    Needs <- DependsOn
    RenderCap = 0
    Window = 1
    MaxChanges = 1
    MaxLost = 1
    Stages <- TwoStages
    Tokens <- StepTokens
    StepTries <- StepAttempts
    Line <- TwoSteps
    Inputs <- RuleInputs
    Looped = {"work"}
    Grace = 1
    LatchAfter = 1
    MaxTime = 1
    PageRuns <- TwoRigs
    Diffs = {d1, d2}
    Moves <- Works
    Addresses <- Addressed
    Opening = {"running"}
    MaxRunWorld = 1
    MaxOps = 2
CONSTRAINT NotStrayed
SYMMETRY Symmetry
INVARIANTS
    TypesOK
    RestsOnGoodData
    AnswersBelong
    WritesAreSeen
    EyesAreChosen
    NothingUrgentIsHidden
    RunsAreHonest
    LinksAreTrue
    ReefIsTrue
PROPERTY NothingIsUndone
CHECK_DEADLOCK FALSE
