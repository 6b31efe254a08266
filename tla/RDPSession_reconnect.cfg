CONSTANTS
    Context = {c1, c2, c3}
    NoContext = NoContext
    Call = {k1, k2, k3}
    NoCall = NoCall
    AutoReconnect = TRUE
    MaxReconnectAttempts = 1
    OrderedTasks = TRUE
    SettersMayFail = FALSE
    FailurePostsToo = {TRUE, FALSE}
    MaxRetries = 1
SPECIFICATION Spec
\* a session whose view is gone stops for good
CHECK_DEADLOCK FALSE
INVARIANTS
    ContextOwned
    NoSpinnerAtRest
    AttemptsWithinRetries
    OneConnectUntilRetry
PROPERTIES
    LifetimeSpec
