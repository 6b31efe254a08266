CONSTANTS
    Context = {c1, c2}
    NoContext = NoContext
    Call = {k1, k2, k3}
    NoCall = NoCall
    AutoReconnect = FALSE
    MaxReconnectAttempts = 3
    OrderedTasks = TRUE
    SettersMayFail = TRUE
    FailurePostsToo = {TRUE, FALSE}
    MaxRetries = 2
SPECIFICATION Spec
\* a session whose view is gone stops for good
CHECK_DEADLOCK FALSE
INVARIANTS
    TypeOK
    NoHiddenConnection
    OneConnectPerContext
    NoUseAfterDestroy
    LoopsStoppable
    TimersStoppable
PROPERTIES
    OrphansComeLate
