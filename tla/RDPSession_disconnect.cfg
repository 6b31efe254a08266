CONSTANTS
    Context = {c1, c2}
    NoContext = NoContext
    Call = {k1, k2, k3}
    NoCall = NoCall
    AutoReconnect = TRUE
    MaxReconnectAttempts = 1
    OrderedTasks = TRUE
    SettersMayFail = FALSE
    FailurePostsToo = {FALSE}
    MaxRetries = 0
SPECIFICATION Spec
\* a session whose view is gone stops for good
CHECK_DEADLOCK FALSE
PROPERTIES
    NoReconnectFromDisconnected
