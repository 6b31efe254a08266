CONSTANTS
    Text = {t1, t2, empty}
    EmptyText = empty
    MaxCopies = 2
    MaxServerCopies = 2
    MaxPastes = 2
    MaxActs = 4
    MaxConnections = 2
SPECIFICATION FairSpec
\* a session that has used up its bounds stops
CHECK_DEADLOCK FALSE
INVARIANTS
    TypeOK
    PasteGetsCopiedText
    RemoteTextCurrentAtRest
PROPERTIES
    SyncsEventually
