CONSTANTS
    Config = {c1, c2}
    Password = {p1}
    NoPassword = NoPassword
    NoConfig = NoConfig
SPECIFICATION Spec
SYMMETRY Interchangeable
INVARIANTS
    TypeOK
    SuccessSettles
PROPERTIES
    OrphanedByEditOnly
