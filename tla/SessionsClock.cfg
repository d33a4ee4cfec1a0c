\* Two users, two token pairs and a clock of half seconds that runs through
\* the whole life of an access and of a refresh token.
\* StrBinds and AuditStores = TRUE: what the handlers do once their statements
\* have arguments the driver takes.
SPECIFICATION Spec
CONSTANTS
    User = {u1, u2}
    Request = {r1, r2}
    Token = {1, 2}
    None = None
    Ticks = 2
    AccessLife = 2
    RefreshLife = 2
    MaxTime = 6
    StrBinds = TRUE
    AuditStores = TRUE
    Faults = TRUE
SYMMETRY Symmetry
INVARIANTS
    TypeOK
    DeniedUntilLastSecond
PROPERTY LogoutStopsLaterRefresh
CHECK_DEADLOCK FALSE
