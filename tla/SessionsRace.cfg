\* Two requests over three token pairs, with the clock standing still: every
\* interleaving of logins, refreshes and logouts, and that all of them end.
\* StrBinds and AuditStores = TRUE: what the handlers do once their statements
\* have arguments the driver takes.
SPECIFICATION FairSpec
CONSTANTS
    User = {u1}
    Request = {r1, r2}
    Token = {1, 2, 3}
    None = None
    Ticks = 1
    AccessLife = 1
    RefreshLife = 1
    MaxTime = 0
    StrBinds = TRUE
    AuditStores = TRUE
    Faults = TRUE
INVARIANTS
    RotationAtomic
    SweptRevoked
PROPERTIES
    RevokedForever
    RequestsEnd
CHECK_DEADLOCK FALSE
