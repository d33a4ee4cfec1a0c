\* Three logins at once, a threshold of two, and a clock that outlasts a lock
\* and the window; the counting as it is once the audit row can be stored.
SPECIFICATION Spec
CONSTANTS
    Request = {r1, r2, r3}
    Attempt = {1, 2, 3, 4}
    Max = 2
    Window = 1
    Duration = 2
    MaxTime = 3
    AuditStores = TRUE
    Faults = TRUE
SYMMETRY Symmetry
INVARIANTS
    TypeOK
    OvershootBounded
PROPERTY LockHolds
CHECK_DEADLOCK FALSE
