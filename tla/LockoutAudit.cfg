\* The deployed driver, which refuses the audit row; nothing else fails.
SPECIFICATION Spec
CONSTANTS
    Request = {r1}
    Attempt = {1, 2}
    Max = 2
    Window = 1
    Duration = 2
    MaxTime = 3
    AuditStores = FALSE
    Faults = FALSE
PROPERTY FailuresTracked
CHECK_DEADLOCK FALSE
