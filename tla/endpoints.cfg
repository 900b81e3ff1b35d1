SPECIFICATION Spec
CONSTANTS
    t1 = t1
    Targets = {t1}
    Providers = {1}
    Delays = {0, 1}
    MaxAttempts = 2
    Horizon = 2
    MaxUid = 2
    MaxDisturbances = 2
    Disturbances = {"provider", "corrupt", "relabel", "identity", "edit", "remove", "status",
                    "delete", "recreate", "restart", "gateway"}
    Unreliable = TRUE
INVARIANTS
    TypeOK
    CoherentCopies
    NeverSelfCorrupts
    AlarmSet
PROPERTIES
    FailClosed
    KeepsContract
CHECK_DEADLOCK FALSE
