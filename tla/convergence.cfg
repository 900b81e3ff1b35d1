SPECIFICATION FairSpec
CONSTANTS
    t1 = t1
    Targets = {t1}
    Providers = {1}
    Delays = {1}
    MaxAttempts = 2
    Horizon = 2
    MaxUid = 2
    MaxDisturbances = 2
    Disturbances = {"source", "delete", "recreate", "invalid"}
    Unreliable = TRUE
PROPERTIES
    Convergence
    ExpiryProgress
CHECK_DEADLOCK FALSE
