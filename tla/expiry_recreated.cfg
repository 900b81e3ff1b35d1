SPECIFICATION FairSpec
CONSTANTS
    t1 = t1
    Targets = {t1}
    Providers = {1}
    Delays = {1}
    MaxAttempts = 2
    Horizon = 2
    MaxUid = 3
    MaxDisturbances = 3
    Disturbances = {"delete", "recreate"}
    Unreliable = FALSE
PROPERTIES
    ExpiryProgress
CHECK_DEADLOCK FALSE
