SPECIFICATION FairSpec
CONSTANTS
    t1 = t1
    Targets = {t1}
    Providers = {1, 2}
    Delays = {1}
    MaxAttempts = 2
    Horizon = 2
    MaxUid = 1
    MaxDisturbances = 1
    Disturbances = {"provider"}
    Unreliable = TRUE
PROPERTIES
    Convergence
CHECK_DEADLOCK FALSE
