SPECIFICATION Spec
CONSTANTS
    t1 = t1
    Targets = {t1}
    Providers = {1}
    Delays = {0, 1}
    MaxAttempts = 2
    Horizon = 1
    MaxUid = 2
    MaxDisturbances = 2
    Disturbances = {"delete", "recreate"}
    Unreliable = FALSE
PROPERTIES
    NewSourceKept
CHECK_DEADLOCK FALSE
