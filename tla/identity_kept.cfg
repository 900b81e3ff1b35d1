SPECIFICATION Spec
CONSTANTS
    t1 = t1
    Targets = {t1}
    Providers = {1}
    Delays = {1}
    MaxAttempts = 2
    Horizon = 1
    MaxUid = 1
    MaxDisturbances = 1
    Disturbances = {"identity"}
    Unreliable = FALSE
PROPERTIES
    InconsistentKept
CHECK_DEADLOCK FALSE
