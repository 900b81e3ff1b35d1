SPECIFICATION RetiringSpec
CONSTANTS
    t1 = t1
    Targets = {t1}
    Providers = {1, 2}
    Delays = {1}
    MaxAttempts = 1
    Horizon = 2
    MaxUid = 1
    MaxDisturbances = 2
    Disturbances = {"corrupt"}
    Unreliable = FALSE
PROPERTIES
    RepairResumes
CHECK_DEADLOCK FALSE
