SPECIFICATION MCSpec
CONSTANTS
    GatewayResources = {"httproutes"}
    Tokens = {"gateway", "gateway=false", "gateway=bad"}
    MaxArgs = 2
    MaxChanges = 2
    Addresses = {x, y}
    MaxShowChanges = 1
    MaxRecords = 2
    x = x
    y = y
INVARIANTS
    LastingFaultShown
    AlarmHasCause
    SuccessIsComplete
PROPERTIES
    VerdictWasTrue
CHECK_DEADLOCK FALSE
