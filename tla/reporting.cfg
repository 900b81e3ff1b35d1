SPECIFICATION MCSpec
CONSTANTS
    Controllers = {ingress, route}
    ingress = ingress
    route = route
    Names = {a}
    a = a
    Uids = {1, 2}
    Messages = {d1, d2}
    d1 = d1
    d2 = d2
    Capacity = 2
    Limit = 1
    Interval = 2
    Horizon = 3
    MaxSessions = 3
    Kinds = {Ingress}
    ObjectNames = {x, y}
    Lifecycle = Lifecycle
    MaxPending = 2
    MaxChanges = 4
    MaxFailures = 1
    MaxRestarts = 1
    Ingress = Ingress
    x = x
    y = y
INVARIANTS
    BoundedMemory
    GaugesTrack
PROPERTIES
    SilencedOnlyByRecent
    RepeatsOnlyWhenForgotten
CHECK_DEADLOCK FALSE
