SPECIFICATION MCSpec
CONSTANTS
    Sources = {x1}
    Gateways = {g1, g2}
    Classes = {k1}
    Grants = {a1}
    DNSProviders = {p1}
    Services = {s1}
    Slices = {e1}
    Nodes = {n1}
    Foreign = {s1}
    NoSource = NoSource
    Reliable = {}
    MaxEdits = 2
    x1 = x1
    g1 = g1
    g2 = g2
    k1 = k1
    a1 = a1
    p1 = p1
    s1 = s1
    e1 = e1
    n1 = n1
INVARIANTS
    TypeOK
    UpToDate
CHECK_DEADLOCK FALSE
