SPECIFICATION Spec
CONSTANTS
    Hosts <- MCHosts
    Zones <- MCZones
    Placement <- MCPlacement
    Services = {s1, s2}
    Namespaces = {home, away}
    RouteKinds = {HTTPRoute, TCPRoute}
    HTTPRoute = HTTPRoute
    TCPRoute = TCPRoute
    Home = home
    Resource = Resource
    NoHost = NoHost
    AnyService = AnyService
    MaxRules = 2
    MaxRefs = 2
    Providers = {p1, p2}
    Nodes = {n1, n2}
    Subdomain = "sub"
    NoNode = NoNode
    MaxChanges = 2
    p1 = p1
    p2 = p2
    s1 = s1
    s2 = s2
    n1 = n1
    n2 = n2
    home = home
    away = away
INVARIANTS
    Explained
    GapExplained
    InsideZones
    Routable
    Indexed
PROPERTIES
    WholeOrNothing
CHECK_DEADLOCK FALSE
