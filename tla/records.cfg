SPECIFICATION Spec
CONSTANTS
    RecordKeys = {a, aaaa}
    Addresses = {x, y}
    TTLs = {1, 2}
    Delays = {0, 1}
    Annotations = {"none", "proxied"}
    MaxTime = 2
    MaxEdits = 1
    MaxCopies = 2
    a = a
    aaaa = aaaa
    x = x
    y = y
SYMMETRY Symmetry
INVARIANTS
    Settles
    RefinesWriter
PROPERTIES
    RefinesAdvance
    ActiveSurvives
CHECK_DEADLOCK FALSE
