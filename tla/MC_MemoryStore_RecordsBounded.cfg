CONSTANTS
    a1 = a1
    a2 = a2
    p1 = p1
    p2 = p2
    p3 = p3
    Keys = {a1, a2}
    Peers = {p1, p2, p3}
    Local = p1
    Versions = {v1, v2}
    Values = {x, y, z}
    Large = {z}
    Dist <- MCDist
    MaxRecords = 1
    MaxProvidersPerKey = 2
    MaxProvidedKeys = 1
SPECIFICATION Spec
INVARIANT RecordsBounded
