SPECIFICATION MCSpec
CONSTANTS
    c1 = c1
    c2 = c2
    c3 = c3
    a1 = a1
    a2 = a2
    Conns = {c1, c2, c3}
    Agents = {a1, a2}
    NoConn = NoConn
    MaxClients = 2
INVARIANTS NodesSound
PROPERTIES NameKeptByOwner EverythingReleased
