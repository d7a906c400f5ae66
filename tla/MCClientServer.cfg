SPECIFICATION CSSpec
CONSTANTS
    c1 = c1
    c2 = c2
    s1 = s1
    s2 = s2
    Client = {c1, c2}
    Server = {s1, s2}
    Peer <- MCPeer
    Messages <- MCMessages
    WithBody = {}
    Secure = {FALSE}
CHECK_DEADLOCK FALSE
INVARIANTS BookkeepingInvariant
PROPERTIES StopEndsAll DisconnectEnds
