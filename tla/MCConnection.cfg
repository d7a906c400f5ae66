SPECIFICATION Spec
CONSTANTS
    c1 = c1
    s1 = s1
    Client = {c1}
    Server = {s1}
    Peer <- MCPeer
    m1 = m1
    m2 = m2
    m3 = m3
    Messages <- MCMessages
    WithBody = {m1, m3}
    Secure = {FALSE, TRUE}
CHECK_DEADLOCK FALSE
INVARIANTS LinkInvariant CallbackInvariant
PROPERTIES BothEndsLearn Delivered
