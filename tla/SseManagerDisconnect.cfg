SPECIFICATION Spec
CONSTANTS
    Endpoints = {e1}
    Conns = {c1, c2}
    Listeners = {l1, l2}
    NoConn = NoConn
    NoListener = NoListener
    NoEndpoint = NoEndpoint
    QueueCap = 1
PROPERTY DaemonRespectsDisconnect
