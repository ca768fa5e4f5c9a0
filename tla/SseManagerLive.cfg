SPECIFICATION ClosingSpec
CONSTANTS
    Endpoints = {e1}
    Conns = {c1}
    Listeners = {l1, l2}
    NoConn = NoConn
    NoListener = NoListener
    NoEndpoint = NoEndpoint
    QueueCap = 1
PROPERTIES OrphanIsReconnected CloseCompletes
CHECK_DEADLOCK FALSE
