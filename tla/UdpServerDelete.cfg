CONSTANTS
    a = a
    b = b
    c = c
    Peer <- MCPeer
    PortOf <- MCPortOf
    AddrLen <- MCAddrLen
    Room = 2
    ServerPort = 2333
    FirstPort = 1024
    Session = {s1, s2}
    Server = server
    None = none
    MaxSend = 3
SPECIFICATION Spec
INVARIANT NoDoubleDelete
CHECK_DEADLOCK FALSE
