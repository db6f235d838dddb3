\* Workers that delete a client when they are done with it, as those of the
\* repository's test servers do.
CONSTANTS
    Session = {s1}
    Routine = {}
    UdpClient = {u1}
    TcpClient = {}
    DnsClient = {d1}
    None = none
    Usage = {"delete"}
SPECIFICATION Spec
INVARIANT NoUseAfterFree
CHECK_DEADLOCK FALSE
