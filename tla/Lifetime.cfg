\* Workers that delete clients and return in any callback.
CONSTANTS
    Session = {s1, s2}
    Routine = {r1}
    UdpClient = {u1, u2}
    TcpClient = {t1}
    DnsClient = {d1}
    None = none
    Usage = {"delete", "end"}
SPECIFICATION Spec
SYMMETRY Symmetry
INVARIANTS TypeOK OneWakeup ClientsAreOwned
PROPERTIES UsesAreKnown DoublesAreKnown
CHECK_DEADLOCK FALSE
