\* A worker that disconnects before it returns, as the test server's does.
CONSTANTS
    Fd = {5, 6}
    Session = {s1, s2}
    Server = server
    None = none
    MaxConn = 2
SPECIFICATION Spec
INVARIANT NoStaleEntry
CHECK_DEADLOCK FALSE
