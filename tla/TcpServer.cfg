\* Two descriptors and three connections: accept() runs out, numbers are
\* reused, and the server quits at any point.
CONSTANTS
    Fd = {5, 6}
    Session = {s1, s2, s3}
    Server = server
    None = none
    MaxConn = 4
SPECIFICATION Spec
INVARIANTS TypeOK MapMatchesSessions FdsAreOwned
PROPERTIES QuitEndsServer BacklogAccepted
CHECK_DEADLOCK FALSE
