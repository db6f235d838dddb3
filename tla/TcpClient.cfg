CONSTANTS
    MaxInit = 2
    MaxResets = 2
SPECIFICATION Spec
INVARIANTS TypeOK ConnectedIsTrue
PROPERTIES ConnectEnds RetryConnects
CHECK_DEADLOCK FALSE
