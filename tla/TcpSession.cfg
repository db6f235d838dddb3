CONSTANTS
    Limits = {1, 2}
    MaxBytes = 3
SPECIFICATION Spec
INVARIANTS TypeOK NoByteLost InterruptionMeansReady
PROPERTIES EmptyMeansEnd WaitsEnd
CHECK_DEADLOCK FALSE
