CONSTANTS
    Lens = {1, 2}
    Limits = {1}
    Capacity = 2
    MaxForward = 2
    MaxFail = 0
SPECIFICATION Spec
INVARIANT LenLimitRespected
CHECK_DEADLOCK FALSE
