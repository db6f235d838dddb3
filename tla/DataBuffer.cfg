CONSTANTS
    Lengths = {1, 4096, 4097, 65536, 65537}
    MaxLen = 131072
    MaxAppend = 2
SPECIFICATION Spec
INVARIANT DataFits
CHECK_DEADLOCK FALSE
