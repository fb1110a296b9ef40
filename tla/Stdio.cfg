SPECIFICATION Spec
CONSTANTS
    W = 12
    NDigit = 4
    Words = {0, 7, 2048, 4095}
INVARIANTS TypeOK Terminated PrintsArguments
CHECK_DEADLOCK FALSE
