CONSTANTS
    MaxMsgs = 6
    Size <- Sizes
    MaxFrags = 3
    FifoDepth = 2
SPECIFICATION Spec
INVARIANT WholeMessages
CHECK_DEADLOCK FALSE
