CONSTANTS
    MaxMsgs = 6
    Size <- Sizes
    MaxFrags = 3
    FifoDepth = 2
SPECIFICATION FairSpec
INVARIANTS WholeWhileStaying
PROPERTIES ChannelSpec SenderReady
CHECK_DEADLOCK FALSE
