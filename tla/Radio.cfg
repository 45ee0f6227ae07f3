\* The broadcast pipe and two data pipes, two initiators, two users of the driver.
SPECIFICATION FairSpec
CONSTANTS
    PipeMax = 2
    gateway1 = gateway1
    gateway2 = gateway2
    High = {gateway1, gateway2}
    Broadcast = aa_pipe0
    Channel = {22, 76, 125}
    InvalidChannel = {125}
    DefaultChannel = 10
    Payload = {1, 2}
    RxDepth = 1
    TxDepth = 2
    MaxOpen = 2
INVARIANTS AnswerHeard NothingLeftToSend SentIsOwn
PROPERTIES PhySpec WriteReturns
