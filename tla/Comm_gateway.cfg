CONSTANTS
    gw = gw
    t1 = t1
    N = 2
    Local = gw
    Mac = {gw, t1}
    NoMac = NoMac
    Gateway = TRUE
    KeepaliveTimeout = 2
    FifoDepth = 1
    Traffic = {"ka_req", "ka_rsp", "disconnect"}
SPECIFICATION Spec
INVARIANTS TypeOK PipesAgree KeepaliveBounded FifoOfChannel
PROPERTIES EventKept
