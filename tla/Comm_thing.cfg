CONSTANTS
    gw = gw
    t1 = t1
    N = 1
    Local = t1
    Mac = {gw, t1}
    NoMac = NoMac
    Gateway = FALSE
    KeepaliveTimeout = 2
    FifoDepth = 2
    Traffic = {"data", "ka_req", "disconnect"}
SPECIFICATION FairSpec
PROPERTIES EventKept FreshConnection SilentPeerDropped BeaconsForever
