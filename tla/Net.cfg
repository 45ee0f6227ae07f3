CONSTANTS
    gw = gw
    t1 = t1
    N = 1
    MaxPeers = 1
    Local = gw
    Mac = {gw, t1}
    NoMac = NoMac
    Gateway = TRUE
    KeepaliveTimeout = 2
    FifoDepth = 1
    Traffic = {}
    OnAir = TRUE
SPECIFICATION NetFairSpec
PROPERTIES HalfOpenEnds DeadThingDropped
