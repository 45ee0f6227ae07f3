CONSTANTS
    gw = gw
    t1 = t1
    t2 = t2
    N = 2
    MaxPeers = 2
    Local = gw
    Mac = {gw, t1, t2}
    NoMac = NoMac
    Gateway = TRUE
    KeepaliveTimeout = 2
    FifoDepth = 1
    Traffic = {}
    OnAir = FALSE
SPECIFICATION Spec
INVARIANT OnePeerPerPipe
