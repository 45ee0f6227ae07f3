CONSTANTS
    gw = gw
    t1 = t1
    t2 = t2
    N = 2
    MaxPeers = 2
    Local = gw
    Mac = {gw, t1}
    NoMac = NoMac
    Gateway = TRUE
    KeepaliveTimeout = 2
    FifoDepth = 1
    Traffic = {"data", "ka_rsp", "disconnect"}
    OnAir = FALSE
SPECIFICATION FairSpec
INVARIANTS CountMatches OneSlotPerDevice NoPipeLeaked
PROPERTIES SilentPeerDropped MgmtRevisited MessageServed LossHandled
