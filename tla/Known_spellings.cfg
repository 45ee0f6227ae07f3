\* Two devices for two slots, every address in two spellings.
SPECIFICATION Spec
CONSTANTS
    d1 = d1
    d2 = d2
    d3 = d3
    Device = {d1, d2}
    NoDevice = NoDevice
    Broken = Broken
    None = None
    MaxPeers = 2
    Spelling = {"lower", "upper"}
    MaxEntries = 3
INVARIANTS NothingStaysSaved
