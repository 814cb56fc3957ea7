CONSTANTS
    Flows = {f1, f2}
    pairOf <- OnePair
    Known = {f1, f2}
    Kinds = {"dot"}
    MaxFlows = 1
    MaxUnits = 2
    MaxCommands = 0
    HsTimeout = 0
    SniTimeout = 1
SPECIFICATION Spec
PROPERTIES PinnedNotSpliced HandshakeDecided
