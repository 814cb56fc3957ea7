CONSTANTS
    Flows = {f1}
    pairOf <- OnePair
    Known = {f1}
    Kinds = {"http", "https", "dot"}
    MaxFlows = 1
    MaxUnits = 2
    MaxCommands = 1
    HsTimeout = 0
    SniTimeout = 1
SPECIFICATION Spec
INVARIANTS NoOrphans NoUnfilteredDns PendingHoldsBack TunnelFirst HalfCloseDrained
PROPERTY PendingDecided
