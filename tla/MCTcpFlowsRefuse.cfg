CONSTANTS
    Flows = {f1}
    pairOf <- OnePair
    Known = {f1}
    Kinds = {"dot"}
    MaxFlows = 1
    MaxUnits = 1
    MaxCommands = 1
    HsTimeout = 0
    SniTimeout = 1
SPECIFICATION Spec
INVARIANTS RefusalAnswered
