CONSTANTS
    Flows = {f1}
    pairOf <- OnePair
    Known = {f1}
    Kinds = {"dot"}
    MaxFlows = 1
    MaxUnits = 2
    MaxCommands = 0
    HsTimeout = 0
    SniTimeout = 1
SPECIFICATION SpecFairApps
PROPERTIES SpliceTornDown
