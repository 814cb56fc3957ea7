CONSTANTS
    Apps = {"x"}
    Kinds = {"dropped", "hello", "record"}
    Ops = {"StartPcap", "StopPcap", "ExportHar", "SetLogOpen", "UpdateFirewall"}
    MaxPackets = 2
    MaxCommands = 2
    RingBytes = {4}
    MaxBatch = 2
    LogOpen = {FALSE}
    Faults = {"start", "poll", "panic", "upcall", "write", "file"}
SPECIFICATION Spec
INVARIANTS EventsExact StateOwned CommandsInOrder SecretsFirst
PROPERTIES StopJoins
\* A stopped session stays stopped.
CHECK_DEADLOCK FALSE
