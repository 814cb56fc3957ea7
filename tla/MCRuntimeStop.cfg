CONSTANTS
    Apps = {"x"}
    Kinds = {"dropped", "flow", "hello", "record"}
    Ops = {"StartPcap", "StopPcap", "ExportHar", "SetLogOpen", "UpdateFirewall"}
    MaxPackets = 0
    MaxCommands = 1
    RingBytes = {4}
    MaxBatch = 2
    LogOpen = {FALSE}
    Faults = {}
SPECIFICATION Spec
INVARIANTS DescriptorsClosed
\* A stopped session stays stopped.
CHECK_DEADLOCK FALSE
