CONSTANTS
    Tuples <- TwoServers
    MaxFlows = 1
    MaxId = 2
    QCap = 2
    NoSocket = NoSocket
    NoFlow = NoFlow
    NoPeer = NoPeer
SPECIFICATION Spec
INVARIANT CapAnswersRst
