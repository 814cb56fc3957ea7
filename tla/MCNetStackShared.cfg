CONSTANTS
    Tuples <- OneServer
    MaxFlows = 3
    MaxId = 3
    QCap = 2
    NoSocket = NoSocket
    NoFlow = NoFlow
    NoPeer = NoPeer
SPECIFICATION Spec
INVARIANT FlowCarriesItsTuple
