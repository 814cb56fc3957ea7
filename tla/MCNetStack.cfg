CONSTANTS
    Tuples <- Mixed
    MaxFlows = 2
    MaxId = 3
    QCap = 1
    NoSocket = NoSocket
    NoFlow = NoFlow
    NoPeer = NoPeer
SPECIFICATION Spec
INVARIANT TablesAgree
PROPERTY IdsNeverReused
