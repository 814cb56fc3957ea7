CONSTANTS
    MaxUp = 3
    MaxDown = 3
    TxCap = 1
    OutCap = 1
    AppBufCap = 1
SPECIFICATION Spec
INVARIANTS UpstreamExact DownstreamContiguous
PROPERTIES AppDataArrives HalfCloseArrives
