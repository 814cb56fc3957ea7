CONSTANTS
    MaxUp = 0
    MaxDown = 2
    TxCap = 1
    OutCap = 1
    AppBufCap = 1
SPECIFICATION Spec
PROPERTIES ServerDataArrives
