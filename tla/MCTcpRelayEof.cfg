CONSTANTS
    MaxUp = 2
    MaxDown = 2
    TxCap = 1
    OutCap = 1
    AppBufCap = 0
SPECIFICATION Spec
INVARIANTS EofMeansAll NothingDropped AppDataSent
