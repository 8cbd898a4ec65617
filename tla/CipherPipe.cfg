CONSTANTS
    PushLimit = 2
    BlockBytes = 8
    Slack = 99
    Message <- MCMessage
    Pieces <- MCPieces
    Key = 17
    Iv <- MCIv
    EncryptBlock <- ToyEncrypt
    DecryptBlock <- ToyDecrypt
SPECIFICATION Spec
INVARIANTS PiecesAreInvisible HangsOnlyOnNothing LagBounded ModesAreStandard
PROPERTY ImplementsPipe
CHECK_DEADLOCK FALSE
