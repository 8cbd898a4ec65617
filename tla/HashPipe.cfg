CONSTANTS
    PushLimit = 100
    Compress <- ToyCompress
    StateBytes <- ToyBytes
    InitialState <- ToyState
    Message <- MCMessage
    Pieces = {1, 8, 55, 64}
    Fills = {0, 99}
    Algos <- MCAlgos
    Keys <- MCKeys
SPECIFICATION Spec
INVARIANTS HashIsStandard MacIsStandard SlackShows
CHECK_DEADLOCK FALSE
