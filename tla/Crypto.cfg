CONSTANTS
    PushLimit = 100
    Compress <- Sha1Compress
    StateBytes <- MCBytes
    InitialState <- Sha1Initial
    EncryptBlock <- AESEncrypt
    DecryptBlock <- AESDecrypt
    Q = 2
    A <- MCA
    Arrays <- MCArrays
    Texts <- MCTexts
    Answers <- MCAnswers
    Blocks <- MCBlocks
    Keys <- MCKeys
    RabbitKeys <- MCRabbitKeys
    RabbitIvs <- MCRabbitIvs
    Counters <- MCCounters
    Derivations <- MCDerivations
    Salts <- MCSalts
SPECIFICATION Spec
INVARIANTS TextSurvives CiphersAreStandard RabbitArithmetic RabbitTurnsTheKey
    KeysAreStandard CiphertextSurvives ScriptsAgree
