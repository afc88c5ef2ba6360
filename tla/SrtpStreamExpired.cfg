SPECIFICATION Spec
CONSTANTS
    SeqMedian = 2
    RocMax = 2
    WindowSize = 2
    SoftLimit = 2
    InitialLimit = 7
    CounterMax = 9
    Keys = {k1}
    RccMode = 0
    RocTxRate = 1
    Aead = FALSE
    AuthService = TRUE
    AllowRepeatTx = FALSE
    KeepKeys = FALSE
    MaxIndex = 9
PROPERTIES
    ExpiredKeyStaysExpired
