SPECIFICATION FairSpec
CONSTANTS
    SeqMedian = 2
    RocMax = 2
    WindowSize = 2
    SoftLimit = 2
    InitialLimit = 9
    CounterMax = 10
    Keys = {k1}
    RccMode = 2
    RocTxRate = 2
    Aead = FALSE
    AuthService = TRUE
    AllowRepeatTx = FALSE
    KeepKeys = FALSE
    MaxIndex = 6
    LossyBelow = 5
PROPERTIES
    CatchesUp
