SPECIFICATION Spec
CONSTANTS
    SeqMedian = 2
    RocMax = 3
    WindowSize = 2
    SoftLimit = 2
    InitialLimit = 18
    CounterMax = 19
    Keys = {k1}
    RccMode = 2
    RocTxRate = 2
    Aead = FALSE
    AuthService = TRUE
    AllowRepeatTx = FALSE
    KeepKeys = FALSE
    MaxIndex = 9
    LossyBelow = 0
INVARIANTS
    ReceivedWasSent
    CarriedRocSynchronizes
