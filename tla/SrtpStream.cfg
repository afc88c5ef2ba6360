SPECIFICATION Spec

CONSTANTS
    SeqMedian = 2
    RocMax = 2
    WindowSize = 2
    SoftLimit = 2
    InitialLimit = 2
    CounterMax = 3
    Keys = {k1, k2}
    RccMode = 0
    RocTxRate = 1
    Aead = TRUE
    AuthService = TRUE
    AllowRepeatTx = FALSE
    KeepKeys = FALSE
    MaxIndex = 8

SYMMETRY KeySymmetry

INVARIANTS
    TypeOK
    WindowExact
    RecordedIsCipherIndex
    NoFalseReject

PROPERTIES
    IndexRecordedOnce
    IndexMonotone
    WarnedBeforeExpiry
