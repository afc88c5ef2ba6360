SPECIFICATION Spec
CONSTANTS
    RdbBits = 3
    RtcpMax = 7
INVARIANTS
    RdbExact
    RefusedForCause
PROPERTIES
    RtcpIndexOnce
