SPECIFICATION Spec
CONSTANTS
    Ssrcs = {a, b}
    a = a
    b = b
    Ids <- MCIds
    InitialSize = 1
    MaxIndex = 1
    MaxStreams = 2
    AddDuplicates = TRUE
    Failures = {"stream", "insert", "clone"}
INVARIANTS
    NoLeak
    NoFault
    SharedWithTemplateOnly
