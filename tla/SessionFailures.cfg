SPECIFICATION Spec
CONSTANTS
    Ssrcs = {a, b}
    a = a
    b = b
    Ids <- MCIds
    InitialSize = 1
    MaxIndex = 1
    MaxStreams = 2
    AddDuplicates = FALSE
    Failures = {"list", "stream", "insert", "clone", "template_init"}
INVARIANTS
    TypeOK
    UniqueSsrc
PROPERTIES
    UpdateKeeps
    Implements
