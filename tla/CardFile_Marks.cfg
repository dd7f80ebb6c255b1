SPECIFICATION Spec
CONSTANTS
    NumBlocks = 3
    Data = {0, 1}
    Blank = 0
    HostFails = TRUE
INVARIANTS MarksCoverTheFile
