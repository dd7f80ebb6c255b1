\* Three blocks and two values: enough for two runs of blocks in one flush,
\* and for a run to fail in its middle.
SPECIFICATION FairSpec
CONSTANTS
    NumBlocks = 3
    Data = {0, 1}
    Blank = 0
    HostFails = TRUE
INVARIANTS AccountedFor
PROPERTIES WritesGetSaved ImplementsDurableCard
