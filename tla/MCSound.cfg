SPECIFICATION FairSpec
CONSTANTS
    Chans <- Both
    Table <- Descriptors
    Addresses <- Cells
    Blank <- FirstWords
    MaxCredit = 2
    Unit = 3
    Step <- Rates
    Cushion = 4
    Capacity = 6
    ToneFrames = 1
    Playing = 1
    Copying = 0
    PlayChain = 11
    CopyChain = 13
    PlayRate = "dac"
    Buffers <- TwoBuffers
    CopyFrom = 5
    CopyTo <- Target
    Breaks = 1
    Batches <- OneOrThree
    Asked <- NoneOrOne
    MaxFrames = 2
INVARIANTS CopiesAreWhole
PROPERTIES ImplementsSoundLine RefillsAreSafe BothGoOn
CHECK_DEADLOCK FALSE
