SPECIFICATION Spec
CONSTANTS
    Size = 4
    Bits <- TwoBits
    BlockOf <- Halved
    Image <- Booted
    Jobs <- FlashJobs
    FlashResets = 2
    Sectors = 3
    Halves <- HalfWords
    Counts = 4
    Requests <- CardRequests
    CardResets = 2
    Response <- Answers
    Others <- Nobody
    BusBreaks = 2
    ByteBits = 2
    Rom <- Identification
    Memory <- SerialNumber
    Wrap = 512
    LongestZero = 9
    Slow <- SlowZeros
    LineBreaks = 3
    Used <- AllDevices
INVARIANTS FailuresAreTold RequestsAreServed AnswersAreToTheQuestion ReadsAreOfThePart
PROPERTIES FlashIsNor
