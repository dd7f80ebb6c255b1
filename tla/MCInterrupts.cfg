SPECIFICATION FairSpec
CONSTANTS
    Entries = 4
    Modulus = 5
    RtcModulus = 2
    Channels <- MatchRegisters
    Pins <- InputPins
    Stages = 4
    Reply <- OkReply
    Machines <- MachineChoices
    Period = 4
    Command <- AtCommand
    ByteBits = 2
    MaxCount = 3
    Typed <- FedBytes
    MaxTicks = 2
    MaxResets = 1
INVARIANTS HandlerFindsItsSource NoWakeIsLost
PROPERTIES MatchesAreCaught DriversAreServed
CHECK_DEADLOCK FALSE
