SPECIFICATION FairSpec
CONSTANTS
    NumSectors = 1
    SectorCells = 2
    Data = {d0, d1}
    Blank = d0
    Junk = Junk
    Reg = Reg
    Tds = {1, 2, 3, 4, 5, 6, 7, 8}
    ControlTds = {1, 2, 3, 4}
    Null = 0
    NoSetup = NoSetup
    NoReply = NoReply
    MaxTds = 2
    CommandSet <- SomeCommands
    RequestSet <- SomeRequests
    SendsReset = TRUE
    MaxStarted = 2
    MaxResets = 1
INVARIANTS QueuesAreWhole RequestsAreAnswered
PROPERTIES DataIsRight WorkFinishes

\* The drivers stop when they have made all their requests, and a completion
\* lost to them (CompletionsAreTold) leaves them waiting.
CHECK_DEADLOCK FALSE
