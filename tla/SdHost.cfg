\* A card of two blocks of two words, with two resets of the machine anywhere:
\* a reset inside a multi-block transfer, and another inside the bring-up that
\* follows it.
SPECIFICATION FairSpec
CONSTANTS
    NumBlocks = 2
    BlockWords = 2
    Data = {0, 1}
    Blank = 0
    RegWord = RegWord
    Floating = Floating
    ScrWords = 2
    SsrWords = 3
    MaxPending = 12
    HostAddress = 2
    MaxResets = 2
INVARIANTS ReadsAreRight
PROPERTIES WritesAreWhole RequestsFinish
