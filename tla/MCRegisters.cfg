SPECIFICATION SpecBoth
CONSTANTS
    Fast = Fast
    Sp = Sp
    Lr = Lr
    Old = Old
    New = New
    NoMode = NoMode
    Low = {}
    Mid = {Fast}
    Top = {Lr}
    Stack = Lr
    Link = Lr
    Number <- NumbersOfTwo
    Values = {Old, New}
    Modes <- Entered
    Raised = {"fiq"}
    Lists <- Several
    Contents <- Memory
    Bits = 4
    PageSize = 8
    Interrupts = 1
    Regs = {0, 1, 2, 13, 14, 15}
    Trials <- Tried
    Stored <- Scattered
INVARIANTS ThumbIsArm ArithmeticIsTrue ProgramsAreUndisturbed
PROPERTIES ImplementsRegisterFile
CHECK_DEADLOCK FALSE
