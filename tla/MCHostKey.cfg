SPECIFICATION HookSpec
CONSTANTS
    Host = Host
    G = G
    R = R
    Q = Q
    LShift = LShift
    RShift = RShift
    Fn = Fn
    A = A
    OtherKeys <- TwoShifts
    ModifierKeys <- Shifts
    FunctionKey = RShift
    Watched <- Nothing
    MaxHeld = 3
    MaxCommands = 2
    MaxPresses = 1
    MaxQuestions = 1
INVARIANTS TrackingIsTrue
PROPERTIES OnePressForEachKeyDown ChordsAreNotTyped
