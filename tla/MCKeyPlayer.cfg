SPECIFICATION FairSpec
CONSTANTS
    Shift = Shift
    Read = Read
    Letter = Letter
    Unknown = Unknown
    Keyboard <- Keys
    Columns = 2
    Column <- ColumnOf
    Presses <- Strokes
    NoPress = NoPress
    Script <- Typed
    KeysFrom <- Letters
    MaxQueue = 1
    MaxCommands = 1
INVARIANTS MatrixIsHeld
PROPERTIES ChordsArriveInOrder LiftedOnceSeen KeysArePlayed
CHECK_DEADLOCK FALSE
