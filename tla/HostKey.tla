------------------------------ MODULE HostKey ------------------------------
(***************************************************************************)
(* The Windows keyboard hook (app/hostkey.rs): which of the user's keys it *)
(* takes, what it sends the emulator, and the question it asks before it   *)
(* quits.  Four parties act: the person at the keyboard, whose held keys   *)
(* repeat; the hook, called once for each key event; one thread for each   *)
(* question on screen; and the emulator's loop, which hears of all this    *)
(* through two channels, when it gets to them.                             *)
(***************************************************************************)
EXTENDS Naturals, Sequences, FiniteSets

CONSTANTS
    Host, G, R, Q,    \* the host key and the keys of its chords
    OtherKeys,        \* the other keys of the keyboard
    ModifierKeys,     \* a modifier for each of some keys, as modifier_flag
    FunctionKey,      \* the key that stands in for FUNCTION
    Watched,          \* the keys of which it is kept what the host sees
    MaxHeld,          \* bound on the keys held at once
    MaxCommands,      \* bound on the commands waiting in their channel
    MaxPresses,       \* bound on the presses waiting in theirs
    MaxQuestions      \* bound on the questions asked and not answered

Keys == {Host, G, R, Q} \cup OtherKeys
Modifiers == {"shift", "control", "read", "function"}
NoKey == "no key"

ASSUME KeysAssumption ==
    /\ FunctionKey \in OtherKeys
    /\ DOMAIN ModifierKeys \subseteq OtherKeys
    /\ \A k \in DOMAIN ModifierKeys : ModifierKeys[k] \in Modifiers
    /\ NoKey \notin Keys
    /\ Watched \subseteq Keys
    /\ {MaxHeld, MaxCommands, MaxPresses, MaxQuestions} \subseteq Nat

VARIABLES
    down,         \* the keys physically held
    repeating,    \* the one of them that repeats, the last to go down
    focused,      \* one of the emulator's windows is in front
    noted,        \* DOWN
    flags,        \* SHIFT, CONTROL, READ and FUNCTION, those that are set
    hostDown,     \* HOST_DOWN
    captured,     \* CAPTURED
    dialogUp,     \* DIALOG_UP
    asking,       \* threads of ask_before_quitting that have not begun
    boxes,        \* those with their question on screen
    commands,     \* the channel of commands
    presses,      \* the channel of key presses
    announced,    \* what the emulator last said of the capture
    hostSees,     \* history: the keys the rest of the host believes held
    chorded       \* history: held keys that went down under the host key

person == <<down, repeating, focused>>
hookVars == <<noted, flags, hostDown, captured, hostSees, chorded>>
channels == <<commands, presses, announced>>
questions == <<dialogUp, asking, boxes>>
hostKeyVars == <<person, hookVars, channels, questions>>

Press == [key : Keys, mods : SUBSET Modifiers]
Capture(on) == [command |-> "capture", on |-> on]
Commands == {Capture(TRUE), Capture(FALSE), [command |-> "reset"], [command |-> "quit"]}

HookTypeOK ==
    /\ down \subseteq Keys
    /\ repeating \in Keys \cup {NoKey}
    /\ focused \in BOOLEAN
    /\ noted \subseteq Keys
    /\ flags \subseteq Modifiers
    /\ hostDown \in BOOLEAN
    /\ captured \in BOOLEAN
    /\ dialogUp \in BOOLEAN
    /\ asking \in 0 .. MaxQuestions
    /\ boxes \in 0 .. MaxQuestions
    /\ commands \in Seq(Commands)
    /\ presses \in Seq(Press)
    /\ announced \in BOOLEAN
    /\ hostSees \subseteq Watched
    /\ chorded \subseteq Keys

HookInit ==
    /\ down = {}
    /\ repeating = NoKey
    /\ focused = FALSE
    /\ noted = {}
    /\ flags = {}
    /\ hostDown = FALSE
    /\ captured = FALSE
    /\ dialogUp = FALSE
    /\ asking = 0
    /\ boxes = 0
    /\ commands = << >>
    /\ presses = << >>
    /\ announced = FALSE
    /\ hostSees = {}
    /\ chorded = {}

-----------------------------------------------------------------------------
(* The hook. *)

(* The modifier a key is, if it is one; the chosen FUNCTION key wins. *)
ModifierOf(k) ==
    IF k = FunctionKey THEN {"function"}
    ELSE IF k \in DOMAIN ModifierKeys THEN {ModifierKeys[k]} ELSE {}

(* Whether this takes keys at all: our window in front, no question up. *)
Ours == focused /\ ~dialogUp

(* decide: what becomes of a key event, given whether the host key is down. *)
Decide(k, isDown, host) ==
    IF ~Ours THEN "pass"
    ELSE IF k = Host THEN "swallow"
    ELSE IF host THEN IF isDown /\ k \in {G, R, Q} THEN "run" ELSE "swallow"
    ELSE IF ~captured THEN "pass"
    ELSE IF isDown /\ ModifierOf(k) = {} THEN "send" ELSE "swallow"

(* Mutants of Track: only what may be taken is tracked; a key is not noted *)
(* while the host key is down.                                             *)
TrackOurs(k, isDown) ==
    IF Ours
    THEN /\ noted' = IF isDown THEN noted \cup {k} ELSE noted \ {k}
         /\ flags' = IF isDown THEN flags \cup ModifierOf(k) ELSE flags \ ModifierOf(k)
         /\ hostDown' = IF k = Host THEN isDown ELSE hostDown
    ELSE UNCHANGED <<noted, flags, hostDown>>

TrackOutsideChords(k, isDown) ==
    /\ noted' = IF isDown /\ ~hostDown THEN noted \cup {k} ELSE noted \ {k}
    /\ flags' = IF isDown THEN flags \cup ModifierOf(k) ELSE flags \ ModifierOf(k)
    /\ hostDown' = IF k = Host THEN isDown ELSE hostDown

(* What the hook has tracked of the event, whoever the key goes to. *)
Track(k, isDown) ==
    /\ noted' = IF isDown THEN noted \cup {k} ELSE noted \ {k}
    /\ flags' = IF isDown THEN flags \cup ModifierOf(k) ELSE flags \ ModifierOf(k)
    /\ hostDown' = IF k = Host THEN isDown ELSE hostDown

(* Mutant of Fresh: every event is news. *)
AlwaysFresh(k, isDown) == TRUE

Fresh(k, isDown) == (k \in noted) # isDown

Tell(command) ==
    /\ Len(commands) < MaxCommands
    /\ commands' = Append(commands, command)

(* A chord of the host key.  The capture changes here and now. *)
Run(k) ==
    \/ /\ k = G
       /\ captured' = ~captured
       /\ Tell(Capture(~captured))
       /\ UNCHANGED questions
    \/ /\ k = R
       /\ Tell([command |-> "reset"])
       /\ UNCHANGED <<captured, questions>>
    \/ /\ k = Q
       /\ asking + boxes < MaxQuestions
       /\ asking' = asking + 1
       /\ UNCHANGED <<captured, commands, dialogUp, boxes>>

(* A key goes to the machine with the modifiers held, unless it repeats. *)
Send(k, isDown) ==
    IF Fresh(k, isDown)
    THEN /\ Len(presses) < MaxPresses
         /\ presses' = Append(presses, [key |-> k, mods |-> flags'])
    ELSE UNCHANGED presses

(* What the rest of the host sees of an event that is passed on. *)
PassOn(k, isDown) ==
    hostSees' = IF isDown THEN hostSees \cup ({k} \cap Watched) ELSE hostSees \ {k}

Hook(k, isDown) ==
    /\ Track(k, isDown)
    /\ LET verdict == Decide(k, isDown, hostDown')
       IN  /\ IF verdict = "run" THEN Run(k)
                                 ELSE UNCHANGED <<captured, commands, questions>>
           /\ IF verdict = "send" THEN Send(k, isDown) ELSE UNCHANGED presses
           /\ IF verdict = "pass" THEN PassOn(k, isDown) ELSE UNCHANGED hostSees
    /\ chorded' = IF ~isDown THEN chorded \ {k}
                  ELSE IF hostDown' /\ k \notin down THEN chorded \cup {k} ELSE chorded
    /\ UNCHANGED <<focused, announced>>

-----------------------------------------------------------------------------
(* The person. *)

KeyDown(k) ==
    /\ k \notin down
    /\ Cardinality(down) < MaxHeld
    /\ down' = down \cup {k}
    /\ repeating' = k
    /\ Hook(k, TRUE)

(* Windows sends a held key again as another key-down event. *)
KeyRepeats ==
    /\ repeating # NoKey
    /\ Hook(repeating, TRUE)
    /\ UNCHANGED <<down, repeating>>

KeyUp(k) ==
    /\ k \in down
    /\ down' = down \ {k}
    /\ repeating' = IF repeating = k THEN NoKey ELSE repeating
    /\ Hook(k, FALSE)

ChangeWindow ==
    /\ focused' = ~focused
    /\ UNCHANGED <<down, repeating, hookVars, channels, questions>>

-----------------------------------------------------------------------------
(* The threads of ask_before_quitting. *)

NotAnEvent == UNCHANGED <<person, hookVars>>

Ask ==
    /\ asking > 0
    /\ asking' = asking - 1
    /\ boxes' = boxes + 1
    /\ dialogUp' = TRUE
    /\ NotAnEvent
    /\ UNCHANGED channels

Answered ==
    /\ boxes > 0
    /\ boxes' = boxes - 1
    /\ dialogUp' = FALSE
    /\ NotAnEvent
    /\ UNCHANGED <<asking, presses, announced>>

AnswerYes == Answered /\ Tell([command |-> "quit"])

AnswerNo == Answered /\ UNCHANGED commands

-----------------------------------------------------------------------------
(* The emulator's loop, where it hears of the keyboard. *)

HearCommand ==
    /\ commands # << >>
    /\ commands' = Tail(commands)
    /\ announced' = IF Head(commands).command = "capture"
                    THEN Head(commands).on ELSE announced
    /\ NotAnEvent
    /\ UNCHANGED <<presses, questions>>

TakePress ==
    /\ presses # << >>
    /\ presses' = Tail(presses)
    /\ NotAnEvent
    /\ UNCHANGED <<commands, announced, questions>>

-----------------------------------------------------------------------------
HookNext ==
    \/ \E k \in Keys : KeyDown(k)
    \/ KeyRepeats
    \/ \E k \in Keys : KeyUp(k)
    \/ ChangeWindow
    \/ Ask
    \/ AnswerYes
    \/ AnswerNo
    \/ HearCommand
    \/ TakePress

HookSpec == HookInit /\ [][HookNext]_hostKeyVars

-----------------------------------------------------------------------------
(* What the hook has tracked is what is held: the keys, the host key, and  *)
(* the keys that make up each modifier that is set (hostkey.rs, hook).     *)
TrackingIsTrue ==
    /\ noted = down
    /\ hostDown = (Host \in down)
    /\ \A m \in flags : \E k \in down : m \in ModifierOf(k)

(* Once it has heard every command, the emulator has said what the capture *)
(* is: the last word on it, said or still to be heard, is the truth.       *)
SayingIsTrue ==
    LET said == SelectSeq(commands, LAMBDA c : c.command = "capture")
    IN  captured = IF said = << >> THEN announced ELSE said[Len(said)].on

(* A key held down is one press, however often it repeats, and whatever    *)
(* happens to the capture, the window or the host key while it is held.    *)
OnePressForEachKeyDown ==
    [][Len(presses') > Len(presses) => down' # down]_hostKeyVars

(* No key that went down under the host key is typed by being held longer  *)
(* than it ("a host chord that also reached the guest would type into the  *)
(* document it was quitting", window.rs).                                  *)
ChordsAreNotTyped ==
    [][\A k \in chorded : Len(presses') > Len(presses) => presses'[Len(presses')].key # k]_hostKeyVars

(* hostkey.rs on the question before quitting: "while one is up this takes *)
(* nothing at all": the host sees each key go down, and come up.           *)
QuestionsCanBeAnswered ==
    [][boxes > 0 => /\ down' \ down \subseteq hostSees'
                    /\ (down \ down') \cap hostSees' = {}]_hostKeyVars

(* hostkey.rs: "Released, no key reaches the machine and the host has its  *)
(* keyboard back".  With the capture released and every key up, the host   *)
(* holds none of the ordinary keys to be still down.                       *)
HostHasItsKeyboard ==
    ~captured /\ down = {} => hostSees \cap OtherKeys = {}
=============================================================================
