----------------------------- MODULE KeyPlayer -----------------------------
(***************************************************************************)
(* How a keystroke gets from the user to the guest (the run loop of        *)
(* app/main.rs, gandalf/keyboard.rs, the key-down line of pxa270/gpio.rs). *)
(* Presses wait in a channel; the run loop plays one at a time into the    *)
(* key matrix, as a hand would: the modifiers, then the key, then the key  *)
(* up, then the modifiers.  Each stage waits until the guest has looked at *)
(* the columns concerned, with a time to fall back on.                     *)
(*                                                                         *)
(* The guest's scanner, which is not part of the emulator, sweeps the      *)
(* columns in order when the key-down line has moved, and may go on        *)
(* sweeping.  The user's commands come between any two steps of the loop.  *)
(***************************************************************************)
EXTENDS Naturals, Sequences

CONSTANTS
    Keyboard,     \* the keys of the matrix
    Columns,      \* how many columns it has
    Column,       \* the hardware column of each key
    Presses,      \* the keystrokes the user makes
    NoPress,
    Script,       \* those --type has queued beforehand
    KeysFrom,     \* those a --keys-from file may hold
    MaxQueue,     \* bound on the presses waiting, --type's apart
    MaxCommands   \* bound on the commands waiting in their channel

ASSUME KeyboardAssumption ==
    /\ Columns \in Nat
    /\ Column \in [Keyboard -> 0 .. Columns - 1]
ASSUME PressesAssumption ==
    /\ \A p \in Presses : p.mods \subseteq Keyboard /\ p.key \notin p.mods
    /\ NoPress \notin Presses
    /\ Script \in Seq(Presses)
    /\ KeysFrom \subseteq Presses
ASSUME BoundsAssumption == {MaxQueue, MaxCommands} \subseteq Nat

VARIABLES
    matrix,       \* Keyboard.columns: the keys down
    line,         \* the key-down GPIO, which is low while a key is down
    edge,         \* its edge latch, which the guest clears
    held,         \* the keystroke being played
    stage,
    seen,         \* scans since baselines, of the keys it names; 2 is enough
    expired,      \* release_at has passed
    live,
    typing,
    typingDue,    \* typing_at has passed
    channel,      \* key_tx to key_rx
    captured,     \* CAPTURED
    commands,     \* command_tx to command_rx
    mode,         \* "running", "asleep" or "ended"
    sweep,        \* the column the guest's scanner reads next
    believed,     \* the keys it has last found down
    forced        \* history: the time ran out in this keystroke

player == <<held, stage, seen, expired, forced>>
queues == <<live, typing, channel>>
pins == <<line, edge>>
guest == <<sweep, believed>>
user == <<captured, commands, mode, typingDue>>
vars == <<matrix, pins, player, queues, user, guest>>

Commands == {"capture", "release", "reset", "quit"}
Stages == {"Mods", "All", "LetGo"}

TypeOK ==
    /\ matrix \subseteq Keyboard
    /\ line \in BOOLEAN
    /\ edge \in BOOLEAN
    /\ held \in Presses \cup {NoPress}
    /\ stage \in Stages
    /\ DOMAIN seen \subseteq Keyboard
    /\ \A k \in DOMAIN seen : seen[k] \in 0 .. 2
    /\ expired \in BOOLEAN
    /\ live \in Seq(Presses)
    /\ typing \in Seq(Presses)
    /\ typingDue \in BOOLEAN
    /\ channel \in Seq(Presses)
    /\ captured \in BOOLEAN
    /\ commands \in Seq(Commands)
    /\ mode \in {"running", "asleep", "ended"}
    /\ sweep \in 0 .. Columns
    /\ believed \subseteq Keyboard
    /\ forced \in BOOLEAN

Unscanned(keys) == [k \in keys |-> 0]

Init ==
    /\ matrix = {}
    /\ line = TRUE
    /\ edge = FALSE
    /\ held = NoPress
    /\ stage = "Mods"
    /\ seen = Unscanned({})
    /\ expired = FALSE
    /\ live = << >>
    /\ typing = Script
    /\ typingDue = FALSE
    /\ channel = << >>
    /\ captured = FALSE
    /\ commands = << >>
    /\ mode = "running"
    /\ sweep = Columns
    /\ believed = {}
    /\ forced = FALSE

-----------------------------------------------------------------------------
(* The key-down line.  The guest arms both edges. *)

DriveLine(level) ==
    /\ line' = level
    /\ edge' = (edge \/ line # level)

(* Up and down again, so that a line that was low already has its edge. *)
PulseLine ==
    /\ line' = FALSE
    /\ edge' = TRUE

-----------------------------------------------------------------------------
(* The player. *)

Want == IF stage = "All" THEN 2 ELSE 1

SeenEnough ==
    /\ DOMAIN seen # {}
    /\ \A k \in DOMAIN seen : seen[k] >= Want

(* Mutant of MayMoveOn: no time to fall back on. *)
OnlyWhenSeen == SeenEnough

MayMoveOn == SeenEnough \/ expired

(* Mutant of Waiting: the baselines of the stage before are kept. *)
WaitingOnOldBaselines(keys) ==
    /\ expired' = FALSE
    /\ forced' = (forced \/ ~SeenEnough)
    /\ UNCHANGED seen

Waiting(keys) ==
    /\ seen' = Unscanned(keys)
    /\ expired' = FALSE
    /\ forced' = (forced \/ ~SeenEnough)

Dropped ==
    /\ held' = NoPress
    /\ UNCHANGED <<seen, expired, forced>>

(* The guest has seen the modifiers: the key joins them, if there is one. *)
PlayKey ==
    /\ held # NoPress
    /\ stage = "Mods"
    /\ MayMoveOn
    /\ \/ /\ held.key \in Keyboard
          /\ matrix' = matrix \cup {held.key}
          /\ PulseLine
          /\ Waiting({held.key})
          /\ stage' = "All"
          /\ UNCHANGED held
       \/ /\ held.key \notin Keyboard
          /\ matrix' = matrix \ held.mods
          /\ DriveLine(TRUE)
          /\ Dropped
          /\ UNCHANGED stage

(* The key comes up.  Its modifiers stay down for a time, if it had any. *)
LiftKey ==
    /\ held # NoPress
    /\ stage = "All"
    /\ MayMoveOn
    /\ matrix' = matrix \ {held.key}
    /\ \/ /\ held.mods = {}
          /\ DriveLine(TRUE)
          /\ Dropped
          /\ stage' = "Mods"
       \/ /\ held.mods # {}
          /\ PulseLine
          /\ Waiting({})
          /\ stage' = "LetGo"
          /\ UNCHANGED held

LiftMods ==
    /\ held # NoPress
    /\ stage = "LetGo"
    /\ MayMoveOn
    /\ matrix' = matrix \ held.mods
    /\ DriveLine(TRUE)
    /\ Dropped
    /\ stage' = "Mods"

(* Mutant of StartPress: the whole chord goes down together. *)
StartWhole(p) ==
    /\ stage' = "All"
    /\ LET keys == (p.mods \cup {p.key}) \cap Keyboard
       IN  /\ matrix' = matrix \cup keys
           /\ seen' = Unscanned(keys)
           /\ IF keys = {}
              THEN UNCHANGED <<pins, held, expired, forced>>
              ELSE /\ DriveLine(FALSE)
                   /\ held' = p
                   /\ expired' = FALSE
                   /\ forced' = FALSE

(* A keystroke starts: its modifiers alone go down, or the key that has none. *)
StartPress(p) ==
    /\ stage' = IF p.mods = {} THEN "All" ELSE "Mods"
    /\ LET keys == IF p.mods = {} THEN {p.key} \cap Keyboard ELSE p.mods
       IN  /\ matrix' = matrix \cup keys
           /\ seen' = Unscanned(keys)
           /\ IF keys = {}
              THEN UNCHANGED <<pins, held, expired, forced>>
              ELSE /\ DriveLine(FALSE)
                   /\ held' = p
                   /\ expired' = FALSE
                   /\ forced' = FALSE

(* Nothing is held: the channel is emptied, and the next press is taken,   *)
(* a live one before a scripted one.                                       *)
TakeNext ==
    /\ held = NoPress
    /\ channel' = << >>
    /\ LET all == live \o channel
       IN  \/ /\ all # << >>
              /\ live' = Tail(all)
              /\ StartPress(Head(all))
              /\ UNCHANGED typing
           \/ /\ all = << >>
              /\ typingDue
              /\ typing # << >>
              /\ live' = all
              /\ typing' = Tail(typing)
              /\ StartPress(Head(typing))

Play ==
    /\ mode = "running"
    /\ \/ /\ PlayKey \/ LiftKey \/ LiftMods
          /\ UNCHANGED queues
       \/ TakeNext
    /\ UNCHANGED <<user, guest>>

-----------------------------------------------------------------------------
(* Time. *)

TimePasses ==
    /\ mode = "running"
    /\ held # NoPress
    /\ ~expired
    /\ expired' = TRUE
    /\ UNCHANGED <<matrix, pins, held, stage, seen, forced, queues, user, guest>>

TypingFallsDue ==
    /\ mode = "running"
    /\ typing # << >>
    /\ typingDue' = TRUE
    /\ UNCHANGED <<matrix, pins, player, queues, captured, commands, mode, guest>>

-----------------------------------------------------------------------------
(* The user, through the hook, and a script, through a file. *)

Press(p) ==
    /\ captured
    /\ mode # "ended"
    /\ Len(live \o channel) < MaxQueue
    /\ channel' = Append(channel, p)
    /\ UNCHANGED <<matrix, pins, player, live, typing, user, guest>>

ReadKeysFrom(p) ==
    /\ mode = "running"
    /\ Len(live \o channel) < MaxQueue
    /\ live' = Append(live, p)
    /\ UNCHANGED <<matrix, pins, player, typing, channel, user, guest>>

Ask(command) ==
    /\ mode # "ended"
    /\ Len(commands) < MaxCommands
    /\ commands' = Append(commands, command)
    /\ captured' = IF command \in {"capture", "release"} THEN command = "capture" ELSE captured
    /\ command \in {"capture", "release"} => captured' # captured
    /\ UNCHANGED <<matrix, pins, player, queues, mode, typingDue, guest>>

(* Mutant of ReleaseAll: the keystroke is forgotten, its keys left down. *)
ForgetHeld ==
    /\ held' = NoPress
    /\ UNCHANGED <<matrix, pins, stage, seen, expired, forced>>

(* release_all, with the keystroke forgotten and the line left as it is. *)
ReleaseAll ==
    /\ matrix' = {}
    /\ held' = NoPress
    /\ UNCHANGED <<pins, stage, seen, expired, forced>>

HearCapture ==
    /\ Head(commands) = "capture"
    /\ UNCHANGED <<matrix, pins, player, mode, guest>>

HearRelease ==
    /\ Head(commands) = "release"
    /\ ReleaseAll
    /\ UNCHANGED <<mode, guest>>

(* restart: the guest starts over; the pins and the queues do not. *)
HearReset ==
    /\ Head(commands) = "reset"
    /\ ReleaseAll
    /\ mode' = "running"
    /\ sweep' = Columns
    /\ believed' = {}

HearQuit ==
    /\ Head(commands) = "quit"
    /\ mode' = "ended"
    /\ UNCHANGED <<matrix, pins, player, guest>>

HearCommand ==
    /\ mode # "ended"
    /\ commands # << >>
    /\ commands' = Tail(commands)
    /\ HearCapture \/ HearRelease \/ HearReset \/ HearQuit
    /\ UNCHANGED <<queues, captured, typingDue>>

-----------------------------------------------------------------------------
(* The guest's scanner. *)

(* A read of the scan register.  Only a column with a key down is counted. *)
ReadRows ==
    LET rows == {k \in matrix : Column[k] = sweep}
    IN  /\ believed' = {k \in believed : Column[k] # sweep} \cup rows
        /\ seen' = [k \in DOMAIN seen |->
                       IF rows # {} /\ Column[k] = sweep /\ seen[k] < 2
                       THEN seen[k] + 1 ELSE seen[k]]

Scan ==
    /\ mode = "running"
    /\ sweep < Columns
    /\ ReadRows
    /\ sweep' = sweep + 1
    /\ UNCHANGED <<matrix, pins, held, stage, expired, forced, queues, user>>

StartSweep ==
    /\ mode = "running"
    /\ sweep = Columns
    /\ edge \/ believed # {}
    /\ sweep' = 0
    /\ edge' = FALSE
    /\ UNCHANGED <<matrix, line, player, queues, user, believed>>

FallAsleep ==
    /\ mode = "running"
    /\ mode' = "asleep"
    /\ UNCHANGED <<matrix, pins, player, queues, captured, commands, typingDue, guest>>

-----------------------------------------------------------------------------
Next ==
    \/ Play
    \/ TimePasses
    \/ TypingFallsDue
    \/ \E p \in Presses : Press(p)
    \/ \E p \in KeysFrom : ReadKeysFrom(p)
    \/ \E c \in Commands : Ask(c)
    \/ HearCommand
    \/ Scan
    \/ StartSweep
    \/ FallAsleep

Spec == Init /\ [][Next]_vars

(* The run loop comes round to its player and its commands again and       *)
(* again, and guest time passes while it runs.                             *)
Fairness ==
    /\ WF_vars(Play)
    /\ WF_vars(TimePasses)
    /\ WF_vars(HearCommand)

FairSpec == Spec /\ Fairness

-----------------------------------------------------------------------------
(* What of a keystroke is down in each stage of it. *)
DownIn(p, s) ==
    CASE s = "Mods" -> p.mods
      [] s = "All" -> p.mods \cup {p.key}
      [] s = "LetGo" -> p.mods

(* The matrix holds the keys of the keystroke being played and no others,  *)
(* whatever was released, reset or unknown before it: no key is left down  *)
(* ("the keyboard would come back with keys still held", gandalf/lib.rs).  *)
MatrixIsHeld == matrix = IF held = NoPress THEN {} ELSE DownIn(held, stage)

(* Unless the time runs out, the guest finds the key of a chord down only  *)
(* once it has found its modifiers down, and they are down still: the      *)
(* letter never arrives first (main.rs, on READ with D).                   *)
ChordsArriveInOrder ==
    [][held # NoPress /\ ~forced /\ held.key \in believed' \ believed
          => held.mods \subseteq believed']_vars

(* Unless the time runs out, a key is not lifted before the guest has      *)
(* found it down (main.rs: "held until the guest's scanner has actually    *)
(* looked at it").                                                         *)
LiftedOnceSeen ==
    [][LiftKey /\ ~expired => held.key \in believed]_vars

(* A key that goes down is one the scanner will be told of: the latch is   *)
(* set.  Not so for the first key after a release_all has left the line    *)
(* low with nothing down.                                                  *)
NewKeysAreTold ==
    [][matrix' \ matrix # {} /\ (line \/ matrix # {}) => edge']_vars

(* What the user has typed is played to its end, unless the machine is     *)
(* asleep or the emulator has ended: no keystroke holds up the queue.      *)
KeysArePlayed ==
    [](channel # << >> => <>(channel = << >> \/ mode # "running"))

(* keyboard.rs on the line: "GPIO the board pulls low while any key is     *)
(* down".                                                                  *)
LineFollowsMatrix == line = (matrix = {})

=============================================================================
