-------------------------- MODULE KeyPlayerProofs --------------------------
(***************************************************************************)
(* What holds of the player of keystrokes for any keyboard, any chords and *)
(* any number of them: types, that the matrix holds the keys of the        *)
(* keystroke being played and no others, and that, unless the time ran     *)
(* out, the key of a chord is never found down before its modifiers, and   *)
(* no key is lifted before it is found.                                    *)
(***************************************************************************)
EXTENDS KeyPlayer, SequenceTheorems, TLAPS

(* What starting a keystroke does to the types of the player's variables. *)
LEMMA StartPressType ==
  ASSUME TypeOK, NEW p \in Presses, StartPress(p)
  PROVE  /\ matrix' \subseteq Keyboard
         /\ line' \in BOOLEAN
         /\ edge' \in BOOLEAN
         /\ held' \in Presses \cup {NoPress}
         /\ stage' \in Stages
         /\ DOMAIN seen' \subseteq Keyboard
         /\ \A k \in DOMAIN seen' : seen'[k] \in 0 .. 2
         /\ expired' \in BOOLEAN
         /\ forced' \in BOOLEAN
<1> DEFINE keys == IF p.mods = {} THEN {p.key} \cap Keyboard ELSE p.mods
<1>1. keys \subseteq Keyboard
  BY PressesAssumption
<1>2. line' \in BOOLEAN /\ edge' \in BOOLEAN
  BY DEF StartPress, DriveLine, TypeOK, pins
<1>3. seen' = [k \in keys |-> 0] /\ matrix' = matrix \cup keys
  BY DEF StartPress, Unscanned
<1>4. held' \in {p, held} /\ expired' \in {FALSE, expired} /\ forced' \in {FALSE, forced}
  BY DEF StartPress
<1>5. stage' \in Stages
  BY DEF StartPress, Stages
<1> HIDE DEF keys
<1>6. DOMAIN seen' = keys /\ \A k \in keys : seen'[k] = 0
  BY <1>3
<1>7. DOMAIN seen' \subseteq Keyboard /\ \A k \in DOMAIN seen' : seen'[k] \in 0 .. 2
  BY <1>1, <1>6
<1>8. matrix' \subseteq Keyboard
  BY <1>1, <1>3 DEF TypeOK
<1>9. held' \in Presses \cup {NoPress} /\ expired' \in BOOLEAN /\ forced' \in BOOLEAN
  BY <1>4 DEF TypeOK
<1>10. QED
  BY <1>2, <1>5, <1>7, <1>8, <1>9

(* The queues, when the next keystroke is taken. *)
LEMMA TakeNextType ==
  ASSUME TypeOK, TakeNext
  PROVE  /\ live' \in Seq(Presses)
         /\ typing' \in Seq(Presses)
         /\ channel' \in Seq(Presses)
         /\ \E p \in Presses : StartPress(p)
<1> DEFINE all == live \o channel
<1>1. all \in Seq(Presses)
  BY ConcatProperties DEF TypeOK
<1>2. CASE all # << >> /\ live' = Tail(all) /\ StartPress(Head(all)) /\ UNCHANGED typing
  <2>1. Head(all) \in Presses /\ Tail(all) \in Seq(Presses)
    BY <1>1, <1>2, HeadTailProperties
  <2>2. QED
    BY <1>2, <2>1 DEF TakeNext, TypeOK
<1>3. CASE typing # << >> /\ live' = all /\ typing' = Tail(typing) /\ StartPress(Head(typing))
  <2>1. Head(typing) \in Presses /\ Tail(typing) \in Seq(Presses)
    BY <1>3, HeadTailProperties DEF TypeOK
  <2>2. QED
    BY <1>1, <1>3, <2>1 DEF TakeNext, TypeOK
<1>4. QED
  BY <1>2, <1>3 DEF TakeNext

(* A step of the player keeps every type. *)
LEMMA PlayType == ASSUME TypeOK, Play PROVE TypeOK'
<1>a. UNCHANGED <<captured, commands, mode, typingDue, sweep, believed>>
  BY DEF Play, user, guest
<1>b. held # NoPress => held.mods \subseteq Keyboard
  BY PressesAssumption DEF TypeOK
<1>1. CASE PlayKey /\ UNCHANGED queues
  <2>1. matrix' \subseteq Keyboard /\ line' \in BOOLEAN /\ edge' \in BOOLEAN
    BY <1>1, <1>b DEF TypeOK, PlayKey, PulseLine, DriveLine
  <2>2. held' \in {held, NoPress} /\ stage' \in {stage, "All"}
    BY <1>1 DEF PlayKey, Dropped
  <2>3. seen' = seen \/ (seen' = [k \in {held.key} |-> 0] /\ held.key \in Keyboard)
    <3>1. CASE held.key \in Keyboard
      BY <1>1, <3>1 DEF PlayKey, Waiting, Unscanned
    <3>2. CASE held.key \notin Keyboard
      BY <1>1, <3>2 DEF PlayKey, Dropped
    <3>3. QED
      BY <3>1, <3>2
  <2>4. expired' \in BOOLEAN /\ forced' \in BOOLEAN
    BY <1>1 DEF TypeOK, PlayKey, Waiting, Dropped, SeenEnough
  <2>5. DOMAIN seen' \subseteq Keyboard /\ \A k \in DOMAIN seen' : seen'[k] \in 0 .. 2
    BY <2>3 DEF TypeOK
  <2>6. QED
    BY <1>1, <1>a, <2>1, <2>2, <2>4, <2>5 DEF TypeOK, Stages, queues
<1>2. CASE LiftKey /\ UNCHANGED queues
  BY <1>2, <1>a, <1>b
  DEF TypeOK, LiftKey, PulseLine, DriveLine, Waiting, Dropped, Unscanned, Stages, queues
<1>3. CASE LiftMods /\ UNCHANGED queues
  BY <1>3, <1>a DEF TypeOK, LiftMods, DriveLine, Dropped, Stages, queues
<1>4. CASE TakeNext
  BY <1>4, <1>a, TakeNextType, StartPressType DEF TypeOK
<1>5. QED
  BY <1>1, <1>2, <1>3, <1>4 DEF Play

(* A read of the scan register keeps the types of what it changes. *)
LEMMA ReadRowsType ==
  ASSUME TypeOK, ReadRows
  PROVE  /\ believed' \subseteq Keyboard
         /\ DOMAIN seen' = DOMAIN seen
         /\ \A k \in DOMAIN seen' : seen'[k] \in 0 .. 2
  BY DEF TypeOK, ReadRows

(* A command keeps every type. *)
LEMMA HearCommandType == ASSUME TypeOK, HearCommand PROVE TypeOK'
<1>1. Tail(commands) \in Seq(Commands)
  BY HeadTailProperties DEF TypeOK, HearCommand
<1>2. UNCHANGED <<line, edge, stage, seen, expired, forced, live, typing, channel,
                  captured, typingDue>>
  BY DEF HearCommand, HearCapture, HearRelease, HearReset, HearQuit, ReleaseAll,
         pins, player, queues
<1>3. /\ matrix' \in {matrix, {}}
      /\ held' \in {held, NoPress}
      /\ mode' \in {mode, "running", "ended"}
      /\ sweep' \in {sweep, Columns}
      /\ believed' \in {believed, {}}
  BY DEF HearCommand, HearCapture, HearRelease, HearReset, HearQuit, ReleaseAll,
         player, guest
<1>4. commands' = Tail(commands)
  BY DEF HearCommand
<1>5. Columns \in 0 .. Columns
  BY KeyboardAssumption
<1>6. QED
  BY <1>1, <1>2, <1>3, <1>4, <1>5 DEF TypeOK

(* Every variable keeps its type (the locals of the run loop, Keyboard). *)
THEOREM TypeCorrect == Spec => []TypeOK
<1>1. Init => TypeOK
  <2> SUFFICES ASSUME Init PROVE TypeOK
    OBVIOUS
  <2>1. Columns \in 0 .. Columns
    BY KeyboardAssumption
  <2>2. seen = [k \in {} |-> 0]
    BY DEF Init, Unscanned
  <2>3. DOMAIN seen = {}
    BY <2>2
  <2>4. << >> \in Seq(Presses) /\ << >> \in Seq(Commands)
    OBVIOUS
  <2>5. QED
    BY <2>1, <2>3, <2>4, PressesAssumption DEF Init, TypeOK, Stages
<1>2. TypeOK /\ [Next]_vars => TypeOK'
  <2> SUFFICES ASSUME TypeOK, [Next]_vars PROVE TypeOK'
    OBVIOUS
  <2>1. CASE Play
    BY <2>1, PlayType
  <2>2. CASE TimePasses \/ TypingFallsDue \/ FallAsleep
    BY <2>2 DEF TypeOK, TimePasses, TypingFallsDue, FallAsleep, pins, player, queues, user, guest
  <2>3. ASSUME NEW p \in Presses, Press(p) PROVE TypeOK'
    <3>1. Append(channel, p) \in Seq(Presses)
      BY AppendProperties DEF TypeOK
    <3>2. QED
      BY <2>3, <3>1 DEF TypeOK, Press, pins, player, user, guest
  <2>4. ASSUME NEW p \in KeysFrom, ReadKeysFrom(p) PROVE TypeOK'
    <3>1. Append(live, p) \in Seq(Presses)
      BY PressesAssumption, AppendProperties DEF TypeOK
    <3>2. QED
      BY <2>4, <3>1 DEF TypeOK, ReadKeysFrom, pins, player, user, guest
  <2>5. ASSUME NEW c \in Commands, Ask(c) PROVE TypeOK'
    <3>1. Append(commands, c) \in Seq(Commands)
      BY AppendProperties DEF TypeOK
    <3>2. QED
      BY <2>5, <3>1 DEF TypeOK, Ask, pins, player, queues, guest
  <2>6. CASE HearCommand
    BY <2>6, HearCommandType
  <2>7. CASE Scan
    BY <2>7, ReadRowsType, KeyboardAssumption DEF TypeOK, Scan, pins, queues, user
  <2>8. CASE StartSweep
    <3>1. 0 \in 0 .. Columns
      BY KeyboardAssumption
    <3>2. sweep' = 0 /\ edge' = FALSE /\ UNCHANGED <<matrix, line, player, queues, user, believed>>
      BY <2>8 DEF StartSweep
    <3>3. QED
      BY <3>1, <3>2 DEF TypeOK, player, queues, user
  <2>9. CASE UNCHANGED vars
    BY <2>9 DEF TypeOK, vars, pins, player, queues, user, guest
  <2>10. QED
    BY <2>1, <2>2, <2>3, <2>4, <2>5, <2>6, <2>7, <2>8, <2>9 DEF Next
<1>3. QED
  BY <1>1, <1>2, PTL DEF Spec

-----------------------------------------------------------------------------
(* What makes the two properties inductive.  The baselines are those of    *)
(* the keys last put down; a key scanned since then has been found down;   *)
(* so, once the player has moved on because the modifiers were scanned,    *)
(* the guest has found them all, and goes on finding them as they stay.    *)
Baselines ==
    held # NoPress =>
        /\ stage = "Mods" => DOMAIN seen = held.mods
        /\ stage = "All" => DOMAIN seen = {held.key}
        /\ stage = "LetGo" => DOMAIN seen = {}

SeenIsFound ==
    held # NoPress => \A k \in DOMAIN seen : seen[k] > 0 => k \in believed

ModsFound ==
    held # NoPress /\ stage = "All" /\ ~forced => held.mods \subseteq believed

PlayInv == MatrixIsHeld /\ Baselines /\ SeenIsFound /\ ModsFound

IInv == TypeOK /\ PlayInv

(* Nothing is held to begin with. *)
LEMMA InitPlayInv == Init => PlayInv
  BY DEF Init, PlayInv, MatrixIsHeld, Baselines, SeenIsFound, ModsFound

(* The player's own steps.  With modifiers to wait for, or a key on the    *)
(* keyboard, a keystroke starts; else nothing does.                        *)
LEMMA StartPressInv ==
  ASSUME IInv, held = NoPress, NEW p \in Presses, StartPress(p), believed' = believed
  PROVE  PlayInv'
<1> DEFINE keys == IF p.mods = {} THEN {p.key} \cap Keyboard ELSE p.mods
<1>1. matrix = {}
  BY DEF IInv, PlayInv, MatrixIsHeld
<1>2. seen' = [k \in keys |-> 0] /\ matrix' = keys
  BY <1>1 DEF StartPress, Unscanned
<1>3. DOMAIN seen' = keys /\ \A k \in DOMAIN seen' : ~(seen'[k] > 0)
  BY <1>2
<1>4. SeenIsFound'
  BY <1>3 DEF SeenIsFound
<1>5. CASE keys = {}
  <2>1. held' = NoPress
    BY <1>5 DEF StartPress
  <2>2. QED
    BY <1>2, <1>5, <2>1 DEF PlayInv, MatrixIsHeld, Baselines, SeenIsFound, ModsFound
<1>6. CASE keys # {} /\ p.mods = {}
  <2>1. held' = p /\ stage' = "All" /\ keys = {p.key}
    BY <1>6 DEF StartPress
  <2>2. matrix' = DownIn(p, "All")
    BY <1>2, <1>6, <2>1 DEF DownIn
  <2>3. MatrixIsHeld' /\ ModsFound'
    BY <1>6, <2>1, <2>2, PressesAssumption DEF MatrixIsHeld, ModsFound
  <2>4. Baselines'
    BY <1>3, <2>1 DEF Baselines
  <2>5. QED
    BY <1>4, <2>3, <2>4 DEF PlayInv
<1>7. CASE p.mods # {}
  <2>1. held' = p /\ stage' = "Mods" /\ keys = p.mods
    BY <1>7 DEF StartPress
  <2>2. matrix' = DownIn(p, "Mods")
    BY <1>2, <2>1 DEF DownIn
  <2>3. MatrixIsHeld' /\ ModsFound'
    BY <2>1, <2>2, PressesAssumption DEF MatrixIsHeld, ModsFound
  <2>4. Baselines'
    BY <1>3, <2>1 DEF Baselines
  <2>5. QED
    BY <1>4, <2>3, <2>4 DEF PlayInv
<1>8. QED
  BY <1>5, <1>6, <1>7

(* The key joins modifiers that have been found, or the time ran out. *)
LEMMA PlayKeyInv ==
  ASSUME IInv, PlayKey, believed' = believed
  PROVE  PlayInv'
<1>1. held \in Presses /\ held.mods \subseteq Keyboard /\ held.key \notin held.mods
  BY PressesAssumption DEF IInv, TypeOK, PlayKey
<1>2. matrix = held.mods /\ DOMAIN seen = held.mods
  BY DEF IInv, PlayInv, MatrixIsHeld, DownIn, Baselines, PlayKey
<1>3. CASE held.key \in Keyboard
  <2>1. /\ held' = held /\ stage' = "All"
        /\ matrix' = held.mods \cup {held.key}
        /\ seen' = [k \in {held.key} |-> 0]
        /\ forced' = (forced \/ ~SeenEnough)
    BY <1>2, <1>3 DEF PlayKey, Waiting, Unscanned
  <2>2. SeenEnough => held.mods \subseteq believed
    BY <1>2 DEF IInv, TypeOK, PlayInv, SeenIsFound, SeenEnough, Want, PlayKey
  <2>3. DOMAIN seen' = {held.key} /\ seen'[held.key] = 0
    BY <2>1
  <2>4. matrix' = DownIn(held', stage')
    BY <2>1 DEF DownIn
  <2>5. MatrixIsHeld' /\ Baselines'
    BY <1>1, <2>1, <2>3, <2>4, PressesAssumption DEF MatrixIsHeld, Baselines
  <2>6. SeenIsFound'
    BY <2>3 DEF SeenIsFound
  <2>7. ~forced' => SeenEnough
    BY <2>1 DEF IInv, TypeOK, SeenEnough
  <2>8. ModsFound'
    BY <2>1, <2>2, <2>7 DEF ModsFound
  <2>9. QED
    BY <2>5, <2>6, <2>8 DEF PlayInv
<1>4. CASE held.key \notin Keyboard
  <2>1. held' = NoPress /\ matrix' = {}
    BY <1>2, <1>4 DEF PlayKey, Dropped
  <2>2. QED
    BY <2>1 DEF PlayInv, MatrixIsHeld, Baselines, SeenIsFound, ModsFound
<1>5. QED
  BY <1>3, <1>4

(* The key comes up, or the modifiers do. *)
LEMMA LiftInv ==
  ASSUME IInv, LiftKey \/ LiftMods, believed' = believed
  PROVE  PlayInv'
<1>1. held \in Presses /\ held.key \notin held.mods
  BY PressesAssumption DEF IInv, TypeOK, LiftKey, LiftMods
<1>2. CASE LiftMods
  <2>1. held' = NoPress /\ matrix' = {}
    BY <1>2 DEF LiftMods, Dropped, IInv, PlayInv, MatrixIsHeld, DownIn
  <2>2. QED
    BY <2>1 DEF PlayInv, MatrixIsHeld, Baselines, SeenIsFound, ModsFound
<1>3. CASE LiftKey
  <2>1. matrix' = held.mods
    BY <1>1, <1>3 DEF LiftKey, IInv, PlayInv, MatrixIsHeld, DownIn
  <2>2. CASE held.mods = {}
    <3>1. held' = NoPress
      BY <1>3, <2>2 DEF LiftKey, Dropped
    <3>2. QED
      BY <2>1, <2>2, <3>1 DEF PlayInv, MatrixIsHeld, Baselines, SeenIsFound, ModsFound
  <2>3. CASE held.mods # {}
    <3>1. held' = held /\ stage' = "LetGo" /\ seen' = [k \in {} |-> 0]
      BY <1>3, <2>3 DEF LiftKey, Waiting, Unscanned
    <3>2. DOMAIN seen' = {}
      BY <3>1
    <3>3. matrix' = DownIn(held', stage')
      BY <2>1, <3>1 DEF DownIn
    <3>4. QED
      BY <1>3, <3>1, <3>2, <3>3
      DEF LiftKey, PlayInv, MatrixIsHeld, Baselines, SeenIsFound, ModsFound
  <2>4. QED
    BY <2>2, <2>3
<1>4. QED
  BY <1>2, <1>3

(* So every step of the player. *)
LEMMA PlayKeepsInv == ASSUME IInv, Play PROVE PlayInv'
<1>1. believed' = believed
  BY DEF Play, guest
<1>2. CASE TakeNext
  <2>1. held = NoPress /\ \E p \in Presses : StartPress(p)
    BY <1>2, TakeNextType DEF IInv, TakeNext
  <2>2. QED
    BY <1>1, <2>1, StartPressInv
<1>3. CASE PlayKey \/ LiftKey \/ LiftMods
  BY <1>1, <1>3, PlayKeyInv, LiftInv
<1>4. QED
  BY <1>2, <1>3 DEF Play

(* The scanner's reads: what is counted is found, and what stays down      *)
(* stays found.                                                            *)
LEMMA ReadRowsInv ==
  ASSUME IInv, ReadRows, UNCHANGED <<matrix, held, stage, forced>>
  PROVE  PlayInv'
<1>1. DOMAIN seen' = DOMAIN seen
  BY DEF ReadRows
<1>2. \A k \in matrix : k \in believed => k \in believed'
  BY DEF ReadRows
<1>3. \A k \in matrix : Column[k] = sweep => k \in believed'
  BY DEF ReadRows
<1>4. \A k \in DOMAIN seen : seen'[k] > 0 => seen[k] > 0 \/ Column[k] = sweep
  BY DEF ReadRows
<1>5. held # NoPress => DOMAIN seen \subseteq matrix
  BY DEF IInv, PlayInv, TypeOK, Stages, MatrixIsHeld, DownIn, Baselines
<1>6. SeenIsFound'
  BY <1>1, <1>2, <1>3, <1>4, <1>5 DEF IInv, PlayInv, SeenIsFound
<1>7. ModsFound'
  BY <1>2 DEF IInv, PlayInv, MatrixIsHeld, DownIn, ModsFound
<1>8. MatrixIsHeld'
  BY DEF IInv, PlayInv, MatrixIsHeld, DownIn
<1>9. Baselines'
  BY <1>1 DEF IInv, PlayInv, Baselines
<1>10. QED
  BY <1>6, <1>7, <1>8, <1>9 DEF PlayInv

(* A release or a reset empties the matrix and forgets the keystroke. *)
LEMMA HearCommandInv == ASSUME IInv, HearCommand PROVE PlayInv'
<1>1. CASE held' = NoPress /\ matrix' = {}
  BY <1>1 DEF PlayInv, MatrixIsHeld, Baselines, SeenIsFound, ModsFound
<1>2. CASE UNCHANGED <<matrix, player, guest>>
  BY <1>2 DEF IInv, PlayInv, MatrixIsHeld, DownIn, Baselines, SeenIsFound, ModsFound,
              player, guest
<1>3. QED
  BY <1>1, <1>2 DEF HearCommand, HearCapture, HearRelease, HearReset, HearQuit, ReleaseAll

(* The strengthening is kept by every step, *)
LEMMA NextPlayInv == IInv /\ [Next]_vars => PlayInv'
<1> SUFFICES ASSUME IInv, [Next]_vars PROVE PlayInv'
  OBVIOUS
<1>1. CASE UNCHANGED <<matrix, held, stage, seen, forced, believed>>
  BY <1>1 DEF IInv, PlayInv, MatrixIsHeld, DownIn, Baselines, SeenIsFound, ModsFound
<1>2. CASE \/ TimePasses \/ TypingFallsDue \/ FallAsleep \/ StartSweep
           \/ \E p \in Presses : Press(p)
           \/ \E p \in KeysFrom : ReadKeysFrom(p)
           \/ \E c \in Commands : Ask(c)
           \/ UNCHANGED vars
  BY <1>1, <1>2 DEF TimePasses, TypingFallsDue, FallAsleep, StartSweep, Press, ReadKeysFrom,
                    Ask, vars, player, guest
<1>3. CASE Scan
  BY <1>3, ReadRowsInv DEF Scan
<1>4. QED
  BY <1>2, <1>3, PlayKeepsInv, HearCommandInv DEF Next

(* and so is an invariant. *)
LEMMA IInvHolds == Spec => []IInv
<1>1. IInv <=> TypeOK /\ PlayInv
  BY DEF IInv
<1>2. QED
  BY <1>1, TypeCorrect, InitPlayInv, NextPlayInv, PTL DEF Spec

(* No key is left down: the matrix is what the player's stage says, across *)
(* every release, reset, unknown key and time run out.                     *)
THEOREM NoKeyLeftDown == Spec => []MatrixIsHeld
<1>1. IInv => MatrixIsHeld
  BY DEF IInv, PlayInv
<1>2. QED
  BY <1>1, IInvHolds, PTL

(* The guest finds the modifiers of a chord before its key.  Only in the   *)
(* stage that has the key down can a read find it, and the modifiers are   *)
(* in the matrix and found by then.                                        *)
THEOREM ModifiersFirst == Spec => ChordsArriveInOrder
<1>1. ASSUME IInv, [Next]_vars, held # NoPress, ~forced, held.key \in believed' \ believed
      PROVE  held.mods \subseteq believed'
  <2>1. Scan
    BY <1>1 DEF Next, vars, Play, TimePasses, TypingFallsDue, FallAsleep, StartSweep, Press,
                ReadKeysFrom, Ask, HearCommand, HearCapture, HearRelease, HearReset, HearQuit,
                player, guest
  <2>2. held.key \in matrix
    BY <1>1, <2>1 DEF Scan, ReadRows
  <2>3. held.key \notin held.mods
    BY <1>1, PressesAssumption DEF IInv, TypeOK
  <2>4. stage = "All" /\ matrix = held.mods \cup {held.key}
    BY <1>1, <2>2, <2>3 DEF IInv, PlayInv, TypeOK, Stages, MatrixIsHeld, DownIn
  <2>5. held.mods \subseteq believed
    BY <1>1, <2>4 DEF IInv, PlayInv, ModsFound
  <2>6. QED
    BY <2>1, <2>4, <2>5 DEF Scan, ReadRows
<1>2. IInv /\ [Next]_vars =>
        [held # NoPress /\ ~forced /\ held.key \in believed' \ believed
           => held.mods \subseteq believed']_vars
  BY <1>1
<1>3. QED
  BY <1>2, IInvHolds, PTL DEF Spec, ChordsArriveInOrder

(* A key is lifted only once the guest has found it down, unless the time  *)
(* ran out: the baselines are of that key, and a key counted was found.    *)
THEOREM LiftedSeen == Spec => LiftedOnceSeen
<1>1. ASSUME IInv, LiftKey, ~expired PROVE held.key \in believed
  <2>1. held # NoPress /\ stage = "All" /\ SeenEnough
    BY <1>1 DEF LiftKey, MayMoveOn
  <2>2. DOMAIN seen = {held.key}
    BY <1>1, <2>1 DEF IInv, PlayInv, Baselines
  <2>3. seen[held.key] >= 2 /\ seen[held.key] \in 0 .. 2
    BY <1>1, <2>1, <2>2 DEF SeenEnough, Want, IInv, TypeOK
  <2>4. QED
    BY <1>1, <2>1, <2>2, <2>3 DEF IInv, PlayInv, SeenIsFound
<1>2. IInv /\ [Next]_vars => [LiftKey /\ ~expired => held.key \in believed]_vars
  BY <1>1
<1>3. QED
  BY <1>2, IInvHolds, PTL DEF Spec, LiftedOnceSeen
=============================================================================
