----------------------------- MODULE HostProofs -----------------------------
(***************************************************************************)
(* What holds of the host's side.  Of the keyboard hook, for any keys and  *)
(* any choice of the FUNCTION key: its tracking is true, a key held is one *)
(* press, and a key that was part of a chord of the host key is not typed  *)
(* afterwards.  Of the card image, for any number of blocks, any data and  *)
(* any pattern of failures: types, that every difference between card,     *)
(* file and medium is accounted for, and that the flush implements         *)
(* DurableCard.  Of the USB drive: that a new one has a sound layout,      *)
(* whatever size is asked for.                                             *)
(***************************************************************************)
EXTENDS HostKey, CardFile, UsbSync, SequenceTheorems, TLAPS

-----------------------------------------------------------------------------
(* The keyboard hook (hostkey.rs). *)

(* A key event, whoever made it, adds at most one press, and only news     *)
(* that is sent.                                                           *)
LEMMA HookPresses ==
  ASSUME NEW k \in Keys, NEW isDown \in BOOLEAN, Hook(k, isDown)
  PROVE  \/ presses' = presses
         \/ /\ isDown
            /\ Fresh(k, isDown)
            /\ presses' = Append(presses, [key |-> k, mods |-> flags'])
<1>1. CASE Decide(k, isDown, hostDown') = "send"
  <2>1. isDown
    BY <1>1 DEF Decide
  <2>2. Send(k, isDown)
    BY <1>1 DEF Hook
  <2>3. QED
    BY <2>1, <2>2 DEF Send
<1>2. CASE Decide(k, isDown, hostDown') # "send"
  BY <1>2 DEF Hook
<1>3. QED
  BY <1>1, <1>2

(* A key event is tracked, whatever becomes of it. *)
LEMMA HookTracks ==
  ASSUME TrackingIsTrue, NEW k \in Keys, NEW isDown \in BOOLEAN, Hook(k, isDown),
         down' = IF isDown THEN down \cup {k} ELSE down \ {k}
  PROVE  TrackingIsTrue'
<1>1. Track(k, isDown)
  BY DEF Hook
<1>2. noted' = down' /\ hostDown' = (Host \in down')
  BY <1>1 DEF Track, TrackingIsTrue
<1>3. CASE isDown
  BY <1>1, <1>2, <1>3 DEF Track, TrackingIsTrue, ModifierOf
<1>4. CASE ~isDown
  <2>1. ASSUME NEW m \in flags' PROVE \E j \in down' : m \in ModifierOf(j)
    <3>1. m \in flags /\ m \notin ModifierOf(k)
      BY <1>1, <1>4 DEF Track
    <3>2. PICK j \in down : m \in ModifierOf(j)
      BY <3>1 DEF TrackingIsTrue
    <3>3. j # k
      BY <3>1, <3>2
    <3>4. QED
      BY <1>4, <3>2, <3>3
  <2>2. \A j : ModifierOf(j)' = ModifierOf(j)
    BY DEF ModifierOf
  <2>3. QED
    BY <1>2, <2>1, <2>2 DEF TrackingIsTrue
<1>5. QED
  BY <1>3, <1>4

-----------------------------------------------------------------------------
(* The person's keys, and the chorded ones among them: nothing is chorded  *)
(* that is not held.                                                       *)
ChordedAreHeld == chorded \subseteq down

HeldAreKeys == down \subseteq Keys /\ (repeating # NoKey => repeating \in down)

HookInv == TrackingIsTrue /\ ChordedAreHeld /\ HeldAreKeys

(* With no key held, nothing is tracked. *)
LEMMA InitHookInv == HookInit => HookInv
<1> SUFFICES ASSUME HookInit PROVE HookInv
  OBVIOUS
<1>1. hostDown = FALSE /\ down = {}
  BY DEF HookInit
<1>2. (Host \in down) = FALSE
  BY <1>1
<1>3. QED
  BY <1>1, <1>2 DEF HookInit, HookInv, TrackingIsTrue, ChordedAreHeld, HeldAreKeys

(* A key that goes down is tracked, and chorded if the host key is held. *)
LEMMA KeyDownHookInv == ASSUME HookInv, NEW k \in Keys, KeyDown(k) PROVE HookInv'
<1>1. TrackingIsTrue'
  BY HookTracks DEF HookInv, KeyDown
<1>2. ChordedAreHeld' /\ HeldAreKeys'
  BY DEF HookInv, ChordedAreHeld, HeldAreKeys, KeyDown, Hook
<1>3. QED
  BY <1>1, <1>2 DEF HookInv

(* A repeat tracks a key that is held already. *)
LEMMA KeyRepeatsHookInv == ASSUME HookInv, KeyRepeats PROVE HookInv'
<1>1. repeating \in down /\ repeating \in Keys
  BY DEF HookInv, HeldAreKeys, KeyRepeats
<1>2. down' = down \cup {repeating}
  BY <1>1 DEF KeyRepeats
<1>3. TrackingIsTrue'
  BY <1>1, <1>2, HookTracks DEF HookInv, KeyRepeats
<1>4. ChordedAreHeld' /\ HeldAreKeys'
  BY <1>1 DEF HookInv, ChordedAreHeld, HeldAreKeys, KeyRepeats, Hook
<1>5. QED
  BY <1>3, <1>4 DEF HookInv

(* A key that comes up is tracked no more. *)
LEMMA KeyUpHookInv == ASSUME HookInv, NEW k \in Keys, KeyUp(k) PROVE HookInv'
<1>1. TrackingIsTrue'
  BY HookTracks DEF HookInv, KeyUp
<1>2. ChordedAreHeld' /\ HeldAreKeys'
  BY DEF HookInv, ChordedAreHeld, HeldAreKeys, KeyUp, Hook
<1>3. QED
  BY <1>1, <1>2 DEF HookInv

(* Nothing but a key event touches what is tracked. *)
LEMMA NextHookInv == HookInv /\ [HookNext]_hostKeyVars => HookInv'
<1> SUFFICES ASSUME HookInv, [HookNext]_hostKeyVars PROVE HookInv'
  OBVIOUS
<1>1. CASE UNCHANGED <<down, repeating, noted, flags, hostDown, chorded>>
  <2>1. \A j : ModifierOf(j)' = ModifierOf(j)
    BY DEF ModifierOf
  <2>2. QED
    BY <1>1, <2>1 DEF HookInv, TrackingIsTrue, ChordedAreHeld, HeldAreKeys
<1>2. CASE \/ ChangeWindow \/ Ask \/ AnswerYes \/ AnswerNo \/ HearCommand \/ TakePress
           \/ UNCHANGED hostKeyVars
  BY <1>1, <1>2 DEF ChangeWindow, Ask, AnswerYes, AnswerNo, Answered, HearCommand, TakePress,
                    NotAnEvent, hostKeyVars, person, hookVars
<1>3. QED
  BY <1>2, KeyDownHookInv, KeyRepeatsHookInv, KeyUpHookInv DEF HookNext

(* The strengthening is an invariant. *)
LEMMA HookInvHolds == HookSpec => []HookInv
  BY InitHookInv, NextHookInv, PTL DEF HookSpec

(* The account the hook keeps of the keyboard is true, whoever each event  *)
(* went to (hostkey.rs: "Modifier state is tracked whatever else happens   *)
(* to the key").                                                           *)
THEOREM TrackingHolds == HookSpec => []TrackingIsTrue
<1>1. HookInv => TrackingIsTrue
  BY DEF HookInv
<1>2. QED
  BY <1>1, HookInvHolds, PTL

-----------------------------------------------------------------------------
(* The only step that adds a press is a key going down that was not down. *)
LEMMA PressesGrow ==
  ASSUME HookInv, [HookNext]_hostKeyVars, presses' # presses
  PROVE  \/ \E k \in Keys : KeyDown(k) /\ presses' = Append(presses, [key |-> k, mods |-> flags'])
         \/ TakePress
<1>1. ASSUME NEW k \in Keys, KeyDown(k)
      PROVE  presses' = Append(presses, [key |-> k, mods |-> flags'])
  BY <1>1, HookPresses DEF KeyDown
<1>2. CASE KeyRepeats
  <2>1. repeating \in Keys /\ repeating \in noted
    BY <1>2 DEF KeyRepeats, HookInv, HeldAreKeys, TrackingIsTrue
  <2>2. ~Fresh(repeating, TRUE)
    BY <2>1 DEF Fresh
  <2>3. QED
    BY <1>2, <2>1, <2>2, HookPresses DEF KeyRepeats
<1>3. ASSUME NEW k \in Keys, KeyUp(k) PROVE FALSE
  BY <1>3, HookPresses DEF KeyUp
<1>4. CASE ChangeWindow \/ Ask \/ AnswerYes \/ AnswerNo \/ HearCommand \/ UNCHANGED hostKeyVars
  BY <1>4 DEF ChangeWindow, Ask, AnswerYes, AnswerNo, Answered, HearCommand, hostKeyVars, channels
<1>5. QED
  BY <1>1, <1>2, <1>3, <1>4 DEF HookNext

(* A press taken makes the queue shorter. *)
LEMMA TakeShortens ==
  ASSUME presses \in Seq(Press), TakePress
  PROVE  Len(presses') < Len(presses)
  BY HeadTailProperties DEF TakePress

(* A key event leaves a queue of presses a queue of presses. *)
LEMMA PressesType == HookSpec => [](presses \in Seq(Press))
<1> DEFINE PInv == presses \in Seq(Press) /\ flags \subseteq Modifiers
<1>1. HookInit => PInv
  BY DEF HookInit
<1>2. PInv /\ HookInv /\ [HookNext]_hostKeyVars => PInv'
  <2> SUFFICES ASSUME PInv, HookInv, [HookNext]_hostKeyVars PROVE PInv'
    OBVIOUS
  <2>1. ASSUME NEW k \in Keys, NEW isDown \in BOOLEAN, Hook(k, isDown)
        PROVE  flags' \subseteq Modifiers
    <3>1. ModifierOf(k) \subseteq Modifiers
      BY KeysAssumption DEF ModifierOf, Modifiers
    <3>2. QED
      BY <2>1, <3>1 DEF Hook, Track
  <2>2. flags' \subseteq Modifiers
    <3>1. CASE KeyRepeats
      BY <2>1, <3>1 DEF KeyRepeats, HookInv, HeldAreKeys
    <3>2. CASE \E k \in Keys : KeyDown(k) \/ KeyUp(k)
      BY <2>1, <3>2 DEF KeyDown, KeyUp
    <3>3. CASE flags' = flags
      BY <3>3
    <3>4. QED
      BY <3>1, <3>2, <3>3
      DEF HookNext, ChangeWindow, Ask, AnswerYes, AnswerNo, Answered, HearCommand, TakePress,
          NotAnEvent, hostKeyVars, hookVars
  <2>3. presses' \in Seq(Press)
    <3>1. CASE presses' = presses
      BY <3>1
    <3>2. CASE TakePress
      BY <3>2, HeadTailProperties DEF TakePress
    <3>3. ASSUME NEW k \in Keys, presses' = Append(presses, [key |-> k, mods |-> flags'])
          PROVE  presses' \in Seq(Press)
      <4>1. [key |-> k, mods |-> flags'] \in Press
        BY <2>2 DEF Press
      <4>2. QED
        BY <3>3, <4>1, AppendProperties
    <3>4. QED
      BY <3>1, <3>2, <3>3, PressesGrow
  <2>4. QED
    BY <2>2, <2>3
<1>3. QED
  BY <1>1, <1>2, HookInvHolds, PTL DEF HookSpec

(* A held key is one press: the queue only grows with a key that was up.   *)
(* (note_down and `fresh` in hostkey.rs.)                                  *)
THEOREM OnePress == HookSpec => OnePressForEachKeyDown
<1>1. ASSUME HookInv, presses \in Seq(Press), [HookNext]_hostKeyVars, Len(presses') > Len(presses)
      PROVE  down' # down
  <2>1. presses' # presses
    BY <1>1
  <2>2. CASE TakePress
    BY <1>1, <2>2, TakeShortens, LenProperties DEF TakePress
  <2>3. QED
    BY <1>1, <2>1, <2>2, PressesGrow DEF KeyDown
<1>2. HookInv /\ presses \in Seq(Press) /\ [HookNext]_hostKeyVars =>
        [Len(presses') > Len(presses) => down' # down]_hostKeyVars
  BY <1>1
<1>3. QED
  BY <1>2, HookInvHolds, PressesType, PTL DEF HookSpec, OnePressForEachKeyDown

(* A key of a host chord is not typed however long it is held after it.    *)
THEOREM ChordsStayOut == HookSpec => ChordsAreNotTyped
<1>1. ASSUME HookInv, presses \in Seq(Press), [HookNext]_hostKeyVars, NEW k \in chorded,
             Len(presses') > Len(presses)
      PROVE  presses'[Len(presses')].key # k
  <2>1. presses' # presses
    BY <1>1
  <2>2. CASE TakePress
    BY <1>1, <2>2, TakeShortens, LenProperties, HeadTailProperties DEF TakePress
  <2>3. ASSUME NEW j \in Keys, KeyDown(j),
               presses' = Append(presses, [key |-> j, mods |-> flags'])
        PROVE  presses'[Len(presses')].key # k
    <3>1. j # k
      BY <1>1, <2>3 DEF KeyDown, HookInv, ChordedAreHeld
    <3>2. presses'[Len(presses')] = [key |-> j, mods |-> flags']
      BY <1>1, <2>3, AppendProperties
    <3>3. QED
      BY <3>1, <3>2
  <2>4. QED
    BY <1>1, <2>1, <2>2, <2>3, PressesGrow
<1>2. HookInv /\ presses \in Seq(Press) /\ [HookNext]_hostKeyVars =>
        [\A k \in chorded : Len(presses') > Len(presses)
             => presses'[Len(presses')].key # k]_hostKeyVars
  BY <1>1
<1>3. QED
  BY <1>2, HookInvHolds, PressesType, PTL DEF HookSpec, ChordsAreNotTyped

-----------------------------------------------------------------------------
(* The card image (cardfile.rs). *)

(* A run is made of blocks of the set it is taken from. *)
LEMMA FirstRunSubset == ASSUME NEW S PROVE FirstRun(S) \subseteq S
  BY DEF FirstRun

(* Copying some blocks out leaves a file of the right type. *)
LEMMA WrittenType ==
  ASSUME TypeOK, NEW written
  PROVE  Written(written) \in [Blocks -> Data]
  BY DEF Written, TypeOK

-----------------------------------------------------------------------------
(* Every variable keeps its type (the fields of SdCard and CardFile). *)
THEOREM TypeCorrect == Spec => []TypeOK
<1>1. Init => TypeOK
  BY BlankAssumption DEF Init, TypeOK
<1>2. TypeOK /\ [Next]_vars => TypeOK'
  <2> SUFFICES ASSUME TypeOK, [Next]_vars PROVE TypeOK'
    OBVIOUS
  <2>1. ASSUME NEW b \in Blocks, NEW v \in Data, GuestWrite(b, v) PROVE TypeOK'
    BY <2>1 DEF TypeOK, GuestWrite
  <2>2. CASE Sleep \/ Wake
    BY <2>2 DEF TypeOK, Sleep, Wake
  <2>3. CASE FlushDue
    BY <2>3 DEF TypeOK, FlushDue, TakeDirtyRuns
  <2>4. CASE Close
    BY <2>4 DEF TypeOK, Close, TakeDirtyRuns
  <2>5. CASE WriteRun
    BY <2>5, WrittenType DEF TypeOK, WriteRun
  <2>6. CASE WriteFails
    BY <2>6, WrittenType DEF TypeOK, WriteFails, FlushReturns
  <2>7. CASE SyncData \/ SyncFails
    BY <2>7 DEF TypeOK, SyncData, SyncFails, FlushReturns
  <2>8. ASSUME NEW b \in Blocks, WriteBack(b) PROVE TypeOK'
    BY <2>8 DEF TypeOK, WriteBack
  <2>9. CASE ProcessDies \/ PowerFails
    BY <2>9 DEF TypeOK, ProcessDies, PowerFails, Gone
  <2>10. CASE Start
    BY <2>10, BlankAssumption DEF TypeOK, Start
  <2>11. CASE UNCHANGED vars
    BY <2>11 DEF TypeOK, vars
  <2>12. QED
    BY <2>1, <2>2, <2>3, <2>4, <2>5, <2>6, <2>7, <2>8, <2>9, <2>10, <2>11
    DEF Next, Flush
<1>3. QED
  BY <1>1, <1>2, PTL DEF Spec

-----------------------------------------------------------------------------
(* What makes AccountedFor inductive.  Outside a flush nothing is taken,   *)
(* so a death of the process forgets nothing but dirty marks; inside one,  *)
(* what has been written is as on the card, so a sync that ends the flush  *)
(* may forget that its blocks were ever at risk.                           *)
Resting == phase # "writing" => taken = {}

WrittenOut == \A b \in taken \ todo : file[b] = image[b]

FlushInv == Resting /\ WrittenOut /\ AccountedFor

IInv == TypeOK /\ FlushInv

(* The strengthening holds of a card just opened, *)
LEMMA InitIInv == Init => IInv
  BY BlankAssumption DEF Init, IInv, TypeOK, FlushInv, Resting, WrittenOut, AccountedFor

(* through every step of the guest, the flush and the host, *)
LEMMA NextIInv == TypeOK' /\ IInv /\ [Next]_vars => IInv'
<1> SUFFICES ASSUME TypeOK', IInv, [Next]_vars PROVE FlushInv'
  BY DEF IInv
<1> USE DEF IInv
<1>1. ASSUME NEW b \in Blocks, NEW v \in Data, GuestWrite(b, v)
      PROVE  FlushInv'
  BY <1>1 DEF TypeOK, FlushInv, Resting, WrittenOut, AccountedFor, GuestWrite
<1>2. CASE Sleep \/ Wake
  BY <1>2 DEF TypeOK, FlushInv, Resting, WrittenOut, AccountedFor, Sleep, Wake
<1>3. CASE FlushDue
  BY <1>3 DEF TypeOK, FlushInv, Resting, WrittenOut, AccountedFor, FlushDue, TakeDirtyRuns
<1>4. CASE Close
  BY <1>4 DEF TypeOK, FlushInv, Resting, WrittenOut, AccountedFor, Close, TakeDirtyRuns
<1>5. CASE WriteRun
  BY <1>5, FirstRunSubset DEF TypeOK, FlushInv, Resting, WrittenOut, AccountedFor, WriteRun, Written
<1>6. CASE WriteFails
  <2>1. PICK k \in 0 .. NumBlocks :
          file' = Written({b \in FirstRun(todo) : b < k})
    BY <1>6 DEF WriteFails
  <2>2. \A b \in Blocks : file'[b] # file[b] => b \in todo /\ file'[b] = image[b]
    BY <2>1, FirstRunSubset DEF Written, TypeOK
  <2>3. QED
    BY <1>6, <2>2 DEF TypeOK, FlushInv, Resting, WrittenOut, AccountedFor, WriteFails, FlushReturns
<1>7. CASE SyncData \/ SyncFails
  BY <1>7 DEF TypeOK, FlushInv, Resting, WrittenOut, AccountedFor, SyncData, SyncFails, FlushReturns
<1>8. ASSUME NEW b \in Blocks, WriteBack(b) PROVE FlushInv'
  BY <1>8 DEF TypeOK, FlushInv, Resting, WrittenOut, AccountedFor, WriteBack
<1>9. CASE ProcessDies \/ PowerFails
  BY <1>9 DEF TypeOK, FlushInv, Resting, WrittenOut, AccountedFor, ProcessDies, PowerFails, Gone
<1>10. CASE Start
  BY <1>10 DEF TypeOK, FlushInv, Resting, WrittenOut, AccountedFor, Start
<1>11. CASE UNCHANGED vars
  BY <1>11 DEF TypeOK, FlushInv, Resting, WrittenOut, AccountedFor, vars
<1>12. QED
  BY <1>1, <1>2, <1>3, <1>4, <1>5, <1>6, <1>7, <1>8, <1>9, <1>10, <1>11
  DEF Next, Flush

(* and so always. *)
LEMMA IInvHolds == Spec => []IInv
<1>1. QED
  BY TypeCorrect, InitIInv, NextIInv, PTL DEF Spec

(* Every block the file lacks is marked, in the flush in progress, or was  *)
(* in a flush that did not end: cardfile.rs loses nothing it has not been  *)
(* told of by an error or an ending.                                       *)
THEOREM EverythingAccountedFor == Spec => []AccountedFor
<1>1. IInv => AccountedFor
  BY DEF IInv, FlushInv
<1>2. QED
  BY <1>1, IInvHolds, PTL

-----------------------------------------------------------------------------
(* A fresh card is saved. *)
LEMMA InitMaps == Init => Durable!Init
  BY DEF Init, Durable!Init, possible, running, Durable!Blocks, Blocks

(* Every step of the files and the flush is one of DurableCard's, or none. *)
LEMMA StepMaps ==
  TypeOK /\ TypeOK' /\ [Next]_vars => [Durable!Next]_(Durable!vars)
<1> SUFFICES ASSUME TypeOK, TypeOK', [Next]_vars
             PROVE  [Durable!Next]_(Durable!vars)
  OBVIOUS
<1>a. Blocks = Durable!Blocks
  BY DEF Blocks, Durable!Blocks
<1>b. \A b \in Blocks : possible[b] = {file[b], disk[b]} /\ possible[b] # {}
  BY DEF possible
<1>c. \A b \in Blocks : possible'[b] = {file'[b], disk'[b]} /\ possible'[b] # {}
  BY DEF possible
<1>d. ASSUME running, image' = image,
             \A b \in Blocks : possible'[b] \subseteq possible[b] \cup {image[b]}
      PROVE  [Durable!Next]_(Durable!vars)
  <2>1. running' \in BOOLEAN
    BY DEF running
  <2>2. QED
    BY <1>a, <1>c, <1>d, <2>1 DEF Durable!Next, Durable!Save
<1>e. ASSUME ~running, running' = running, image' = image,
             \A b \in Blocks : possible'[b] \subseteq possible[b]
      PROVE  [Durable!Next]_(Durable!vars)
  BY <1>a, <1>c, <1>e DEF Durable!Next, Durable!Narrow
<1>1. ASSUME NEW b \in Blocks, NEW v \in Data, GuestWrite(b, v)
      PROVE  [Durable!Next]_(Durable!vars)
  <2>1. Durable!Write(b, v)
    BY <1>1 DEF GuestWrite, Durable!Write, possible, running
  <2>2. QED
    BY <1>a, <2>1 DEF Durable!Next
<1>2. CASE Sleep \/ Wake \/ FlushDue
  BY <1>2 DEF Sleep, Wake, FlushDue, Durable!vars, possible, running
<1>3. CASE Close \/ SyncFails
  <2>1. running /\ image' = image /\ possible' = possible
    BY <1>3 DEF Close, SyncFails, running, possible
  <2>2. QED
    BY <1>d, <2>1
<1>4. CASE WriteRun \/ WriteFails
  <2>1. \A b \in Blocks : file'[b] \in {file[b], image[b]} /\ disk'[b] = disk[b]
    BY <1>4 DEF WriteRun, WriteFails, Written
  <2>2. running /\ image' = image
    BY <1>4 DEF WriteRun, WriteFails, running
  <2>3. QED
    BY <1>b, <1>c, <1>d, <2>1, <2>2
<1>5. CASE SyncData
  <2>1. running /\ image' = image /\ file' = file /\ disk' = file
    BY <1>5 DEF SyncData, running
  <2>2. QED
    BY <1>b, <1>c, <1>d, <2>1
<1>6. ASSUME NEW b \in Blocks, WriteBack(b) PROVE [Durable!Next]_(Durable!vars)
  <2>1. \A c \in Blocks : disk'[c] \in {disk[c], file[c]} /\ file'[c] = file[c]
    BY <1>6 DEF WriteBack, TypeOK
  <2>2. image' = image /\ running' = running
    BY <1>6 DEF WriteBack, running
  <2>3. QED
    BY <1>b, <1>c, <1>d, <1>e, <2>1, <2>2
<1>7. CASE ProcessDies \/ PowerFails
  <2>1. \A b \in Blocks : possible'[b] \subseteq possible[b]
    BY <1>7, <1>b, <1>c DEF ProcessDies, PowerFails
  <2>2. image' = image /\ (~running => running' = running)
    BY <1>7 DEF ProcessDies, PowerFails, Gone, running
  <2>3. QED
    BY <1>d, <1>e, <2>1, <2>2
<1>8. CASE Start
  <2>1. (\A b \in Blocks : image'[b] \in possible[b]) \/ image' = [b \in Blocks |-> Blank]
    BY <1>8, <1>b DEF Start
  <2>2. possible' = possible /\ ~running /\ running' = TRUE
    BY <1>8 DEF Start, possible, running
  <2>3. QED
    BY <1>a, <2>1, <2>2 DEF Durable!Next, Durable!Restart
<1>9. CASE UNCHANGED vars
  BY <1>9 DEF vars, Durable!vars, possible, running
<1>10. QED
  BY <1>1, <1>2, <1>3, <1>4, <1>5, <1>6, <1>7, <1>8, <1>9 DEF Next, Flush

(* CardFile implements DurableCard: the card image the host keeps can only *)
(* move forward, block by block, to what the card holds.                   *)
THEOREM RefinesDurableCard == Spec => ImplementsDurableCard
<1>1. QED
  BY TypeCorrect, InitMaps, StepMaps, PTL
  DEF Spec, ImplementsDurableCard, Durable!Spec

-----------------------------------------------------------------------------
(* The megabytes a new drive may come to have. *)
Sizes == 64 .. 32768

(* A size is clamped to one of them (main.rs). *)
LEMMA ClampedIs == ASSUME NEW mb \in Nat PROVE Clamped(mb) \in Sizes
BY SMT DEF Clamped, Sizes

(* Division by a number that is not a literal. *)
LEMMA Quotient ==
    ASSUME NEW n \in Nat, NEW k \in Nat, k > 0
    PROVE  /\ n \div k \in Nat
           /\ (n \div k) * k <= n /\ n < (n \div k) * k + k
BY SMT

(* And what is left of it. *)
LEMMA Remainder ==
    ASSUME NEW n \in Nat, NEW k \in Nat, k > 0
    PROVE  /\ n % k \in Nat /\ n % k < k
           /\ n = (n \div k) * k + (n % k)
BY SMT

(* The sectors of a cluster, where one is not enough. *)
ClusterSizes == {64, 32, 16, 8, 4, 2}

(* A cluster is one sector, or there are clusters well enough for FAT32.   *)
LEMMA SectorsPerClusterIs ==
    ASSUME NEW total \in Nat, total >= 131072, NEW spc, spc = SectorsPerCluster(total)
    PROVE  \/ spc = 1
           \/ spc \in ClusterSizes /\ total \div spc >= 70000
<1> DEFINE fit == {s \in ClusterSizes : total \div s >= 70000}
<1>1. CASE fit = {}
    BY <1>1 DEF SectorsPerCluster, ClusterSizes
<1>2. CASE fit # {}
    <2>1. \E s \in fit : \A other \in fit : other <= s
        <3>1. \A s \in fit : s \in {64, 32, 16, 8, 4, 2}
            BY DEF ClusterSizes
        <3>2. 64 \in fit \/ 32 \in fit \/ 16 \in fit \/ 8 \in fit \/ 4 \in fit \/ 2 \in fit
            BY <1>2 DEF ClusterSizes
        <3> HIDE DEF fit
        <3> QED
            BY <3>1, <3>2, SMT
    <2>2. spc = CHOOSE s \in fit : \A other \in fit : other <= s
        BY <1>2 DEF SectorsPerCluster, ClusterSizes
    <2>3. spc \in fit
        BY <2>1, <2>2
    <2> QED
        BY <2>3
<1> QED
    BY <1>1, <1>2

(* The table has an entry for each cluster, and there are clusters enough. *)
LEMMA ClustersFit ==
    ASSUME NEW v \in Nat, NEW spc \in ClusterSizes \cup {1}, v >= 70000 * spc - 2080, v >= 128992,
           NEW q \in Nat, NEW r \in Nat, NEW a \in Nat, NEW table \in Nat, NEW clusters \in Nat,
           v = q * (spc * 64 + 1) + r, r < spc * 64 + 1,
           a * (spc * 64 + 1) <= r * 64, r * 64 < a * (spc * 64 + 1) + (spc * 64 + 1),
           q * 64 + a + 2 <= 128 * table, 128 * table < q * 64 + a + 130,
           clusters * spc <= v - 2 * table, v - 2 * table < clusters * spc + spc
    PROVE  clusters >= 65525 /\ clusters + 2 <= 128 * table
<1>1. CASE spc = 1
    <2>1. v = 65 * q + r /\ r < 65 /\ 65 * a <= 64 * r /\ 64 * r < 65 * a + 65
        BY <1>1, SMT
    <2>2. 1 * clusters <= v - 2 * table /\ v - 2 * table < 1 * clusters + 1 /\ v >= 128992
        BY <1>1, SMT
    <2> QED
        BY <2>1, <2>2, SMT
<1>2. CASE spc = 2
    <2>1. v = 129 * q + r /\ r < 129 /\ 129 * a <= 64 * r /\ 64 * r < 129 * a + 129
        BY <1>2, SMT
    <2>2. 2 * clusters <= v - 2 * table /\ v - 2 * table < 2 * clusters + 2 /\ v >= 137920
        BY <1>2, SMT
    <2> QED
        BY <2>1, <2>2, SMT
<1>3. CASE spc = 4
    <2>1. v = 257 * q + r /\ r < 257 /\ 257 * a <= 64 * r /\ 64 * r < 257 * a + 257
        BY <1>3, SMT
    <2>2. 4 * clusters <= v - 2 * table /\ v - 2 * table < 4 * clusters + 4 /\ v >= 277920
        BY <1>3, SMT
    <2> QED
        BY <2>1, <2>2, SMT
<1>4. CASE spc = 8
    <2>1. v = 513 * q + r /\ r < 513 /\ 513 * a <= 64 * r /\ 64 * r < 513 * a + 513
        BY <1>4, SMT
    <2>2. 8 * clusters <= v - 2 * table /\ v - 2 * table < 8 * clusters + 8 /\ v >= 557920
        BY <1>4, SMT
    <2> QED
        BY <2>1, <2>2, SMT
<1>5. CASE spc = 16
    <2>1. v = 1025 * q + r /\ r < 1025 /\ 1025 * a <= 64 * r /\ 64 * r < 1025 * a + 1025
        BY <1>5, SMT
    <2>2. 16 * clusters <= v - 2 * table /\ v - 2 * table < 16 * clusters + 16 /\ v >= 1117920
        BY <1>5, SMT
    <2> QED
        BY <2>1, <2>2, SMT
<1>6. CASE spc = 32
    <2>1. v = 2049 * q + r /\ r < 2049 /\ 2049 * a <= 64 * r /\ 64 * r < 2049 * a + 2049
        BY <1>6, SMT
    <2>2. 32 * clusters <= v - 2 * table /\ v - 2 * table < 32 * clusters + 32 /\ v >= 2237920
        BY <1>6, SMT
    <2> QED
        BY <2>1, <2>2, SMT
<1>7. CASE spc = 64
    <2>1. v = 4097 * q + r /\ r < 4097 /\ 4097 * a <= 64 * r /\ 64 * r < 4097 * a + 4097
        BY <1>7, SMT
    <2>2. 64 * clusters <= v - 2 * table /\ v - 2 * table < 64 * clusters + 64 /\ v >= 4477920
        BY <1>7, SMT
    <2> QED
        BY <2>1, <2>2, SMT
<1> QED
    BY <1>1, <1>2, <1>3, <1>4, <1>5, <1>6, <1>7 DEF ClusterSizes

(* The layout of a disk of any number of sectors from 64 MB on is sound.   *)
LEMMA LayoutIs ==
    ASSUME NEW total \in Nat, total >= 131072, NEW l, l = Layout(total)
    PROVE  /\ l.clusters >= LeastClusters
           /\ 4 * (l.clusters + 2) <= 512 * l.table
           /\ l.start + l.clusters * l.spc <= l.volume
<1> DEFINE v == total - PartitionStart - Reserved
<1>1. PICK spc : spc = SectorsPerCluster(total)
    OBVIOUS
<1>2. PICK each : each = spc * 64 + 1
    OBVIOUS
<1>3. PICK q : q = v \div each
    OBVIOUS
<1>4. PICK r : r = v % each
    OBVIOUS
<1>5. PICK a : a = (r * 64) \div each
    OBVIOUS
<1>6. PICK table : table = Up((q * 64 + a + 2) * 4, 512)
    OBVIOUS
<1>7. PICK start : start = Reserved + Fats * table
    OBVIOUS
<1>8. PICK clusters : clusters = (total - PartitionStart - start) \div spc
    OBVIOUS
<1>9. /\ l.volume = total - PartitionStart /\ l.spc = spc /\ l.table = table
      /\ l.start = start /\ l.clusters = clusters
    <2>1. l = [volume |-> total - PartitionStart, spc |-> spc, table |-> table, start |-> start,
               clusters |-> clusters]
        BY <1>1, <1>2, <1>3, <1>4, <1>5, <1>6, <1>7, <1>8 DEF Layout
    <2> QED
        BY <2>1
<1>10. v \in Nat /\ v >= 128992 /\ v = total - 2080
    BY SMT DEF PartitionStart, Reserved
<1> HIDE DEF v
<1>11. /\ spc \in ClusterSizes \cup {1} /\ spc \in Nat /\ spc > 0 /\ spc <= 64
       /\ total >= 70000 * spc
    <2>1. CASE spc = 1
        BY <2>1, SMT
    <2>2. CASE spc \in ClusterSizes /\ total \div spc >= 70000
        <3>1. spc \in Nat /\ spc > 0 /\ spc <= 64
            BY <2>2, SMT DEF ClusterSizes
        <3>2. PICK n \in Nat : n = total \div spc /\ n * spc <= total
            BY <3>1, Quotient
        <3>3. n >= 70000
            BY <2>2, <3>2
        <3>4. n * spc >= 70000 * spc
            BY <3>1, <3>3, SMT
        <3>5. n * spc \in Nat /\ 70000 * spc \in Nat
            BY <3>1, SMT
        <3>6. total >= 70000 * spc
            BY <3>2, <3>4, <3>5, SMT
        <3> QED
            BY <2>2, <3>1, <3>6
    <2> QED
        BY <1>1, <2>1, <2>2, SectorsPerClusterIs
<1>12. each \in Nat /\ each > 0
    BY <1>2, <1>11, SMT
<1>13. q \in Nat /\ r \in Nat /\ r < each /\ v = q * each + r
    BY <1>3, <1>4, <1>10, <1>12, Quotient, Remainder
<1>14. a \in Nat /\ a * each <= r * 64 /\ r * 64 < a * each + each
    <2>1. r * 64 \in Nat
        BY <1>13, SMT
    <2> QED
        BY <1>5, <1>12, <2>1, Quotient
<1>15. table \in Nat /\ q * 64 + a + 2 <= 128 * table /\ 128 * table < q * 64 + a + 130
    <2>1. table = ((q * 64 + a + 2) * 4 + 512 - 1) \div 512
        BY <1>6 DEF Up
    <2> QED
        BY <1>13, <1>14, <2>1, SMT
<1>16. start = 32 + 2 * table
    BY <1>7 DEF Reserved, Fats
<1>17. total - PartitionStart - start = v - 2 * table
    BY <1>10, <1>15, <1>16, SMT DEF PartitionStart
<1>18. v - 2 * table \in Nat
    <2>1. each >= 65
        BY <1>2, <1>11, SMT
    <2>2. q * each >= q * 65 /\ q * each \in Nat
        BY <1>12, <1>13, <2>1, SMT
    <2>3. a * each >= a * 65
        BY <1>12, <1>14, <2>1, SMT
    <2>4. a <= r
        BY <1>12, <1>13, <1>14, <2>3, SMT
    <2> QED
        BY <1>10, <1>13, <1>14, <1>15, <2>2, <2>4, SMT
<1>19. clusters \in Nat /\ clusters * spc <= v - 2 * table /\ v - 2 * table < clusters * spc + spc
    BY <1>8, <1>11, <1>17, <1>18, Quotient
<1>20. v >= 70000 * spc - 2080
    BY <1>10, <1>11, SMT
<1>21. clusters >= 65525 /\ clusters + 2 <= 128 * table
    BY <1>2, <1>10, <1>11, <1>13, <1>14, <1>15, <1>19, <1>20, ClustersFit
<1>22. clusters * spc \in Nat
    BY <1>11, <1>19, SMT
<1>23. start + clusters * spc <= total - PartitionStart
    BY <1>10, <1>15, <1>16, <1>19, <1>22, SMT DEF PartitionStart
<1>24. 4 * (clusters + 2) <= 512 * table
    BY <1>15, <1>19, <1>21, SMT
<1> QED
    BY <1>9, <1>21, <1>23, <1>24 DEF LeastClusters

(* What a footer gives is nearly all of the disk. *)
GeometryOk(total, g) ==
    LET said == g.cylinders * g.heads * g.sectors
    IN  /\ g.cylinders < 65536 /\ g.heads <= 16
        /\ said <= total /\ total < said + (g.heads + 1) * g.sectors

(* The cylinders of so many heads and sectors that a disk has. *)
Cylinders(total, h, s) == (total \div s) \div h

(* They leave out less than a cylinder and a track. *)
LEMMA MadeIs ==
    ASSUME NEW total \in Nat, NEW h \in 4 .. 16, NEW s \in {17, 31, 63, 255},
           NEW c, c = Cylinders(total, h, s)
    PROVE  c * h * s <= total /\ total < c * h * s + (h + 1) * s
<1>1. PICK q \in Nat : q = total \div s /\ q * s <= total /\ total < q * s + s
    BY Quotient, s \in Nat, s > 0
<1>2. c \in Nat /\ c * h <= q /\ q < c * h + h
    BY <1>1, Quotient, h \in Nat, h > 0 DEF Cylinders
<1>3. PICK p \in Nat : p = c * h
    BY <1>2, SMT
<1>4. p <= q /\ q < p + h
    BY <1>2, <1>3
<1> DEFINE Fits(x) == p * x <= total /\ total < p * x + (h + 1) * x
<1>5. s = 17 => Fits(17)
    BY <1>1, <1>4, SMT
<1>6. s = 31 => Fits(31)
    BY <1>1, <1>4, SMT
<1>7. s = 63 => Fits(63)
    BY <1>1, <1>4, SMT
<1>8. s = 255 => Fits(255)
    BY <1>1, <1>4, SMT
<1> HIDE DEF Fits
<1>9. Fits(s)
    BY <1>5, <1>6, <1>7, <1>8
<1> QED
    BY <1>3, <1>9 DEF Fits

(* The cylinders are a number of 16 bits. *)
FitsField(c) == c < 65536

(* A footer made of them is a good one, when they are few enough. *)
LEMMA MadeFits ==
    ASSUME NEW total \in Nat, NEW h \in 4 .. 16, NEW s \in {17, 31, 63, 255},
           NEW c, c = Cylinders(total, h, s), FitsField(c)
    PROVE  GeometryOk(total, [cylinders |-> c, heads |-> h, sectors |-> s])
<1>1. c * h * s <= total /\ total < c * h * s + (h + 1) * s
    BY MadeIs
<1>2. h <= 16
    OBVIOUS
<1>3. c < 65536
    BY SMT DEF FitsField
<1> QED
    BY <1>1, <1>2, <1>3, SMT DEF GeometryOk

(* Each of the geometries chosen has few enough of them. *)
LEMMA GeometryIs ==
    ASSUME NEW total \in Nat, total >= 131072, total <= Sectors(32768)
    PROVE  GeometryOk(total, Geometry(total))
<1> DEFINE made(s, h) == [cylinders |-> Cylinders(total, h, s), heads |-> h, sectors |-> s]
           up == Up(total \div 17, 1024)
           heads == IF up < 4 THEN 4 ELSE up
<1>1. (IF total < 65535 * 16 * 255 THEN total ELSE 65535 * 16 * 255) = total
    BY SMT DEF Sectors
<1>2. PICK t17 \in Nat : t17 = total \div 17 /\ t17 * 17 <= total /\ total < t17 * 17 + 17
    BY SMT
<1>3. PICK h : h = heads
    OBVIOUS
<1>4. h \in Nat /\ h >= 4
    <2>1. up \in Nat
        <3>1. up = (t17 + 1024 - 1) \div 1024
            BY <1>2 DEF Up
        <3> QED
            BY <1>2, <3>1, SMT
    <2> QED
        BY <1>3, <2>1, SMT
<1>5. Geometry(total) = IF total >= 65535 * 16 * 63 THEN made(255, 16)
                        ELSE IF total \div 17 < h * 1024 /\ h <= 16 THEN made(17, h)
                        ELSE IF total \div 31 < 16 * 1024 THEN made(31, 16)
                        ELSE made(63, 16)
    BY <1>1, <1>3, SMT DEF Geometry, Cylinders
<1>6. CASE total >= 65535 * 16 * 63
    <2>1. FitsField(Cylinders(total, 16, 255))
        BY SMT DEF Sectors, FitsField, Cylinders
    <2>2. GeometryOk(total, made(255, 16))
        BY <2>1, MadeFits, 16 \in 4 .. 16, 255 \in {17, 31, 63, 255}
    <2> QED
        BY <1>5, <1>6, <2>2, SMT
<1>7. CASE total < 65535 * 16 * 63 /\ t17 < h * 1024 /\ h <= 16
    <2>1. PICK c \in Nat : c = t17 \div h /\ c * h <= t17
        BY <1>2, <1>4, Quotient, h > 0
    <2>2. FitsField(c)
        <3>1. c <= c * h /\ c * h \in Nat
            BY <1>4, <2>1, SMT
        <3>2. t17 < 16384
            BY <1>4, <1>7, SMT
        <3> QED
            BY <2>1, <3>1, <3>2, SMT DEF FitsField
    <2>3. GeometryOk(total, made(17, h))
        <3>1. h \in 4 .. 16 /\ c = Cylinders(total, h, 17) /\ FitsField(c)
            BY <1>2, <1>4, <1>7, <2>1, <2>2 DEF Cylinders
        <3> QED
            BY <3>1, MadeFits, 17 \in {17, 31, 63, 255}
    <2> QED
        BY <1>2, <1>5, <1>7, <2>3, SMT
<1>8. CASE total < 65535 * 16 * 63 /\ ~(t17 < h * 1024 /\ h <= 16)
    <2>1. CASE total \div 31 < 16 * 1024
        <3>1. FitsField(Cylinders(total, 16, 31))
            BY <2>1, SMT DEF FitsField, Cylinders
        <3>2. GeometryOk(total, made(31, 16))
            BY <3>1, MadeFits, 16 \in 4 .. 16, 31 \in {17, 31, 63, 255}
        <3> QED
            BY <1>2, <1>5, <1>8, <2>1, <3>2, SMT
    <2>2. CASE ~(total \div 31 < 16 * 1024)
        <3>1. FitsField(Cylinders(total, 16, 63))
            BY <1>8, SMT DEF FitsField, Cylinders
        <3>2. GeometryOk(total, made(63, 16))
            BY <3>1, MadeFits, 16 \in 4 .. 16, 63 \in {17, 31, 63, 255}
        <3> QED
            BY <1>2, <1>5, <1>8, <2>2, <3>2, SMT
    <2> QED
        BY <2>1, <2>2
<1> QED
    BY <1>6, <1>7, <1>8, SMT

(* A new drive has a sound layout, whatever size is asked for: the table   *)
(* covers the clusters, they are enough for FAT32, and the disk's footer   *)
(* says no more than there is (fat32.rs and vhd.rs).                       *)
THEOREM LayoutsSound == SyncSpec => []LayoutsAreSound
<1> DEFINE SizeAsked == stage = "new" => size \in Megabytes
<1>1. SyncInit => SizeAsked
    BY DEF SyncInit
<1>2. SizeAsked /\ [SyncNext]_syncVars => SizeAsked'
    <2> SUFFICES ASSUME SizeAsked, [SyncNext]_syncVars PROVE SizeAsked'
        OBVIOUS
    <2>1. CASE MakeDrive
        BY <2>1 DEF MakeDrive
    <2>2. CASE Work /\ UNCHANGED size
        BY <2>2 DEF Work, HostFiles, CopyIn, StoreWrite, NothingFits, Started, GuestWrites,
            UserWrites, GuestDeletes, Stop, CopyOut, CopyOutFails, Stopped, Kill
    <2>3. CASE UNCHANGED syncVars
        BY <2>3 DEF syncVars
    <2> QED
        BY <2>1, <2>2, <2>3 DEF SyncNext
<1>3. SizeAsked => LayoutsAreSound
    <2> SUFFICES ASSUME size \in Megabytes PROVE LayoutIsSound(Clamped(size))
        BY DEF LayoutsAreSound
    <2>1. PICK mb \in Sizes : mb = Clamped(size)
        <3>1. size \in Nat
            BY MegabytesAssumption
        <3> QED
            BY <3>1, ClampedIs
    <2>2. PICK total : total = Sectors(mb)
        OBVIOUS
    <2>3. total \in Nat /\ total >= 131072 /\ total <= Sectors(32768)
        BY <2>2, SMT DEF Sectors, Sizes
    <2>4. GeometryOk(total, Geometry(total))
        BY <2>3, GeometryIs
    <2>5. PICK l : l = Layout(total)
        OBVIOUS
    <2>6. /\ l.clusters >= LeastClusters
          /\ 4 * (l.clusters + 2) <= 512 * l.table
          /\ l.start + l.clusters * l.spc <= l.volume
        BY <2>3, <2>5, LayoutIs
    <2> QED
        BY <2>1, <2>2, <2>4, <2>5, <2>6 DEF LayoutIsSound, GeometryOk
<1> QED
    BY <1>1, <1>2, <1>3, PTL DEF SyncSpec
=============================================================================
