------------------------------ MODULE CardFile ------------------------------
(***************************************************************************)
(* The card image behind the emulated SD card: the dirty marks the card    *)
(* keeps, the flush that writes them back every two guest seconds and once *)
(* more at the end, and the endings that get in its way (app/cardfile.rs,  *)
(* the run loop of app/main.rs, SdCard::take_dirty_runs).                  *)
(*                                                                         *)
(* The flush is one call on the emulator's own thread, so the guest writes *)
(* nothing while it runs; but each of its writes, and the sync, may fail,  *)
(* and the process or the host may end between any two of them.            *)
(***************************************************************************)
EXTENDS Naturals, FiniteSets, FiniteSetsExt

CONSTANTS
    NumBlocks,   \* how many blocks the card has
    Data,        \* what a block can hold
    Blank,       \* what every block of a fresh card holds
    HostFails    \* whether the host's reads, writes and syncs may fail

ASSUME NumBlocksAssumption == NumBlocks \in Nat
ASSUME BlankAssumption == Blank \in Data
ASSUME HostFailsAssumption == HostFails \in BOOLEAN

Blocks == 0 .. NumBlocks - 1

VARIABLES
    image,       \* SdCard.data
    dirty,       \* SdCard.dirty_blocks
    file,        \* the image file as the host's programs see it
    disk,        \* what of it is on the medium
    phase,       \* "running", "writing" (inside flush) or "off"
    taken,       \* the blocks of the flush in progress
    todo,        \* those of them not yet written
    closing,     \* the flush in progress is the closing one
    asleep,      \* the machine has switched itself off; nothing is stepped
    atRisk       \* history: blocks of a flush that did not get to its end,
                 \* or of a file that could not be read

vars == <<image, dirty, file, disk, phase, taken, todo, closing, asleep, atRisk>>

TypeOK ==
    /\ image \in [Blocks -> Data]
    /\ file \in [Blocks -> Data]
    /\ disk \in [Blocks -> Data]
    /\ dirty \subseteq Blocks
    /\ taken \subseteq Blocks
    /\ todo \subseteq taken
    /\ atRisk \subseteq Blocks
    /\ phase \in {"running", "writing", "off"}
    /\ closing \in BOOLEAN
    /\ asleep \in BOOLEAN

Init ==
    /\ image = [b \in Blocks |-> Blank]
    /\ file = image
    /\ disk = image
    /\ dirty = {}
    /\ taken = {}
    /\ todo = {}
    /\ atRisk = {}
    /\ phase = "running"
    /\ closing = FALSE
    /\ asleep = FALSE

-----------------------------------------------------------------------------
(* The guest and the user. *)

GuestWrite(b, v) ==
    /\ phase = "running"
    /\ ~asleep
    /\ image' = [image EXCEPT ![b] = v]
    /\ dirty' = dirty \cup {b}
    /\ UNCHANGED <<file, disk, phase, taken, todo, closing, asleep, atRisk>>

(* The machine suspends: guest time, which the flush is timed by, stops. *)
Sleep ==
    /\ phase = "running"
    /\ ~asleep
    /\ asleep' = TRUE
    /\ UNCHANGED <<image, dirty, file, disk, phase, taken, todo, closing, atRisk>>

(* Only a reset wakes it.  A reset restarts the machine, not its card. *)
Wake ==
    /\ phase = "running"
    /\ asleep
    /\ asleep' = FALSE
    /\ UNCHANGED <<image, dirty, file, disk, phase, taken, todo, closing, atRisk>>

-----------------------------------------------------------------------------
(* The flush. *)

(* The first run of consecutive blocks of a set of blocks. *)
FirstRun(S) == {b \in S : \A c \in Min(S) .. b : c \in S}

(* Mutant of Written: each block goes one block off. *)
WrittenOneOff(written) ==
    [b \in Blocks |-> IF b \in written THEN image[(b + 1) % NumBlocks] ELSE file[b]]

(* The file, once the blocks of `written` have been copied out to it. *)
Written(written) ==
    [b \in Blocks |-> IF b \in written THEN image[b] ELSE file[b]]

TakeDirtyRuns ==
    /\ taken' = dirty
    /\ todo' = dirty
    /\ dirty' = {}

(* The timer in the run loop.  With nothing dirty flush returns at once. *)
FlushDue ==
    /\ phase = "running"
    /\ ~asleep
    /\ dirty # {}
    /\ TakeDirtyRuns
    /\ phase' = "writing"
    /\ UNCHANGED <<image, file, disk, closing, asleep, atRisk>>

(* The run loop ends, however it ends, and main flushes once more. *)
Close ==
    /\ phase = "running"
    /\ TakeDirtyRuns
    /\ closing' = TRUE
    /\ phase' = IF dirty = {} THEN "off" ELSE "writing"
    /\ UNCHANGED <<image, file, disk, asleep, atRisk>>

(* Mutant of WriteRun: the last block of a run is left out. *)
WriteRunShort ==
    /\ phase = "writing"
    /\ todo # {}
    /\ file' = Written(FirstRun(todo) \ {Max(FirstRun(todo))})
    /\ todo' = todo \ FirstRun(todo)
    /\ UNCHANGED <<image, dirty, disk, phase, taken, closing, asleep, atRisk>>

WriteRun ==
    /\ phase = "writing"
    /\ todo # {}
    /\ file' = Written(FirstRun(todo))
    /\ todo' = todo \ FirstRun(todo)
    /\ UNCHANGED <<image, dirty, disk, phase, taken, closing, asleep, atRisk>>

(* flush returns, to the run loop or to the end of main. *)
FlushReturns ==
    /\ phase' = IF closing THEN "off" ELSE "running"
    /\ taken' = {}
    /\ todo' = {}

(* A seek or a write fails part way: `?` leaves with the marks taken. *)
WriteFails ==
    /\ HostFails
    /\ phase = "writing"
    /\ todo # {}
    /\ \E k \in 0 .. NumBlocks : file' = Written({b \in FirstRun(todo) : b < k})
    /\ FlushReturns
    /\ atRisk' = atRisk \cup taken
    /\ UNCHANGED <<image, dirty, disk, closing, asleep>>

(* Mutant of SyncData: the flush ends without syncing. *)
SyncNothing ==
    /\ phase = "writing"
    /\ todo = {}
    /\ FlushReturns
    /\ atRisk' = atRisk \ taken
    /\ UNCHANGED <<image, dirty, file, disk, closing, asleep>>

SyncData ==
    /\ phase = "writing"
    /\ todo = {}
    /\ disk' = file
    /\ FlushReturns
    /\ atRisk' = atRisk \ taken
    /\ UNCHANGED <<image, dirty, file, closing, asleep>>

SyncFails ==
    /\ HostFails
    /\ phase = "writing"
    /\ todo = {}
    /\ FlushReturns
    /\ atRisk' = atRisk \cup taken
    /\ UNCHANGED <<image, dirty, file, disk, closing, asleep>>

-----------------------------------------------------------------------------
(* The host. *)

(* The operating system writes a block back when it pleases. *)
WriteBack(b) ==
    /\ disk' = [disk EXCEPT ![b] = file[b]]
    /\ UNCHANGED <<image, dirty, file, phase, taken, todo, closing, asleep, atRisk>>

(* What an ending leaves of the process: nothing, wherever it was. *)
Gone ==
    /\ phase' = "off"
    /\ dirty' = {}
    /\ taken' = {}
    /\ todo' = {}
    /\ atRisk' = atRisk \cup taken
    /\ UNCHANGED <<image, closing, asleep>>

ProcessDies ==
    /\ phase # "off"
    /\ Gone
    /\ UNCHANGED <<file, disk>>

PowerFails ==
    /\ Gone
    /\ file' = disk
    /\ UNCHANGED disk

(* The next run reads the image whole, as SdCard::from_image.  When it     *)
(* cannot, it goes on with a blank card in front of the same file.         *)
Start ==
    /\ phase = "off"
    /\ \/ image' = file /\ UNCHANGED atRisk
       \/ HostFails /\ image' = [b \in Blocks |-> Blank] /\ atRisk' = Blocks
    /\ dirty' = {}
    /\ phase' = "running"
    /\ closing' = FALSE
    /\ asleep' = FALSE
    /\ UNCHANGED <<file, disk, taken, todo>>

-----------------------------------------------------------------------------
Flush == FlushDue \/ WriteRun \/ WriteFails \/ SyncData \/ SyncFails

Next ==
    \/ \E b \in Blocks, v \in Data : GuestWrite(b, v)
    \/ Sleep
    \/ Wake
    \/ Flush
    \/ Close
    \/ \E b \in Blocks : WriteBack(b)
    \/ ProcessDies
    \/ PowerFails
    \/ Start

(* The run loop reaches its flush again and again while guest time passes, *)
(* and a flush that has begun returns.                                     *)
Fairness == WF_vars(Flush)

Spec == Init /\ [][Next]_vars

FairSpec == Spec /\ Fairness

-----------------------------------------------------------------------------
(* While the emulator runs, a block of the file that differs from the card *)
(* is marked dirty, or waits in the flush in progress, or was in a flush   *)
(* that did not reach its end, or of a file that could not be read at the  *)
(* start; and a block of the file not yet on the medium belongs to the     *)
(* flush in progress, to one that did not end or to such a file.           *)
(* (cardfile.rs flush: the marks are taken before anything is written.)    *)
AccountedFor ==
    /\ phase # "off" =>
           \A b \in Blocks : file[b] # image[b] => b \in dirty \cup todo \cup atRisk
    /\ \A b \in Blocks : disk[b] # file[b] => b \in taken \cup atRisk

(* cardfile.rs says of flush: "Write back everything the card has changed  *)
(* since this was last called".  Between flushes, then, whatever the file  *)
(* lacks is still marked for the next one.                                 *)
MarksCoverTheFile ==
    phase = "running" =>
        \A b \in Blocks : file[b] # image[b] => b \in dirty

(* A block the guest has written reaches the medium, unless the machine    *)
(* sleeps (guest time, and with it the flush timer, stands still), the     *)
(* emulator ends, or a flush of that block fails (main.rs flush_every).    *)
WritesGetSaved ==
    \A b \in Blocks :
        (b \in dirty) ~>
            (disk[b] = image[b] \/ asleep \/ phase = "off" \/ b \in atRisk)

(* What an abrupt ending can leave of a block. *)
possible == [b \in Blocks |-> {file[b], disk[b]}]

running == phase # "off"

Durable == INSTANCE DurableCard

(* The files and the flush implement the promise of DurableCard: after any *)
(* ending, each block is one the guest wrote there, never an older one     *)
(* than a save had already replaced on the medium; or the card is blank,   *)
(* because the file could not be read.                                     *)
ImplementsDurableCard == Durable!Spec
=============================================================================
