# VBNote in TLA+

VBNote emulates a BrailleNote or VoiceNote note-taker: a PXA270 board with an
ARM core, on which the machine's own firmware runs, with the host's keyboard,
audio and files in place of the real ones. These modules model the parts of it
where the order of events matters: what survives an ending, who sees a key and
when, what a driver in the guest finds when it comes back from a reset. TLC
checks them on small instances; TLAPS proves some of the results for every
instance.

The source is the reference. `src/` below stands for the repository; paths
such as `cardfile.rs` are given in full in `PROJECT.json`, whose `map` names
for every definition the lines it translates.

## The system

One thread, the *run loop* of `app/src/main.rs`, steps the processor, ticks
the devices, plays keystrokes, flushes the card and hears commands. Around it
are the Windows keyboard hook (a callback), a thread for each question put to
the user, the window, and the audio thread of the host. The guest, its drivers
and its keyboard scanner, is not part of the repository: where a model needs
one, it is modelled from how the source says it uses the devices, and marked
external.

| part | state | operations | hard about it |
|---|---|---|---|
| Card image (`app/cardfile.rs`, flush in `main.rs`) | card blocks, dirty marks, the file, what is on the medium | open, flush every two guest seconds, closing flush | each write and the sync can fail; the process or the host can end between any two; the timer is guest time |
| SD card (`pxa270/sdcard.rs`) | state of the card, address, data lines, blocks, marks | every command and ACMD, data in and out | a machine reset in the middle of a transfer; when a single block is over |
| MMC controller (`pxa270/mmc.rs`) | count, status, interrupts, clock | command start, FIFO, I_REG | acknowledging in the right order; data done |
| Keyboard hook (`app/hostkey.rs`) | which keys are down, modifiers, host key, capture, question | key events, chords, questions, two channels | auto-repeat, focus and questions in any order; a verdict on a key-up that its key-down did not get |
| Key player (run loop) | the keystroke being played and its stage, three queues | play, lift, commands, sleep, reset | a scanner that may be anywhere in its sweep, deadlines |
| Keyboard matrix, key-down line (`gandalf/keyboard.rs`, `pxa270/gpio.rs`) | keys down, scan counts, level and edge | press, release, scan | edges that do not happen |
| USB controller (`pxa270/ohci.rs`) and list walk (`gandalf/usb.rs`) | registers, done head, setup, reply; lists in the guest's memory | a service per tick, transfers, the done queue | two clients in one walk, a limit per service, reused links, completions handed over through one word of memory |
| USB drive (`gandalf/usbdisk.rs`) | phase of the bulk transport, tag, residue, sense, contents | wrapper, data, status, control requests | resets inside a command; too little and too much data |
| Board (`gandalf/lib.rs`) | the devices | decode, tick, reset | what a reset keeps |
| Interrupt controller, timers, pins (`pxa270/intc.rs`, `ost.rs`, `gpio.rs`, `power.rs`, `uart.rs`) | lines, masks, priorities; counter and matches; edges; seconds and alarm | lines set by devices, ICHP, match, tick | levels against edges, counter wrap-around, a core that sleeps |
| CPLD (`gandalf/cpld.rs`): modem (`modem.rs`), display chain (`braille.rs`) | modem's causes, command, answer; shift register | AT commands, bytes, clock edges | the pin must rise for each interrupt, and rises once |
| DMA (`pxa270/dma.rs`, `gandalf/dma.rs`) | channels, descriptors | run, stop, chain | which channel runs next; what a stop leaves |
| AC97, audio (`pxa270/ac97.rs`, `app/audio.rs`) | credit, ring, resampler | frames in, callback | two threads, two clocks |
| NOR flash (`gandalf/flash.rs`) | command state, contents, locks | program, erase, read | long command sequences, broken off |
| PC card (`gandalf/pcmcia.rs`) | ATA phase, count, buffer | commands, data port, reset | counts, a request broken off |
| I2C, 1-Wire (`pxa270/i2c.rs`, `gandalf/onewire.rs`) | transfer, battery; stage, shift, time of the pull | bytes; edges of a pin | transactions broken off; everything told apart by time |
| USB drive's volume (`gandalf/fat32.rs`, `fatfile.rs`, `app/usbsync.rs`) | allocation table, directory, clusters | format, list, create, remove, copy in and out | endings between two writes; which copy is newer |
| MMU and CP15 (`arm/mmu.rs`, `cp15.rs`) | control, table base, domains, process; cached translations | walks, register writes, flushes | what must not be cached any more, and from when on |
| Registers of the core (`arm/cpu.rs`) | live registers, spilled banks, statuses | mode changes, exceptions, transfers | the wrong bank shows only much later |
| Instructions (`arm/arm.rs`, `thumb.rs`, `alu.rs`) | registers, flags, memory | each class of ARM and Thumb | carries and shifts at their limits; aborts and interrupts half way |
| Window, progress, set-up, tools | | | host interface; mostly sequential |

`PROJECT.json` lists every component with its status, and every hazard with
the line where it bites and the properties that would catch it.

## Modules

| module | models |
|---|---|
| `DurableCard` | what the card image promises: the abstract specification |
| `CardFile` | dirty marks, flush and its failures, endings, restart; refines `DurableCard` |
| `SdCard`, `Mmc` | the card and its controller, as definitions that change their variables |
| `SdHost` | both under the guest's storage driver and machine resets |
| `HostKey` | the keyboard hook, the questions, both channels |
| `KeyPlayer`, `KeyPlayerProofs` | player, matrix, key-down line, the guest's scanner; its theorems |
| `UsbDisk`, `Ohci` | the drive and the controller with its list walk |
| `UsbHost`, `UsbHostProofs` | both under two guest drivers, an interrupt handler and machine resets; its theorems |
| `Mmu` | tables, CP15, the translation cache, a step of the core |
| `RegisterFile` | the register file of the architecture: the abstract specification |
| `Registers` | live and spilled registers; refines `RegisterFile` |
| `CoreProofs` | theorems of `Mmu` and `Registers` |
| `Instructions`, `InstructionProofs` | what ARM and Thumb instructions do, with the shifter and the adder, interrupts and aborts; its theorems |
| `Intc`, `Cpld` | the interrupt controller and the devices of the SoC that drive it; the modem and the display chain |
| `Interrupts`, `InterruptsProofs` | both with the core, time, and the guest's OAL and drivers; its theorems |
| `SoundLine` | what the way from the codec to the ear promises: the abstract specification |
| `Dma`, `AudioOut` | the DMA engine with the codec; the host's audio output |
| `Sound` | both under the guest's sound and copying drivers; refines `SoundLine` |
| `NorArray` | what a NOR flash promises: the abstract specification |
| `Flash`, `Pcmcia`, `I2c`, `OneWire` | one device each with the guest's driver; `Flash` refines `NorArray` |
| `DeviceProofs` | theorems of `Flash`, `Pcmcia`, `I2c` and `Sound` |
| `BusProofs` | theorems of `SdHost` and `OneWire`, whose drivers read a part bit by bit or word by word |
| `Shelf` | what the drive promises of its files: the abstract specification |
| `FatVolume`, `UsbSync` | the volume and its files; the copies in and out around runs of the guest; refines `Shelf` |
| `HostProofs` | theorems of `HostKey`, `CardFile` and `UsbSync`, the host's side |
| `MC...` | the instances TLC checks; `MCDevices` also puts the four devices side by side |

`NorArray`, `SoundLine`, `Shelf`, `DurableCard` and `RegisterFile` say what a
caller may rely on and nothing of how; the others are translated from the
source. Every `TypeOK` is written and true, and a run's cfg names the few
properties that say most; the others a module states can be put under
`INVARIANTS` or `PROPERTIES` of its cfg and hold as well, unless the text below
says otherwise.

### CardFile

`image` and `dirty` are `SdCard.data` and `dirty_blocks`; `file` is what the
host's programs read, `disk` what has reached the medium. `TakeDirtyRuns`
clears the marks, as `take_dirty_runs` does, before `WriteRun` writes the first
byte: that order is what the properties are about. A flush is one call on the
emulator's thread, so the guest writes nothing in it, but it is modelled a run
at a time because `ProcessDies`, `PowerFails` and the failures can come
between. A failed write leaves a prefix of its run. `WriteBack` is the
operating system writing a page when it likes. `Sleep` stops guest time and
the flush with it. `Start` reads the file back, or, when it cannot be read, goes
on with a blank card in front of it. `atRisk` is history: the blocks of a flush
that did not end, or of a file that could not be read.

`DurableCard` keeps for each block the set of values it may come back with, or
else the card is blank;
the refinement maps that to `{file[b], disk[b]}`.

Run `card_file` (module `CardFile` itself; 3 blocks, 2 values: two separate runs of blocks in a flush,
and a run that fails in its middle): the marks, the flush in progress and the
failed flushes account for every difference (`AccountedFor`); the abstract
card is implemented; and what is written reaches the medium (`WritesGetSaved`)
unless the machine sleeps, ends, or the flush fails. Run `card_marks` shows
that a failed flush does leave unmarked differences.

### SdCard, Mmc, SdHost

Data is counted in words of the FIFO; a block is two words, and the contents
of a register are one kind of word, so that a word of the wrong origin shows.
`SdHost` is the guest's driver: clock, identification in its SD or MMC form,
SCR and SSR, then reads and writes of one or many blocks, acknowledging by
I_REG and polling CMD13 after a write. `MachineReset` starts the driver over
and leaves card and controller alone, as `restart` does.

Run `sd_host` (2 blocks of 2 words, 2 resets: one inside a transfer and one
inside the bring-up that follows): reads return the card's words in order (`ReadsAreRight`),
writes land whole and nowhere else (`WritesAreWhole`), and
every request ends (`RequestsFinish`). That data-done means done
(`InterruptMeansDone`) and that the card is ready when the driver comes to it
(`ReadyForRequests`) is proved, with the first two. `MaxPending` bounds the words the card
has ready, above what any register or request of the instance can make.

### HostKey

An event is one action: `Track`, then `Decide`, then what `Decide` says. The
person holds at most `MaxHeld` keys, the last of which repeats. A question is
a thread that starts (`Ask`), shows its box and is answered. `hostSees` and
`chorded` are history. The letters of chords are ordinary keys too.

Run `host_key` (two SHIFTs, FUNCTION standing on one of them, 3 held keys, 2
commands, 1 press, 1 question): tracking is true, a held key is one press, a chord's key is never typed. Three keys
are enough for two keys of one modifier and one that is typed, or host key,
letter and modifier; the channels fill. `SayingIsTrue` (the announcements
end with the truth) holds beside them. With a second question
`QuestionsCanBeAnswered` is violated, and with a FUNCTION key of its own
`HostHasItsKeyboard` is: see below.

### KeyPlayer

`held` and `stage` are the player's; `seen` counts the scans of each key's
column since the stage's baselines (2 is all the code asks). `ReadRows` is a
read of the scan register; only a column with a key down is counted. The
scanner sweeps the columns in order, is started by the edge, and keeps
sweeping while it believes a key down. A deadline is `TimePasses`, which may
come at any time. `Press` is the hook's channel, `ReadKeysFrom` the file of
`--keys-from`, `Script` that of `--type`.

Run `key_player` (2 columns; SHIFT and a letter share one, READ is alone in
the other; a plain key, a chord of two modifiers, and a key that is not on the
keyboard; one press waiting, one command, one scripted key): the matrix is
what the stage says, chords arrive in order and keys are lifted once seen
unless time ran out, and nothing holds up the queue.
Two columns are enough for a sweep that has passed one modifier and not the
other. `NewKeysAreTold` holds beside them; `LineFollowsMatrix` does not, see
below. Deadlock is not checked:
a quit ends the run loop.

### UsbDisk, Ohci, UsbHost

Lengths are counted in cells, a sector being some cells; a wrapper is one. The
lists are in the guest's memory and kept as the driver keeps them: a queue per
endpoint linked from `head` to `tail`, the tail written last. `RunTd` takes one
transfer; `Retire` moves it onto the done stack, reusing its link; `HandOver`
ends a service at the limit or at the end of the lists. A service is one call
in the code, so the guest does nothing while `walk` is not empty.

`UsbHost` has a bulk client (wrapper, data, status, a stage at a time), a
control client whose stages are queued together, and a handler that takes the
stack in one step and clears the interrupt in another; a service may come
between. `MachineReset` leaves controller, lists and drive alone; the drivers
bring the controller up again, and reset the drive if `SendsReset`.

Run `usb_host` (a sector of two cells, `MaxTds` of 2 so that a service does
stop in the middle of a list, four descriptors for each client so that they
are used again while the other waits, two commands or requests, one reset):
queues are whole (`QueuesAreWhole`); status, data and
answers belong to the request they are taken for (`RequestsAreAnswered`);
writes change only what was asked (`DataIsRight`); and work ends or a
completion has been lost (`WorkFinishes`). Two requests are enough for one
to find what the other left; one reset cuts the first short anywhere.
Deadlock is not checked: drivers stop when their requests are made, and wait
for ever when a completion is lost.

### Mmu

The cache is keyed by granules of 1 KB. A first-level descriptor is invalid, a
section or a table; a second-level one covers one granule, four or sixteen
pages of them (`Spans`). A step of the core is `Fetch`, an action for each
access or one for anything else (`Access`, `StoreToTable`, the CP15 writes,
`Branch`, `Trap`, `ReturnToUser`), and `Retire`; `TakeInterrupt` ends a step
before it fetches. The guest is the kernel that writes tables and registers as
it likes and a program without privilege. `unflushed` is history: the granules
a store to a table made stale that no flush has followed. A halted core, which
does nothing but flush, and the alignment check, which comes before
translation, are left out.

Run `mmu` (three granules, two of which share an entry of the cache and two a
descriptor, two first-level tables, an invalid, a privileged and an open page,
S, the domain in each of its modes, two processes, a patience of 2 instead of
8): no access of an instruction goes by a translation the tables no longer
give (`AccessesAreCurrent`), and the regime in force is what M says or will be
(`RegimeFollowsM`). A smaller patience only makes the deadline come before
branches do.

### Registers

`SetMode` is `set_mode`, `EnterException` composes it as the code does, and
`UserReg` and `SetUserRegs` reach User's registers from another mode. What an
instruction computes is any value, the flags and the program counter are left
out. A block load that aborts leaves what it had loaded; Thumb's PUSH has
moved its stack pointer. The guest uses a saved status only in a mode that has
one, and goes back only to a mode that was saved.

### Instructions

`ExecuteArm` and `ExecuteThumb` are the two large matches of `arm.rs` and
`thumb.rs`, over instructions that are records of their fields; `Step` is
`Cpu::step`: the interrupt first, then the fetch, the execution, the abort.
The machine is drawn small: words of `Bits` bits, a byte a quarter of that, so
16 byte addresses and two pages, either of which may be missing. What picks a
record from its bits (`ArmInstructions` and `ThumbInstructions` are all the
records there are), the S-bit transfers (in `Registers`), coprocessors (CP15
is in `Mmu`), alignment faults and cycle counts are left out, and so is ARM's
BKPT, which the code runs as a TEQ that sets nothing.

Run `registers` checks `Registers` and `Instructions` side by side, one resting
while the other runs (`SpecBoth`). For the first: User, FIQ and Abort, one
register FIQ has of its own and one every bank has; the live registers and the
spilled ones implement the abstract file (`ImplementsRegisterFile`). User, a
mode with both kinds of registers and one with one kind are all the cases the
code tells apart. For the second: programs of one or two instructions from
chosen starts, with an interrupt before any of them and a code or data page
missing. A Thumb instruction does what the ARM instruction it is short for does
(`ThumbIsArm`): `arm.rs` and `thumb.rs` decide it apart. Comparisons and the
conditions after them, sums carried over two words, and shifts by any amount
are those of integers (`ArithmeticIsTrue`). A program that an interrupt or an
abort came into, and whose handler returned, ends as it does undisturbed
(`ProgramsAreUndisturbed`); PUSH and block loads of their own base are excepted,
since those cannot be repeated after an abort, see below. Words of four bits
are wide enough for every distinction the shifter makes, shifts by the width
and beyond it included. Deadlock is not checked: a program ends.

### Intc, Cpld, Interrupts

`Intc` has a variable for each device of the SoC, and each device sets its own
lines again after everything that may have changed them, as `update_irq` and
its like do. A line is a level. `Cpld` has the modem, whose pin is driven after
every access to it (`DriveModem`) and is to rise for each interrupt, and the
shift register of the braille display. `Interrupts` composes them with the
core, which halts and wakes, and with time: `Tick` is a turn of the run loop,
any number of timer ticks up to `MaxTicks` at once. The guest is its OAL
(which measures the display, programs the priorities, reads ICHP in its
handler and idles with interrupts masked), a loading sequence for each driver,
and the modem's driver with its thread. `Restart` starts the guest over and
leaves these devices as they are: `reset` of the board puts back the flash and
the keyboard only.

Run `interrupts` (three machines: with a display and a whole table of
priorities, without a display and with an empty table, and with a console;
two drivers each; a counter of five values of which a period is four, and up to two ticks
in a batch, so that matches lie in the middle of a batch and on the wrap; a
clock of two seconds; a restart): the handler is never told that nothing
interrupted it (`HandlerFindsItsSource`); matches are caught exactly when a
tick counted one by one would reach them (`MatchesAreCaught`); a modem with
something to say has an edge latched while its thread sleeps (`NoWakeIsLost`);
and clock and modem drivers go on being served (`DriversAreServed`). FIQ, which
this guest does not use, is computed and never taken; the power switch and
suspend are left out. Deadlock is not checked: a machine without a clock sleeps
when nothing comes.

### Dma, AudioOut, Sound

`Dma` counts words; `Batch` is the share of a turn of the run loop that the
engine gets, and the codec's `credit` grows with the guest's time (`Asked`).
`Service` runs the lowest channel that can run. `AudioOut` is the ring between
the run loop, which resamples and pushes, and the callback on the host's
thread, which fills a cushion before it plays. The position between two frames of
the guest is counted in `Unit`s, exactly, where the code has a double: rounding
is left out. Word and side of each sample are
kept, so that a half of a stereo pair that slipped shows. The driver keeps a
chain of two buffers going round and refills the one it was told is done;
`late` and `stale` are history: it missed one, or an end of a transfer cut short
by a stop was told before its own. `SoundLine` keeps the frames in flight, the
time owed to the codec, the place in the two buffers and the phase of the next
frame. What is sent next is fixed: the words at the place, in turn and in order
(`Ahead`), each in as many frames of the device as begin in its time at the rate
the driver asked for (`Begun`, `Made`). Free is only how many words go at once,
up to the time owed, and what is lost: the oldest, and only when a second
(`Room`) is left. A start sets the place back (`SetOff`); a transfer that a stop
cut short is finished first, as the code does. A word left out, repeated or
changed, a frame torn, or the rate of the link in place of the driver's (the
mutant) is none of its steps. `Heard` reads the frames off the ring, and
`PlaceOf` the place off the channel. The words are those the buffers begin with;
what a refill puts there has the same ones, and `RefillsAreSafe` says where it may.

Run `sound` (two channels, two buffers of two words, a copy of two descriptors,
one or three words in a batch, device frames at three for two of the guest's, so
that a word makes one or two, and another rate for the link, a stop or a restart):
the words of the buffers are heard in turn, in order and for their time, and what
is dropped is the oldest (`ImplementsSoundLine`); a refill never writes where the engine reads
unless late or stale (`RefillsAreSafe`); a copy told done is all there
(`CopiesAreWhole`); both drivers go on (`BothGoOn`). Sound is on the higher channel, as the guest has it: on the
lower one it would starve the copy while it plays. The frame repeated while the
ring is dry and the counts of frames missed are left out. Deadlock is not
checked.

### Flash, Pcmcia, I2c, OneWire

Four devices that share nothing, each with the driver the comments describe,
each driver broken off at any point by a restart of the machine or a
transaction given up. `Written` is one bus write to the flash in any of the
modes of its command machine; `NorArray` only knows that programming clears
bits of a word, and erasing sets those of a block that is not locked. `Pcmcia`
is `Ata` behind the configuration register; a sector is two halfwords.
`I2c` moves bytes at once, as the code does; the battery remembers a command
between a write and a read. In `OneWire` everything is told apart by time:
`Pulled` and `Released` keep the moment of the edge, and time is modulo `Wrap`.

Run `devices` (a flash of two blocks of two words of two bits; a card of three
sectors; a battery that answers two commands; a part whose bytes are of two
bits, zeros that an interrupt draws out to less than a reset, as much or more; two
restarts or three breaks each): the flash changes only as a NOR array
may (`FlashIsNor`), a failed program or erase is told by the status
(`FailuresAreTold`), a card request moves exactly the sectors the card takes it
to be of, those past the end being dropped from a write (`RequestsAreServed`;
`Counts`, 4 here, is the 256 of the code, which is moved as one), the battery's
answer is to the command asked (`AnswersAreToTheQuestion`), and a whole read of
the serial number is of the part, unless a zero of its request was as long as a
reset (`ReadsAreOfThePart`). Two blocks are one that is locked or erased and one
that is not; two restarts cut a sequence and the one that follows it.

### FatVolume, UsbSync

A volume is its allocation table and its clusters; a name is the sequence of
parts its long entries carry, so that a name can span clusters. Each write to
the drive is a step, in the order of `fatfile.rs`. `UsbSync` has stages: a new
drive is laid out (`MakeDrive`), the folder is copied in, the guest runs and
the user edits, the folder is copied out, and the process may end anywhere
(`Kill`), or a copy out fail. `Shelf` is what a caller of `create` and `remove` may
rely on; `shelf` is the history it is compared with.

`RemoveFile` walks back over the disk and not along the directory, as `remove`
does: what it finds may be data, of this file or of another, and is marked if it
looks like a long entry (`IsLong`, `LooksLong`). A removal that marks what is not
the file's, or leaves some of its entries, has gone astray (`GoesAstray`); from
then on `strayed` excuses `ImplementsShelf`, `VolumeIsSound` and `NewestIsKept`,
and with `StraysExcused` off they fail, see below. What lies before the first
cluster is the end of the table, taken for zeros: on a drive formatted here the
label is in the first slot, and the walk never gets there. The guest's own driver
(`Deleted`) is not that of the host, and removes what is the file's.

Run `files` (drives of five clusters of four slots, new, formatted elsewhere
without a label, or used, so that a name spans two clusters of the root after
data of another file; three names, two contents, two short names; two events, at
most one of them a fault; and every size of drive from 1 to 32,800 MB): `ImplementsShelf`;
`VolumeIsSound`, of which the listed files are whole whenever no file is being
written, and short names differ but for the last number, which two of three files
share here; `NewestIsKept` when nothing failed; `LayoutsAreSound` for each size.
Five clusters are few enough to run out and enough for the root to grow. An end of
the process where the volume is torn (a chain freed and its entry not yet, or half
the entries of a name) is possible only with `TornKills`, under which the
properties do not hold, see below. `FilesOf` are the files that are whole: while
one is removed it is gone from the first write on. The guest's own changes are
atomic; failed reads of host files, and names with separators, which are refused,
are left out.

## Fairness

* `CardFile`: weak fairness of `Flush`. The run loop passes its timer as long
  as guest time passes; a sleeping machine disables it.
* `SdHost`: weak fairness of the driver's work: the processor keeps stepping.
* `KeyPlayer`: weak fairness of `Play`, `TimePasses`, `HearCommand`, each done
  every turn of the loop. None of the guest's scanner: the deadlines are there
  because it may never look, and `KeysArePlayed` does not need it.
* `UsbHost`: weak fairness of the service, which `tick` calls; strong fairness
  of the handler and of the clients, which run only between services: the
  service is disabled again and again, never for good.
* `Interrupts`: strong fairness of the ticks of time and weak fairness of the
  start, the handler and the core, which the run loop steps by turns; strong
  fairness of loading and of the modem's thread, which run only between
  interrupts: they are disabled again and again, and the guest has thousands of
  instructions for each of them between two ticks.
* `Sound`: time goes on for ever (`clock` changes again and again); weak
  fairness of the host's callback, whose device asks for as long as it is open,
  and of the guest's two drivers.
* `HostKey`, `MCDevices`, `UsbSync`, `Mmu` and the two parts of `registers` state no
  liveness: the person, the user and a guest owe nothing.

## What is proved

The proofs hold for every value of the constants that satisfies the named
assumptions; they were checked by tlapm with Z3, Zenon and LS4.

* `HostProofs`, of `CardFile` (any number of blocks, any contents, with host failures or
  without): `TypeCorrect`; `EverythingAccountedFor`, with an inductive
  invariant that adds to `AccountedFor` that nothing is taken outside a flush
  (so that a death forgets only marks) and that a block a flush has written is
  as on the card (so that its sync may forget it was at risk); and `RefinesDurableCard`, one
  step per action, each a `Write`, `Save`, `Narrow`, `Restart` or stutter.
  Of `UsbSync`: `LayoutsSound` (any size of a new drive). The state contributes
  that a new drive is asked to have one of the sizes; the rest is arithmetic on
  `Layout` and `Geometry`, for every number of sectors between 64 MB and 32 GB.
  The table is computed before the clusters that it takes the room of, with two
  roundings; `ClustersFit` shows for each of the seven cluster sizes that it
  covers them all the same, and that they are enough for FAT32. A product of
  two unknowns is out of the solver's reach, so that lemma is seven linear ones.
  Of `HostKey` (any keyboard, modifiers and bounds): `TrackingHolds`,
  `OnePress` and `ChordsStayOut`. The last two follow from the tracking, with
  the repeating and the chorded keys among those held: a press is sent only
  when the key was not noted, and noted is held.
* `KeyPlayerProofs` (any keyboard, columns and presses): `TypeCorrect`,
  `NoKeyLeftDown`, `ModifiersFirst` and `LiftedSeen`. `MatrixIsHeld` alone says nothing of
  what the guest has seen; the invariant adds that the baselines are those of
  the stage's keys, that a key counted as scanned has been found, and that once
  the key is down, unless time ran out, the modifiers have been found.

* `CoreProofs`, of `Mmu` (any tables, cache, domains and guest): `TypeCorrect`,
  `NothingStaleIsUsed` and `RegimeCatchesUp`. The invariant under
  the second is that, unless a flush is due, a cached entry is what a walk
  would give for its granule, and that no flush is due while an instruction
  executes: an entry is filled from a walk, and whatever a walk depends on asks
  for a flush or is a store to a table. Of `Registers` (any names, values, modes
  and lists): `RegistersTypeCorrect`,
  `RefinesRegisterFile` and `UsersAreFound`. The heart is `SetModeFile`: a
  change of mode moves registers and statuses between the live set and the
  banks and changes none; every action is then a change of mode after changes
  to registers its mode sees. The type is the whole invariant needed.

* `BusProofs`, of `SdHost` (any card, registers, requests and number of resets):
  `ReadsRight`, `WritesWhole`, `DoneMeansDone` and `ReadyBetweenRequests`. The
  invariant ties three counts that nothing in the code compares: the words the
  driver has moved, those the controller still expects, and where the card has
  got to (`Together`). They start together only if no register word is left on
  the card's lines, which a reset in the middle of one could leave: CMD0 drops
  them, unless a CMD55 sent before the reset turns it into an application command
  that is ignored, and a CMD55 is only ever sent with the lines empty
  (`Control`). `Ready` follows the card's state from CMD7 on.
  Of `OneWire` (any width of a byte, identity, memory and counter): `SerialRead`.
  The invariant (`WireInv`) follows the read: while the kernel asks, the part has
  taken in the whole bytes sent and the bits of the next one (`Hears`); while it
  reads, what the part has left to shift out is the rest of the byte it is at
  (`Utters`), and the kernel's bits are those of the bytes so far (`AreBitsOf`). A
  slot ends with the line free, as it is not long since it was let go
  (`InTime`, `StaysInTime`): half a turn of the counter is longer than any read. The
  value of a byte's bits is the byte (`ValueOfBits`), by a least counterexample.
  Of a zero the proof knows whether it was taken for one or for a reset; after a
  reset in mid request (`mistaken`) nothing is claimed until the next read.
  `WireAssumption` asks for what the parts of the board are: bytes of at least two
  bits, for the commands; a memory that one byte addresses (128 of 256); and a
  counter that a read does not go half round, however long a zero an interrupt
  may make (`LongestZero`; `Slow` is any set of lengths up to it).

* `UsbHostProofs` (any drive, transfers, requests, resets, and any limit of a
  service): `QueuesWhole`, `AnswersArrive` and `DataRight`. That the queues are
  whole is not inductive by itself. The invariant (`Ground`) has three parts. `Lists`:
  what is asked of an endpoint is done up to a place, linked in order from the
  head to the tail after it (`Whole`); no descriptor is in two places (`Apart`);
  and what is on a done stack is done, held by its driver and told to nobody (`Stacks`): a
  descriptor is retired into a link it has just been taken from. A reset
  abandons the lists and a bring-up makes them again, so this part is claimed only
  while they are live. `Life` says how far the bring-up is and what a service may find;
  `Waits` which endpoints have nothing asked of them. The
  other two theorems add where the drive is for each number of transfers done
  (`Answering`). They suppose `SendsReset`: a driver that does not reset the
  drive finds it in the middle of a command after a restart, and is promised
  nothing; the run's drivers do.

* `InterruptsProofs` (any table, drivers, command, period and counter, any
  machine): `NoWakeLost`, `SourceIsFound` and `MatchesCaught`. `NoWakeIsLost`
  alone is not inductive; the invariant adds that the pin's level is that of the modem's interrupt, whoever accessed
  it last; that the pin is armed before the thread exists, which the order of
  the loading ensures; and that the port is opened in order, so that the thread
  turns interrupts off with the latch closed and then on. Then each access to
  the modem by a thread that is not asleep is harmless, and one by a thread
  going to sleep, or by an application while it sleeps, finds the line low or
  the edge latched. One lemma says what an access does (`AccessKeeps`), and each
  action is an access. `HandlerFindsItsSource` needs three more facts: each
  device's lines are at most those its registers ask for, so that driving them
  again takes away nothing that is still due (`Driven`); nothing is let through
  that a table in use leaves out, and no interrupt is taken before the table is
  written (`Settings`, from the assumption on the tables); and until the handler
  reads ICHP only time and the host act, which add to the lines (`TickAdds`,
  `FeedAdds`). A least entry then exists, as the numbers are well-founded.
  `MatchesAreCaught` rests on the counters staying in their range (`MInv`) and on
  arithmetic: in a batch shorter than a turn, `crossed` holds of exactly the
  values a tick counted one by one would reach (`CrossedIsReached`).
* `DeviceProofs`, of `Flash` (any size, word, blocks, image, jobs and
  number of restarts): `FlashRefinesNor`: each write of the bus is a step of
  `NorArray` or a stutter, by cases on the mode of the command machine; it needs
  of the state only that modes, words and locks have their types.
  `FailuresTold`: the invariant (`JobInv`) is that what is left to write is the
  end of the job's script, and that the chips are at the stage (`Stage`) the rest of it
  says: the mode that the next write needs, and how many of the words are
  programmed or refused (`Filled`). One lemma takes each write to the next stage
  (`NextStage`); what the script holds at each place is `ScriptSays`. A job starts at a word
  of the chips (`JobsAssumption`) but may run over their end.
  Of `Pcmcia` (any number of sectors, any contents, requests and resets):
  `RequestsServed`, by an invariant that ties the sectors the driver has moved to
  the card's address, its count and its place in the sector (`InStep`), and what was moved
  to what the disk holds (`Got`, `Put`). The sectors of a request are those the card takes it to be of
  (`Taken`): the largest count is one sector, and what a write has past the end of
  the disk is dropped, see below. A request
  finds the card in whatever state the one broken off before it left.
  Of `I2c`: `BatteryAnswers` (any
  battery, other addresses and any transaction given up): the invariant relates
  the step of the driver to what the controller and the battery hold; the heart
  of it is that `got` and what is left of the buffer are together the answer
  (`TakeByte`), and that nothing of a transaction given up is left when the
  next one has sent its command.
  Of `Sound` (any channels, chains, lengths of buffers and of batches, any
  device): `CopiesWhole` and `RefillsSafe`. The invariant (`SoundInv`) says of
  each driver's channel where in its chain the engine is. The words up to there
  are copied, and no word of what is copied changes meanwhile (`CopyState`); and
  a playing driver that is neither late nor misled finds the engine in the
  buffer it is not about to fill, or, when an end is latched that it has not been
  told of, in the one after (`WaveOk`, `At`). One turn of the engine keeps this
  whatever channel it serves (`PlayTurn`, `CopyTurn`); a batch is a recursive
  function of its turns, and if one of its values broke the invariant there
  would be a least such (`TurnsKeep`). The assumptions say what the drivers set up:
  two channels; a chain round two buffers that do not overlap, each descriptor
  telling its end (`PlayAssumption`); and a copy of consecutive words that does
  not overlap its source, whose last descriptor tells its end (`CopyAssumption`).
  `SoundRefinesLine`: the way of the sound implements `SoundLine`, under the
  refinement mapping `line <- Heard`, `due <- credit`, `place <- PlaceOf` of the
  channel, `phase <- resample`. The invariant (`LineInv`)
  adds to `SoundInv` that the transfer to the codec lies within one of the
  driver's buffers (`InBuffers`), which a copy never overwrites (`SoundThere`); that
  while the channel runs or the driver is on, the codec has the driver's rate (`Rated`),
  although a bring-up after a restart sets it anew; and that the ring is the samples
  of some sequence of whole frames. The proof goes the way of the sound.
  A batch gives the codec the words ahead of the place, and no more than its credit
  (`BatchFeeds`, from what one turn moves, `PlayFeeds`): a walk along a transfer is
  `SoundLine`'s walk along the words (`WalkInto`), and the fetch of a descriptor its
  step to the other buffer (`FetchRests`). The resampler has for each word the
  frames that begin in it (`ResampledIs`): the number of frames that begin before a
  moment is a rounded quotient, which is the abstract line's least number that
  reaches it (`BegunIs`, `BegunAgrees`). Joining samples joins frames, and dropping an
  even number of samples drops whole frames (`SamplesJoined`, `SamplesLost`), which
  is why a cap that is even, two samples for each frame of the device's second, matters.
  The theorem supposes nothing of the device but that its rates are numbers
  (`AudioAssumption`); of the drivers that they do not copy over the sound; and of
  the chain that a channel never set does not point at its second descriptor, which
  holds because no descriptor is at the address such a channel has (`PlayAssumption`).

* `InstructionProofs` (words of any width below 256 bits that has quarters, any
  registers, memory, pages and programs of the instructions there are, whose last
  alone may go elsewhere): `ThumbAlwaysIsArm`, `ArithmeticAlwaysTrue`. The width is
  bounded because the code takes the amount of a shift from the lowest byte of a
  register. For the first, two thirds say what no instruction does: from arithmetic on words up, that a core stays a core through
  every operation, and that an instruction of ARM goes on to the next, goes
  elsewhere, aborts with the link eight past itself, or calls (`ArmIs`). The middle
  takes the instructions of Thumb one by one: the long form is one of ARM (`Forms`)
  and the two come to the same (`ThumbSame`): the shifts by 0 that mean a whole word,
  the negation that is a difference from 0, the product that adds nothing, a load
  of the stack pointer's list. A push moves r13 before its stores where ARM moves it
  after them, so `PushesAre` follows both through the list at once; they part only
  where one aborts. The invariant says that the core is in its program at the
  instruction that is `left` from its end, in the program's instruction set, or in
  a handler whose link, less what its exception puts it ahead, is there
  (`Points`): a handler that restored the wrong set, or came back an
  instruction late, would have the next one taken for one of the other set.
  `StepIs` and `GoBackIs` show that no instruction and no return loses the place.
  `ArithmeticAlwaysTrue` needs of the invariant only that the core is one and the
  instruction is of ARM. What it says of sums is that the word and the carry
  together are the integer sum (`Added`), and that the flags after a difference
  tell its order, by sign as well (`Compared`, `TellsTruly`); two of them chained
  through the carry are one sum of two words, borrows included (`Chained`, `ChainIs`,
  `CarriesAreTrue`). A shift is cut at its place (`Placed`) and a rotation into the
  two parts that it swaps (`Parted`), so that one more place is one more shift, the
  bit that falls out the carry (`OnceMore`: `LeftStep`, `RightStep`, `SignStep`,
  `TurnStep`), within a word, at its width and beyond it.
  The powers of two and the sums of a block's moves are recursive functions,
  whose existence and whose steps are shown from the least number that would
  be a counterexample (`NoFirst`).

`TypeOK` and `UserRegistersAreFound` are theorems that no run checks any more:
the proofs cover them.

Only model-checked: `ProgramsAreUndisturbed` of `Instructions`, which compares a
whole run of a program with another;
`VolumeIsSound`, `NewestIsKept` and
`ImplementsShelf` of `UsbSync`, whose chains and listings are folds over the table and
its slots, and which hold only until a removal goes astray and of
processes that do not end in mid write (see below), so that a theorem would
need those as hypotheses on every step; and all liveness (`WritesGetSaved`, `KeysArePlayed`,
`RequestsFinish`, `WorkFinishes`, `DriversAreServed`, `BothGoOn`), which is
beyond the prover.

## Where code and comments disagree

Run `card_marks` ends in a counterexample: `flush` drops every mark when a
write fails, although it says that it writes back whatever changed. `findings`
in `PROJECT.json` has the quotation. The others are found by putting the
property alone in the cfg named here, under `INVARIANTS` if it is a state
predicate and `PROPERTIES` if not, with the constants given.

| property | cfg | what it shows |
|---|---|---|
| `QuestionsCanBeAnswered` | `MCHostKey.cfg`, `MaxQuestions = 2`, `Watched <- Everything` | two questions share one flag (`hostkey.rs` 424): answering one gives the other's keys to the machine |
| `HostHasItsKeyboard` | `MCHostKey.cfg`, `OtherKeys <- AllOthers`, `FunctionKey = Fn`, `Watched <- Everything` | a key-up is swallowed although the host saw the key go down (`hostkey.rs` 299) |
| `LineFollowsMatrix` | `MCKeyPlayer.cfg` | a release or reset in mid keystroke leaves the key-down line low with no key down (`main.rs` 1807) |
| `CompletionsAreTold` | `MCUsbHost.cfg` | a second service overwrites `HccaDoneHead`, although only the driver's taking it says it may (`usb.rs` 422) |
| `GuestWorkIsKept` | `MCFiles.cfg` | after an end of the process or a failed copy out, the folder's older file overwrites the guest's newer one at the next start, which `usbsync.rs` 22-24 says cannot happen |
| `ImplementsShelf` | `MCFiles.cfg`, `StraysExcused = FALSE` | `remove` marks what lies before an entry on the disk for as long as byte 11 is 0x0F (`fatfile.rs` 255-264), although it means "the long-name entries immediately before the short one": where the entry opens a cluster of a grown directory, that is data of another file, which is spoiled; with `LooksLong = {}` as well, the first long entry of a name that spans two clusters stays, and the next file has it in its name |
| `VolumeIsSound`, `ImplementsShelf` | `MCFiles.cfg`, `TornKills = TRUE` | an end of the process inside `create` or `remove` leaves a file listed whose chain is gone, or entries and chains that later files cross |
| `ShortNamesDiffer` | `MCFiles.cfg` | when all the numbers are taken, `unique_short_name` gives out the last without looking (`fatfile.rs` 360), although it is to be one "nothing else is using" (342); the run has two numbers for the 999 |
| `RequestsAreWhole` | `MCDevices.cfg` | a write past the end of the card ends without an error and its data is gone (`pcmcia.rs` 522-536); a count of 0, which is 256 sectors, is cut to 0 again by `as u8` (427), and one sector is moved |
| `SlowZerosAreZeros` | `MCDevices.cfg` | a zero drawn out to 1400 to 2400 ticks by an interrupt is taken for a reset (`onewire.rs` 230): the part forgets the address, the kernel goes on, and the read is wrong without an error; a longer one is "a slow zero" again (228) |
| `LineIsFree` | `MCDevices.cfg` | `pulling` of `onewire.rs` is never cleared: about 582 seconds after a read the signed difference wraps, and an idle line reads low |
| `ProgramsAreUndisturbed` | `MCRegisters.cfg`, `Repeatable` of `Instructions` made `TRUE` | a block load that aborts after its own base, and a PUSH that aborts, cannot be run again (`arm.rs` 671-683, `thumb.rs` 507) |

Seen while modelling, and kept as notes: MMC STAT keeps its data-done bit over
a new command (`mmc.rs` 104 against 64-66); CMD0 keeps `multi_block`; one flag
serves both SHIFT keys, so letting go of one clears it; G held under the host
key toggles the capture at every repeat, where `window.rs` takes the edge;
presses in the channel are played after a release; an answer shorter than the
transfers queued for it has the status wrapper taken as data; the same key
may be pressed again before the guest has seen it up; a machine reset leaves
the drive inside a command, which only a driver that resets its transport gets
it out of (`SendsReset`); a finished
transfer does not say how much of its buffer is left; the progress messages do
not start again with a reset; an interrupt taken while a change of M is pending
is fetched under the old regime, since it ends the step early; an RTC alarm set
to the present or past, or across the wrap, is missed; a partial table of
priorities reports nothing for a source not in it; a DMA chain stopped in the
middle of a transfer and pointed elsewhere finishes the old transfer first, and
a restart does not stop it; a transfer to the codec whose length is not a
multiple of its width never ends; `dint` ignores STOPIRQEN; a sound shorter than
the cushion is heard only when more comes; `push_tone` ignores the cap of the
ring; bytes left in the I2C unit's buffer answer a read whose address nobody
acknowledged; a reset of that unit does not withdraw its interrupt; a card image that cannot
be read at the start has a blank card written over it block by block; any write
at all confirms a buffered program; the flash's error bits and locks survive a
restart, which also wipes what is past the end of the image; an erase or lock
past the end is of the last block; `create` removes the old file before it
allocates the new one, and a full drive loses both; what the user edits while
the machine runs is overwritten by the drive's older copy when it stops; files
deleted on one side come back from the other; names are compared with their
case.

## Not modelled, and why

Firmware preparation (`patch.rs`, `nkp.rs`, `provision.rs`, `registry.rs`,
`licence.rs`, `sha256.rs`, `ceromfs`): pure transformations of images before the
machine starts. The console, the window, spoken announcements, recording, the
progress messages, tracing and reports: host interface on which nothing else
depends. The set-up wizard, the installer and the tools: programs of their own.

Within the modelled parts: the decoding of instructions and of addresses, where a
table is right or wrong for each value and a test compares it; register contents
and USB descriptors are one word each; the root hub and its ports, isochronous
and interrupt lists; falling edges, directions and alternate functions of the
pins; insertion of PC cards and their attribute memory; the power switch,
suspend, and the setting of the clock from the host's; the details of line
status and baud rates; what a register only reads back. The guest's drivers are
the ones the comments describe and no others.

## Plan

What is left, in order of worth:

1. Proofs: `VolumeIsSound` of `UsbSync`. What chains and listings are has first to
   be said without folds, as `TurnsKeep` does for the turns of a batch, with the
   drives formatted here as the hypothesis; then each write of `create` and
   `remove` is a step of its own.
2. Suspend and the power switch, with the clock across them.
3. The sockets' insertion and removal, the root hub's ports.
4. The guest's own writes to the volume as steps of their own, against the
   copies in and out.

Small components are better composed in one run than given one each.
