-------------------------------- MODULE Flash --------------------------------
(***************************************************************************)
(* The NOR flash chips (flash.rs) and the guest's driver of them.          *)
(*                                                                         *)
(* The two chips take the same command at once and are one; a word is the  *)
(* set of its bits that are one.  Counts are of one digit.                 *)
(***************************************************************************)
EXTENDS Naturals, Sequences

CONSTANTS
    Size,         \* how many words, numbered from 1
    Bits,         \* the bits of a word
    BlockOf,      \* the block of each word
    Image,        \* the image the machine boots from
    Jobs,         \* what the driver may be asked to do
    FlashResets   \* bound on the restarts of the machine

Cells == 1 .. Size

ASSUME FlashAssumption ==
    /\ Size \in Nat \ {0}
    /\ Image \in [Cells -> SUBSET Bits]

(* A job starts at a word of the chips; only a buffer has several words.   *)
ASSUME JobsAssumption ==
    \A j \in Jobs :
        /\ j.kind \in {"erase", "lock", "unlock", "program", "buffer"}
        /\ j.at \in Cells
        /\ j.words \in Seq(SUBSET Bits)
        /\ j.words # << >>
        /\ j.kind # "buffer" => Len(j.words) = 1

VARIABLES
    flash,        \* the chips
    script,       \* the writes the driver has still to make
    job,          \* what it is doing, and what the words were before
    flashResets   \* restarts left

flashVars == <<flash, script, job, flashResets>>

Blocks == {BlockOf[a] : a \in Cells}

(* What is past the end is taken for the last block. *)
Block(a) == IF a \in Cells THEN BlockOf[a] ELSE BlockOf[Size]

-----------------------------------------------------------------------------
(* The command machine. *)

(* Mutant of Programmed: a bit may be set again. *)
ProgrammedAnew(f, a, w) ==
    IF a \notin Cells \/ Block(a) \in f.locked
    THEN [f EXCEPT !.status = @ \cup {"program"}]
    ELSE [f EXCEPT !.data[a] = w]

(* Bits are only cleared, and none in a locked block or past the end.      *)
Programmed(f, a, w) ==
    IF a \notin Cells \/ Block(a) \in f.locked
    THEN [f EXCEPT !.status = @ \cup {"program"}]
    ELSE [f EXCEPT !.data[a] = @ \cap w, !.status = @ \cup {"ready"}]

Erased(f, b) ==
    IF b \in f.locked
    THEN [f EXCEPT !.status = @ \cup {"erase"}]
    ELSE [f EXCEPT !.data = [a \in Cells |-> IF BlockOf[a] = b THEN Bits ELSE f.data[a]],
                   !.status = @ \cup {"ready"}]

(* A command, where no sequence is in progress. *)
Command(f, cmd) ==
    CASE cmd = "read id" -> [f EXCEPT !.mode = "id"]
      [] cmd = "read query" -> [f EXCEPT !.mode = "query"]
      [] cmd = "read status" -> [f EXCEPT !.mode = "status"]
      [] cmd = "clear status" -> [f EXCEPT !.mode = "array", !.status = {"ready"}]
      [] cmd = "program" -> [f EXCEPT !.mode = "program"]
      [] cmd = "erase" -> [f EXCEPT !.mode = "erase"]
      [] cmd = "lock setup" -> [f EXCEPT !.mode = "lock"]
      [] cmd = "buffer" -> [f EXCEPT !.mode = "count"]
      [] cmd = "confirm" -> f
      [] OTHER -> [f EXCEPT !.mode = "array"]

(* Mutant of Counted: the count is taken as it is written. *)
CountedAsWritten(f, n) == [f EXCEPT !.mode = IF n = 0 THEN "confirm" ELSE "data", !.left = n]

(* The count is one less than the words that follow. *)
Counted(f, n) == [f EXCEPT !.mode = "data", !.left = n + 1]

(* One write to the chips: a word of a sequence, or a command.  The words  *)
(* of a buffer are programmed as they come, and any write confirms them.   *)
Written(f, a, value) ==
    CASE f.mode = "program" -> [Programmed(f, a, value) EXCEPT !.mode = "status"]
      [] f.mode = "erase" ->
            [(IF value = "confirm" THEN Erased(f, Block(a))
                                   ELSE [f EXCEPT !.status = @ \cup {"erase"}])
             EXCEPT !.mode = "status"]
      [] f.mode = "lock" ->
            [f EXCEPT !.mode = "status",
                      !.locked = CASE value = "lock" -> @ \cup {Block(a)}
                                   [] value = "confirm" -> @ \ {Block(a)}
                                   [] OTHER -> @]
      [] f.mode = "count" -> Counted(f, value)
      [] f.mode = "data" ->
            [Programmed(f, a, value) EXCEPT !.left = @ - 1,
                                            !.mode = IF f.left = 1 THEN "confirm" ELSE @]
      [] f.mode = "confirm" -> [f EXCEPT !.mode = "status"]
      [] OTHER -> Command(f, value)

(* What a read shows: the word, or what the command asked for. *)
Shown(f, a) ==
    CASE f.mode = "array" -> f.data[a]
      [] f.mode = "id" -> <<"id", Block(a) \in f.locked>>
      [] f.mode = "query" -> "query"
      [] OTHER -> f.status

-----------------------------------------------------------------------------
(* The driver: it clears the status, does what it was asked, looks at the  *)
(* status and goes back to the array.                                      *)

Idle == [kind |-> "none"]

Steps(j) ==
    CASE j.kind = "erase" -> << <<j.at, "erase">>, <<j.at, "confirm">> >>
      [] j.kind = "lock" -> << <<j.at, "lock setup">>, <<j.at, "lock">> >>
      [] j.kind = "unlock" -> << <<j.at, "lock setup">>, <<j.at, "confirm">> >>
      [] j.kind = "program" -> << <<j.at, "program">>, <<j.at, j.words[1]>> >>
      [] j.kind = "buffer" ->
            << <<j.at, "buffer">>, <<j.at, Len(j.words) - 1>> >>
            \o [i \in 1 .. Len(j.words) |-> <<j.at + i - 1, j.words[i]>>]
            \o << <<j.at, "confirm">> >>

Script(j) == << <<1, "clear status">> >> \o Steps(j) \o << <<1, "read status">> >>

FlashInit ==
    /\ flash = [data |-> Image, mode |-> "array", status |-> {"ready"}, locked |-> {}, left |-> 0]
    /\ script = << >>
    /\ job = Idle
    /\ flashResets = FlashResets

Begin(j) ==
    /\ job.kind = "none"
    /\ job' = [ask |-> j, before |-> flash.data, kind |-> j.kind]
    /\ script' = Script(j)
    /\ UNCHANGED <<flash, flashResets>>

BusWrite ==
    /\ script # << >>
    /\ flash' = Written(flash, script[1][1], script[1][2])
    /\ script' = Tail(script)
    /\ UNCHANGED <<job, flashResets>>

(* It has seen the status, and leaves the chips as it found them. *)
Finish ==
    /\ script = << >>
    /\ job.kind # "none"
    /\ flash' = Written(flash, 1, "read array")
    /\ job' = Idle
    /\ UNCHANGED <<script, flashResets>>

(* The machine is restarted: the array can be read, and is the image.      *)
PutBack ==
    /\ flashResets > 0
    /\ flashResets' = flashResets - 1
    /\ flash' = [flash EXCEPT !.mode = "array", !.data = Image]
    /\ script' = << >>
    /\ job' = Idle

FlashNext == (\E j \in Jobs : Begin(j)) \/ BusWrite \/ Finish \/ PutBack

-----------------------------------------------------------------------------
FlashSpec == FlashInit /\ [][FlashNext]_flashVars

Nor == INSTANCE NorArray WITH data <- flash.data, locked <- flash.locked

(* No order of commands, complete, cut short or broken off by a restart,   *)
(* changes the contents but as a NOR flash may (write of flash.rs).        *)
FlashIsNor == Nor!Spec

(* When the driver looks at the status after what it asked, it is told of  *)
(* a failure just when something of it was not done (program, erase_block  *)
(* and the words of a buffer), and nothing else was changed.               *)
FailuresAreTold ==
    (script = << >> /\ job.kind \in {"erase", "program", "buffer"}) =>
        LET words == job.ask.words
            asked(a) == IF job.kind = "erase"
                        THEN IF BlockOf[a] = BlockOf[job.ask.at] THEN Bits ELSE job.before[a]
                        ELSE IF a - job.ask.at + 1 \in DOMAIN words
                             THEN job.before[a] \cap words[a - job.ask.at + 1]
                             ELSE job.before[a]
        IN  /\ Shown(flash, 1) = flash.status
            /\ flash.status = {"ready"} <=> {job.ask.at + i - 1 : i \in DOMAIN words}
                                                \subseteq {a \in Cells : BlockOf[a] \notin flash.locked}
            /\ \A a \in Cells : flash.data[a] = IF BlockOf[a] \in flash.locked
                                                THEN job.before[a] ELSE asked(a)
=============================================================================
