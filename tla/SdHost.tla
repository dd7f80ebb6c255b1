------------------------------- MODULE SdHost -------------------------------
(***************************************************************************)
(* The controller and its card under the guest's storage driver, which is  *)
(* not part of the emulator: it brings the card up, reads its              *)
(* configuration register, and then reads and writes blocks, one or many   *)
(* at a time, acknowledging interrupts by reading I_REG and polling CMD13  *)
(* after a write, as the comments of sdcard.rs and mmc.rs describe it.     *)
(*                                                                         *)
(* The machine may be reset at any moment.  restart in main.rs puts the    *)
(* bootloader and the processor back and leaves the controller and the     *)
(* card as they were, so the driver starts again over whatever they hold.  *)
(***************************************************************************)
EXTENDS Mmc

CONSTANTS
    HostAddress,  \* the address an MMC-form CMD3 assigns
    MaxResets     \* bound on the resets of the machine

ASSUME DriverAssumption ==
    /\ HostAddress \in Nat \ {0}
    /\ MaxResets \in Nat

VARIABLES
    pc,           \* where the driver is
    job,          \* the request it serves
    moved,        \* the words of it that have crossed the FIFO
    got,          \* those it read
    resets

driverVars == <<pc, job, moved, got, resets>>
vars == <<cardVars, hostVars, driverVars>>

(* A request: which way, the first block, how many, one word for each cell *)
(* of a write to fill with.                                                *)
Requests ==
    [way : {"read", "write"}, many : BOOLEAN, first : 0 .. NumBlocks - 1,
     count : 1 .. NumBlocks, fill : Data]

Legal(r) ==
    /\ r.first + r.count <= NumBlocks
    /\ r.count > 1 => r.many
    /\ r.way = "read" => r.fill = Blank

NoJob == [way |-> "none", many |-> FALSE, first |-> 0, count |-> 0, fill |-> Blank]
ScrJob == [NoJob EXCEPT !.way = "scr"]
SsrJob == [NoJob EXCEPT !.way = "ssr"]

WordsOf(r) ==
    CASE r.way = "scr" -> ScrWords
      [] r.way = "ssr" -> SsrWords
      [] OTHER -> r.count * BlockWords
StartOf(r) == r.first * BlockWords

Places == {"off", "cmd0", "cmd55", "acmd41", "cmd2", "cmd3", "cmd7", "scr55",
           "acmd51", "ssr55", "acmd13", "idle", "cmd", "ack", "data", "done", "stop", "poll"}

TypeOK ==
    /\ CardTypeOK
    /\ HostTypeOK
    /\ pc \in Places
    /\ job \in {NoJob, ScrJob, SsrJob} \cup Requests
    /\ moved \in 0 .. WordsOf(job)
    /\ got \in Seq(Data \cup {RegWord, Floating})
    /\ resets \in 0 .. MaxResets

Init ==
    /\ CardInit
    /\ HostInit
    /\ pc = "off"
    /\ job = NoJob
    /\ moved = 0
    /\ got = << >>
    /\ resets = 0

-----------------------------------------------------------------------------
(* What the driver puts in CMDAT. *)
Plain == [wants |-> TRUE, dataEn |-> FALSE, write |-> FALSE]
Quiet == [Plain EXCEPT !.wants = FALSE]
Reading == [Plain EXCEPT !.dataEn = TRUE]
Writing == [Reading EXCEPT !.write = TRUE]

Goto(place) ==
    /\ pc' = place
    /\ UNCHANGED <<job, moved, got, resets>>

StartClock == pc = "off" /\ SetClock(TRUE) /\ Goto("cmd0")

(* Identification, one command at a time, in its SD or its MMC form. *)
Step(from, cmd, arg, cmdat, to) ==
    /\ pc = from
    /\ WriteCmdat(cmd, arg, cmdat, 0)
    /\ Goto(to)

(* Asked again until the card is no longer busy. *)
AskUntilReady(from, cmd) ==
    \E to \in {"cmd55", "cmd2"} :
        /\ Step(from, cmd, 0, Plain, to)
        /\ (to = "cmd2") <=> (state' = "ready")

BringUp ==
    \/ Step("cmd0", 0, 0, Quiet, "cmd55")
    \/ Step("cmd55", 55, 0, Plain, "acmd41")
    \/ AskUntilReady("acmd41", 41)
    \/ AskUntilReady("cmd55", 1)
    \/ Step("cmd2", 2, 0, Plain, "cmd3")
    \/ \E arg \in {0, HostAddress} : Step("cmd3", 3, arg, Plain, "cmd7")
    \/ Step("cmd7", 7, rca, Plain, "scr55")
    \/ Step("scr55", 55, 0, Plain, "acmd51")
    \/ Step("ssr55", 55, 0, Plain, "acmd13")

Begin(r) ==
    /\ job' = r
    /\ moved' = 0
    /\ got' = << >>
    /\ UNCHANGED resets

ReadRegister(from, cmd, r) ==
    /\ pc = from
    /\ WriteCmdat(cmd, 0, Reading, WordsOf(r))
    /\ pc' = "ack"
    /\ Begin(r)

ReadRegisters ==
    \/ ReadRegister("acmd51", 51, ScrJob)
    \/ ReadRegister("acmd13", 13, SsrJob)

Issue(r) ==
    /\ pc = "idle"
    /\ Legal(r)
    /\ IF r.way = "read"
       THEN WriteCmdat(IF r.many THEN 18 ELSE 17, StartOf(r), Reading, WordsOf(r))
       ELSE WriteCmdat(IF r.many THEN 25 ELSE 24, StartOf(r), Writing, WordsOf(r))
    /\ pc' = "ack"
    /\ Begin(r)

(* The command's own interrupt, acknowledged before its data moves. *)
Acknowledge ==
    /\ pc = "ack"
    /\ "endCmd" \in iReg
    /\ ReadIReg
    /\ Goto("data")

MoveIn ==
    /\ pc = "data"
    /\ job.way # "write"
    /\ moved < WordsOf(job)
    /\ got' = Append(got, NextWord)
    /\ ReadFifo
    /\ moved' = moved + 1
    /\ UNCHANGED <<pc, job, resets>>

MoveOut ==
    /\ pc = "data"
    /\ job.way = "write"
    /\ moved < WordsOf(job)
    /\ WriteFifo(job.fill)
    /\ moved' = moved + 1
    /\ UNCHANGED <<pc, job, got, resets>>

(* The data-done interrupt ends the data phase; many blocks want a CMD12,  *)
(* a single write is polled for until the card is ready again.             *)
DataDone ==
    /\ pc = "data"
    /\ "dataDone" \in iReg
    /\ ReadIReg
    /\ Goto(IF job.many THEN "stop" ELSE IF job.way = "write" THEN "poll" ELSE "done")

Stop == Step("stop", 12, 0, Plain, IF job.way = "write" THEN "poll" ELSE "done")

Poll ==
    /\ pc = "poll"
    /\ WriteCmdat(13, 0, Plain, 0)
    /\ Goto(IF state = "tran" THEN "done" ELSE "poll")

Finish ==
    /\ pc = "done"
    /\ pc' = IF job.way = "scr" THEN "ssr55" ELSE "idle"
    /\ Begin(NoJob)
    /\ UNCHANGED <<cardVars, hostVars>>

Work ==
    \/ StartClock
    \/ BringUp
    \/ ReadRegisters
    \/ Acknowledge
    \/ MoveIn
    \/ MoveOut
    \/ DataDone
    \/ Stop
    \/ Poll
    \/ Finish

MachineReset ==
    /\ resets < MaxResets
    /\ resets' = resets + 1
    /\ pc' = "off"
    /\ job' = NoJob
    /\ moved' = 0
    /\ got' = << >>
    /\ UNCHANGED <<cardVars, hostVars>>

Next ==
    \/ Work
    \/ \E r \in Requests : Issue(r)
    \/ MachineReset

Spec == Init /\ [][Next]_vars

(* The guest keeps running: a driver with something to do does it. *)
FairSpec == Spec /\ WF_vars(Work)

-----------------------------------------------------------------------------
Span(r) == StartOf(r) .. StartOf(r) + WordsOf(r) - 1

(* What a read has collected is what the card holds there, in order, and   *)
(* never a word left over from a register or an earlier transfer           *)
(* (read_byte takes data_out first, whoever asked for it).                 *)
ReadsAreRight ==
    \A i \in 1 .. Len(got) :
        /\ job.way = "read" => got[i] = data[StartOf(job) + i - 1]
        /\ job.way \in {"scr", "ssr"} => got[i] = RegWord

(* A write that has finished has filled every word it asked for, and no    *)
(* step of anyone changes a word outside the write in progress.            *)
WritesAreWhole ==
    [][/\ \A w \in Words : data'[w] # data[w] => job.way = "write" /\ w \in Span(job)
       /\ pc' = "done" /\ job.way = "write" => \A w \in Span(job) : data'[w] = job.fill]_vars

(* The data-done interrupt, once the command's own has been acknowledged,  *)
(* means that every word has crossed the FIFO.                             *)
InterruptMeansDone ==
    pc = "data" /\ "dataDone" \in iReg => moved = WordsOf(job) /\ wordsLeft = 0

(* Between requests the card is selected, with nothing of an earlier       *)
(* transfer left on its data lines or in the controller's count, whatever  *)
(* the resets before it interrupted.                                       *)
ReadyForRequests ==
    pc = "idle" => state = "tran" /\ dataOut = 0 /\ wordsLeft = 0 /\ ~appCmd

(* The driver never waits for ever: for an interrupt, or for the card to   *)
(* say it is back in `tran` (the hang transfer_finished was added for).    *)
RequestsFinish == (pc # "idle") ~> (pc = "idle")

=============================================================================
