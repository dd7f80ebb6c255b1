-------------------------------- MODULE I2c --------------------------------
(***************************************************************************)
(* The I2C controller with the battery on its bus (i2c.rs), and the        *)
(* guest's driver, which asks the battery and looks for what else there    *)
(* is.  AnswerBytes move at once.                                                *)
(***************************************************************************)
EXTENDS Naturals, Sequences

CONSTANTS
    Response,     \* the bytes the battery answers, by command
    Others,       \* addresses at which there is nothing
    BusBreaks     \* bound on the transactions broken off

VARIABLES
    i2c,          \* the controller, and what the battery remembers
    ask,          \* the driver's transaction
    busBreaks     \* transactions it may still break off

i2cVars == <<i2c, ask, busBreaks>>

Battery == "battery"   \* SMART_BATTERY_ADDRESS
Commands == DOMAIN Response
Floating == "ff"
None == "none"

AnswerBytes == UNION {{Response[cmd][i] : i \in DOMAIN Response[cmd]} : cmd \in Commands}

(* A command is not the mark of there being none, and has an answer. *)
ASSUME BatteryAssumption ==
    /\ None \notin Commands
    /\ Battery \notin Others
    /\ \A cmd \in Commands : Response[cmd] \in Seq(AnswerBytes) \ {<< >>}

-----------------------------------------------------------------------------
(* The controller. *)

I2cDefault ==
    [idbr |-> None, isr |-> {}, command |-> None, buf |-> << >>, current |-> None, reading |-> FALSE]

(* After a byte: what the status says of it, and of the bus.               *)
Status(c, acked, flag, stop) ==
    [c EXCEPT !.isr = (@ \ {"nak", "read", "busy"}) \cup {flag}
                          \cup (IF acked THEN {} ELSE {"nak"})
                          \cup (IF c.reading THEN {"read"} ELSE {})
                          \cup (IF stop THEN {} ELSE {"busy"}),
              !.current = IF stop THEN None ELSE @]

(* Mutant of Address: an address for writing leaves the last command.      *)
AddressKeepingCommand(c, address, read) ==
    LET c1 == [c EXCEPT !.reading = read, !.current = address]
    IN  IF address # Battery THEN c1
        ELSE IF read THEN [c1 EXCEPT !.buf = IF c.command = None THEN << >> ELSE Response[c.command]]
        ELSE c1

(* The first byte: a read stages the answer to the command of the write    *)
(* before it.                                                              *)
Address(c, address, read) ==
    LET c1 == [c EXCEPT !.reading = read, !.current = address]
    IN  IF address # Battery THEN c1
        ELSE IF read THEN [c1 EXCEPT !.buf = IF c.command = None THEN << >> ELSE Response[c.command]]
        ELSE [c1 EXCEPT !.command = None]

StartByte(c, address, read, stop) ==
    Status([Address(c, address, read) EXCEPT !.idbr = address], address = Battery, "ite", stop)

ReadByte(c, stop) ==
    IF c.buf = << >> THEN Status([c EXCEPT !.idbr = Floating], FALSE, "irf", stop)
    ELSE Status([c EXCEPT !.idbr = Head(c.buf), !.buf = Tail(@)], TRUE, "irf", stop)

(* The first byte written to the battery is the command.                   *)
WriteByte(c, byte, stop) ==
    LET heard == c.current = Battery
    IN  Status([c EXCEPT !.idbr = byte,
                         !.command = IF heard /\ @ = None THEN byte ELSE @],
               heard, "ite", stop)

MovesByte(c, byte, stop) == IF c.reading THEN ReadByte(c, stop) ELSE WriteByte(c, byte, stop)

(* Master abort, and the reset of the unit. *)
Abort(c) == [c EXCEPT !.current = None, !.isr = @ \ {"busy"}]
UnitReset == I2cDefault

Cleared(c, bits) == [c EXCEPT !.isr = @ \ (bits \ {"read", "busy"})]

-----------------------------------------------------------------------------
(* The driver. *)

Quiet == [stage |-> "quiet", address |-> None, command |-> None, got |-> << >>]

I2cInit ==
    /\ i2c = I2cDefault
    /\ ask = Quiet
    /\ busBreaks = BusBreaks

(* It addresses a device to write a command; a device that is not there    *)
(* does not answer, and it gives up.                                       *)
AskFor(address, cmd) ==
    /\ ask.stage = "quiet"
    /\ i2c' = StartByte(i2c, address, FALSE, FALSE)
    /\ ask' = [stage |-> "addressed", address |-> address, command |-> cmd, got |-> << >>]
    /\ UNCHANGED busBreaks

GiveUp ==
    /\ ask.stage \in {"addressed", "reading"}
    /\ "nak" \in i2c.isr
    /\ i2c' = Abort(Cleared(i2c, {"nak", "ite", "irf"}))
    /\ ask' = Quiet
    /\ UNCHANGED busBreaks

SendCommand ==
    /\ ask.stage = "addressed"
    /\ "nak" \notin i2c.isr
    /\ i2c' = MovesByte(Cleared(i2c, {"ite"}), ask.command, FALSE)
    /\ ask' = [ask EXCEPT !.stage = "commanded"]
    /\ UNCHANGED busBreaks

TurnRound ==
    /\ ask.stage = "commanded"
    /\ "nak" \notin i2c.isr
    /\ i2c' = StartByte(Cleared(i2c, {"ite"}), ask.address, TRUE, FALSE)
    /\ ask' = [ask EXCEPT !.stage = "reading"]
    /\ UNCHANGED busBreaks

(* It reads as many bytes as it knows there are, and stops with the last.  *)
TakeByte ==
    LET last == Len(ask.got) + 1 = Len(Response[ask.command])
        c == MovesByte(Cleared(i2c, {"ite", "irf"}), None, last)
    IN  /\ ask.stage = "reading"
        /\ "nak" \notin i2c.isr
        /\ i2c' = c
        /\ ask' = [ask EXCEPT !.got = Append(@, c.idbr), !.stage = IF last THEN "done" ELSE @]
        /\ UNCHANGED busBreaks

Take == ask.stage = "done" /\ ask' = Quiet /\ UNCHANGED <<i2c, busBreaks>>

(* It is stopped in the middle, by a timeout or a restart of the machine,  *)
(* and may abort what it began, or reset the unit, or neither.             *)
Drop ==
    /\ busBreaks > 0
    /\ ask.stage # "quiet"
    /\ busBreaks' = busBreaks - 1
    /\ ask' = Quiet
    /\ i2c' \in {i2c, Abort(i2c), UnitReset}

I2cNext ==
    \/ \E address \in Others \cup {Battery}, cmd \in Commands : AskFor(address, cmd)
    \/ GiveUp
    \/ SendCommand
    \/ TurnRound
    \/ TakeByte
    \/ Take
    \/ Drop

I2cSpec == I2cInit /\ [][I2cNext]_i2cVars

-----------------------------------------------------------------------------
(* What the driver has read is the battery's answer to the command it sent *)
(* this time (transfer_byte of i2c.rs), and nothing answers at an address  *)
(* where nothing is.                                                       *)
AnswersAreToTheQuestion ==
    /\ ask.stage = "done" => ask.got = Response[ask.command] /\ "busy" \notin i2c.isr
    /\ ask.stage \in {"commanded", "reading", "done"} => ask.address = Battery
=============================================================================
