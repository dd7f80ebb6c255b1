-------------------------------- MODULE Cpld --------------------------------
(***************************************************************************)
(* The CPLD's window (gandalf/cpld.rs): the modem, a 16C550 at its bottom  *)
(* (modem.rs), and the shift register of the braille display (braille.rs), *)
(* with the board's wires from both to input pins (lib.rs).  The modem has *)
(* pin 16, which is to rise for each interrupt; the far end of the         *)
(* display's chain is pin 103.                                             *)
(*                                                                         *)
(* A character is the end of a command, or stands for the start of one     *)
(* that is an AT command or of one that is not.                            *)
(***************************************************************************)
EXTENDS Intc

CONSTANTS
    Stages,       \* the bits of the display's chain
    Reply         \* what the modem says to an AT command

ASSUME CpldAssumption == Stages \in Nat

VARIABLES
    modem,        \* the registers, the latch, the command, what it has to say
    display       \* whether there is one, and its stages

cpldVars == <<modem, display>>

INTERRUPT_GPIO == 16
END_OF_CHAIN_GPIO == 103

Characters == {"AT", "other", "cr"}

CpldTypeOK ==
    /\ modem.ier \subseteq {"rx", "tx"}
    /\ modem.dlab \in BOOLEAN
    /\ modem.drained \in BOOLEAN
    /\ modem.command \in Seq(Characters \ {"cr"})
    /\ modem.rx \in Seq({"reply"})
    /\ display \in [present : BOOLEAN, stages : [1 .. Stages -> BOOLEAN]]

-----------------------------------------------------------------------------
(* The modem. *)

(* Which interrupt it would report; what is received comes first. *)
Pending(m) ==
    IF "rx" \in m.ier /\ m.rx # << >> THEN "rx"
    ELSE IF "tx" \in m.ier /\ m.drained THEN "tx" ELSE "none"

(* Mutant of DriveModem: the line is only driven by writes. *)
DriveModemOnWrites(m, access) ==
    /\ modem' = m
    /\ IF access = "write" THEN SetInput(INTERRUPT_GPIO, Pending(m) # "none")
                           ELSE UNCHANGED <<gpio, pending>>

(* The line is driven after every access, and that is how it falls. *)
DriveModem(m, access) ==
    /\ modem' = m
    /\ SetInput(INTERRUPT_GPIO, Pending(m) # "none")

(* The end of a command: an AT command is answered, another is not. *)
Answer(m) ==
    [m EXCEPT !.command = << >>,
              !.rx = IF m.command # << >> /\ Head(m.command) = "AT" THEN @ \o Reply ELSE @]

(* A character sent has gone at once. *)
Sent(m, char) ==
    LET gone == [m EXCEPT !.drained = TRUE]
    IN  IF char = "cr" THEN Answer(gone) ELSE [gone EXCEPT !.command = Append(@, char)]

(* Enabling the transmitter's interrupt makes one: it is empty. *)
WrittenIer(m, bits) ==
    [m EXCEPT !.ier = bits, !.drained = @ \/ "tx" \in bits \ m.ier]

(* With the divisor latch on, the first two registers are the divisor. *)
WriteData(char) == DriveModem(IF modem.dlab THEN modem ELSE Sent(modem, char), "write")
WriteIer(bits) == DriveModem(IF modem.dlab THEN modem ELSE WrittenIer(modem, bits), "write")
WriteLcr(latch) == DriveModem([modem EXCEPT !.dlab = latch], "write")

ReadData ==
    DriveModem([modem EXCEPT !.rx = IF modem.dlab \/ @ = << >> THEN @ ELSE Tail(@)], "read")

(* Reading that the transmitter has drained acknowledges it. *)
ReadIir ==
    DriveModem([modem EXCEPT !.drained = @ /\ Pending(modem) # "tx"], "read")

-----------------------------------------------------------------------------
(* The display. *)

EndOfChain(d) == d.present /\ d.stages[1]

Shifted(d, data) ==
    [d EXCEPT !.stages = [i \in 1 .. Stages |-> IF i = Stages THEN data ELSE @[i + 1]]]

Clocked(d, data) == IF d.present THEN Shifted(d, data) ELSE d

(* A bit is put on the data line and the clock raised, which shifts the    *)
(* chain, and lowered, which does not.  The pin follows at once.           *)
BrailleClock(data) ==
    /\ display' = Clocked(display, data)
    /\ SetInput(END_OF_CHAIN_GPIO, EndOfChain(display'))

ModemInit ==
    modem = [ier |-> {}, dlab |-> FALSE, drained |-> FALSE, command |-> << >>, rx |-> << >>]
=============================================================================
