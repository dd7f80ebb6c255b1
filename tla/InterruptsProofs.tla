-------------------------- MODULE InterruptsProofs --------------------------
(***************************************************************************)
(* An interrupt reaches what waits for it, for any machine, table,         *)
(* drivers, timer and replies.                                             *)
(*                                                                         *)
(* A modem whose driver sleeps never has something to report and no edge   *)
(* latched for it.  The edge is latched when the line rises, so that what  *)
(* has to be known is where the line stands: it follows what the modem     *)
(* would report, after whatever was done to either, and the driver has     *)
(* made it fall before it sleeps.                                          *)
(*                                                                         *)
(* A handler that the core has entered is told of a source.  What was      *)
(* pending is pending still, for only time and the host have acted, and    *)
(* both only add to it; and what the mask lets through, the table names.   *)
(*                                                                         *)
(* A match is caught by the batch that reaches it: which side of the match *)
(* the counter is on, before and after, tells whether it came by.          *)
(***************************************************************************)
EXTENDS Interrupts, TLAPS, WellFoundedInduction

Port == INTERRUPT_GPIO

States == {"off", "latch", "divisor", "line", "clear", "enable",
           "waiting", "serving", "write", "read"}

Pinned == [high : SUBSET Nat, rising : SUBSET Nat, falling : SUBSET Nat, edge : SUBSET Nat]

(* Only its fields are asked of the modem, and a latch that is on or off. *)
Shaped(m) ==
    /\ m = [ier |-> m.ier, dlab |-> m.dlab, drained |-> m.drained,
            command |-> m.command, rx |-> m.rx]
    /\ m.dlab \in BOOLEAN
    /\ m.drained \in BOOLEAN

ModemShape == Shaped(modem)

Shape ==
    /\ machine \in Machines
    /\ load \in [machine.drivers -> 0 .. 3]
    /\ gpio \in Pinned
    /\ ist \in States
    /\ ModemShape

LineFollowsModem == Port \in gpio.high <=> Pending(modem) # "none"

(* The driver's thread starts when it has been loaded, with its pin armed. *)
ArmedFirst ==
    /\ ist # "off" => "modem" \in DOMAIN load /\ load["modem"] = 3
    /\ \A d \in DOMAIN load : d = "modem" /\ load[d] > 0 => Port \in gpio.rising

(* Before it enables its interrupts the driver has turned them off. *)
OpenedInOrder ==
    /\ ist \in States \ {"off", "latch", "divisor", "line"} => ~modem.dlab
    /\ ist = "enable" => modem.ier = {}

WInv == Shape /\ LineFollowsModem /\ ArmedFirst /\ OpenedInOrder /\ NoWakeIsLost

-----------------------------------------------------------------------------
(* What is done to the pins. *)

(* A pin is driven: edges are only added, and an armed one for a rise. *)
LEMMA SetInputDoes ==
    ASSUME gpio \in Pinned, NEW pin \in Nat, NEW high \in BOOLEAN, SetInput(pin, high)
    PROVE  /\ gpio' \in Pinned
           /\ gpio'.rising = gpio.rising
           /\ gpio.edge \subseteq gpio'.edge
           /\ \A p \in Nat \ {pin} : p \in gpio'.high <=> p \in gpio.high
           /\ pin \in gpio'.high <=> high
           /\ high /\ pin \notin gpio.high /\ pin \in gpio.rising => pin \in gpio'.edge
<1> DEFINE edge == \/ high /\ pin \in gpio.rising \ gpio.high
                   \/ ~high /\ pin \in gpio.falling \cap gpio.high
           highs == IF high THEN gpio.high \cup {pin} ELSE gpio.high \ {pin}
           edges == IF edge THEN gpio.edge \cup {pin} ELSE gpio.edge
<1>1. gpio' = [gpio EXCEPT !.high = highs, !.edge = edges]
    BY DEF SetInput, SetGpio, Pinned
<1>2. highs \in SUBSET Nat /\ edges \in SUBSET Nat
    BY DEF Pinned
<1>3. /\ gpio.edge \subseteq edges
      /\ \A p \in Nat \ {pin} : p \in highs <=> p \in gpio.high
      /\ pin \in highs <=> high
      /\ high /\ pin \notin gpio.high /\ pin \in gpio.rising => pin \in edges
    OBVIOUS
<1> HIDE DEF highs, edges
<1>4. gpio' \in Pinned /\ gpio'.rising = gpio.rising /\ gpio'.high = highs /\ gpio'.edge = edges
    BY <1>1, <1>2 DEF Pinned
<1> QED
    BY <1>3, <1>4

LEMMA PortIsANumber == Port \in Nat /\ END_OF_CHAIN_GPIO \in Nat /\ Port # END_OF_CHAIN_GPIO
    BY DEF Port, INTERRUPT_GPIO, END_OF_CHAIN_GPIO

(* The modem's line after an access to it. *)
LEMMA DriveModemDoes ==
    ASSUME gpio \in Pinned, NEW m, NEW access, DriveModem(m, access)
    PROVE  /\ modem' = m
           /\ gpio' \in Pinned
           /\ gpio'.rising = gpio.rising
           /\ gpio.edge \subseteq gpio'.edge
           /\ Port \in gpio'.high <=> Pending(m) # "none"
           /\ Port \notin gpio.high /\ Pending(m) # "none" /\ Port \in gpio.rising
                  => Port \in gpio'.edge
<1>1. modem' = m /\ SetInput(Port, Pending(m) # "none")
    BY DEF DriveModem, Port
<1>2. (Pending(m) # "none") \in BOOLEAN
    OBVIOUS
<1> QED
    BY <1>1, <1>2, SetInputDoes, PortIsANumber

(* An access that leaves the thread where it is, or somewhere it does not  *)
(* sleep, or that finds the line low, loses nothing.                       *)
LEMMA AccessKeeps ==
    ASSUME WInv, NEW m, NEW access, DriveModem(m, access),
           ModemShape', UNCHANGED <<machine, load, event>>,
           ist # "off", ist' \in States \ {"off"}, OpenedInOrder',
           ist' = "waiting" => ist = "waiting" \/ Port \notin gpio.high
    PROVE  WInv'
<1>1. /\ gpio \in Pinned /\ gpio' \in Pinned /\ modem' = m
      /\ gpio'.rising = gpio.rising /\ gpio.edge \subseteq gpio'.edge
      /\ Port \in gpio'.high <=> Pending(m) # "none"
      /\ Port \notin gpio.high /\ Pending(m) # "none" /\ Port \in gpio.rising
             => Port \in gpio'.edge
    BY DriveModemDoes DEF WInv, Shape
<1>2. Shape' /\ LineFollowsModem'
    BY <1>1 DEF WInv, Shape, LineFollowsModem
<1>3. ArmedFirst' /\ Port \in gpio.rising
    BY <1>1 DEF WInv, Shape, ArmedFirst
<1>4. NoWakeIsLost'
    <2> SUFFICES ASSUME ist' = "waiting", ~event', Pending(modem') # "none"
                 PROVE  Port \in gpio'.edge
        BY DEF NoWakeIsLost, Port
    <2>1. CASE Port \notin gpio.high
        BY <1>1, <1>3, <2>1
    <2>2. CASE Port \in gpio.high
        <3>1. Port \in gpio.edge
            BY <2>2 DEF WInv, LineFollowsModem, NoWakeIsLost, Port
        <3> QED
            BY <1>1, <3>1
    <2> QED
        BY <2>1, <2>2
<1> QED
    BY <1>2, <1>3, <1>4 DEF WInv

(* Where neither the modem nor the pins nor the thread change. *)
LEMMA RestKeeps ==
    ASSUME WInv, UNCHANGED <<machine, load, modem, gpio, ist>>, event => event'
    PROVE  WInv'
    BY DEF WInv, Shape, ModemShape, Shaped, LineFollowsModem, ArmedFirst, OpenedInOrder, NoWakeIsLost
-----------------------------------------------------------------------------
(* What is done to the modem. *)

LEMMA SentShape ==
    ASSUME NEW m, Shaped(m), NEW char
    PROVE  Shaped(Sent(m, char)) /\ Sent(m, char).dlab = m.dlab
    BY DEF Shaped, Sent, Answer

LEMMA WrittenIerShape ==
    ASSUME NEW m, Shaped(m), NEW bits
    PROVE  /\ Shaped(WrittenIer(m, bits))
           /\ WrittenIer(m, bits).dlab = m.dlab /\ WrittenIer(m, bits).ier = bits
<1> DEFINE drained == m.drained \/ "tx" \in bits \ m.ier
<1>1. drained \in BOOLEAN
    BY ZenonT(30) DEF Shaped
<1>2. WrittenIer(m, bits) = [m EXCEPT !.ier = bits, !.drained = drained]
    BY DEF WrittenIer
<1> HIDE DEF drained
<1> QED
    BY <1>1, <1>2 DEF Shaped

LEMMA OpenKeeps == ASSUME WInv, Open PROVE WInv'
<1>1. /\ ModemShape /\ modem.dlab \in BOOLEAN /\ ist \in States
      /\ UNCHANGED <<machine, load, event>>
    BY DEF WInv, Shape, ModemShape, Shaped, Open, DriverRuns, Threads
<1>2. CASE ist = "latch" /\ WriteLcr(TRUE) /\ ist' = "divisor"
    <2>1. DriveModem([modem EXCEPT !.dlab = TRUE], "write") /\ modem' = [modem EXCEPT !.dlab = TRUE]
        BY <1>2 DEF WriteLcr, DriveModem
    <2>2. ModemShape' /\ OpenedInOrder'
        BY <1>1, <1>2, <2>1 DEF ModemShape, Shaped, OpenedInOrder
    <2> QED
        BY <1>1, <1>2, <2>1, <2>2, AccessKeeps DEF States
<1>3. CASE ist = "divisor" /\ WriteData("other") /\ ist' = "line"
    <2> DEFINE m == IF modem.dlab THEN modem ELSE Sent(modem, "other")
    <2>1. DriveModem(m, "write") /\ modem' = m
        BY <1>3 DEF WriteData, DriveModem
    <2>2. ModemShape' /\ OpenedInOrder'
        BY <1>1, <1>3, <2>1, SentShape DEF ModemShape, OpenedInOrder
    <2> HIDE DEF m
    <2> QED
        BY <1>1, <1>3, <2>1, <2>2, AccessKeeps DEF States
<1>4. CASE ist = "line" /\ WriteLcr(FALSE) /\ ist' = "clear"
    <2>1. DriveModem([modem EXCEPT !.dlab = FALSE], "write") /\ modem' = [modem EXCEPT !.dlab = FALSE]
        BY <1>4 DEF WriteLcr, DriveModem
    <2>2. ModemShape' /\ OpenedInOrder'
        BY <1>1, <1>4, <2>1 DEF ModemShape, Shaped, OpenedInOrder
    <2> QED
        BY <1>1, <1>4, <2>1, <2>2, AccessKeeps DEF States
<1>5. CASE ist = "clear" /\ WriteIer({}) /\ ist' = "enable"
    <2> DEFINE m == WrittenIer(modem, {})
    <2>1. ~modem.dlab
        BY <1>5 DEF WInv, OpenedInOrder, States
    <2>2. DriveModem(m, "write") /\ modem' = m
        BY <1>5, <2>1 DEF WriteIer, DriveModem
    <2>3. ModemShape' /\ OpenedInOrder'
        BY <1>1, <1>5, <2>1, <2>2, WrittenIerShape DEF ModemShape, OpenedInOrder
    <2> HIDE DEF m
    <2> QED
        BY <1>1, <1>5, <2>2, <2>3, AccessKeeps DEF States
<1> QED
    BY <1>2, <1>3, <1>4, <1>5 DEF Open

(* With nothing enabled the line was low: what is enabled here makes it    *)
(* rise.                                                                   *)
LEMMA OpenedKeeps == ASSUME WInv, Opened PROVE WInv'
<1> DEFINE m == WrittenIer(modem, {"rx", "tx"})
<1>1. /\ ModemShape /\ UNCHANGED <<machine, load, event>>
      /\ ist = "enable" /\ ist' = "waiting"
    BY DEF WInv, Shape, Opened, DriverRuns, Threads
<1>2. ~modem.dlab /\ modem.ier = {}
    BY <1>1 DEF WInv, OpenedInOrder, States
<1>3. DriveModem(m, "write") /\ modem' = m
    BY <1>2 DEF Opened, WriteIer, DriveModem
<1>4. ModemShape' /\ OpenedInOrder'
    BY <1>1, <1>2, <1>3, WrittenIerShape DEF ModemShape, OpenedInOrder
<1>5. Port \notin gpio.high
    BY <1>2 DEF WInv, LineFollowsModem, Pending
<1> HIDE DEF m
<1> QED
    BY <1>1, <1>3, <1>4, <1>5, AccessKeeps DEF States

(* A character is sent while the thread sleeps or works. *)
LEMMA SendKeeps == ASSUME WInv, Send \/ WriteNext PROVE WInv'
<1>1. /\ ModemShape /\ UNCHANGED <<machine, load, event>>
      /\ ist \in {"waiting", "serving", "write"}
      /\ ist' \in {"waiting", "serving"} /\ (ist' = "waiting" => ist = "waiting")
    BY DEF WInv, Shape, Send, WriteNext, DriverRuns, Threads
<1>2. PICK char : WriteData(char)
    BY DEF Send, WriteNext
<1> DEFINE m == Sent(modem, char)
<1>3. ~modem.dlab
    BY <1>1 DEF WInv, OpenedInOrder, States
<1>4. DriveModem(m, "write") /\ modem' = m
    BY <1>2, <1>3 DEF WriteData, DriveModem
<1>5. ModemShape' /\ OpenedInOrder'
    BY <1>1, <1>3, <1>4, SentShape DEF ModemShape, OpenedInOrder
<1> HIDE DEF m
<1> QED
    BY <1>1, <1>4, <1>5, AccessKeeps DEF States

(* The thread goes to sleep when the modem has nothing to report, and      *)
(* asking changed nothing then.                                            *)
LEMMA AskWhyKeeps == ASSUME WInv, AskWhy PROVE WInv'
<1> DEFINE m == [modem EXCEPT !.drained = @ /\ Pending(modem) # "tx"]
<1>1. /\ ModemShape /\ UNCHANGED <<machine, load, event>> /\ ist = "serving"
    BY DEF WInv, Shape, AskWhy, DriverRuns, Threads
<1>2. DriveModem(m, "read") /\ modem' = m
    BY DEF AskWhy, ReadIir, DriveModem
<1>3. Shaped(m) /\ m.dlab = modem.dlab
    BY <1>1 DEF ModemShape, Shaped
<1>4. ~modem.dlab
    BY <1>1 DEF WInv, OpenedInOrder, States
<1>5. /\ ist' \in States \ {"off", "enable"}
      /\ ist' = "waiting" => Pending(modem) = "none"
    BY DEF AskWhy, States, Pending
<1>6. ModemShape' /\ OpenedInOrder'
    BY <1>2, <1>3, <1>4, <1>5 DEF ModemShape, OpenedInOrder
<1>7. ist' = "waiting" => Port \notin gpio.high
    BY <1>5 DEF WInv, LineFollowsModem
<1> HIDE DEF m
<1> QED
    BY <1>1, <1>2, <1>5, <1>6, <1>7, AccessKeeps

LEMMA ReadNextKeeps == ASSUME WInv, ReadNext PROVE WInv'
<1> DEFINE m == [modem EXCEPT !.rx = IF modem.dlab \/ @ = << >> THEN @ ELSE Tail(@)]
<1>1. /\ ModemShape /\ UNCHANGED <<machine, load, event>> /\ ist = "read"
      /\ ist' \in {"read", "serving"}
    BY DEF WInv, Shape, ReadNext, DriverRuns, Threads
<1>2. DriveModem(m, "read") /\ modem' = m
    BY DEF ReadNext, ReadData, DriveModem
<1>3. Shaped(m) /\ m.dlab = modem.dlab
    BY <1>1 DEF ModemShape, Shaped
<1>4. ~modem.dlab
    BY <1>1 DEF WInv, OpenedInOrder, States
<1>5. ModemShape' /\ OpenedInOrder'
    BY <1>1, <1>2, <1>3, <1>4 DEF ModemShape, OpenedInOrder
<1> HIDE DEF m
<1> QED
    BY <1>1, <1>2, <1>5, AccessKeeps DEF States

-----------------------------------------------------------------------------
(* Loading, the handler and the display. *)

LEMMA LoadsDoes ==
    ASSUME Shape, NEW driver, NEW step \in 0 .. 2, Loads(driver, step)
    PROVE  /\ machine' = machine /\ load' \in [machine'.drivers -> 0 .. 3]
           /\ driver \in DOMAIN load /\ load[driver] = step
           /\ load' = [load EXCEPT ![driver] = step + 1]
           /\ driver \in {"clock", "alarm", "modem", "console"}
    BY GuestAssumption DEF Shape, Loads, Threads

(* The pin is armed first, and cleared before its thread exists. *)
LEMMA SetUpKeeps == ASSUME WInv, NEW driver, SetUp(driver) PROVE WInv'
<1>1. /\ machine' = machine /\ load' \in [machine'.drivers -> 0 .. 3]
      /\ driver \in DOMAIN load /\ load[driver] = 0
      /\ load' = [load EXCEPT ![driver] = 1] /\ load \in [machine.drivers -> 0 .. 3]
      /\ driver \in {"clock", "alarm", "modem", "console"}
    BY LoadsDoes DEF SetUp, WInv, Shape
<1>2. UNCHANGED <<modem, event, ist>>
    BY DEF SetUp, cpldVars, modemDriver
<1>3. CASE driver = "modem"
    <2>1. ist = "off"
        BY <1>1, <1>3 DEF WInv, ArmedFirst
    <2>2. gpio' = [gpio EXCEPT !.rising = @ \cup {Port}]
        BY <1>3 DEF SetUp, WriteRising, SetGpio, Port
    <2>3. gpio' \in Pinned /\ gpio'.high = gpio.high /\ Port \in gpio'.rising
        BY <2>2, PortIsANumber DEF WInv, Shape, Pinned
    <2> QED
        BY <1>1, <1>2, <2>1, <2>3
           DEF WInv, Shape, ModemShape, Shaped, LineFollowsModem, ArmedFirst, OpenedInOrder, NoWakeIsLost
<1>4. CASE driver # "modem"
    <2>1. gpio' = gpio
        BY <1>1, <1>4 DEF SetUp
    <2> QED
        BY <1>1, <1>2, <1>4, <2>1
           DEF WInv, Shape, ModemShape, Shaped, LineFollowsModem, ArmedFirst, OpenedInOrder, NoWakeIsLost
<1> QED
    BY <1>3, <1>4

LEMMA EnableKeeps == ASSUME WInv, NEW driver, Enable(driver) PROVE WInv'
<1>1. /\ machine' = machine /\ load' \in [machine'.drivers -> 0 .. 3]
      /\ driver \in DOMAIN load /\ load[driver] = 1
      /\ load' = [load EXCEPT ![driver] = 2] /\ load \in [machine.drivers -> 0 .. 3]
      /\ driver \in {"clock", "alarm", "modem", "console"}
    BY LoadsDoes DEF Enable, WInv, Shape
<1>2. UNCHANGED <<modem, event, ist>>
    BY DEF Enable, cpldVars, modemDriver
<1>3. CASE driver = "modem"
    <2>1. ist = "off" /\ Port \in gpio.rising
        BY <1>1, <1>3 DEF WInv, ArmedFirst
    <2>2. gpio' = [gpio EXCEPT !.edge = @ \ {Port}]
        BY <1>3 DEF Enable, WriteEdge, SetGpio, Port
    <2>3. gpio' \in Pinned /\ gpio'.high = gpio.high /\ gpio'.rising = gpio.rising
        BY <2>2 DEF WInv, Shape, Pinned
    <2> QED
        BY <1>1, <1>2, <2>1, <2>3
           DEF WInv, Shape, ModemShape, Shaped, LineFollowsModem, ArmedFirst, OpenedInOrder, NoWakeIsLost
<1>4. CASE driver # "modem"
    <2>1. gpio' = gpio
        BY <1>1, <1>4 DEF Enable
    <2> QED
        BY <1>1, <1>2, <1>4, <2>1
           DEF WInv, Shape, ModemShape, Shaped, LineFollowsModem, ArmedFirst, OpenedInOrder, NoWakeIsLost
<1> QED
    BY <1>3, <1>4

LEMMA UnmaskKeeps == ASSUME WInv, NEW driver, Unmask(driver) PROVE WInv'
<1>1. /\ machine' = machine /\ load' \in [machine'.drivers -> 0 .. 3]
      /\ driver \in DOMAIN load /\ load[driver] = 2
      /\ load' = [load EXCEPT ![driver] = 3] /\ load \in [machine.drivers -> 0 .. 3]
    BY LoadsDoes DEF Unmask, WInv, Shape
<1>2. UNCHANGED <<modem, event, gpio>> /\ ist' = IF driver = "modem" THEN "latch" ELSE ist
    BY DEF Unmask, cpldVars
<1> QED
    BY <1>1, <1>2 DEF WInv, Shape, ModemShape, Shaped, LineFollowsModem, ArmedFirst, OpenedInOrder,
                      NoWakeIsLost, States

(* The edge is cleared as the thread is signalled. *)
LEMMA ServePinKeeps == ASSUME WInv, ServePin PROVE WInv'
<1>1. /\ gpio' = [gpio EXCEPT !.edge = @ \ {Port}] /\ event' = TRUE
      /\ UNCHANGED <<machine, load, ist, modem>>
    BY DEF ServePin, WriteEdge, SetGpio, Port, Handling, cpldVars
<1>2. gpio' \in Pinned /\ gpio'.high = gpio.high /\ gpio'.rising = gpio.rising
    BY <1>1 DEF WInv, Shape, Pinned
<1> QED
    BY <1>1, <1>2 DEF WInv, Shape, ModemShape, Shaped, LineFollowsModem, ArmedFirst, OpenedInOrder,
                      NoWakeIsLost

(* The display has a pin of its own. *)
LEMMA ShiftBitKeeps == ASSUME WInv, ShiftBit PROVE WInv'
<1>1. /\ UNCHANGED <<machine, load, modem, ist, event>>
      /\ SetInput(END_OF_CHAIN_GPIO, EndOfChain(display'))
    BY DEF ShiftBit, Starting, BrailleClock, modemDriver
<1>2. EndOfChain(display') \in BOOLEAN
    BY DEF EndOfChain
<1>3. /\ gpio' \in Pinned /\ gpio'.rising = gpio.rising /\ gpio.edge \subseteq gpio'.edge
      /\ Port \in gpio'.high <=> Port \in gpio.high
    BY <1>1, <1>2, SetInputDoes, PortIsANumber DEF WInv, Shape
<1> QED
    BY <1>1, <1>3 DEF WInv, Shape, ModemShape, Shaped, LineFollowsModem, ArmedFirst, OpenedInOrder,
                      NoWakeIsLost, Port

(* A restart puts back the thread and what was loaded, and no device. *)
LEMMA RestartKeeps == ASSUME WInv, Restart PROVE WInv'
<1>1. /\ load' = [d \in machine.drivers |-> 0] /\ ist' = "off"
      /\ UNCHANGED <<machine, modem, gpio>>
    BY DEF Restart, socVars, cpldVars
<1>2. load' \in [machine'.drivers -> 0 .. 3]
    BY <1>1
<1> QED
    BY <1>1, <1>2 DEF WInv, Shape, ModemShape, Shaped, LineFollowsModem, ArmedFirst, OpenedInOrder,
                      NoWakeIsLost, States

LEMMA SignalledKeeps == ASSUME WInv, Signalled PROVE WInv'
<1>1. UNCHANGED <<machine, load, modem, gpio>> /\ ist = "waiting" /\ ist' = "serving"
    BY DEF Signalled, DriverRuns, Threads
<1> QED
    BY <1>1 DEF WInv, Shape, ModemShape, Shaped, LineFollowsModem, ArmedFirst, OpenedInOrder,
                NoWakeIsLost, States

-----------------------------------------------------------------------------
LEMMA InitWInv == Init => WInv
<1> SUFFICES ASSUME Init PROVE WInv
    OBVIOUS
<1>1. modem = [ier |-> {}, dlab |-> FALSE, drained |-> FALSE, command |-> << >>, rx |-> << >>]
    BY DEF Init, ModemInit
<1>2. /\ machine \in Machines /\ load = [d \in machine.drivers |-> 0] /\ ist = "off"
    BY DEF Init, GuestInit
<1>3. gpio \in Pinned /\ Port \notin gpio.high
    BY SocAssumption DEF Init, Pinned, Port, INTERRUPT_GPIO
<1>4. ModemShape /\ Pending(modem) = "none"
    BY <1>1 DEF ModemShape, Shaped, Pending
<1>5. load \in [machine.drivers -> 0 .. 3]
    BY <1>2
<1> QED
    BY <1>2, <1>3, <1>4, <1>5 DEF WInv, Shape, LineFollowsModem, ArmedFirst, OpenedInOrder,
                                  NoWakeIsLost, States

LEMMA NextWInv == ASSUME WInv, [Next]_vars PROVE WInv'
<1>1. CASE TimePasses
    BY <1>1, RestKeeps DEF TimePasses, Tick, cpldVars, guestVars, modemDriver
<1>2. CASE Start
    <2>1. CASE LookAtPin \/ ProgramTable
        BY <2>1, RestKeeps DEF LookAtPin, ProgramTable, Starting, modemDriver
    <2> QED
        BY <1>2, <2>1, ShiftBitKeeps DEF Start
<1>3. CASE Handler
    <2>1. CASE ReadIchp \/ ServeTimer \/ RearmTimer \/ ServeAlarm \/ ServeConsole
        BY <2>1, RestKeeps DEF ReadIchp, ServeTimer, RearmTimer, ServeAlarm, ServeConsole,
                               Handling, socVars, cpldVars
    <2> QED
        BY <1>3, <2>1, ServePinKeeps DEF Handler
<1>4. CASE Loading
    BY <1>4, SetUpKeeps, EnableKeeps, UnmaskKeeps DEF Loading
<1>5. CASE ModemThread
    <2>1. CASE TakeAnswer
        BY <2>1, RestKeeps DEF TakeAnswer, DriverRuns, Threads
    <2> QED
        BY <1>5, <2>1, OpenKeeps, OpenedKeeps, SendKeeps, SignalledKeeps, AskWhyKeeps, ReadNextKeeps
           DEF ModemThread
<1>6. CASE Core
    BY <1>6, RestKeeps DEF Core, TakeInterrupt, Wake, Sleeps, MaskToIdle, Halt, Resume, CoreOnly,
                           socVars, cpldVars, guestVars, modemDriver
<1>7. CASE Outside
    <2>1. CASE HostTypes
        BY <2>1, RestKeeps DEF HostTypes, cpldVars, modemDriver
    <2> QED
        BY <1>7, <2>1, RestartKeeps DEF Outside
<1>8. CASE UNCHANGED vars
    BY <1>8, RestKeeps DEF vars, socVars, cpldVars, guestVars, modemDriver
<1> QED
    BY <1>1, <1>2, <1>3, <1>4, <1>5, <1>6, <1>7, <1>8 DEF Next

(* While the modem's thread sleeps, a modem with something to report has   *)
(* an edge latched for it (read of modem.rs, drive_modem_interrupt of      *)
(* lib.rs), for any machines, drivers, commands and bounds.                *)
THEOREM NoWakeLost == Spec => []NoWakeIsLost
<1>1. Init => WInv
    BY InitWInv
<1>2. WInv /\ [Next]_vars => WInv'
    BY NextWInv
<1>3. WInv => NoWakeIsLost
    BY DEF WInv
<1> QED
    BY <1>1, <1>2, <1>3, PTL DEF Spec

-----------------------------------------------------------------------------
(* What was pending when the core took an interrupt is pending still when  *)
(* its handler asks: a device drives its own lines and no other, time and  *)
(* the host can only add to them, and nothing else runs in between.  And   *)
(* what is let through is in the table.                                    *)

OstShaped(o) ==
    /\ o = [oscr |-> o.oscr, osmr |-> o.osmr, ossr |-> o.ossr, oier |-> o.oier]
    /\ o.ossr \subseteq Channels
RtcShaped(r) == r = [rcnr |-> r.rcnr, rtar |-> r.rtar, status |-> r.status, enabled |-> r.enabled]
UartShaped(u) == u = [ier |-> u.ier, rx |-> u.rx] /\ u.rx \in Seq(TypedBytes)

Driven ==
    /\ OstShaped(ost) /\ pending \cap OstSources \subseteq OstLines(ost)
    /\ RtcShaped(rtc) /\ pending \cap RtcSources \subseteq RtcLines(rtc)
    /\ UartShaped(uart) /\ pending \cap {IRQ_FFUART} \subseteq UartLines(uart)

Table(order) == [i \in 1 .. Entries |-> IF i <= Len(order) THEN order[i] ELSE NoSource]

(* Nothing is unmasked that the table of the machine leaves out, and the   *)
(* core takes no interrupt before the table is there.                      *)
Settings ==
    /\ level = {}
    /\ \E order \in {<< >>, machine.table} : priority = Table(order)
    /\ mask \subseteq {SourceOf(driver) : driver \in machine.drivers}
    /\ core = [halted |-> core.halted, masked |-> core.masked]
    /\ isr # "none" \/ ~core.masked => oal = "up"

Called == isr = "entered" => Active(FALSE) # {}

HInv == Driven /\ Settings /\ Called

-----------------------------------------------------------------------------
(* The lines. *)

LEMMA SourcesAreApart ==
    /\ OstSources \subseteq 26 .. 29
    /\ RtcSources = {30, 31} /\ GpioSources = {8, 9, 10} /\ IRQ_FFUART = 22
    /\ \A o : OstShaped(o) => OstLines(o) \subseteq OstSources
    /\ \A r : RtcLines(r) \subseteq RtcSources
    /\ \A g : GpioLines(g) \subseteq GpioSources
    /\ \A u : UartLines(u) \subseteq {IRQ_FFUART}
<1>1. OstSources \subseteq 26 .. 29
    BY SocAssumption DEF OstSources, IRQ_OST0
<1>2. RtcSources = {30, 31} /\ GpioSources = {8, 9, 10} /\ IRQ_FFUART = 22
    BY DEF RtcSources, GpioSources, IRQ_RTC_HZ, IRQ_RTC_ALARM, IRQ_GPIO0, IRQ_GPIO1, IRQ_GPIO_X, IRQ_FFUART
<1>3. \A o : OstShaped(o) => OstLines(o) \subseteq OstSources
    BY DEF OstShaped, OstLines, OstSources
<1>4. \A r : RtcLines(r) \subseteq RtcSources
    BY DEF RtcLines
<1>5. \A g : GpioLines(g) \subseteq GpioSources
    BY DEF GpioLines, GpioSources
<1>6. \A u : UartLines(u) \subseteq {IRQ_FFUART}
    BY DEF UartLines
<1> QED
    BY <1>1, <1>2, <1>3, <1>4, <1>5, <1>6

(* A device that drives its lines leaves those of the others. *)
LEMMA OstKeeps ==
    ASSUME Driven, NEW o, OstShaped(o), SetOst(o), UNCHANGED <<rtc, uart>>
    PROVE  Driven'
<1>1. ost' = o /\ pending' = (pending \ OstSources) \cup OstLines(o)
    BY DEF SetOst, SetLines
<1>2. OstLines(o) \subseteq OstSources
    BY SourcesAreApart
<1>3. /\ pending' \cap OstSources \subseteq OstLines(o)
      /\ pending' \cap RtcSources \subseteq pending \cap RtcSources
      /\ pending' \cap {IRQ_FFUART} \subseteq pending \cap {IRQ_FFUART}
    BY <1>1, <1>2, SourcesAreApart
<1> QED
    BY <1>1, <1>3 DEF Driven

LEMMA RtcKeeps ==
    ASSUME Driven, NEW r, RtcShaped(r), SetRtc(r), UNCHANGED <<ost, uart>>
    PROVE  Driven'
<1>1. rtc' = r /\ pending' = (pending \ RtcSources) \cup RtcLines(r)
    BY DEF SetRtc, SetLines
<1>2. RtcLines(r) \subseteq RtcSources
    BY SourcesAreApart
<1>3. /\ pending' \cap RtcSources \subseteq RtcLines(r)
      /\ pending' \cap OstSources \subseteq pending \cap OstSources
      /\ pending' \cap {IRQ_FFUART} \subseteq pending \cap {IRQ_FFUART}
    BY <1>1, <1>2, SourcesAreApart
<1> QED
    BY <1>1, <1>3 DEF Driven

LEMMA UartKeeps ==
    ASSUME Driven, NEW u, UartShaped(u), SetUart(u), UNCHANGED <<ost, rtc>>
    PROVE  Driven'
<1>1. uart' = u /\ pending' = (pending \ {IRQ_FFUART}) \cup UartLines(u)
    BY DEF SetUart, SetLines
<1>2. UartLines(u) \subseteq {IRQ_FFUART}
    BY SourcesAreApart
<1>3. /\ pending' \cap {IRQ_FFUART} \subseteq UartLines(u)
      /\ pending' \cap OstSources \subseteq pending \cap OstSources
      /\ pending' \cap RtcSources \subseteq pending \cap RtcSources
    BY <1>1, <1>2, SourcesAreApart
<1> QED
    BY <1>1, <1>3 DEF Driven

LEMMA GpioKeeps ==
    ASSUME Driven, NEW g, SetGpio(g), UNCHANGED <<ost, rtc, uart>>
    PROVE  Driven'
<1>1. pending' = (pending \ GpioSources) \cup GpioLines(g)
    BY DEF SetGpio, SetLines
<1>2. GpioLines(g) \subseteq GpioSources
    BY SourcesAreApart
<1>3. /\ pending' \cap OstSources \subseteq pending \cap OstSources
      /\ pending' \cap RtcSources \subseteq pending \cap RtcSources
      /\ pending' \cap {IRQ_FFUART} \subseteq pending \cap {IRQ_FFUART}
    BY <1>1, <1>2, SourcesAreApart
<1> QED
    BY <1>3 DEF Driven

LEMMA StillDriven == ASSUME Driven, UNCHANGED <<pending, ost, rtc, uart>> PROVE Driven'
    BY DEF Driven

(* Everything done to the modem or the display ends at a pin. *)
LEMMA PinKeeps ==
    ASSUME Driven, NEW pin, NEW high, SetInput(pin, high), UNCHANGED <<ost, rtc, uart>>
    PROVE  Driven'
    BY GpioKeeps DEF SetInput

LEMMA ModemKeeps ==
    ASSUME Driven, NEW m, NEW access, DriveModem(m, access), UNCHANGED <<ost, rtc, uart>>
    PROVE  Driven'
    BY PinKeeps DEF DriveModem

(* Ticks of the timer and of the clock add to what they report. *)
LEMMA OstTickedAdds ==
    ASSUME NEW o, OstShaped(o), NEW ticks
    PROVE  OstShaped(OstTicked(o, ticks)) /\ OstLines(o) \subseteq OstLines(OstTicked(o, ticks))
<1> DEFINE new == (o.oscr + ticks) % Modulus
           hit == {ch \in Channels : Crossed(o.oscr, new, o.osmr[ch])}
<1>1. OstTicked(o, ticks) = IF ticks = 0 THEN o ELSE [o EXCEPT !.oscr = new, !.ossr = @ \cup hit]
    BY DEF OstTicked
<1>2. hit \subseteq Channels
    OBVIOUS
<1> HIDE DEF new, hit
<1>3. CASE ticks = 0
    BY <1>1, <1>3
<1>4. CASE ticks # 0
    <2>1. OstTicked(o, ticks) = [oscr |-> new, osmr |-> o.osmr, ossr |-> o.ossr \cup hit, oier |-> o.oier]
        BY <1>1, <1>4 DEF OstShaped
    <2>2. OstShaped(OstTicked(o, ticks))
        BY <1>2, <2>1 DEF OstShaped
    <2>3. OstLines(o) \subseteq OstLines(OstTicked(o, ticks))
        BY <2>1 DEF OstLines
    <2> QED
        BY <2>2, <2>3
<1> QED
    BY <1>3, <1>4

LEMMA RtcTickedAdds ==
    ASSUME NEW r, RtcShaped(r), NEW seconds
    PROVE  RtcShaped(RtcTicked(r, seconds)) /\ RtcLines(r) \subseteq RtcLines(RtcTicked(r, seconds))
<1> DEFINE now == (r.rcnr + seconds) % RtcModulus
           new == {s \in {"AL"} : r.rcnr < r.rtar /\ now >= r.rtar}
<1>1. RtcTicked(r, seconds) =
          IF seconds = 0 THEN r ELSE [r EXCEPT !.rcnr = now, !.status = @ \cup {"HZ"} \cup new]
    BY DEF RtcTicked
<1> HIDE DEF now, new
<1>2. CASE seconds = 0
    BY <1>1, <1>2
<1>3. CASE seconds # 0
    <2>1. RtcTicked(r, seconds) = [rcnr |-> now, rtar |-> r.rtar,
                                   status |-> r.status \cup {"HZ"} \cup new, enabled |-> r.enabled]
        BY <1>1, <1>3 DEF RtcShaped
    <2>2. RtcShaped(RtcTicked(r, seconds))
        BY <2>1 DEF RtcShaped
    <2>3. RtcLines(r) \subseteq RtcLines(RtcTicked(r, seconds))
        BY <2>1 DEF RtcLines
    <2> QED
        BY <2>2, <2>3
<1> QED
    BY <1>2, <1>3

LEMMA TickAdds ==
    ASSUME Driven, NEW ticks, NEW seconds, SocTick(ticks, seconds), UNCHANGED uart
    PROVE  Driven' /\ pending \subseteq pending'
<1> DEFINE osts == IF ticks = 0 THEN {} ELSE OstSources
           rtcs == IF seconds = 0 THEN {} ELSE RtcSources
           ostLines == IF ticks = 0 THEN {} ELSE OstLines(ost')
           rtcLines == IF seconds = 0 THEN {} ELSE RtcLines(rtc')
<1>1. /\ ost' = OstTicked(ost, ticks) /\ rtc' = RtcTicked(rtc, seconds)
      /\ pending' = (pending \ (osts \cup rtcs)) \cup (ostLines \cup rtcLines)
    BY DEF SocTick, SetLines
<1>2. /\ OstShaped(ost') /\ OstLines(ost) \subseteq OstLines(ost')
      /\ RtcShaped(rtc') /\ RtcLines(rtc) \subseteq RtcLines(rtc')
    BY <1>1, OstTickedAdds, RtcTickedAdds DEF Driven
<1>3. /\ OstLines(ost') \subseteq OstSources /\ RtcLines(rtc') \subseteq RtcSources
      /\ OstSources \cap RtcSources = {}
      /\ IRQ_FFUART \notin OstSources /\ IRQ_FFUART \notin RtcSources
    BY <1>2, SourcesAreApart
<1>4. /\ pending \cap OstSources \subseteq OstLines(ost')
      /\ pending \cap RtcSources \subseteq RtcLines(rtc')
    BY <1>2 DEF Driven
<1>5. /\ \/ osts = {} /\ ostLines = {}
         \/ osts = OstSources /\ ostLines = OstLines(ost')
      /\ \/ rtcs = {} /\ rtcLines = {}
         \/ rtcs = RtcSources /\ rtcLines = RtcLines(rtc')
    OBVIOUS
<1> HIDE DEF osts, rtcs, ostLines, rtcLines
<1>6. /\ pending' \cap OstSources \subseteq OstLines(ost')
      /\ pending' \cap RtcSources \subseteq RtcLines(rtc')
      /\ pending' \cap {IRQ_FFUART} \subseteq pending \cap {IRQ_FFUART}
    BY <1>1, <1>3, <1>4, <1>5
<1>7. pending \subseteq pending'
    BY <1>1, <1>4, <1>5
<1> QED
    BY <1>2, <1>6, <1>7 DEF Driven

(* The host's bytes add to what the port reports. *)
LEMMA FeedAdds ==
    ASSUME Driven, Feed(Typed), UNCHANGED <<ost, rtc>>
    PROVE  Driven' /\ pending \subseteq pending'
<1> DEFINE all == uart.rx \o Typed
           u == [uart EXCEPT !.rx = all]
<1>1. SetUart(u)
    BY DEF Feed
<1>2. uart = [ier |-> uart.ier, rx |-> uart.rx] /\ uart.rx \in Seq(TypedBytes)
    BY DEF Driven, UartShaped
<1>3. all \in Seq(TypedBytes) /\ (uart.rx # << >> => all # << >>)
    BY <1>2, GuestAssumption
<1> HIDE DEF all
<1>4. UartShaped(u) /\ u.ier = uart.ier /\ u.rx = all
    BY <1>2, <1>3 DEF UartShaped
<1> HIDE DEF u
<1>5. UartLines(uart) \subseteq UartLines(u)
    BY <1>3, <1>4 DEF UartLines, UartIir
<1>6. Driven'
    BY <1>1, <1>4, UartKeeps
<1>7. pending' = (pending \ {IRQ_FFUART}) \cup UartLines(u)
    BY <1>1 DEF SetUart, SetLines
<1> QED
    BY <1>5, <1>6, <1>7 DEF Driven

-----------------------------------------------------------------------------
(* Each action leaves the lines as the devices drive them. *)

(* A register written leaves the record one. *)
LEMMA OstWritten ==
    ASSUME NEW o, OstShaped(o), NEW matches, NEW enabled, NEW status, status \subseteq Channels
    PROVE  /\ OstShaped([o EXCEPT !.osmr = matches])
           /\ OstShaped([o EXCEPT !.oier = enabled])
           /\ OstShaped([o EXCEPT !.ossr = status])
    BY DEF OstShaped

LEMMA RtcWritten ==
    ASSUME NEW r, RtcShaped(r), NEW alarm, NEW status, NEW enabled
    PROVE  /\ RtcShaped([r EXCEPT !.rtar = alarm, !.status = status])
           /\ RtcShaped([r EXCEPT !.enabled = enabled, !.status = status])
<1> DEFINE fields == {"rcnr", "rtar", "status", "enabled"}
           armed == [r EXCEPT !.rtar = alarm, !.status = status]
           written == [r EXCEPT !.enabled = enabled, !.status = status]
<1>1. r = [rcnr |-> r.rcnr, rtar |-> r.rtar, status |-> r.status, enabled |-> r.enabled]
    BY DEF RtcShaped
<1>2. armed = [x \in fields |-> IF x = "rtar" THEN alarm ELSE IF x = "status" THEN status ELSE r[x]]
    BY <1>1
<1>3. written = [x \in fields |-> IF x = "enabled" THEN enabled
                                  ELSE IF x = "status" THEN status ELSE r[x]]
    BY <1>1
<1>4. armed = [rcnr |-> r.rcnr, rtar |-> alarm, status |-> status, enabled |-> r.enabled]
    BY <1>1, <1>2
<1>5. written = [rcnr |-> r.rcnr, rtar |-> r.rtar, status |-> status, enabled |-> enabled]
    BY <1>1, <1>3
<1> QED
    BY <1>4, <1>5 DEF RtcShaped

LEMMA UartWritten ==
    ASSUME NEW u, UartShaped(u), NEW enabled
    PROVE  /\ UartShaped([u EXCEPT !.ier = enabled])
           /\ \A bytes \in Seq(TypedBytes) : UartShaped([u EXCEPT !.rx = bytes])
    BY DEF UartShaped

LEMMA HandlerDrives == ASSUME Driven, Handler PROVE Driven'
<1>0. OstShaped(ost) /\ RtcShaped(rtc) /\ UartShaped(uart)
    BY DEF Driven
<1>1. CASE ReadIchp
    BY <1>1, StillDriven DEF ReadIchp, socVars, intcVars
<1>2. CASE ServeTimer
    <2> DEFINE o == [ost EXCEPT !.ossr = @ \ {0}]
    <2>1. SetOst(o) /\ UNCHANGED <<rtc, uart>>
        BY <1>2 DEF ServeTimer, WriteOssr
    <2>2. OstShaped(o)
        BY <1>0 DEF OstShaped
    <2> QED
        BY <2>1, <2>2, OstKeeps
<1>3. CASE RearmTimer
    <2> DEFINE o == [ost EXCEPT !.osmr[0] = (ost.oscr + Period) % Modulus]
    <2>1. SetOst(o) /\ UNCHANGED <<rtc, uart>>
        BY <1>3 DEF RearmTimer, WriteMatch
    <2>2. OstShaped(o)
        BY <1>0 DEF OstShaped
    <2> QED
        BY <2>1, <2>2, OstKeeps
<1>4. CASE ServeAlarm
    <2> DEFINE r == [rtc EXCEPT !.enabled = {"AL"}, !.status = @ \ {"AL"}]
    <2>1. SetRtc(r) /\ UNCHANGED <<ost, uart>>
        BY <1>4 DEF ServeAlarm, WriteRtsr
    <2>2. RtcShaped(r)
        BY <1>0, RtcWritten
    <2> QED
        BY <2>1, <2>2, RtcKeeps
<1>5. CASE ServePin
    BY <1>5, GpioKeeps DEF ServePin, WriteEdge
<1>6. CASE ServeConsole
    <2> DEFINE u == [uart EXCEPT !.rx = IF @ = << >> THEN @ ELSE Tail(@)]
    <2>1. SetUart(u) /\ UNCHANGED <<ost, rtc>>
        BY <1>6 DEF ServeConsole, ReadRbr
    <2>2. (IF uart.rx = << >> THEN uart.rx ELSE Tail(uart.rx)) \in Seq(TypedBytes)
        BY <1>0 DEF UartShaped
    <2>3. UartShaped(u)
        BY <1>0, <2>2, UartWritten
    <2> QED
        BY <2>1, <2>3, UartKeeps
<1> QED
    BY <1>1, <1>2, <1>3, <1>4, <1>5, <1>6 DEF Handler

LEMMA LoadingDrives == ASSUME Shape, Driven, Loading PROVE Driven'
<1>0. OstShaped(ost) /\ RtcShaped(rtc) /\ UartShaped(uart)
    BY DEF Driven
<1>1. PICK driver : SetUp(driver) \/ Enable(driver) \/ Unmask(driver)
    BY DEF Loading
<1>2. CASE SetUp(driver)
    <2>0. driver \in {"clock", "alarm", "modem", "console"}
        BY <1>2, LoadsDoes DEF SetUp
    <2>1. CASE driver = "clock"
        <3> DEFINE o == [ost EXCEPT !.osmr[0] = (ost.oscr + Period) % Modulus]
        <3>1. SetOst(o) /\ UNCHANGED <<rtc, uart>>
            BY <1>2, <2>1 DEF SetUp, WriteMatch
        <3>2. OstShaped(o)
            BY <1>0 DEF OstShaped
        <3> QED
            BY <3>1, <3>2, OstKeeps
    <2>2. CASE driver = "alarm"
        <3> DEFINE r == [rtc EXCEPT !.rtar = (rtc.rcnr + 1) % RtcModulus, !.status = @ \ {"AL"}]
        <3>1. SetRtc(r) /\ UNCHANGED <<ost, uart>>
            BY <1>2, <2>2 DEF SetUp, WriteRtar
        <3>2. RtcShaped(r)
            BY <1>0, RtcWritten
        <3> QED
            BY <3>1, <3>2, RtcKeeps
    <2>3. CASE driver = "modem"
        BY <1>2, <2>3, GpioKeeps DEF SetUp, WriteRising
    <2>4. CASE driver = "console"
        <3> DEFINE u == [uart EXCEPT !.rx = << >>]
        <3>1. SetUart(u) /\ UNCHANGED <<ost, rtc>>
            BY <1>2, <2>4 DEF SetUp, ResetUartFifo
        <3>2. << >> \in Seq(TypedBytes)
            OBVIOUS
        <3>3. UartShaped(u)
            BY <1>0, <3>2, UartWritten
        <3> QED
            BY <3>1, <3>3, UartKeeps
    <2> QED
        BY <2>0, <2>1, <2>2, <2>3, <2>4
<1>3. CASE Enable(driver)
    <2>0. driver \in {"clock", "alarm", "modem", "console"}
        BY <1>3, LoadsDoes DEF Enable
    <2>1. CASE driver = "clock"
        <3> DEFINE o == [ost EXCEPT !.oier = {0}]
        <3>1. SetOst(o) /\ UNCHANGED <<rtc, uart>>
            BY <1>3, <2>1 DEF Enable, WriteOier
        <3>2. OstShaped(o)
            BY <1>0 DEF OstShaped
        <3> QED
            BY <3>1, <3>2, OstKeeps
    <2>2. CASE driver = "alarm"
        <3> DEFINE r == [rtc EXCEPT !.enabled = {"AL"}, !.status = @ \ {}]
        <3>1. SetRtc(r) /\ UNCHANGED <<ost, uart>>
            BY <1>3, <2>2 DEF Enable, WriteRtsr
        <3>2. RtcShaped(r)
            BY <1>0, RtcWritten
        <3> QED
            BY <3>1, <3>2, RtcKeeps
    <2>3. CASE driver = "modem"
        BY <1>3, <2>3, GpioKeeps DEF Enable, WriteEdge
    <2>4. CASE driver = "console"
        <3> DEFINE u == [uart EXCEPT !.ier = {"rx", "unit"}]
        <3>1. SetUart(u) /\ UNCHANGED <<ost, rtc>>
            BY <1>3, <2>4 DEF Enable, WriteUartIer
        <3>2. UartShaped(u)
            BY <1>0, UartWritten
        <3> QED
            BY <3>1, <3>2, UartKeeps
    <2> QED
        BY <2>0, <2>1, <2>2, <2>3, <2>4
<1>4. CASE Unmask(driver)
    BY <1>4, StillDriven DEF Unmask, WriteMask
<1> QED
    BY <1>1, <1>2, <1>3, <1>4

LEMMA ModemThreadDrives == ASSUME Driven, ModemThread PROVE Driven'
<1>1. UNCHANGED <<ost, rtc, uart>>
    BY DEF ModemThread, Open, Opened, Send, Signalled, AskWhy, WriteNext, ReadNext, TakeAnswer, DriverRuns
<1>2. CASE Signalled \/ TakeAnswer
    BY <1>1, <1>2, StillDriven DEF Signalled, TakeAnswer
<1>3. CASE ~(Signalled \/ TakeAnswer)
    <2>1. \E m, access : DriveModem(m, access)
        BY <1>3 DEF ModemThread, Open, Opened, Send, AskWhy, WriteNext, ReadNext,
                    WriteLcr, WriteData, WriteIer, ReadIir, ReadData
    <2> QED
        BY <1>1, <2>1, ModemKeeps
<1> QED
    BY <1>2, <1>3

LEMMA NextDriven == ASSUME Shape, Driven, [Next]_vars PROVE Driven'
<1>1. CASE TimePasses
    BY <1>1, TickAdds DEF TimePasses, Tick
<1>2. CASE Start
    <2>1. UNCHANGED <<ost, rtc, uart>>
        BY <1>2 DEF Start, ShiftBit, LookAtPin, ProgramTable, Starting
    <2>2. CASE ShiftBit
        BY <2>1, <2>2, PinKeeps DEF ShiftBit, BrailleClock
    <2>3. CASE LookAtPin \/ ProgramTable
        BY <2>1, <2>3, StillDriven DEF LookAtPin, ProgramTable, intcVars
    <2> QED
        BY <1>2, <2>2, <2>3 DEF Start
<1>3. CASE Handler
    BY <1>3, HandlerDrives
<1>4. CASE Loading
    BY <1>4, LoadingDrives
<1>5. CASE ModemThread
    BY <1>5, ModemThreadDrives
<1>6. CASE Core
    BY <1>6, StillDriven DEF Core, TakeInterrupt, Wake, Sleeps, MaskToIdle, Halt, Resume, CoreOnly,
                             socVars, intcVars
<1>7. CASE Outside
    <2>1. CASE HostTypes
        BY <2>1, FeedAdds DEF HostTypes
    <2>2. CASE Restart
        BY <2>2, StillDriven DEF Restart, socVars, intcVars
    <2> QED
        BY <1>7, <2>1, <2>2 DEF Outside
<1>8. CASE UNCHANGED vars
    BY <1>8, StillDriven DEF vars, socVars, intcVars
<1> QED
    BY <1>1, <1>2, <1>3, <1>4, <1>5, <1>6, <1>7, <1>8 DEF Next

-----------------------------------------------------------------------------
(* The table, the mask and the core. *)

LEMMA SettingsKept ==
    ASSUME Settings, UNCHANGED <<mask, level, priority, machine, oal>>,
           core' = [halted |-> core'.halted, masked |-> core'.masked],
           isr' # "none" \/ ~core'.masked => oal = "up"
    PROVE  Settings'
    BY DEF Settings

LEMMA NextSettings == ASSUME Shape, Settings, [Next]_vars PROVE Settings'
<1>0. core = [halted |-> core.halted, masked |-> core.masked]
    BY DEF Settings
<1>1. CASE TimePasses
    BY <1>1, SettingsKept DEF TimePasses, Tick, guestVars, starting, Settings
<1>2. CASE Start
    <2>1. UNCHANGED <<isr, machine>>
        BY <1>2 DEF Start, ShiftBit, LookAtPin, ProgramTable, Starting
    <2>2. CASE ShiftBit
        BY <2>1, <2>2, SettingsKept DEF ShiftBit, BrailleClock, SetInput, SetGpio, SetLines, Settings
    <2>3. CASE LookAtPin
        <3>1. isr = "none" /\ core.masked
            BY <2>3 DEF LookAtPin, Starting, Settings
        <3> QED
            BY <2>1, <2>3, <3>1 DEF LookAtPin, intcVars, Settings
    <2>4. CASE ProgramTable
        <3>1. /\ priority' = Table(machine.table) /\ level' = level /\ mask' = {} /\ oal' = "up"
              /\ core' = [core EXCEPT !.masked = FALSE]
            BY <2>4 DEF ProgramTable, WriteTable, Table
        <3>2. core' = [halted |-> core'.halted, masked |-> core'.masked]
            BY <1>0, <3>1
        <3> QED
            BY <2>1, <3>1, <3>2 DEF Settings
    <2> QED
        BY <1>2, <2>2, <2>3, <2>4 DEF Start
<1>3. CASE Handler
    <2>1. /\ UNCHANGED <<mask, level, priority, machine, oal>> /\ isr # "none"
          /\ \E to : Returns(to)
        BY <1>3 DEF Handler, ReadIchp, ServeTimer, RearmTimer, ServeAlarm, ServePin, ServeConsole,
                    Handling, starting, socVars, intcVars
    <2>2. core' = [halted |-> core'.halted, masked |-> core'.masked]
        BY <1>0, <2>1 DEF Returns
    <2> QED
        BY <2>1, <2>2, SettingsKept DEF Settings
<1>4. CASE Loading
    <2>1. PICK driver : SetUp(driver) \/ Enable(driver) \/ Unmask(driver)
        BY <1>4 DEF Loading
    <2>2. /\ UNCHANGED <<machine, oal, core, isr, priority, level>>
          /\ mask' = mask \/ (driver \in machine.drivers /\ mask' = mask \cup {SourceOf(driver)})
        BY <2>1 DEF SetUp, Enable, Unmask, WriteMask, Loads, Threads, starting, Shape
    <2> QED
        BY <2>2 DEF Settings
<1>5. CASE ModemThread
    <2>1. UNCHANGED <<machine, oal, core, isr, priority, level, mask>>
        BY <1>5 DEF ModemThread, Open, Opened, Send, Signalled, AskWhy, WriteNext, ReadNext, TakeAnswer,
                    DriverRuns, Threads, starting
    <2> QED
        BY <2>1 DEF Settings
<1>6. CASE Core
    <2>1. UNCHANGED <<mask, level, priority, machine, oal>>
        BY <1>6 DEF Core, TakeInterrupt, Wake, Sleeps, MaskToIdle, Halt, Resume, CoreOnly,
                    socVars, intcVars, guestVars, starting
    <2>2. core' = [halted |-> core'.halted, masked |-> core'.masked]
        BY <1>0, <1>6 DEF Core, TakeInterrupt, Wake, Sleeps, MaskToIdle, Halt, Resume, guestVars
    <2>3. isr' # "none" \/ ~core'.masked => oal = "up"
        <3>1. CASE TakeInterrupt
            BY <3>1 DEF TakeInterrupt, Settings
        <3>2. CASE Wake
            BY <1>0, <3>2 DEF Wake, Settings
        <3>3. CASE Sleeps
            BY <3>3 DEF Sleeps, guestVars, Settings
        <3>4. CASE MaskToIdle \/ Halt \/ Resume
            BY <3>4 DEF MaskToIdle, Halt, Resume, CoreOnly
        <3> QED
            BY <1>6, <3>1, <3>2, <3>3, <3>4 DEF Core
    <2> QED
        BY <2>1, <2>2, <2>3, SettingsKept
<1>7. CASE Outside
    <2>1. CASE HostTypes
        BY <2>1 DEF HostTypes, starting, Settings
    <2>2. CASE Restart
        BY <2>2 DEF Restart, socVars, intcVars, Settings
    <2> QED
        BY <1>7, <2>1, <2>2 DEF Outside
<1>8. CASE UNCHANGED vars
    BY <1>8 DEF vars, socVars, intcVars, guestVars, starting, Settings
<1> QED
    BY <1>1, <1>2, <1>3, <1>4, <1>5, <1>6, <1>7, <1>8 DEF Next

-----------------------------------------------------------------------------
(* Between the interrupt and the read of ICHP. *)

LEMMA StillCalled ==
    ASSUME Called, pending \subseteq pending', UNCHANGED <<mask, level>>, isr' = "entered" => isr = "entered"
    PROVE  Called'
    BY DEF Called, Active

LEMMA NextCalled == ASSUME Driven, Settings, Called, [Next]_vars PROVE Called'
<1>1. CASE TimePasses
    BY <1>1, TickAdds, StillCalled DEF TimePasses, Tick, guestVars
<1>2. CASE Start
    <2>1. isr' # "entered"
        BY <1>2 DEF Start, ShiftBit, LookAtPin, ProgramTable, Starting, Settings
    <2> QED
        BY <2>1 DEF Called
<1>3. CASE Handler
    <2>1. isr' # "entered"
        BY <1>3 DEF Handler, ReadIchp, ServeTimer, RearmTimer, ServeAlarm, ServePin, ServeConsole,
                    Returns, ServiceOf
    <2> QED
        BY <2>1 DEF Called
<1>4. CASE Loading \/ ModemThread
    <2>1. isr' = "none"
        BY <1>4 DEF Loading, SetUp, Enable, Unmask, Loads, ModemThread, Open, Opened, Send, Signalled,
                    AskWhy, WriteNext, ReadNext, TakeAnswer, DriverRuns, Threads
    <2> QED
        BY <2>1 DEF Called
<1>5. CASE Core
    <2>1. UNCHANGED <<pending, mask, level>>
        BY <1>5 DEF Core, TakeInterrupt, Wake, Sleeps, MaskToIdle, Halt, Resume, CoreOnly, socVars, intcVars
    <2>2. CASE TakeInterrupt
        BY <2>1, <2>2 DEF TakeInterrupt, IrqLine, Called, Active
    <2>3. CASE ~TakeInterrupt
        BY <1>5, <2>1, <2>3, StillCalled DEF Core, Wake, Sleeps, MaskToIdle, Halt, Resume, guestVars
    <2> QED
        BY <2>2, <2>3
<1>6. CASE Outside
    <2>1. CASE HostTypes
        BY <2>1, FeedAdds, StillCalled DEF HostTypes
    <2>2. CASE Restart
        BY <2>2 DEF Restart, Called
    <2> QED
        BY <1>6, <2>1, <2>2 DEF Outside
<1>7. CASE UNCHANGED vars
    BY <1>7, StillCalled DEF vars, socVars, intcVars, guestVars
<1> QED
    BY <1>1, <1>2, <1>3, <1>4, <1>5, <1>6, <1>7 DEF Next

-----------------------------------------------------------------------------
(* What the controller reports. *)

LEMMA MinIsOne ==
    ASSUME NEW S, S \subseteq Nat, S # {}
    PROVE  Min(S) \in S
<1>1. PICK x \in S : \A y \in S : <<y, x>> \notin OpToRel(<, Nat)
    BY NatLessThanWellFounded, WFMin
<1>2. \A y \in S : x =< y
    <2> SUFFICES ASSUME NEW y \in S PROVE x =< y
        OBVIOUS
    <2>1. x \in Nat /\ y \in Nat /\ ~(y < x)
        BY <1>1 DEF OpToRel
    <2> QED
        BY <2>1
<1> QED
    BY <1>2 DEF Min

LEMMA SourceIsReported ==
    ASSUME Shape, Settings, Active(FALSE) # {}
    PROVE  HighestPriority(FALSE) # NoSource
<1>1. machine.drivers \subseteq {"clock", "alarm", "modem", "console"}
    BY GuestAssumption DEF Shape
<1>2. PICK active : active = Active(FALSE)
    OBVIOUS
<1> DEFINE listed == {i \in Programmed : priority[i] \in active}
<1>3. active # {} /\ active \subseteq mask
    BY <1>2 DEF Active
<1>4. /\ listed # {} => HighestPriority(FALSE) = priority[Min(listed)]
      /\ listed = {} /\ Programmed = {} => HighestPriority(FALSE) = Min(active)
    BY <1>2, <1>3 DEF HighestPriority
<1>5. active \subseteq {10, 22, 26, 31}
    BY <1>1, <1>3 DEF Settings, SourceOf, IRQ_OST0, IRQ_RTC_ALARM, IRQ_GPIO_X, IRQ_FFUART
<1>6. CASE listed # {}
    <2>1. listed \subseteq Nat
        BY SocAssumption DEF Programmed
    <2>2. Min(listed) \in listed
        BY <1>6, <2>1, MinIsOne
    <2>3. HighestPriority(FALSE) = priority[Min(listed)]
        BY <1>4, <1>6
    <2> QED
        BY <2>2, <2>3 DEF Programmed
<1>7. CASE listed = {}
    <2>1. PICK s \in active : TRUE
        BY <1>3
    <2>2. PICK driver \in machine.drivers : s = SourceOf(driver)
        BY <1>3, <2>1 DEF Settings
    <2>3. Programmed = {}
        <3> SUFFICES ASSUME priority = Table(machine.table), machine.table # << >> PROVE FALSE
            BY DEF Settings, Table, Programmed
        <3>1. machine.table \in Seq(Sources) /\ Len(machine.table) =< Entries
            BY GuestAssumption DEF Shape
        <3>2. PICK i \in DOMAIN machine.table : machine.table[i] = s
            BY <2>2, TableAssumption DEF Shape
        <3>3. i \in 1 .. Entries /\ priority[i] = s
            BY <3>1, <3>2, SocAssumption DEF Table
        <3>4. s # NoSource
            BY <1>5, <2>1 DEF NoSource
        <3>5. i \in Programmed
            BY <3>3, <3>4 DEF Programmed
        <3> QED
            BY <1>7, <2>1, <3>3, <3>5
    <2>4. active \subseteq Nat
        BY <1>5
    <2>5. Min(active) \in active
        BY <1>3, <2>4, MinIsOne
    <2>6. Min(active) # NoSource
        BY <1>5, <2>5 DEF NoSource
    <2>7. HighestPriority(FALSE) = Min(active)
        BY <1>4, <1>7, <2>3
    <2> QED
        BY <2>6, <2>7
<1> QED
    BY <1>6, <1>7

LEMMA InitHInv == Init => HInv
<1> SUFFICES ASSUME Init PROVE HInv
    OBVIOUS
<1>1. /\ pending = {} /\ mask = {} /\ level = {}
      /\ priority = [i \in 1 .. Entries |-> NoSource]
      /\ ost = [oscr |-> 0, osmr |-> [ch \in Channels |-> 0], ossr |-> {}, oier |-> {}]
      /\ rtc = [rcnr |-> 0, rtar |-> 0, status |-> {}, enabled |-> {}]
      /\ uart = [ier |-> {}, rx |-> << >>]
    BY DEF Init, SocInit
<1>2. OstShaped(ost) /\ RtcShaped(rtc) /\ UartShaped(uart)
    BY <1>1 DEF OstShaped, RtcShaped, UartShaped
<1>3. Driven
    BY <1>1, <1>2 DEF Driven
<1>4. priority = Table(<< >>)
    BY <1>1, SocAssumption DEF Table
<1>5. core = [halted |-> FALSE, masked |-> TRUE] /\ isr = "none"
    BY DEF Init, GuestInit
<1>6. Settings
    BY <1>1, <1>4, <1>5 DEF Settings
<1> QED
    BY <1>3, <1>5, <1>6 DEF HInv, Called

(* A handler that the core has entered is told what interrupted it         *)
(* (highest_priority of intc.rs), whatever time and the host did since,    *)
(* for any table that names what its drivers let through.                  *)
THEOREM SourceIsFound == Spec => []HandlerFindsItsSource
<1>1. Init => WInv /\ HInv
    BY InitWInv, InitHInv
<1>2. WInv /\ HInv /\ [Next]_vars => WInv' /\ HInv'
    BY NextWInv, NextDriven, NextSettings, NextCalled DEF WInv, HInv
<1>3. WInv /\ HInv => HandlerFindsItsSource
    BY SourceIsReported DEF WInv, HInv, Called, HandlerFindsItsSource, Ichp
<1> QED
    BY <1>1, <1>2, <1>3, PTL DEF Spec

-----------------------------------------------------------------------------
(* A batch of ticks, and each of its ticks.  The counter goes round at     *)
(* most once in a batch.                                                   *)

Counts(o) == o.oscr \in 0 .. Modulus - 1 /\ o.osmr \in [Channels -> 0 .. Modulus - 1]
Clocks(r) == {r.rcnr, r.rtar} \subseteq 0 .. RtcModulus - 1

MInv == Counts(ost) /\ Clocks(rtc)

LEMMA ModuloDoes ==
    ASSUME NEW modulus \in Nat \ {0}, NEW a \in Nat
    PROVE  /\ a % modulus \in 0 .. modulus - 1
           /\ a < modulus => a % modulus = a
           /\ modulus =< a /\ a < 2 * modulus => a % modulus = a - modulus
<1>1. a % modulus \in 0 .. modulus - 1
    BY SMTT(30)
<1>2. ASSUME a < modulus PROVE a % modulus = a
    BY <1>2, SMTT(30)
<1>3. ASSUME modulus =< a, a < 2 * modulus PROVE a % modulus = a - modulus
    BY <1>3, SMTT(30)
<1> QED
    BY <1>1, <1>2, <1>3

LEMMA CrossedIsReached ==
    ASSUME NEW old \in 0 .. Modulus - 1, NEW target \in 0 .. Modulus - 1,
           NEW ticks \in 1 .. Modulus - 1
    PROVE  Crossed(old, (old + ticks) % Modulus, target)
               <=> \E n \in 1 .. ticks : (old + n) % Modulus = target
<1> DEFINE at(n) == IF old + n < Modulus THEN old + n ELSE old + n - Modulus
<1>1. Modulus \in Nat \ {0}
    BY SocAssumption
<1>2. \A n \in 1 .. ticks : (old + n) % Modulus = at(n)
    <2> SUFFICES ASSUME NEW n \in 1 .. ticks PROVE (old + n) % Modulus = at(n)
        OBVIOUS
    <2>1. PICK a \in Nat : a = old + n /\ a < 2 * Modulus
        BY <1>1
    <2> HIDE DEF at
    <2>2. ASSUME a < Modulus PROVE a % Modulus = a
        BY <1>1, <2>2, ModuloDoes
    <2>3. ASSUME Modulus =< a PROVE a % Modulus = a - Modulus
        BY <1>1, <2>1, <2>3, ModuloDoes
    <2>4. a % Modulus = at(n)
        BY <1>1, <2>1, <2>2, <2>3 DEF at
    <2> QED
        BY <2>1, <2>4
<1>3. Crossed(old, (old + ticks) % Modulus, target) <=> Crossed(old, at(ticks), target)
    <2>1. (old + ticks) % Modulus = at(ticks)
        BY <1>2
    <2> HIDE DEF at
    <2> QED
        BY <2>1
<1>4. Crossed(old, at(ticks), target) <=> \E n \in 1 .. ticks : at(n) = target
    <2>1. ASSUME NEW n \in 1 .. ticks, at(n) = target PROVE Crossed(old, at(ticks), target)
        BY <1>1, <2>1 DEF Crossed
    <2>2. ASSUME Crossed(old, at(ticks), target) PROVE \E n \in 1 .. ticks : at(n) = target
        <3>1. CASE target > old
            <4>1. target - old \in 1 .. ticks /\ at(target - old) = target
                BY <1>1, <2>2, <3>1 DEF Crossed
            <4> QED
                BY <4>1
        <3>2. CASE ~(target > old)
            <4>1. target + Modulus - old \in 1 .. ticks /\ at(target + Modulus - old) = target
                BY <1>1, <2>2, <3>2 DEF Crossed
            <4> QED
                BY <4>1
        <3> QED
            BY <3>1, <3>2
    <2> QED
        BY <2>1, <2>2
<1> HIDE DEF at
<1> QED
    BY <1>2, <1>3, <1>4

LEMMA TickedFields ==
    ASSUME Driven, NEW ticks, NEW seconds, SocTick(ticks, seconds)
    PROVE  /\ ticks = 0 => ost' = ost
           /\ ticks # 0 =>
                  /\ ost'.oscr = (ost.oscr + ticks) % Modulus /\ ost'.osmr = ost.osmr
                  /\ ost'.ossr = ost.ossr \cup
                         {ch \in Channels : Crossed(ost.oscr, (ost.oscr + ticks) % Modulus, ost.osmr[ch])}
           /\ seconds = 0 => rtc' = rtc
           /\ seconds # 0 =>
                  /\ rtc'.rcnr = (rtc.rcnr + seconds) % RtcModulus /\ rtc'.rtar = rtc.rtar
                  /\ rtc.rcnr < rtc.rtar /\ rtc'.rcnr >= rtc.rtar => "AL" \in rtc'.status
<1> DEFINE new == (ost.oscr + ticks) % Modulus
           hit == {ch \in Channels : Crossed(ost.oscr, new, ost.osmr[ch])}
           now == (rtc.rcnr + seconds) % RtcModulus
           due == {s \in {"AL"} : rtc.rcnr < rtc.rtar /\ now >= rtc.rtar}
<1>1. ost' = IF ticks = 0 THEN ost ELSE [ost EXCEPT !.oscr = new, !.ossr = @ \cup hit]
    BY DEF SocTick, OstTicked
<1>2. rtc' = IF seconds = 0 THEN rtc ELSE [rtc EXCEPT !.rcnr = now, !.status = @ \cup {"HZ"} \cup due]
    BY DEF SocTick, RtcTicked
<1>3. rtc.rcnr < rtc.rtar /\ now >= rtc.rtar => "AL" \in due
    OBVIOUS
<1>4. OstShaped(ost) /\ RtcShaped(rtc)
    BY DEF Driven
<1> HIDE DEF new, hit, now, due
<1>5. ASSUME ticks # 0
      PROVE  ost'.oscr = new /\ ost'.osmr = ost.osmr /\ ost'.ossr = ost.ossr \cup hit
    <2>1. ost' = [oscr |-> new, osmr |-> ost.osmr, ossr |-> ost.ossr \cup hit, oier |-> ost.oier]
        BY <1>1, <1>4, <1>5 DEF OstShaped
    <2> QED
        BY <2>1
<1>6. ASSUME seconds # 0
      PROVE  /\ rtc'.rcnr = now /\ rtc'.rtar = rtc.rtar
             /\ "AL" \in due => "AL" \in rtc'.status
    <2>1. rtc' = [rcnr |-> now, rtar |-> rtc.rtar, status |-> rtc.status \cup {"HZ"} \cup due,
                  enabled |-> rtc.enabled]
        BY <1>2, <1>4, <1>6 DEF RtcShaped
    <2> QED
        BY <2>1
<1> QED
    BY <1>1, <1>2, <1>3, <1>5, <1>6 DEF new, hit, now

LEMMA BatchCatches ==
    ASSUME Driven, MInv, NEW ticks \in 0 .. MaxTicks, NEW seconds \in 0 .. 1, SocTick(ticks, seconds)
    PROVE  /\ ost'.ossr = ost.ossr \cup
                  {ch \in Channels : \E n \in 1 .. ticks : (ost.oscr + n) % Modulus = ost.osmr[ch]}
           /\ rtc.rcnr < rtc.rtar /\ rtc.rtar = rtc.rcnr + seconds => "AL" \in rtc'.status
<1>1. ost'.ossr = ost.ossr \cup
          {ch \in Channels : \E n \in 1 .. ticks : (ost.oscr + n) % Modulus = ost.osmr[ch]}
    <2>1. CASE ticks = 0
        BY <2>1, TickedFields
    <2>2. CASE ticks # 0
        <3>1. ticks \in 1 .. Modulus - 1
            BY <2>2, GuestAssumption, SocAssumption
        <3>2. \A ch \in Channels : Crossed(ost.oscr, (ost.oscr + ticks) % Modulus, ost.osmr[ch])
                  <=> \E n \in 1 .. ticks : (ost.oscr + n) % Modulus = ost.osmr[ch]
            BY <3>1, CrossedIsReached DEF MInv, Counts
        <3> QED
            BY <2>2, <3>2, TickedFields
    <2> QED
        BY <2>1, <2>2
<1>2. ASSUME rtc.rcnr < rtc.rtar, rtc.rtar = rtc.rcnr + seconds PROVE "AL" \in rtc'.status
    <2>1. seconds # 0 /\ rtc.rtar \in Nat /\ rtc.rtar < RtcModulus
        BY <1>2, SocAssumption DEF MInv, Clocks
    <2>2. rtc.rtar % RtcModulus = rtc.rtar
        BY <2>1, ModuloDoes, SocAssumption
    <2>3. rtc'.rcnr = rtc.rtar
        BY <1>2, <2>1, <2>2, TickedFields
    <2> QED
        BY <1>2, <2>1, <2>3, TickedFields
<1> QED
    BY <1>1, <1>2

(* What a guest writes to the counter's matches and to the alarm counts.   *)
LEMMA MatchCounts ==
    ASSUME Driven, MInv, NEW ch, WriteMatch(ch, (ost.oscr + Period) % Modulus)
    PROVE  Counts(ost')
<1>1. (ost.oscr + Period) % Modulus \in 0 .. Modulus - 1
    <2>1. PICK a \in Nat : a = ost.oscr + Period
        BY SocAssumption, GuestAssumption DEF MInv, Counts
    <2> QED
        BY <2>1, ModuloDoes, SocAssumption
<1> DEFINE value == (ost.oscr + Period) % Modulus
<1>2. ost' = [ost EXCEPT !.osmr[ch] = value]
    BY DEF WriteMatch, SetOst
<1> HIDE DEF value
<1>3. ost'.oscr = ost.oscr /\ ost'.osmr = [ost.osmr EXCEPT ![ch] = value]
    BY <1>2 DEF Driven, OstShaped
<1>4. [ost.osmr EXCEPT ![ch] = value] \in [Channels -> 0 .. Modulus - 1]
    BY <1>1 DEF MInv, Counts, value
<1> QED
    BY <1>3, <1>4 DEF MInv, Counts

LEMMA AlarmClocks ==
    ASSUME Driven, MInv, WriteRtar((rtc.rcnr + 1) % RtcModulus)
    PROVE  Clocks(rtc')
<1> DEFINE value == (rtc.rcnr + 1) % RtcModulus
<1>1. value \in 0 .. RtcModulus - 1
    <2>1. PICK a \in Nat : a = rtc.rcnr + 1
        BY SocAssumption DEF MInv, Clocks
    <2> QED
        BY <2>1, ModuloDoes, SocAssumption
<1>2. rtc' = [rtc EXCEPT !.rtar = value, !.status = @ \ {"AL"}]
    BY DEF WriteRtar, SetRtc
<1> HIDE DEF value
<1>3. rtc'.rcnr = rtc.rcnr /\ rtc'.rtar = value
    BY <1>2 DEF Driven, RtcShaped
<1> QED
    BY <1>1, <1>3 DEF MInv, Clocks

LEMMA TickCounts ==
    ASSUME Driven, MInv, NEW ticks \in 0 .. MaxTicks, NEW seconds \in 0 .. 1, SocTick(ticks, seconds)
    PROVE  MInv'
<1>1. Counts(ost')
    <2>1. CASE ticks = 0
        BY <2>1, TickedFields DEF MInv
    <2>2. CASE ticks # 0
        <3>1. PICK a \in Nat : a = ost.oscr + ticks
            BY GuestAssumption, SocAssumption DEF MInv, Counts
        <3>2. a % Modulus \in 0 .. Modulus - 1
            BY ModuloDoes, SocAssumption
        <3>3. ost'.oscr = a % Modulus /\ ost'.osmr = ost.osmr
            BY <2>2, <3>1, TickedFields
        <3> QED
            BY <3>2, <3>3 DEF MInv, Counts
    <2> QED
        BY <2>1, <2>2
<1>2. Clocks(rtc')
    <2>1. CASE seconds = 0
        BY <2>1, TickedFields DEF MInv
    <2>2. CASE seconds # 0
        <3>1. PICK a \in Nat : a = rtc.rcnr + seconds
            BY SocAssumption DEF MInv, Clocks
        <3>2. a % RtcModulus \in 0 .. RtcModulus - 1
            BY ModuloDoes, SocAssumption
        <3>3. rtc'.rcnr = a % RtcModulus /\ rtc'.rtar = rtc.rtar
            BY <2>2, <3>1, TickedFields
        <3> QED
            BY <3>2, <3>3 DEF MInv, Clocks
    <2> QED
        BY <2>1, <2>2
<1> QED
    BY <1>1, <1>2 DEF MInv

LEMMA NextMInv == ASSUME Shape, Driven, MInv, [Next]_vars PROVE MInv'
<1>0. OstShaped(ost) /\ RtcShaped(rtc)
    BY DEF Driven
<1>1. CASE UNCHANGED <<ost, rtc>>
    BY <1>1 DEF MInv, Counts, Clocks
<1>2. CASE TimePasses
    BY <1>2, TickCounts DEF TimePasses, Tick
<1>3. CASE ServeTimer
    <2>1. ost' = [ost EXCEPT !.ossr = @ \ {0}] /\ rtc' = rtc
        BY <1>3 DEF ServeTimer, WriteOssr, SetOst
    <2>2. ost'.oscr = ost.oscr /\ ost'.osmr = ost.osmr
        BY <1>0, <2>1 DEF OstShaped
    <2> QED
        BY <2>1, <2>2 DEF MInv, Counts, Clocks
<1>4. CASE RearmTimer
    BY <1>4, MatchCounts DEF RearmTimer, MInv, Clocks
<1>5. CASE ServeAlarm
    <2>1. rtc' = [rtc EXCEPT !.enabled = {"AL"}, !.status = @ \ {"AL"}] /\ ost' = ost
        BY <1>5 DEF ServeAlarm, WriteRtsr, SetRtc
    <2>2. rtc'.rcnr = rtc.rcnr /\ rtc'.rtar = rtc.rtar
        BY <1>0, <2>1 DEF RtcShaped
    <2> QED
        BY <2>1, <2>2 DEF MInv, Counts, Clocks
<1>6. ASSUME NEW driver, SetUp(driver) PROVE MInv'
    <2>0. driver \in {"clock", "alarm", "modem", "console"}
        BY <1>6, LoadsDoes DEF SetUp
    <2>1. CASE driver = "clock"
        BY <1>6, <2>1, MatchCounts DEF SetUp, MInv, Clocks
    <2>2. CASE driver = "alarm"
        BY <1>6, <2>2, AlarmClocks DEF SetUp, MInv, Counts
    <2>3. CASE driver \in {"modem", "console"}
        BY <1>1, <1>6, <2>3 DEF SetUp
    <2> QED
        BY <2>0, <2>1, <2>2, <2>3
<1>7. ASSUME NEW driver, Enable(driver) PROVE MInv'
    <2>0. driver \in {"clock", "alarm", "modem", "console"}
        BY <1>7, LoadsDoes DEF Enable
    <2>1. CASE driver = "clock"
        <3>1. ost' = [ost EXCEPT !.oier = {0}] /\ rtc' = rtc
            BY <1>7, <2>1 DEF Enable, WriteOier, SetOst
        <3>2. ost'.oscr = ost.oscr /\ ost'.osmr = ost.osmr
            BY <1>0, <3>1 DEF OstShaped
        <3> QED
            BY <3>1, <3>2 DEF MInv, Counts, Clocks
    <2>2. CASE driver = "alarm"
        <3>1. rtc' = [rtc EXCEPT !.enabled = {"AL"}, !.status = @ \ {}] /\ ost' = ost
            BY <1>7, <2>2 DEF Enable, WriteRtsr, SetRtc
        <3>2. rtc'.rcnr = rtc.rcnr /\ rtc'.rtar = rtc.rtar
            BY <1>0, <3>1 DEF RtcShaped
        <3> QED
            BY <3>1, <3>2 DEF MInv, Counts, Clocks
    <2>3. CASE driver \in {"modem", "console"}
        BY <1>1, <1>7, <2>3 DEF Enable
    <2> QED
        BY <2>0, <2>1, <2>2, <2>3
<1>8. CASE Start \/ ModemThread \/ Core \/ Outside \/ UNCHANGED vars
    <2>1. CASE Start
        BY <1>1, <2>1 DEF Start, ShiftBit, LookAtPin, ProgramTable, Starting
    <2>2. CASE ModemThread
        BY <1>1, <2>2 DEF ModemThread, Open, Opened, Send, Signalled, AskWhy, WriteNext, ReadNext,
                          TakeAnswer, DriverRuns
    <2>3. CASE Core
        BY <1>1, <2>3 DEF Core, TakeInterrupt, Wake, Sleeps, MaskToIdle, Halt, Resume, CoreOnly, socVars
    <2>4. CASE Outside \/ UNCHANGED vars
        BY <1>1, <2>4 DEF Outside, Restart, HostTypes, vars, socVars
    <2> QED
        BY <1>8, <2>1, <2>2, <2>3, <2>4
<1>9. CASE ReadIchp \/ ServePin \/ ServeConsole
    BY <1>1, <1>9 DEF ReadIchp, ServePin, ServeConsole, socVars
<1>10. ASSUME NEW driver, Unmask(driver) PROVE MInv'
    BY <1>1, <1>10 DEF Unmask
<1> QED
    BY <1>2, <1>3, <1>4, <1>5, <1>6, <1>7, <1>8, <1>9, <1>10 DEF Next, Handler, Loading

(* A batch sets the status of exactly the matches that one of its ticks    *)
(* reaches, and the alarm's when the seconds do (tick of ost.rs and of     *)
(* power.rs), for any width of the counters and any batch short of a turn. *)
THEOREM MatchesCaught == Spec => MatchesAreCaught
<1> DEFINE I == WInv /\ HInv /\ MInv
           Caught == \A ticks \in 0 .. MaxTicks, seconds \in 0 .. 1 : Tick(ticks, seconds) =>
                         /\ ost'.ossr = ost.ossr \cup
                                {ch \in Channels : \E n \in 1 .. ticks :
                                     (ost.oscr + n) % Modulus = ost.osmr[ch]}
                         /\ rtc.rcnr < rtc.rtar /\ rtc.rtar = rtc.rcnr + seconds
                                => "AL" \in rtc'.status
<1>1. Init => I
    <2>1. Init => MInv
        BY SocAssumption DEF Init, SocInit, MInv, Counts, Clocks
    <2> QED
        BY <2>1, InitWInv, InitHInv
<1>2. I /\ [Next]_vars => I'
    BY NextWInv, NextDriven, NextSettings, NextCalled, NextMInv DEF WInv, HInv
<1>3. I /\ [Next]_vars => [Caught]_vars
    BY BatchCatches DEF HInv, Tick
<1>4. I /\ [Next]_vars => I' /\ [Caught]_vars
    BY <1>2, <1>3
<1>5. MatchesAreCaught <=> [][Caught]_vars
    BY DEF MatchesAreCaught
<1> HIDE DEF I, Caught
<1> QED
    BY <1>1, <1>4, <1>5, PTL DEF Spec
=============================================================================
