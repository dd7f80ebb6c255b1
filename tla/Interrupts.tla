----------------------------- MODULE Interrupts -----------------------------
(***************************************************************************)
(* The board's interrupts from a device to the driver that waits for it:   *)
(* the devices, the controller, the core that stops and wakes (cpu.rs,     *)
(* arm.rs), and time, which reaches the devices a batch of cycles at once  *)
(* (the run loop of main.rs, tick of lib.rs).                              *)
(*                                                                         *)
(* The guest is not part of the emulator, and does what the comments of    *)
(* the source say of it: its OAL measures the display, programs the table  *)
(* of priorities, reads ICHP to find what interrupted it, and idles with   *)
(* interrupts masked; the serial driver does not poll, and serves the      *)
(* modem until IIR has nothing to report.  The machine may be restarted,   *)
(* which leaves every one of these devices as it is.                       *)
(***************************************************************************)
EXTENDS Cpld

CONSTANTS
    Machines,     \* machines: has a display, the table and drivers of its guest
    Period,       \* ticks from one system tick to the next
    Command,      \* the command its modem driver sends
    ByteBits,     \* the bits of a byte shifted into the display
    MaxCount,     \* the bytes after which the OAL gives the display up
    Typed,        \* bytes the host feeds to the console
    MaxTicks,     \* bound on the timer's ticks in a batch
    MaxResets     \* bound on the restarts of the machine

TypedBytes == {Typed[i] : i \in DOMAIN Typed}

ASSUME GuestAssumption ==
    /\ \A m \in Machines : m.table \in Seq(Sources) /\ Len(m.table) <= Entries
    /\ \A m \in Machines : m.drivers \subseteq {"clock", "alarm", "modem", "console"}
    /\ Period \in 1 .. Modulus - 1
    /\ MaxTicks \in 1 .. Modulus - 1
    /\ Command \in Seq(Characters) \ {<< >>}
    /\ Typed \in Seq(TypedBytes)
    /\ {ByteBits, MaxCount, MaxResets} \subseteq Nat
    /\ Stages <= ByteBits * MaxCount

VARIABLES
    machine,      \* which of them this is
    ticked,       \* the devices have been ticked since the core's last step
    core,         \* halted, and the CPSR's I bit
    isr,          \* what runs masked: a step of the handler, or "idling"
    oal,          \* how far the start is: "probe", "table" or "up"
    probe,        \* the measurement of the display
    count,        \* the bytes it has counted
    load,         \* the steps of loading done, of each driver loaded
    event,        \* the modem's thread has been signalled
    ist,          \* what that thread is doing
    todo,         \* what is left of its command
    sending,      \* the driver expects the transmitter to drain
    got,          \* what it has read
    typed,        \* the host has fed the console
    resets

modemDriver == <<event, ist, todo, sending, got>>
starting == <<oal, probe, count>>
guestVars == <<machine, core, isr, starting, load, modemDriver, typed, resets>>
vars == <<socVars, cpldVars, guestVars, ticked>>

Loaded(driver, steps) == driver \in DOMAIN load /\ load[driver] >= steps
AtFlush == [at |-> "flush", left |-> MaxCount * ByteBits]

TypeOK ==
    /\ SocTypeOK
    /\ CpldTypeOK
    /\ core \in [halted : BOOLEAN, masked : BOOLEAN]
    /\ isr \in {"none", "entered", "timer", "rearm", "alarm", "pin", "console", "idling"}
    /\ oal \in {"probe", "table", "up"}
    /\ count \in 0 .. MaxCount + 1
    /\ machine \in Machines
    /\ DOMAIN load = machine.drivers
    /\ ist \in {"off", "latch", "divisor", "line", "clear", "enable", "waiting", "serving", "write", "read"}
    /\ {ticked, event, sending, typed} \subseteq BOOLEAN
    /\ resets \in 0 .. MaxResets

GuestInit ==
    /\ core = [halted |-> FALSE, masked |-> TRUE]
    /\ isr = "none"
    /\ oal = "probe"
    /\ probe = AtFlush
    /\ count = 0
    /\ load = [d \in machine.drivers |-> 0]
    /\ event = FALSE
    /\ ist = "off"
    /\ todo = << >>
    /\ sending = FALSE
    /\ got = << >>

Init ==
    /\ machine \in Machines
    /\ SocInit
    /\ gpio = [high |-> Pins \cap {0}, rising |-> {}, falling |-> {}, edge |-> {}]
    /\ ModemInit
    /\ display = [present |-> machine.display, stages |-> [i \in 1 .. Stages |-> FALSE]]
    /\ GuestInit
    /\ ticked = FALSE
    /\ typed = FALSE
    /\ resets = 0

-----------------------------------------------------------------------------
(* Time, and the core. *)

(* A batch is a matter of the core's clock, and so may be any number of    *)
(* the timer's ticks.  Three bounds: the core has stepped since the batch  *)
(* before, a handler that knows its source ends within the batch, and      *)
(* time passes only for a guest with a use for it.                         *)
Tick(ticks, seconds) ==
    /\ ~ticked
    /\ isr \in {"none", "idling", "entered"}
    /\ isr = "entered" => ticks <= 1
    /\ ticked' = TRUE
    /\ ticks > 0 => Loaded("clock", 1)
    /\ seconds > 0 => Loaded("alarm", 0)
    /\ SocTick(ticks, seconds)
    /\ UNCHANGED <<mask, level, priority, gpio, uart, cpldVars, guestVars>>

(* An interrupt let through is taken before the next instruction. *)
TakeInterrupt ==
    /\ IrqLine
    /\ ~core.masked
    /\ core' = [halted |-> FALSE, masked |-> TRUE]
    /\ isr' = "entered"
    /\ UNCHANGED <<socVars, cpldVars, starting, load, modemDriver, typed, resets, machine>>

Executes == ~core.halted /\ (IrqLine => core.masked)

(* Mutant of Wakes: a core that masks interrupts sleeps through them. *)
WakesUnmasked == core.halted /\ IrqLine /\ ~core.masked

(* Waking does not depend on the mask of the CPSR. *)
Wakes == core.halted /\ IrqLine

Wake ==
    /\ Wakes
    /\ core' = [core EXCEPT !.halted = FALSE]
    /\ UNCHANGED <<socVars, cpldVars, isr, starting, load, modemDriver, typed, resets, machine>>

(* A halted core still counts cycles. *)
Sleeps ==
    /\ core.halted
    /\ ~IrqLine
    /\ ticked
    /\ UNCHANGED <<socVars, cpldVars, guestVars>>

(* Nothing on the board is put back but the flash and the keyboard. *)
Restart ==
    /\ resets < MaxResets
    /\ resets' = resets + 1
    /\ core' = [halted |-> FALSE, masked |-> TRUE]
    /\ isr' = "none"
    /\ oal' = "probe"
    /\ probe' = AtFlush
    /\ count' = 0
    /\ load' = [d \in machine.drivers |-> 0]
    /\ event' = FALSE
    /\ ist' = "off"
    /\ todo' = << >>
    /\ sending' = FALSE
    /\ got' = << >>
    /\ UNCHANGED <<socVars, cpldVars, typed, machine>>

-----------------------------------------------------------------------------
(* The start of the OAL.  The chain is filled with zeros, a bit at a time, *)
(* and then the bytes of ones are counted that it takes for the first to   *)
(* come out.                                                               *)

Starting ==
    /\ Executes
    /\ oal # "up"
    /\ UNCHANGED <<isr, load, modemDriver, typed, resets, machine, uart, rtc, ost, modem>>

ShiftBit ==
    /\ Starting
    /\ oal = "probe"
    /\ probe.at \in {"flush", "count"}
    /\ BrailleClock(probe.at = "count")
    /\ probe' = IF probe.left > 1 THEN [probe EXCEPT !.left = @ - 1]
                                 ELSE [at |-> "look", left |-> ByteBits]
    /\ count' = IF probe = [at |-> "count", left |-> 1] THEN count + 1 ELSE count
    /\ UNCHANGED <<mask, level, priority, core, oal>>

LookAtPin ==
    /\ Starting
    /\ oal = "probe"
    /\ probe.at = "look"
    /\ IF count > MaxCount \/ END_OF_CHAIN_GPIO \in gpio.high
       THEN oal' = "table" /\ UNCHANGED probe
       ELSE probe' = [probe EXCEPT !.at = "count"] /\ UNCHANGED oal
    /\ UNCHANGED <<intcVars, gpio, display, core, count>>

ProgramTable ==
    /\ Starting
    /\ oal = "table"
    /\ WriteTable(machine.table)
    /\ mask' = {}
    /\ oal' = "up"
    /\ core' = [core EXCEPT !.masked = FALSE]
    /\ UNCHANGED <<pending, level, gpio, display, probe, count>>

-----------------------------------------------------------------------------
(* Its interrupt handler.  It runs masked, and unmasks as it ends. *)

Handling ==
    /\ ~core.halted
    /\ isr \notin {"none", "idling"}
    /\ UNCHANGED <<starting, load, ist, todo, sending, got, typed, resets, machine, cpldVars>>

Returns(to) ==
    /\ isr' = to
    /\ core' = [core EXCEPT !.masked = to # "none"]

ServiceOf(source) ==
    CASE source = IRQ_OST0 -> "timer"
      [] source = IRQ_RTC_ALARM -> "alarm"
      [] source = IRQ_GPIO_X -> "pin"
      [] source = IRQ_FFUART -> "console"
      [] OTHER -> "none"

ReadIchp ==
    /\ Handling
    /\ isr = "entered"
    /\ Returns(ServiceOf(Ichp.irq))
    /\ UNCHANGED <<socVars, event>>

ServeTimer ==
    /\ Handling
    /\ isr = "timer"
    /\ WriteOssr({0})
    /\ Returns("rearm")
    /\ UNCHANGED <<mask, level, priority, rtc, gpio, uart, event>>

RearmTimer ==
    /\ Handling
    /\ isr = "rearm"
    /\ WriteMatch(0, (ost.oscr + Period) % Modulus)
    /\ Returns("none")
    /\ UNCHANGED <<mask, level, priority, rtc, gpio, uart, event>>

ServeAlarm ==
    /\ Handling
    /\ isr = "alarm"
    /\ WriteRtsr({"AL"}, {"AL"})
    /\ Returns("none")
    /\ UNCHANGED <<mask, level, priority, ost, gpio, uart, event>>

(* The edge is cleared, and the thread that serves the pin signalled. *)
ServePin ==
    /\ Handling
    /\ isr = "pin"
    /\ WriteEdge({INTERRUPT_GPIO})
    /\ event' = TRUE
    /\ Returns("none")
    /\ UNCHANGED <<mask, level, priority, ost, rtc, uart>>

ServeConsole ==
    /\ Handling
    /\ isr = "console"
    /\ ReadRbr
    /\ Returns("none")
    /\ UNCHANGED <<mask, level, priority, ost, rtc, gpio, event>>

-----------------------------------------------------------------------------
(* Loading the drivers, a register at a time. *)

Threads ==
    /\ Executes
    /\ oal = "up"
    /\ isr = "none"
    /\ ~core.masked
    /\ UNCHANGED <<core, isr, starting, typed, resets, machine, level, priority>>

Loads(driver, step) ==
    /\ Threads
    /\ driver \in DOMAIN load
    /\ load[driver] = step
    /\ load' = [load EXCEPT ![driver] = step + 1]

SourceOf(driver) ==
    CASE driver = "clock" -> IRQ_OST0
      [] driver = "alarm" -> IRQ_RTC_ALARM
      [] driver = "modem" -> IRQ_GPIO_X
      [] driver = "console" -> IRQ_FFUART

(* A table in use names every source its drivers let through. *)
ASSUME TableAssumption ==
    \A m \in Machines : m.table # << >> =>
        \A driver \in m.drivers : \E i \in DOMAIN m.table : m.table[i] = SourceOf(driver)

SetUp(driver) ==
    /\ Loads(driver, 0)
    /\ CASE driver = "clock" ->
                WriteMatch(0, (ost.oscr + Period) % Modulus) /\ UNCHANGED <<rtc, gpio, uart>>
         [] driver = "alarm" ->
                WriteRtar((rtc.rcnr + 1) % RtcModulus) /\ UNCHANGED <<ost, gpio, uart>>
         [] driver = "modem" ->
                WriteRising(gpio.rising \cup {INTERRUPT_GPIO}) /\ UNCHANGED <<ost, rtc, uart>>
         [] driver = "console" -> ResetUartFifo /\ UNCHANGED <<ost, rtc, gpio>>
    /\ UNCHANGED <<mask, cpldVars, modemDriver>>

Enable(driver) ==
    /\ Loads(driver, 1)
    /\ CASE driver = "clock" -> WriteOier({0}) /\ UNCHANGED <<rtc, gpio, uart>>
         [] driver = "alarm" -> WriteRtsr({"AL"}, {}) /\ UNCHANGED <<ost, gpio, uart>>
         [] driver = "modem" -> WriteEdge({INTERRUPT_GPIO}) /\ UNCHANGED <<ost, rtc, uart>>
         [] driver = "console" -> WriteUartIer({"rx", "unit"}) /\ UNCHANGED <<ost, rtc, gpio>>
    /\ UNCHANGED <<mask, cpldVars, modemDriver>>

Unmask(driver) ==
    /\ Loads(driver, 2)
    /\ WriteMask(mask \cup {SourceOf(driver)})
    /\ ist' = IF driver = "modem" THEN "latch" ELSE ist
    /\ UNCHANGED <<ost, rtc, gpio, uart, cpldVars, event, todo, sending, got>>

-----------------------------------------------------------------------------
(* The modem's driver. *)

DriverRuns ==
    /\ Threads
    /\ UNCHANGED <<mask, load, ost, rtc, uart, display>>

(* It opens the port: the divisor behind its latch, and what may           *)
(* interrupt, cleared and then set.                                        *)
Open ==
    /\ DriverRuns
    /\ \/ ist = "latch" /\ WriteLcr(TRUE) /\ ist' = "divisor"
       \/ ist = "divisor" /\ WriteData("other") /\ ist' = "line"
       \/ ist = "line" /\ WriteLcr(FALSE) /\ ist' = "clear"
       \/ ist = "clear" /\ WriteIer({}) /\ ist' = "enable"
    /\ UNCHANGED <<event, todo, sending, got>>

Opened ==
    /\ DriverRuns
    /\ ist = "enable"
    /\ WriteIer({"rx", "tx"})
    /\ ist' = "waiting"
    /\ UNCHANGED <<event, todo, sending, got>>

(* An application sends a command: the first character is written for it. *)
Send ==
    /\ DriverRuns
    /\ ist \in {"waiting", "serving"}
    /\ ~sending
    /\ got = << >>
    /\ WriteData(Head(Command))
    /\ todo' = Tail(Command)
    /\ sending' = TRUE
    /\ UNCHANGED <<event, ist, got>>

Signalled ==
    /\ DriverRuns
    /\ ist = "waiting"
    /\ event
    /\ event' = FALSE
    /\ ist' = "serving"
    /\ UNCHANGED <<modem, gpio, pending, todo, sending, got>>

(* It asks what there is until there is nothing. *)
AskWhy ==
    /\ DriverRuns
    /\ ist = "serving"
    /\ ReadIir
    /\ LET why == Pending(modem)
       IN  /\ ist' = CASE why = "none" -> "waiting"
                       [] why = "rx" -> "read"
                       [] why = "tx" -> IF todo = << >> THEN "serving" ELSE "write"
           /\ sending' = (sending /\ (why = "tx" => todo # << >>))
    /\ UNCHANGED <<event, todo, got>>

WriteNext ==
    /\ DriverRuns
    /\ ist = "write"
    /\ WriteData(Head(todo))
    /\ todo' = Tail(todo)
    /\ ist' = "serving"
    /\ UNCHANGED <<event, sending, got>>

ReadNext ==
    /\ DriverRuns
    /\ ist = "read"
    /\ ReadData
    /\ got' = Append(got, Head(modem.rx))
    /\ ist' = IF Len(modem.rx) > 1 THEN "read" ELSE "serving"
    /\ UNCHANGED <<event, todo, sending>>

-----------------------------------------------------------------------------
(* Idling, and the host. *)

(* The application has its answer, and may send again. *)
TakeAnswer ==
    /\ DriverRuns
    /\ ist = "waiting"
    /\ ~sending
    /\ got # << >>
    /\ got' = << >>
    /\ UNCHANGED <<modem, gpio, pending, event, ist, todo, sending>>

ThreadsRest ==
    /\ \A driver \in DOMAIN load : load[driver] = 3
    /\ ist = "off" \/ (ist = "waiting" /\ ~event /\ sending)

CoreOnly ==
    /\ ~core.halted
    /\ oal = "up"
    /\ UNCHANGED <<socVars, cpldVars, starting, load, modemDriver, typed, resets, machine>>

MaskToIdle ==
    /\ CoreOnly
    /\ isr = "none" /\ ~core.masked /\ ~IrqLine
    /\ ThreadsRest
    /\ core' = [core EXCEPT !.masked = TRUE]
    /\ isr' = "idling"

(* A write to the power mode register stops the core. *)
Halt ==
    /\ CoreOnly
    /\ isr = "idling"
    /\ core' = [core EXCEPT !.halted = TRUE]
    /\ isr' = "none"

Resume ==
    /\ CoreOnly
    /\ isr = "none" /\ core.masked
    /\ core' = [core EXCEPT !.masked = FALSE]
    /\ UNCHANGED isr

HostTypes ==
    /\ ~typed
    /\ Loaded("console", 0)
    /\ typed' = TRUE
    /\ Feed(Typed)
    /\ UNCHANGED <<mask, level, priority, ost, rtc, gpio, cpldVars, core, isr, starting, load,
                   modemDriver, resets, machine>>

-----------------------------------------------------------------------------
TimePasses == \E ticks \in 0 .. MaxTicks, seconds \in 0 .. 1 : Tick(ticks, seconds)
Steps == ticked' = FALSE
Start == Steps /\ (ShiftBit \/ LookAtPin \/ ProgramTable)
Handler ==
    /\ Steps
    /\ \/ ReadIchp \/ ServeTimer \/ RearmTimer
       \/ ServeAlarm \/ ServePin \/ ServeConsole
Loading ==
    /\ Steps
    /\ \E driver \in DOMAIN load : SetUp(driver) \/ Enable(driver) \/ Unmask(driver)
ModemThread ==
    /\ Steps
    /\ \/ Open \/ Opened \/ Send \/ Signalled
       \/ AskWhy \/ WriteNext \/ ReadNext \/ TakeAnswer
Core == Steps /\ (TakeInterrupt \/ Wake \/ Sleeps \/ MaskToIdle \/ Halt \/ Resume)
Outside == UNCHANGED ticked /\ (Restart \/ HostTypes)

Next == TimePasses \/ Start \/ Handler \/ Loading \/ ModemThread \/ Core \/ Outside

Spec == Init /\ [][Next]_vars

(* The run loop steps the core and ticks the devices by turns.  A thread   *)
(* that can run again and again between interrupts does run: the guest has *)
(* some thousand instructions to each of them.                             *)
Fairness ==
    /\ SF_vars(\E ticks \in 1 .. MaxTicks : Tick(ticks, 0))
    /\ WF_vars(Start) /\ WF_vars(Handler) /\ WF_vars(Core)
    /\ SF_vars(Loading) /\ SF_vars(ModemThread)

FairSpec == Spec /\ Fairness

-----------------------------------------------------------------------------
(* An interrupt is not lost or forgotten between the core taking it and    *)
(* its handler reading ICHP (intc.rs, highest_priority), whatever happens  *)
(* in between: it is never told that there is none.                        *)
HandlerFindsItsSource == isr = "entered" => Ichp.irq # NoSource

(* OSCR sets the status of a match exactly when one of the ticks of the    *)
(* batch reaches it, counted one by one and round the end (crossed in      *)
(* ost.rs), and the clock's alarm when the seconds reach it.               *)
MatchesAreCaught ==
    [][\A ticks \in 0 .. MaxTicks, seconds \in 0 .. 1 : Tick(ticks, seconds) =>
          /\ ost'.ossr = ost.ossr \cup
                 {ch \in Channels : \E n \in 1 .. ticks : (ost.oscr + n) % Modulus = ost.osmr[ch]}
          /\ rtc.rcnr < rtc.rtar /\ rtc.rtar = rtc.rcnr + seconds => "AL" \in rtc'.status]_vars

(* While its thread sleeps, a modem with something to report has an edge   *)
(* latched for it: the line has fallen since the interrupt before (modem.rs*)
(* read, drive_modem_interrupt in lib.rs).                                 *)
NoWakeIsLost ==
    ist = "waiting" /\ ~event /\ Pending(modem) # "none" => INTERRUPT_GPIO \in gpio.edge

(* The clock driver goes on getting its ticks and the modem's driver its   *)
(* answers, which takes every step from the device to the thread, the core *)
(* waking from its idle included.                                          *)
DriversAreServed ==
    /\ "clock" \in DOMAIN load => []<>(isr = "rearm")
    /\ "modem" \in DOMAIN load => []<>(got # << >>)
=============================================================================
