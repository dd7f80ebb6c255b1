-------------------------------- MODULE Intc --------------------------------
(***************************************************************************)
(* The interrupt controller (pxa270/intc.rs) and the devices of the SoC    *)
(* whose lines it collects: the input pins (gpio.rs), the operating system *)
(* timer (ost.rs), the clock of seconds (Rtc in power.rs) and a serial     *)
(* port (uart.rs).  Sources are levels: a device sets its own lines again  *)
(* after everything that may have changed them, and nothing else does.     *)
(*                                                                         *)
(* A bank of 32 bits is a set of the numbers of its bits; the two banks of *)
(* the controller are one set.                                             *)
(***************************************************************************)
EXTENDS Naturals, Sequences, FiniteSetsExt

CONSTANTS
    Entries,      \* the entries of the priority table
    Modulus,      \* one more than the most OSCR can hold
    RtcModulus,   \* one more than the most RCNR can hold
    Channels,     \* the match registers in use, of 0 .. 3
    Pins          \* the input pins driven

ASSUME SocAssumption ==
    /\ Entries \in Nat
    /\ Modulus \in Nat \ {0}
    /\ RtcModulus \in Nat \ {0}
    /\ Channels \subseteq 0 .. 3
    /\ Pins \subseteq Nat

VARIABLES
    pending,      \* the sources asserted
    mask,         \* the sources let through
    level,        \* those of them that go to FIQ
    priority,     \* IPR0-39: the source of each entry in use
    ost,          \* the timer: OSCR, OSMR, OSSR, OIER
    rtc,          \* the clock: RCNR, RTAR, the two halves of RTSR
    gpio,         \* the pins: levels, the edges armed, those latched
    uart          \* FFUART: IER and the bytes to be read

intcVars == <<pending, mask, level, priority>>
socVars == <<intcVars, ost, rtc, gpio, uart>>

IRQ_GPIO0 == 8
IRQ_GPIO1 == 9
IRQ_GPIO_X == 10
IRQ_FFUART == 22
IRQ_OST0 == 26
IRQ_RTC_HZ == 30
IRQ_RTC_ALARM == 31
NoSource == 63

GpioSources == {IRQ_GPIO0, IRQ_GPIO1, IRQ_GPIO_X}
OstSources == {IRQ_OST0 + ch : ch \in Channels}
RtcSources == {IRQ_RTC_HZ, IRQ_RTC_ALARM}
Sources == GpioSources \cup OstSources \cup RtcSources \cup {IRQ_FFUART}

SocTypeOK ==
    /\ pending \subseteq Sources
    /\ mask \subseteq Sources
    /\ level \subseteq Sources
    /\ priority \in [1 .. Entries -> Sources \cup {NoSource}]
    /\ ost \in [oscr : 0 .. Modulus - 1, osmr : [Channels -> 0 .. Modulus - 1],
                ossr : SUBSET Channels, oier : SUBSET Channels]
    /\ rtc \in [rcnr : 0 .. RtcModulus - 1, rtar : 0 .. RtcModulus - 1,
                status : SUBSET {"AL", "HZ"}, enabled : SUBSET {"AL", "HZ"}]
    /\ gpio \in [high : SUBSET Pins, rising : SUBSET Pins,
                 falling : SUBSET Pins, edge : SUBSET Pins]
    /\ uart.ier \subseteq {"rx", "tx", "unit"}

-----------------------------------------------------------------------------
(* The controller. *)

(* What is asserted, let through, and goes to the line asked about. *)
Active(fiq) == {s \in pending \cap mask : (s \in level) = fiq}

IrqLine == Active(FALSE) # {}
FiqLine == Active(TRUE) # {}

Programmed == {i \in 1 .. Entries : priority[i] # NoSource}

(* Mutant of HighestPriority: the first entry decides, asserted or not. *)
FirstInTheTable(fiq) ==
    IF Programmed = {} THEN (IF Active(fiq) = {} THEN NoSource ELSE Min(Active(fiq)))
    ELSE LET first == priority[Min(Programmed)]
         IN  IF first \in Active(fiq) THEN first ELSE NoSource

(* A table that has been programmed is authoritative: a source that is not *)
(* in it is not reported.                                                  *)
HighestPriority(fiq) ==
    LET listed == {i \in Programmed : priority[i] \in Active(fiq)}
    IN  CASE listed # {} -> priority[Min(listed)]
          [] Programmed = {} /\ Active(fiq) # {} -> Min(Active(fiq))
          [] OTHER -> NoSource

Ichp == [irq |-> HighestPriority(FALSE), fiq |-> HighestPriority(TRUE)]

(* The lines of one device, as it drives them. *)
SetLines(of, active) == pending' = (pending \ of) \cup active

WriteMask(sources) == mask' = sources /\ UNCHANGED <<pending, level, priority>>
WriteTable(order) ==
    priority' = [i \in 1 .. Entries |-> IF i <= Len(order) THEN order[i] ELSE NoSource]

-----------------------------------------------------------------------------
(* The timer. *)

OstLines(o) == {IRQ_OST0 + ch : ch \in o.ossr \cap o.oier}
SetOst(o) == ost' = o /\ SetLines(OstSources, OstLines(o))

(* Mutant of Crossed: the counter does not wrap. *)
CrossedUnwrapped(old, new, target) == target > old /\ target <= new

(* Did the counter pass the target on its way from old to new? *)
Crossed(old, new, target) ==
    IF old <= new THEN target > old /\ target <= new
                  ELSE target > old \/ target <= new

(* The counter after some of its ticks. *)
OstTicked(o, ticks) ==
    LET new == (o.oscr + ticks) % Modulus
        hit == {ch \in Channels : Crossed(o.oscr, new, o.osmr[ch])}
    IN  IF ticks = 0 THEN o ELSE [o EXCEPT !.oscr = new, !.ossr = @ \cup hit]

WriteMatch(ch, value) == SetOst([ost EXCEPT !.osmr[ch] = value])
WriteOssr(clear) == SetOst([ost EXCEPT !.ossr = @ \ clear])
WriteOier(channels) == SetOst([ost EXCEPT !.oier = channels])

-----------------------------------------------------------------------------
(* The clock of seconds. *)

RtcLines(r) ==
    {s \in RtcSources : (IF s = IRQ_RTC_HZ THEN "HZ" ELSE "AL") \in r.status \cap r.enabled}
SetRtc(r) == rtc' = r /\ SetLines(RtcSources, RtcLines(r))

RtcTicked(r, seconds) ==
    LET now == (r.rcnr + seconds) % RtcModulus
    IN  IF seconds = 0 THEN r
        ELSE [r EXCEPT !.rcnr = now,
                       !.status = @ \cup {"HZ"}
                                    \cup {s \in {"AL"} : r.rcnr < r.rtar /\ now >= r.rtar}]

WriteRtar(value) == SetRtc([rtc EXCEPT !.rtar = value, !.status = @ \ {"AL"}])

(* The enables are written, the status bits cleared by ones. *)
WriteRtsr(enables, clears) ==
    SetRtc([rtc EXCEPT !.enabled = enables, !.status = @ \ clears])

-----------------------------------------------------------------------------
(* The pins. *)

GpioLines(g) ==
    {s \in {IRQ_GPIO0} : 0 \in g.edge} \cup {s \in {IRQ_GPIO1} : 1 \in g.edge}
        \cup {s \in {IRQ_GPIO_X} : g.edge \ {0, 1} # {}}
SetGpio(g) == gpio' = g /\ SetLines(GpioSources, GpioLines(g))

(* A pin is driven from the board, and an edge that is armed is latched. *)
SetInput(pin, high) ==
    LET edge == \/ high /\ pin \in gpio.rising \ gpio.high
                \/ ~high /\ pin \in gpio.falling \cap gpio.high
    IN  SetGpio([gpio EXCEPT !.high = IF high THEN @ \cup {pin} ELSE @ \ {pin},
                             !.edge = IF edge THEN @ \cup {pin} ELSE @])

WriteRising(pins) == SetGpio([gpio EXCEPT !.rising = pins])
WriteEdge(clear) == SetGpio([gpio EXCEPT !.edge = @ \ clear])

-----------------------------------------------------------------------------
(* The serial port. *)

(* What IIR would name, its highest priority first. *)
UartIir(u) ==
    CASE "rx" \in u.ier /\ u.rx # << >> -> "rx"
      [] ~("rx" \in u.ier /\ u.rx # << >>) /\ "tx" \in u.ier -> "tx"
      [] OTHER -> "none"

UartLines(u) == {s \in {IRQ_FFUART} : "unit" \in u.ier /\ UartIir(u) # "none"}
SetUart(u) == uart' = u /\ SetLines({IRQ_FFUART}, UartLines(u))

(* The host has bytes for the guest; the guest reads them, or drops them   *)
(* all.                                                                    *)
Feed(bytes) == SetUart([uart EXCEPT !.rx = @ \o bytes])
ReadRbr == SetUart([uart EXCEPT !.rx = IF @ = << >> THEN @ ELSE Tail(@)])
WriteUartIer(bits) == SetUart([uart EXCEPT !.ier = bits])
ResetUartFifo == SetUart([uart EXCEPT !.rx = << >>])

-----------------------------------------------------------------------------
SocInit ==
    /\ pending = {}
    /\ mask = {}
    /\ level = {}
    /\ priority = [i \in 1 .. Entries |-> NoSource]
    /\ ost = [oscr |-> 0, osmr |-> [ch \in Channels |-> 0], ossr |-> {}, oier |-> {}]
    /\ rtc = [rcnr |-> 0, rtar |-> 0, status |-> {}, enabled |-> {}]
    /\ uart = [ier |-> {}, rx |-> << >>]

(* A batch of cycles reaches the timer and then the clock. *)
SocTick(ticks, seconds) ==
    /\ ost' = OstTicked(ost, ticks)
    /\ rtc' = RtcTicked(rtc, seconds)
    /\ SetLines((IF ticks = 0 THEN {} ELSE OstSources)
                    \cup (IF seconds = 0 THEN {} ELSE RtcSources),
                (IF ticks = 0 THEN {} ELSE OstLines(ost'))
                    \cup (IF seconds = 0 THEN {} ELSE RtcLines(rtc')))
=============================================================================
