---------------------------- MODULE MCInterrupts ----------------------------
(* Interrupts with a timer of one match register that wraps at five, a     *)
(* display of two bytes of two bits, and any two drivers at a time.        *)
EXTENDS Interrupts

WholeTable == << IRQ_OST0, IRQ_GPIO_X, IRQ_FFUART, IRQ_RTC_ALARM >>
Machine(has, order, used) == [display |-> has, table |-> order, drivers |-> used]
MachineChoices ==
    {Machine(TRUE, WholeTable, {"clock", "modem"}), Machine(FALSE, << >>, {"clock", "alarm"}),
     Machine(TRUE, << >>, {"modem", "console"})}
AtCommand == << "AT", "cr" >>
OkReply == << "reply", "reply" >>
FedBytes == << "a", "b" >>
MatchRegisters == {0}
InputPins == {0, 16, 103}
=============================================================================
