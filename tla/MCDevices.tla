----------------------------- MODULE MCDevices -----------------------------
(***************************************************************************)
(* Four devices of the board that share nothing: the flash, the PC card,   *)
(* the battery's bus and the serial number's wire.  The guest of a         *)
(* behaviour uses one of them, and the others rest.                        *)
(*                                                                         *)
(* A flash of two blocks of two words of two bits, a card of three         *)
(* sectors, a battery that answers a byte and a block, and a part whose    *)
(* bytes are of two bits.                                                  *)
(***************************************************************************)
EXTENDS Flash, Pcmcia, I2c, OneWire

CONSTANT Used     \* the devices a guest may use

VARIABLE used     \* the one it uses

vars == <<flashVars, cardVars, i2cVars, wireVars, used>>

Init == FlashInit /\ CardInit /\ I2cInit /\ WireInit /\ used \in Used

FlashStep == used = "flash" /\ FlashNext /\ UNCHANGED <<cardVars, i2cVars, wireVars>>
CardStep == used = "card" /\ CardNext /\ UNCHANGED <<flashVars, i2cVars, wireVars>>
I2cStep == used = "battery" /\ I2cNext /\ UNCHANGED <<flashVars, cardVars, wireVars>>
WireStep == used = "serial" /\ WireNext /\ UNCHANGED <<flashVars, cardVars, i2cVars>>

Next == (FlashStep \/ CardStep \/ I2cStep \/ WireStep) /\ UNCHANGED used

Spec == Init /\ [][Next]_vars

-----------------------------------------------------------------------------
TwoBits == {0, 1}
Halved == [a \in Cells |-> (a - 1) \div 2]
Booted == [a \in Cells |-> IF a = 1 THEN {0} ELSE TwoBits]
FlashJobs ==
    {[kind |-> k, at |-> 1, words |-> << TwoBits >>] : k \in {"erase", "lock", "unlock"}}
    \cup {[kind |-> "program", at |-> 2, words |-> << w >>] : w \in {{}, {1}}}
    \cup {[kind |-> "buffer", at |-> a, words |-> << {0}, {1} >>] : a \in {2, 4}}

HalfWords == {"x", "y"}
CardRequests ==
    {[kind |-> k, lba |-> 0, sectors |-> 1] : k \in {"identify", "set features", "reserved"}}
    \cup {[kind |-> "read", lba |-> l, sectors |-> n] : l \in 0 .. 2, n \in {1, 3, 4}}
    \cup {[kind |-> "write", lba |-> l, sectors |-> n] : l \in 1 .. 3, n \in {1, 2, 4}}

Answers == [charge |-> << "c1", "c2" >>, name |-> << "n1", "n2", "n3" >>]
Nobody == {"clock"}

Identification == << 1, 2 >>
SerialNumber == << 2, 0, 3 >>
SlowZeros == {4, 6, 9}
AllDevices == {"flash", "card", "battery", "serial"}
=============================================================================
