------------------------------ MODULE OneWire ------------------------------
(***************************************************************************)
(* The 1-Wire memory that holds the serial number (onewire.rs), on a pin   *)
(* of the processor, and the kernel's routine that reads it bit by bit.    *)
(*                                                                         *)
(* Bytes are of ByteBits bits, the first sent first; time is the guest's   *)
(* counter, modulo Wrap, and the times are in proportion.  The address is  *)
(* two bytes, of which the second is 0.                                    *)
(***************************************************************************)
EXTENDS Integers, Sequences

CONSTANTS
    ByteBits,     \* the bits of a byte: 8
    Rom,          \* the bytes of the identity
    Memory,       \* the bytes of the memory
    Wrap,         \* where the counter wraps round: 2^32
    LongestZero,  \* how long an interrupt may draw a zero out, at most
    Slow,         \* how long those are that it does draw out
    LineBreaks    \* bound on the slots drawn out and the reads broken off

(* The powers of two. *)
Weight[i \in 0 .. ByteBits] == IF i = 0 THEN 1 ELSE 2 * Weight[i - 1]

Byte == 0 .. Weight[ByteBits] - 1

VARIABLES
    dev,          \* the part
    now,          \* the counter
    kernel,       \* the read in progress
    lineBreaks    \* what may still go wrong

wireVars == <<dev, now, kernel, lineBreaks>>

(* How long the line is held low, and when it is looked at. *)
WriteZeroLow == 2
ResetLow == 5
ResetHigh == 7
PresenceLow == 3
PullOne == 1
PullZero == 3
PullReset == 6
SampleAfter == 1
Recovery == 4

ReadRom == 1
SkipRom == 2
ReadMemory == 3

(* The longest slot: a zero that an interrupt drew out, as below. *)
LongestSlot == LongestZero + SampleAfter + Recovery

(* The requests are bytes, an address of one byte reaches all of the       *)
(* memory, and a whole read is over long before the counter has gone       *)
(* through half of its range: with bytes of 8 bits, a memory of 128 and an *)
(* identity of 8, half of 2^32 is thousands of reads long.                 *)
ASSUME WireAssumption ==
    /\ ByteBits \in Nat /\ ByteBits >= 2
    /\ Rom \in Seq(Byte) /\ Rom # << >>
    /\ Memory \in Seq(Byte) /\ Len(Memory) <= Weight[ByteBits]
    /\ LongestZero \in Nat /\ LongestZero >= ResetHigh
    /\ Slow \subseteq WriteZeroLow .. LongestZero
    /\ Wrap \in Nat /\ Wrap \div 2 >= LongestSlot * (ByteBits * (Len(Rom) + 4) + 2)

BitsOf(n) == [i \in 1 .. ByteBits |-> (n \div Weight[i - 1]) % 2]
Value(bits) ==
    LET sum[i \in 0 .. ByteBits] == IF i = 0 THEN 0 ELSE sum[i - 1] + bits[i] * Weight[i - 1]
    IN  sum[ByteBits]

-----------------------------------------------------------------------------
(* The part. *)

Fresh ==
    [stage |-> "command", in |-> << >>, out |-> << >>, queue |-> << >>, cursor |-> 0,
     started |-> FALSE, pulling |-> FALSE, release |-> 0]

(* Before: the counter wraps, and half of it is the past. *)
Line(d, t) == ~(d.pulling /\ (t - d.release + Wrap) % Wrap >= Wrap \div 2)

(* The next byte to shift out: of the identity, or of the memory.          *)
LoadNext(d) ==
    IF d.queue # << >> THEN [d EXCEPT !.out = BitsOf(Head(d.queue)), !.queue = Tail(@)]
    ELSE [d EXCEPT !.out = BitsOf(IF d.cursor + 1 \in DOMAIN Memory THEN Memory[d.cursor + 1]
                                ELSE Weight[ByteBits] - 1),
                   !.cursor = @ + 1]

(* The bytes of the identity are shifted out, or those from an address on. *)
SendRom(d) == LoadNext([d EXCEPT !.queue = @ \o Rom])
SendMemory(d, high) ==
    LoadNext([d EXCEPT !.cursor = @ + high * Weight[ByteBits], !.stage = "sending"])

ByteIn(d, byte) ==
    CASE d.stage = "command" /\ byte = ReadRom -> SendRom(d)
      [] d.stage = "command" /\ byte = ReadMemory -> [d EXCEPT !.stage = "low"]
      [] d.stage = "low" -> [d EXCEPT !.cursor = byte, !.stage = "high"]
      [] d.stage = "high" -> SendMemory(d, byte)
      [] OTHER -> d

BitIn(d, bit) ==
    IF ~d.started THEN d
    ELSE IF Len(d.in) + 1 < ByteBits THEN [d EXCEPT !.in = Append(@, bit)]
    ELSE ByteIn([d EXCEPT !.in = << >>], Value(Append(d.in, bit)))

Pulled(d, t, ticks) == [d EXCEPT !.pulling = TRUE, !.release = (t + ticks) % Wrap]

BitOut(d, t) ==
    LET sent == [d EXCEPT !.out = Tail(@)]
        pulled == IF Head(d.out) = 0 THEN Pulled(sent, t, WriteZeroLow) ELSE sent
    IN  IF sent.out = << >> /\ (d.stage = "sending" \/ d.queue # << >>) THEN LoadNext(pulled)
                                                                        ELSE pulled

PresencePulse(d, t) == Pulled([Fresh EXCEPT !.started = TRUE], t, PresenceLow)

(* Mutant of Released: whatever is long is a reset. *)
ReleasedLong(d, held, t) ==
    CASE held >= ResetLow -> PresencePulse(d, t)
      [] held < ResetLow /\ held >= WriteZeroLow -> BitIn(d, 0)
      [] OTHER -> IF d.out # << >> THEN BitOut(d, t) ELSE BitIn(d, 1)

(* The line is let up after so long: a reset has to look like one, and     *)
(* anything else long is a slow zero.                                      *)
Released(d, held, t) ==
    CASE held \in ResetLow .. ResetHigh -> PresencePulse(d, t)
      [] held \notin ResetLow .. ResetHigh /\ held >= WriteZeroLow -> BitIn(d, 0)
      [] OTHER -> IF d.out # << >> THEN BitOut(d, t) ELSE BitIn(d, 1)

-----------------------------------------------------------------------------
(* The kernel: a reset, the bits of its request, then the bits it reads.   *)
(* One slot is one step; it ends when the line is free again.              *)

NoRead == [stage |-> "none"]

Request(k) ==
    IF k.at < 0 THEN BitsOf(ReadRom)
    ELSE BitsOf(SkipRom) \o BitsOf(ReadMemory) \o BitsOf(k.at) \o BitsOf(0)

Want(k) == IF k.at < 0 THEN Len(Rom) ELSE 1

WireInit ==
    /\ dev = Fresh
    /\ now = 0
    /\ kernel = NoRead
    /\ lineBreaks = LineBreaks

(* One slot: the line is pulled for so long, and looked at after a time.   *)
Slot(held, wait) ==
    LET up == (now + held) % Wrap
        seen == (up + wait) % Wrap
    IN  /\ dev' = Released(dev, held, up)
        /\ now' = (seen + Recovery) % Wrap

Sampled(wait) == Line(dev', (now' + Wrap - Recovery) % Wrap)

(* A read of the identity (-1), or of the byte at an address. *)
StartRead(at) ==
    /\ kernel.stage = "none"
    /\ Slot(PullReset, SampleAfter)
    /\ kernel' = IF Sampled(SampleAfter) THEN NoRead
                 ELSE [stage |-> "asking", at |-> at, sent |-> 0, got |-> << >>, torn |-> FALSE,
                       mistaken |-> FALSE]
    /\ UNCHANGED lineBreaks

Sending == Request(kernel)[kernel.sent + 1]

(* A bit that is held as long as a reset is mistaken for one: the part     *)
(* begins afresh, and the kernel does not know it.                         *)
SendBit(held) ==
    /\ kernel.stage = "asking"
    /\ Slot(held, SampleAfter)
    /\ kernel' = [kernel EXCEPT
                     !.sent = @ + 1,
                     !.mistaken = @ \/ held \in ResetLow .. ResetHigh,
                     !.stage = IF kernel.sent + 1 = Len(Request(kernel)) THEN "reading" ELSE @]

Ask == SendBit(IF Sending = 1 THEN PullOne ELSE PullZero) /\ UNCHANGED lineBreaks

(* An interrupt comes while the line is held for a zero, and lasts for     *)
(* less than a reset, as long as one, or longer.                           *)
AskSlowly ==
    /\ lineBreaks > 0
    /\ lineBreaks' = lineBreaks - 1
    /\ kernel.stage = "asking"
    /\ Sending = 0
    /\ \E held \in Slow : SendBit(held)

ReadBit(wait) ==
    /\ kernel.stage = "reading"
    /\ Slot(PullOne, wait)
    /\ kernel' = [kernel EXCEPT
                     !.got = Append(@, IF Sampled(wait) THEN 1 ELSE 0),
                     !.torn = @ \/ wait > SampleAfter,
                     !.stage = IF Len(kernel.got) + 1 = ByteBits * Want(kernel) THEN "done" ELSE @]

ReadNext == ReadBit(SampleAfter) /\ UNCHANGED lineBreaks

(* An interrupt comes before it looks: what it sees is of no use. *)
ReadLate == lineBreaks > 0 /\ lineBreaks' = lineBreaks - 1 /\ ReadBit(WriteZeroLow + 1)

(* The kernel does something else, until the counter is at a quarter of    *)
(* its range: a bound, on where reads begin.                               *)
Quarter == Wrap \div 4
Wait == kernel' = NoRead /\ now' = ((now \div Quarter + 1) * Quarter) % Wrap /\ UNCHANGED dev

TakeRead == kernel.stage \in {"none", "done"} /\ Wait /\ UNCHANGED lineBreaks

(* The machine is restarted, which the part does not notice. *)
LeaveOff == lineBreaks > 0 /\ lineBreaks' = lineBreaks - 1 /\ Wait

WireNext ==
    \/ \E at \in {-1} \cup {a - 1 : a \in DOMAIN Memory} : StartRead(at)
    \/ Ask
    \/ AskSlowly
    \/ ReadNext
    \/ ReadLate
    \/ TakeRead
    \/ LeaveOff

WireSpec == WireInit /\ [][WireNext]_wireVars

-----------------------------------------------------------------------------
Bytes(bits) == [i \in 1 .. Len(bits) \div ByteBits |->
                   Value(SubSeq(bits, ByteBits * (i - 1) + 1, ByteBits * i))]

ReadIsOfThePart ==
    Bytes(kernel.got) = IF kernel.at < 0 THEN Rom ELSE << Memory[kernel.at + 1] >>

(* A read in which the kernel looked in time, and drew no zero out to the  *)
(* length of a reset, has the bytes of the part: a zero may be shorter     *)
(* than that or longer, and whatever read may have been left off before    *)
(* (on_release, reset and bit_out of onewire.rs).  A zero of 1400 to 2400  *)
(* ticks is a reset to the part (line 230), which forgets the request.     *)
ReadsAreOfThePart ==
    (kernel.stage = "done" /\ ~kernel.torn /\ ~kernel.mistaken) => ReadIsOfThePart

(* A slow zero never costs a read: "anything else long is a slow zero",    *)
(* and the table at the head of the file calls 60 us or more a zero.  It   *)
(* does, in the window of a reset; no run has this among its properties.   *)
SlowZerosAreZeros ==
    (kernel.stage = "done" /\ ~kernel.torn) => ReadIsOfThePart

(* A line that nothing has pulled for a time is free. *)
LineIsFree == [][(Wait /\ kernel.stage = "none") => Line(dev, now')]_wireVars
=============================================================================
