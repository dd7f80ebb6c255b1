--------------------------------- MODULE Dma ---------------------------------
(***************************************************************************)
(* The DMA engine: its registers (pxa270/dma.rs) and the transfers, which  *)
(* the board does a batch of cycles at a time (gandalf/dma.rs, tick of     *)
(* lib.rs), and the codec it feeds (ac97.rs), whose appetite for frames    *)
(* paces it.                                                               *)
(*                                                                         *)
(* Memory is counted in words, a word to the codec is one stereo frame,    *)
(* and descriptors are not written while a chain is in use.                *)
(***************************************************************************)
EXTENDS Naturals, SequencesExt

CONSTANTS
    Chans,        \* the channels in use, of 0 .. 31
    Table,        \* the descriptors in memory, by address
    Addresses,    \* the rest of memory
    Blank,        \* what it holds at first
    MaxCredit     \* the frames the codec may fall behind

ASSUME DmaAssumption ==
    /\ Chans \subseteq 0 .. 31
    /\ Addresses \subseteq Nat \ {0}
    /\ MaxCredit \in Nat
    /\ \A d \in DOMAIN Table :
          /\ Table[d].next \in DOMAIN Table
          /\ Table[d].len \in Nat
          /\ Table[d].stop \in BOOLEAN
          /\ Table[d].irqs \subseteq {"end", "start"}

VARIABLES
    chan,         \* DCSR, DDADR, DSADR, DTADR and DCMD of each channel
    mem,          \* memory
    credit,       \* frames the codec can still accept
    ac97          \* GCR, GSR, and the codec's rate registers

dmaVars == <<chan, mem, credit, ac97>>

Codec == 0        \* the address of the codec's FIFO

Interrupts == {"end", "start"}

IdleChannel ==
    [run |-> FALSE, stopped |-> FALSE, chained |-> TRUE, ints |-> {}, next |-> 0, last |-> FALSE,
     from |-> 0, to |-> 0, left |-> 0, irqs |-> {}]

-----------------------------------------------------------------------------
(* The registers. *)

(* A written RUN takes the channel out of its stop state, or into it; the  *)
(* interrupts are cleared by ones.                                         *)
Dcsr(ch, run, chained, clears) ==
    [ch EXCEPT !.run = run, !.stopped = ~run, !.chained = chained, !.ints = @ \ clears]

Ddadr(ch, address) == [ch EXCEPT !.next = address, !.last = FALSE]

(* The channels with an interrupt outstanding. *)
Dint == {c \in Chans : chan[c].ints # {}}

Runnable(chans) == {c \in Chans : chans[c].run /\ ~chans[c].stopped}

-----------------------------------------------------------------------------
(* A transfer. *)

Fetched(ch) ==
    LET d == Table[ch.next]
    IN  [ch EXCEPT !.next = d.next, !.last = d.stop, !.from = d.from, !.to = d.to,
                   !.left = d.len, !.irqs = d.irqs]

(* Mutant of Current: the end of a transfer is told when it is fetched. *)
CurrentTold(ch) ==
    IF ch.chained /\ ch.left = 0 THEN [Fetched(ch) EXCEPT !.ints = @ \cup Table[ch.next].irqs]
                                 ELSE ch

(* What is left of a transfer is done before another is fetched.           *)
Current(ch) == IF ch.chained /\ ch.left = 0 THEN Fetched(ch) ELSE ch

(* Mutant of Completed: the end of a chain leaves the channel running.     *)
CompletedRunning(ch) == [ch EXCEPT !.ints = @ \cup ch.irqs]

Completed(ch) ==
    LET ends == ~ch.chained \/ ch.last
    IN  [ch EXCEPT !.ints = @ \cup ch.irqs, !.stopped = @ \/ ends, !.run = @ /\ ~ends]

(* How much of it is moved now: to the codec, no more than it asked for.   *)
Count(ch, available) == IF ch.to = Codec THEN Min({ch.left, available}) ELSE ch.left

(* Mutant of Copied: a word too few. *)
CopiedShort(m, from, to, count) ==
    [a \in Addresses |-> IF a \in to .. to + count - 2 THEN m[from + a - to] ELSE m[a]]

(* A memory after some words have been copied, one by one. *)
Copied(m, from, to, count) ==
    [a \in Addresses |-> IF a \in to .. to + count - 1 THEN m[from + a - to] ELSE m[a]]

Moved(ch, count) ==
    [ch EXCEPT !.from = @ + count, !.to = IF @ = Codec THEN @ ELSE @ + count, !.left = @ - count]

(* One call of the engine: the lowest channel with work is given a turn.   *)
(* It may have no use for it, and then no other is given one.              *)
Service(b) ==
    LET c == Min(Runnable(b.chan))
        ch == Current(b.chan[c])
        count == Count(ch, b.credit)
        after == Moved(ch, count)
        fed == ch.to = Codec
    IN  IF fed /\ count = 0
        THEN [b EXCEPT !.chan[c] = ch, !.more = FALSE]
        ELSE [b EXCEPT !.chan[c] = IF after.left = 0 THEN Completed(after) ELSE after,
                       !.mem = IF fed THEN @ ELSE Copied(@, ch.from, ch.to, count),
                       !.pcm = IF fed THEN @ \o [i \in 1 .. count |-> b.mem[ch.from + i - 1]]
                                      ELSE @,
                       !.credit = IF fed THEN @ - count ELSE @,
                       !.done = IF after.left = 0 THEN Append(@, c) ELSE @]

(* One cycle of a batch: the engine is called while there is work for it.  *)
Turn(b) == IF b.more /\ Runnable(b.chan) # {} THEN Service(b) ELSE b

(* What a batch does: the codec's appetite grows, and a turn is taken for  *)
(* each of its cycles.                                                     *)
Batch(cycles, frames) ==
    LET start == [chan |-> chan, mem |-> mem, credit |-> Min({credit + frames, MaxCredit}),
                  pcm |-> << >>, done |-> << >>, more |-> TRUE]
        turns[n \in 0 .. cycles] == IF n = 0 THEN start ELSE Turn(turns[n - 1])
    IN  turns[cycles]

-----------------------------------------------------------------------------
(* The codec's link and registers. *)

(* Turning the link off wins over a reset, which brings it up at once.     *)
Gcr(link, bits) ==
    [link EXCEPT
        !.gcr = bits,
        !.gsr = CASE "off" \in bits -> (@ \ {"ready"}) \cup {"off"}
                  [] "off" \notin bits /\ "reset" \in bits -> (@ \ {"off"}) \cup {"ready"}
                  [] OTHER -> @]

(* Variable rate is enabled in one register and the rate is in another;    *)
(* both writes are done at once and say so.                                *)
CodecRegister(link, field, value) == [link EXCEPT ![field] = value, !.gsr = @ \cup {"written"}]

(* Ready is a level and is not cleared. *)
Gsr(link, clears) == [link EXCEPT !.gsr = @ \ (clears \ {"ready"})]

(* Mutant of PcmRate: the rate of the link, whatever the driver asked for. *)
PcmRateOfLink == "link"

(* The rate the driver has set, once it has asked for variable rates.      *)
PcmRate == IF ac97.variable THEN ac97.rate ELSE "link"

DmaInit ==
    /\ chan = [c \in Chans |-> IdleChannel]
    /\ mem = Blank
    /\ credit = 0
    /\ ac97 = [gcr |-> {}, gsr |-> {}, variable |-> FALSE, rate |-> "none"]
=============================================================================
