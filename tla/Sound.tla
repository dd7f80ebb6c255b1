-------------------------------- MODULE Sound --------------------------------
(***************************************************************************)
(* Sound from the guest's driver to the listener: the driver keeps a chain *)
(* of two buffers going round and fills one when it is told that it is     *)
(* done, always with the same words; another driver copies memory through  *)
(* the same engine; the run loop hands what reached the codec to the host, *)
(* whose callback plays it.  A restart of the machine stops none of it.    *)
(***************************************************************************)
EXTENDS Dma, AudioOut

CONSTANTS
    Playing, Copying,   \* the channels of the two drivers
    PlayChain, CopyChain, \* where their chains start
    PlayRate,     \* the rate the sound driver asks for
    Buffers,      \* the addresses in each of its buffers
    CopyFrom, CopyTo, \* what the other copies
    Breaks,       \* bound: how often the sound is stopped or the machine restarted
    Batches,      \* bounds: the lengths of a batch, in calls of the engine
    Asked,        \* bounds: the frames the codec asks for in a batch,
    MaxFrames     \* and the frames the device asks for at once

ASSUME ChannelsAssumption ==
    /\ Playing \in Chans /\ Copying \in Chans /\ Playing # Copying
    /\ Batches \subseteq Nat /\ Asked \subseteq Nat

(* The sound goes round two descriptors, one for each buffer, and each     *)
(* tells its end.  A channel never set does not point at the second.       *)
ASSUME PlayAssumption ==
    /\ PlayChain \in DOMAIN Table
    /\ Table[PlayChain].next # IdleChannel.next
    /\ Table[Table[PlayChain].next].next = PlayChain
    /\ Buffers[1] \cap Buffers[2] = {}
    /\ Buffers[1] \cup Buffers[2] \subseteq Addresses \ CopyTo
    /\ {"link", PlayRate} \subseteq DOMAIN Step
    /\ \A i \in {1, 2} :
          LET d == Table[IF i = 1 THEN PlayChain ELSE Table[PlayChain].next]
          IN  /\ d.to = Codec /\ ~d.stop /\ d.irqs = {"end"}
              /\ d.len # 0 /\ d.from \in Nat
              /\ d.from .. d.from + d.len - 1 \subseteq Buffers[i]

(* The copy is one chain, of words that follow each other; only its last   *)
(* descriptor tells its end.                                               *)
ASSUME CopyAssumption ==
    /\ CopyChain \in DOMAIN Table
    /\ Table[CopyChain].to = Min(CopyTo)
    /\ \A a \in CopyTo : CopyFrom + a - Min(CopyTo) \in Addresses \ CopyTo
    /\ CopyFrom \in Nat /\ CopyTo \subseteq Addresses /\ Min(CopyTo) \in CopyTo
    /\ \A a \in CopyTo : a >= Min(CopyTo)
    /\ \A d \in DOMAIN Table :
          LET t == Table[d]
          IN  t.to # Codec =>
                /\ t.to \in Nat /\ t.to >= Min(CopyTo)
                /\ t.to .. t.to + t.len - 1 \subseteq CopyTo
                /\ t.from = CopyFrom + t.to - Min(CopyTo)
                /\ ~t.stop => t.irqs = {} /\ Table[t.next].to = t.to + t.len
                /\ t.stop => \A a \in CopyTo : a < t.to + t.len

VARIABLES
    wave,         \* the sound driver: what it is doing
    fill,         \* the buffer it will fill next
    late,         \* history: it missed that one was done
    stale,        \* history: a transfer cut short came before the chain
    copier,       \* the other driver
    budget,       \* stops and restarts left
    clock         \* whether the long batches in which the codec asked are odd in number

drivers == <<wave, fill, late, stale, copier, budget>>
vars == <<dmaVars, audioVars, drivers, clock>>

Init ==
    /\ DmaInit
    /\ AudioInit
    /\ wave = "off"
    /\ fill = 1
    /\ late = FALSE
    /\ stale = FALSE
    /\ copier = "idle"
    /\ budget = Breaks
    /\ clock = FALSE

-----------------------------------------------------------------------------
(* Time: the codec and the engine, and the words moved on to the host in   *)
(* the same turn of the run loop.                                          *)
Tick(cycles, frames) ==
    LET b == Batch(cycles, frames)
        ended == Cardinality({i \in 1 .. Len(b.done) : b.done[i] = Playing})
    IN  /\ chan' = b.chan
        /\ mem' = b.mem
        /\ credit' = b.credit
        /\ PushAc97(b.pcm, PcmRate)
        /\ late' = (late \/ ended > 1 \/ (ended = 1 /\ "end" \in chan[Playing].ints))
        /\ clock' = (clock # (frames > 0 /\ cycles = Max(Batches)))
        /\ UNCHANGED <<ac97, wave, fill, stale, copier, budget>>

Plays == \E frames \in 1 .. MaxFrames : Callback(frames) /\ UNCHANGED <<dmaVars, drivers, clock>>

(* Nothing on the board that sound goes through is put back. *)
Restart ==
    /\ budget > 0
    /\ budget' = budget - 1
    /\ PushTone
    /\ wave' = "off"
    /\ copier' = "idle"
    /\ UNCHANGED <<dmaVars, fill, late, stale>>

-----------------------------------------------------------------------------
(* The sound driver: the link and the rate, then the chain. *)

BringUp ==
    LET up == Gcr(ac97, {"reset"})
        rated == CodecRegister(CodecRegister(up, "variable", TRUE), "rate", PlayRate)
    IN  /\ wave = "off"
        /\ wave' = "ready"
        /\ "ready" \in up.gsr /\ "written" \in rated.gsr
        /\ ac97' = Gsr(rated, {"written"})
        /\ chan' = [chan EXCEPT ![Playing] = Dcsr(@, FALSE, TRUE, Interrupts)]
        /\ UNCHANGED <<audioVars, mem, credit, fill, late, stale, copier, budget>>

Run ==
    /\ wave = "ready"
    /\ wave' = "playing"
    /\ chan' = [chan EXCEPT ![Playing] = Dcsr(Ddadr(@, PlayChain), TRUE, TRUE, Interrupts)]
    /\ fill' = 1
    /\ late' = FALSE
    /\ stale' = (chan[Playing].left > 0)
    /\ UNCHANGED <<audioVars, mem, credit, ac97, copier, budget>>

Stop ==
    /\ budget > 0
    /\ budget' = budget - 1
    /\ wave = "playing"
    /\ wave' = "ready"
    /\ chan' = [chan EXCEPT ![Playing] = Dcsr(@, FALSE, TRUE, Interrupts)]
    /\ UNCHANGED <<audioVars, mem, credit, ac97, fill, late, stale, copier>>

(* It is told that a buffer is done, and fills it. *)
Refill ==
    /\ wave = "playing"
    /\ Playing \in Dint
    /\ chan' = [chan EXCEPT ![Playing] = Dcsr(@, @.run, TRUE, Interrupts)]
    /\ fill' = 3 - fill
    /\ UNCHANGED <<audioVars, mem, credit, ac97, wave, late, stale, copier, budget>>

-----------------------------------------------------------------------------
(* The other driver.  What it copies to is cleared first. *)

OthersRest == UNCHANGED <<audioVars, credit, ac97, wave, fill, late, stale, budget>>

StartCopy ==
    LET stopped == Dcsr(chan[Copying], FALSE, TRUE, Interrupts)
    IN  /\ copier # "running"
        /\ copier' = "running"
        /\ mem' = [a \in Addresses |-> IF a \in CopyTo THEN "none" ELSE mem[a]]
        /\ chan' = [chan EXCEPT ![Copying] = Dcsr(Ddadr(stopped, CopyChain), TRUE, TRUE, {})]
        /\ OthersRest

CopyTold ==
    /\ copier = "running"
    /\ copier' = "done"
    /\ Copying \in Dint
    /\ chan' = [chan EXCEPT ![Copying] = Dcsr(@, @.run, TRUE, Interrupts)]
    /\ UNCHANGED mem
    /\ OthersRest

-----------------------------------------------------------------------------
TimePasses == \E cycles \in Batches, frames \in Asked : Tick(cycles, frames)
WaveDriver == BringUp \/ Run \/ Refill
Copier == StartCopy \/ CopyTold
Drivers == (WaveDriver \/ Stop \/ Copier \/ Restart) /\ UNCHANGED clock

Next == TimePasses \/ Plays \/ Drivers

Spec == Init /\ [][Next]_vars

(* Cycles go by and with them, now and then, the time of a frame; the      *)
(* device goes on asking; drivers run.                                     *)
Fairness ==
    /\ []<><<TRUE>>_clock
    /\ WF_vars(Plays)
    /\ WF_vars(WaveDriver /\ UNCHANGED clock)
    /\ WF_vars(Copier /\ UNCHANGED clock)

FairSpec == Spec /\ Fairness

-----------------------------------------------------------------------------
(* The frames in the queue.  Two samples that are not the sides of one     *)
(* word are broken.                                                        *)
Heard == [i \in 1 .. Len(queue) \div 2 |->
             IF queue[2 * i - 1][2] = "left" /\ queue[2 * i] = <<queue[2 * i - 1][1], "right">>
             THEN queue[2 * i][1] ELSE "broken"]

(* The words of a transfer, and of the two buffers. *)
Words(from, count) == [i \in 1 .. count |-> Blank[from + i - 1]]
Descriptor(k) == Table[IF k = 1 THEN PlayChain ELSE Table[PlayChain].next]
BufferWords == [k \in {1, 2} |-> Words(Descriptor(k).from, Descriptor(k).len)]

(* Where a channel is in them: in a transfer, or before the next. *)
PlaceOf(ch) ==
    LET k == IF ch.next = Table[PlayChain].next THEN 2 ELSE 1
    IN  IF ch.left > 0 THEN [rest |-> Words(ch.from, ch.left), next |-> k]
                       ELSE [rest |-> BufferWords[k], next |-> 3 - k]

TheLine == INSTANCE SoundLine
            WITH line <- Heard, due <- credit, place <- PlaceOf(chan[Playing]), phase <- resample,
                 Wave <- BufferWords, Stride <- Step[PlayRate], Slack <- MaxCredit,
                 Elapse <- Asked, Length <- ToneFrames, Room <- Capacity \div 2

(* The words of the two buffers reach the listener in turn, in order, none *)
(* left out and none twice, each for the frames that the rate the driver   *)
(* asked for gives it, the oldest of them lost only when a second is       *)
(* waiting; and the codec is given no more than it asked for: service of   *)
(* gandalf/dma.rs, pcm_rate of ac97.rs, push_ac97 and the callback of      *)
(* audio.rs implement SoundLine.                                           *)
ImplementsSoundLine == TheLine!Spec

(* A driver that fills a buffer when it is told that it is done does not   *)
(* write where the engine reads (complete in dma.rs), unless it missed one *)
(* or the end of a transfer that a stop cut short was told before them.    *)
RefillsAreSafe ==
    [][Refill /\ ~late /\ ~stale =>
          chan[Playing].left = 0 \/ chan[Playing].from \notin Buffers[fill]]_vars

(* A driver told that its copy is done finds all of it there (service and  *)
(* complete), whatever the sound has had of the engine in between.         *)
CopiesAreWhole ==
    copier = "done" => \A a \in CopyTo : mem[a] = mem[CopyFrom + a - Min(CopyTo)]

(* Both drivers go on being told, the one whose channel comes first        *)
(* included (next_runnable), and the listener goes on hearing new frames:  *)
(* the callback never waits for a cushion that does not come.              *)
BothGoOn == []<>(fill = 2) /\ []<>(copier = "done") /\ []<><<Plays>>_queue
=============================================================================
