------------------------------ MODULE AudioOut ------------------------------
(***************************************************************************)
(* The host's audio output (audio.rs): a queue of samples between the run  *)
(* loop, which resamples what the codec was given, and the callback of     *)
(* the device, on a thread of its own, which fills a cushion before it     *)
(* plays and again after it ran dry.  The frame it repeats while it is dry *)
(* and its count of the frames missed are left out: nothing depends on     *)
(* them.                                                                   *)
(*                                                                         *)
(* A sample is the word it comes from and its side.  The position between  *)
(* two frames of the guest is counted in Units; a frame of the device is   *)
(* Step(rate) of them.                                                     *)
(***************************************************************************)
EXTENDS Naturals, SequencesExt

CONSTANTS
    Unit,         \* the parts of a frame of the guest
    Step,         \* of each rate, the parts in a frame of the device
    Cushion,      \* the samples gathered before the first is played
    Capacity,     \* the samples kept: a second of them
    ToneFrames    \* the frames in the tone of a reset

(* The device is faster than the guest or slower.  A second of it is so    *)
(* many frames, of two samples each.                                       *)
ASSUME AudioAssumption ==
    /\ Unit \in Nat \ {0}
    /\ {Cushion, Capacity, ToneFrames} \subseteq Nat
    /\ \A rate \in DOMAIN Step : Step[rate] \in Nat \ {0}
    /\ Capacity % 2 = 0

VARIABLES
    queue,        \* the samples to be played
    resample,     \* the position after the last frame
    priming       \* the samples to gather before playing, 0 while it plays

audioVars == <<queue, resample, priming>>

Frame(word) == << <<word, "left">>, <<word, "right">> >>

(* The samples of some frames, two of each. *)
Samples(frames) == [i \in 1 .. 2 * Len(frames) |-> Frame(frames[(i + 1) \div 2])[2 - (i % 2)]]

Resume == Cushion \div 4

(* The frames of the device that begin before so many parts of the guest's *)
(* have gone by.                                                           *)
Begun(parts, step) == IF resample >= parts THEN 0 ELSE (parts - resample + step - 1) \div step

(* The frames of the device that fall within these words of the guest, and *)
(* where they leave the resampler.  Each is named by the word it leads to. *)
Resampled(words, step) ==
    LET total == Len(words) * Unit
        count == Begun(total, step)
    IN  [frames |-> [i \in 1 .. count |-> words[(resample + (i - 1) * step) \div Unit + 1]],
         pos |-> resample + count * step - total]

(* No more than a second: the oldest are dropped. *)
Kept(samples) ==
    IF Len(samples) > Capacity THEN SubSeq(samples, Len(samples) - Capacity + 1, Len(samples))
                               ELSE samples

PushAc97(words, rate) ==
    IF words = << >> THEN UNCHANGED audioVars
    ELSE LET made == Resampled(words, Step[rate])
         IN  /\ queue' = Kept(queue \o Samples(made.frames))
             /\ resample' = made.pos
             /\ UNCHANGED priming

(* A tone is not the guest's, and does not make room for itself. *)
PushTone ==
    /\ queue' = queue \o Samples([i \in 1 .. ToneFrames |-> "tone"])
    /\ UNCHANGED <<resample, priming>>

(* The device asks for frames.  Nothing is played before there is a        *)
(* cushion; when it runs out some is gathered again.                     *)
Callback(frames) ==
    /\ UNCHANGED resample
    /\ IF priming > 0 /\ Len(queue) < priming
       THEN UNCHANGED <<queue, priming>>
       ELSE LET played == Min({frames, Len(queue) \div 2})
            IN  /\ queue' = SubSeq(queue, 2 * played + 1, Len(queue))
                /\ priming' = IF played < frames THEN Resume ELSE 0

AudioInit ==
    /\ queue = << >>
    /\ resample = 0
    /\ priming = Cushion
=============================================================================
