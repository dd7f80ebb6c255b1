------------------------------ MODULE SoundLine ------------------------------
(***************************************************************************)
(* What the way from the sound driver's buffers to the ear promises: the   *)
(* words of two buffers, in turn and in order, none left out and none      *)
(* twice, are heard each for as many frames of the device as begin in its  *)
(* time; a listener too slow loses the oldest frames and nothing else; and *)
(* no more words are sent than the codec has time for.                     *)
(***************************************************************************)
EXTENDS Naturals, SequencesExt

CONSTANTS
    Wave,         \* the words of the two buffers
    Unit,         \* the time of a word,
    Stride,       \* and of a frame of the device, at the rate the driver asks for
    Slack,        \* the frames the codec may fall behind
    Elapse,       \* the frames it may ask for at once
    Length,       \* the frames of the host's own tone
    Room          \* the least number of frames kept

VARIABLES
    line,         \* the frames that wait to be heard
    due,          \* the words the codec has time for
    place,        \* the words left of the buffer being sent, and the one to follow
    phase         \* how far into the time of the next word its first frame begins

lineVars == <<line, due, place, phase>>

Beginning == [rest |-> Wave[1], next |-> 2]

Init ==
    /\ line = << >>
    /\ due = 0
    /\ place = Beginning
    /\ phase = 0

(* A word further on. *)
After(p) ==
    IF Len(p.rest) > 1 THEN [p EXCEPT !.rest = Tail(@)]
                       ELSE [rest |-> Wave[p.next], next |-> 3 - p.next]

Ahead[k \in 0 .. Slack] == IF k = 0 THEN place ELSE After(Ahead[k - 1])

(* The frames of the device that begin before the end of the k-th word. *)
Begun(k) == Min({e \in 0 .. k * Unit : k * Unit <= phase + e * Stride})

(* The frames made of the next words: each is heard from the end of the    *)
(* one before it to its own.                                               *)
Made(count) ==
    [i \in 1 .. Begun(count) |->
        Head(Ahead[CHOOSE k \in 0 .. count - 1 : Begun(k) < i /\ i <= Begun(k + 1)].rest)]

(* Of the frames waiting the oldest are lost, and only for want of room.   *)
Keep(frames) ==
    \E lost \in 0 .. Len(frames) :
        /\ line' = SubSeq(frames, lost + 1, Len(frames))
        /\ lost > 0 => Len(line') >= Room

(* The codec asks for some words, and is sent no more than it asked for. *)
Send(asked, count) ==
    LET wanted == Min({due + asked, Slack})
    IN  /\ count <= wanted
        /\ due' = wanted - count
        /\ place' = Ahead[count]
        /\ phase' = phase + Begun(count) * Stride - count * Unit
        /\ Keep(line \o Made(count))

(* The driver sets off from its first buffer.  The rest of a buffer it was *)
(* stopped in is sent before.                                              *)
SetOff ==
    /\ \/ place' = [place EXCEPT !.next = 1]
       \/ place.rest = Wave[3 - place.next] /\ place' = Beginning
    /\ UNCHANGED <<line, due, phase>>

Hear ==
    /\ \E heard \in 0 .. Len(line) : line' = SubSeq(line, heard + 1, Len(line))
    /\ UNCHANGED <<due, place, phase>>

(* The host's own tones do not make room for themselves. *)
Tone ==
    /\ line' = line \o [i \in 1 .. Length |-> "tone"]
    /\ UNCHANGED <<due, place, phase>>

Next == (\E asked \in Elapse, count \in 0 .. Slack : Send(asked, count)) \/ SetOff \/ Hear \/ Tone

Spec == Init /\ [][Next]_lineVars
=============================================================================
