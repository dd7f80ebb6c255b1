---------------------------- MODULE DurableCard ----------------------------
(***************************************************************************)
(* What the card image on the host's disk promises the person typing:      *)
(* the abstract specification that CardFile implements.                    *)
(*                                                                         *)
(* The emulated card holds one value per block.  Behind it the host keeps, *)
(* for every block, the values the block may come back with if everything  *)
(* ended now.  While the emulator runs, saving moves those sets towards    *)
(* what the card holds; once it has ended they can only narrow; the next   *)
(* start takes one value of each, or none and a blank card.  A block       *)
(* therefore never comes back with another block's contents, with a value  *)
(* it never held, or with one that a later save had replaced.              *)
(***************************************************************************)
EXTENDS Naturals

CONSTANTS
    NumBlocks,   \* how many blocks the card has
    Data,        \* what a block can hold
    Blank        \* what every block of a fresh card holds

Blocks == 0 .. NumBlocks - 1

VARIABLES
    image,       \* the card as the guest sees it
    possible,    \* per block, what an abrupt ending may leave
    running      \* whether the emulator runs

vars == <<image, possible, running>>

Init ==
    /\ image = [b \in Blocks |-> Blank]
    /\ possible = [b \in Blocks |-> {Blank}]
    /\ running = TRUE

(* The guest writes a block.  Nothing is promised about it yet. *)
Write(b, v) ==
    /\ running
    /\ image' = [image EXCEPT ![b] = v]
    /\ UNCHANGED <<possible, running>>

(* Some blocks' contents reach the host, in whole or as one more outcome;  *)
(* it may be the last thing the emulator does.                             *)
Save ==
    /\ running
    /\ \A b \in Blocks : possible'[b] \subseteq possible[b] \cup {image[b]}
    /\ \A b \in Blocks : possible'[b] # {}
    /\ running' \in BOOLEAN
    /\ UNCHANGED image

(* The emulator has ended: only what was possible before still is. *)
Narrow ==
    /\ ~running
    /\ \A b \in Blocks : possible'[b] \subseteq possible[b]
    /\ \A b \in Blocks : possible'[b] # {}
    /\ UNCHANGED <<image, running>>

(* The next run reads the image back, or cannot. *)
Restart ==
    /\ ~running
    /\ \/ \A b \in Blocks : image'[b] \in possible[b]
       \/ image' = [b \in Blocks |-> Blank]
    /\ running' = TRUE
    /\ UNCHANGED possible

Next ==
    \/ \E b \in Blocks, v \in Data : Write(b, v)
    \/ Save
    \/ Narrow
    \/ Restart

Spec == Init /\ [][Next]_vars
=============================================================================
