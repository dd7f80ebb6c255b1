------------------------------ MODULE NorArray ------------------------------
(***************************************************************************)
(* What a NOR flash promises of its contents: programming clears bits of   *)
(* one word, erasing sets all of one block, and neither does anything to a *)
(* locked block, whatever the commands that led there.                     *)
(***************************************************************************)
CONSTANTS
    Cells,        \* the words
    Bits,         \* the bits of a word, a word being the set of those that are one
    BlockOf,      \* the block of each word
    Image         \* what a restart of the machine puts back

VARIABLES
    data,         \* the words
    locked        \* the blocks that are locked

Init == data = Image /\ locked = {}

Program(a, w) ==
    /\ BlockOf[a] \notin locked
    /\ data' = [data EXCEPT ![a] = @ \cap w]
    /\ UNCHANGED locked

Erase(b) ==
    /\ b \notin locked
    /\ data' = [a \in Cells |-> IF BlockOf[a] = b THEN Bits ELSE data[a]]
    /\ UNCHANGED locked

SetLock(b) == locked' \in {locked \cup {b}, locked \ {b}} /\ UNCHANGED data

PutBack == data' = Image /\ UNCHANGED locked

Next ==
    \/ \E a \in Cells, w \in SUBSET Bits : Program(a, w)
    \/ \E b \in {BlockOf[a] : a \in Cells} : Erase(b) \/ SetLock(b)
    \/ PutBack

Spec == Init /\ [][Next]_<<data, locked>>
=============================================================================
