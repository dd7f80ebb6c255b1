------------------------------ MODULE MCFiles ------------------------------
(* Three files of two entries each, on a drive of a few clusters, on one   *)
(* formatted elsewhere, and on one that has been used.                     *)
EXTENDS UsbSync

A == << "a" >>
B == << "b" >>
C == << "c" >>
ShortNames == {A, B, C}
SomeContents == {<< "x" >>, << "x", "y" >>}
SomeFolders == {[n \in N |-> << "x" >>] : N \in {{}, {A}, ShortNames}}

Long(part) == [kind |-> "long", dead |-> FALSE, part |-> part]
Short(first, clusters, number) ==
    [kind |-> "short", dead |-> FALSE, cluster |-> first, size |-> clusters, alias |-> number]

(* The root was given a second cluster for the second file, which is since *)
(* in the place of the first.  The third has the last slot of the one and  *)
(* the first of the other, which comes after data of the second.           *)
Used ==
    [fat |-> [c \in Clusters |-> CASE c = 2 -> 5 [] c = 3 -> 4 [] OTHER -> EndOfChain],
     disk |-> [c \in Clusters |->
         CASE c = 2 -> << Label, Long("b"), Short(3, 2, 1), Long("c") >>
           [] c = 5 -> << Short(6, 1, 2), [Short(4, 1, 2) EXCEPT !.dead = TRUE], Zero, Zero >>
           [] c = 4 -> DataBlock("y")
           [] OTHER -> DataBlock("x")]]

SomeVolumes == {[volume |-> Formatted, events |-> 2], [volume |-> Unlabelled, events |-> 2],
                [volume |-> Used, events |-> 2]}
AllSizes == 1 .. 32800
=============================================================================
